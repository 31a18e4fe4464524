------------------------------ MODULE MCMessaging ------------------------------
(* A small instance of Messaging.  One list of arguments holds a value of every
   kind and of every width of the encoding; the other cannot be packed. *)
EXTENDS Messaging, Seri

Pair(k, v) == <<k, v>>

\* {1, nil, 3, x = {...}} with each border that lua_rawlen may return for it.
Holed(border) ==
  Table({Pair(Num(1), Bool(FALSE)), Pair(Num(3), Str(<<1>>)),
         Pair(Str(<<1, 0, 1>>), Table({Pair(Bool(TRUE), Float(5))}, 0))}, border)

MCValues ==
  << Nil, Bool(TRUE), Num(0), Num(1), Num(2), Num(4), Num(7), Num(8), Num(-1), Num(-8), Num(-9),
     Float(3), Pointer(2), Str(<<>>), Str(<<0, 1>>), Str(<<1, 0, 1>>), Str(<<1, 1, 0, 1>>),
     Table({}, 0), Holed(1), Holed(3),
     Table({Pair(Num(1), Num(-1)), Pair(Num(2), Table({Pair(Num(1), Pointer(1))}, 1)), Pair(Num(-1), Num(1))}, 2) >>

\* The lists, by number, and what packing and unpacking makes of them.
Lists == <<MCValues, <<Num(1), Func>>>>

MCArguments == DOMAIN Lists
MCPacks(i) == ~PackFails(Lists[i])
MCReturns(i) ==
  luaseri_unpack(luaseri_pack(Lists[i])) = [k \in DOMAIN Lists[i] |-> Plain(Lists[i][k])]

=============================================================================
