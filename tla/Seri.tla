--------------------------------- MODULE Seri ---------------------------------
(***************************************************************************)
(* The encoding of Lua values of src/lua_seri.cpp: luaseri_pack and        *)
(* luaseri_unpack, of whole packs (what a read does at the end of a        *)
(* truncated one is left out).                                             *)
(*                                                                         *)
(* A packed value is a sequence of bytes.  A header is t + 8 * cookie, as  *)
(* in the code; a byte of a number is a digit of base Base, least          *)
(* significant first, so that small numbers reach every width: Base is 256 *)
(* in the code.  A double and a pointer are one opaque element instead of  *)
(* eight bytes.                                                            *)
(*                                                                         *)
(* A Lua value is a record with one field that says what it is.  A table   *)
(* is a set of <<key, value>> pairs with the border that lua_rawlen        *)
(* returns for it, which a table with holes leaves open: any n >= 0 with   *)
(* t[n] present (or n = 0) and t[n+1] absent.                              *)
(***************************************************************************)
EXTENDS Integers, Sequences, FiniteSets, SequencesExt

CONSTANTS
  Base,          \* 256 in the code
  MAX_COOKIE,    \* 32 in the code
  MAX_DEPTH      \* 32 in the code

ASSUME SeriAssumption ==
  Base \in Nat \ {0, 1} /\ MAX_COOKIE \in Nat \ {0, 1} /\ MAX_DEPTH \in Nat

TYPE_NIL == 0
TYPE_BOOLEAN == 1
TYPE_NUMBER == 2
TYPE_USERDATA == 3
TYPE_SHORT_STRING == 4
TYPE_LONG_STRING == 5
TYPE_TABLE == 6

TYPE_NUMBER_ZERO == 0
TYPE_NUMBER_BYTE == 1
TYPE_NUMBER_WORD == 2
TYPE_NUMBER_DWORD == 4
TYPE_NUMBER_QWORD == 6
TYPE_NUMBER_DOUBLE == 8

COMBINE_TYPE(t, v) == t + 8 * v

Nil == [nil |-> TRUE]
Bool(b) == [bool |-> b]
Num(n) == [int |-> n]
Float(f) == [float |-> f]
Pointer(p) == [ptr |-> p]
Str(s) == [str |-> s]
Func == [func |-> TRUE]
Table(pairs, border) == [tab |-> pairs, border |-> border]

Is(v, field) == field \in DOMAIN v

\* What the receiver can see of a value: a table without its border.
RECURSIVE Plain(_)
Plain(v) ==
  IF Is(v, "tab") THEN [tab |-> {<<Plain(p[1]), Plain(p[2])>> : p \in v.tab}] ELSE v

-------------------------------------------------------------------------------
(* Packing.                                                                *)

\* The two's complement of x in n bytes.
Digits(x, n) == [k \in 1 .. n |-> (x \div Base ^ (k - 1)) % Base]

\* v fits an int32_t.
FitsDword(v) == v >= -(Base ^ 4 \div 2) /\ v < Base ^ 4 \div 2

wb_nil == <<COMBINE_TYPE(TYPE_NIL, 0)>>

Number(cookie, bytes) == <<COMBINE_TYPE(TYPE_NUMBER, cookie)>> \o bytes

\* Mutant: a negative number is written in as few bytes as its magnitude needs.
wb_integerUnsigned(v) ==
  CASE v = 0 -> Number(TYPE_NUMBER_ZERO, <<>>)
    [] ~FitsDword(v) -> Number(TYPE_NUMBER_QWORD, Digits(v, 8))
    [] FitsDword(v) /\ v # 0 /\ v < Base -> Number(TYPE_NUMBER_BYTE, Digits(v, 1))
    [] FitsDword(v) /\ v >= Base -> Number(TYPE_NUMBER_DWORD, Digits(v, 4))

wb_integer(v) ==
  CASE v = 0 -> Number(TYPE_NUMBER_ZERO, <<>>)
    [] ~FitsDword(v) -> Number(TYPE_NUMBER_QWORD, Digits(v, 8))
    [] v < 0 /\ FitsDword(v) -> Number(TYPE_NUMBER_DWORD, Digits(v, 4))
    [] 0 < v /\ v < Base -> Number(TYPE_NUMBER_BYTE, Digits(v, 1))
    [] Base <= v /\ v < Base ^ 2 -> Number(TYPE_NUMBER_WORD, Digits(v, 2))
    [] Base ^ 2 <= v /\ FitsDword(v) -> Number(TYPE_NUMBER_DWORD, Digits(v, 4))

wb_string(s) ==
  CASE Len(s) < MAX_COOKIE -> <<COMBINE_TYPE(TYPE_SHORT_STRING, Len(s))>> \o s
    [] MAX_COOKIE <= Len(s) /\ Len(s) < Base ^ 2 ->
         <<COMBINE_TYPE(TYPE_LONG_STRING, 2)>> \o Digits(Len(s), 2) \o s
    [] OTHER -> <<COMBINE_TYPE(TYPE_LONG_STRING, 4)>> \o Digits(Len(s), 4) \o s

ArrayHeader(n) ==
  IF n >= MAX_COOKIE - 1
  THEN <<COMBINE_TYPE(TYPE_TABLE, MAX_COOKIE - 1)>> \o wb_integer(n)
  ELSE <<COMBINE_TYPE(TYPE_TABLE, n)>>

\* The value of key k, Nil when there is none.
At(pairs, k) ==
  IF \E p \in pairs : p[1] = k THEN (CHOOSE p \in pairs : p[1] = k)[2] ELSE Nil

\* The pairs of wb_table_hash: those that the array part does not hold.
HashPart(v) == {p \in v.tab : ~(Is(p[1], "int") /\ p[1].int \in 1 .. v.border)}

\* pack_one with wb_table, wb_table_array and wb_table_hash, in some order of lua_next.
RECURSIVE pack_one(_)
pack_one(v) ==
  CASE Is(v, "nil") -> wb_nil
    [] Is(v, "bool") -> <<COMBINE_TYPE(TYPE_BOOLEAN, IF v.bool THEN 1 ELSE 0)>>
    [] Is(v, "int") -> wb_integer(v.int)
    [] Is(v, "float") -> Number(TYPE_NUMBER_DOUBLE, <<v.float>>)
    [] Is(v, "ptr") -> <<COMBINE_TYPE(TYPE_USERDATA, 0), v.ptr>>
    [] Is(v, "str") -> wb_string(v.str)
    [] Is(v, "tab") ->
         LET array == [i \in 1 .. v.border |-> pack_one(At(v.tab, Num(i)))]
             hash  == {pack_one(p[1]) \o pack_one(p[2]) : p \in HashPart(v)}
         IN ArrayHeader(v.border) \o FlattenSeq(array) \o FlattenSeq(SetToSeq(hash)) \o wb_nil

\* pack_one reaches its luaL_error: a function, or a table at MAX_DEPTH.
RECURSIVE Fails(_, _)
Fails(v, depth) ==
  \/ Is(v, "func")
  \/ /\ Is(v, "tab")
     /\ \/ depth + 1 >= MAX_DEPTH
        \/ \E p \in v.tab : Fails(p[1], depth + 1) \/ Fails(p[2], depth + 1)

\* luaseri_pack of the arguments raises an error.
PackFails(args) == \E k \in 1 .. Len(args) : Fails(args[k], 0)

luaseri_pack(args) == FlattenSeq([k \in 1 .. Len(args) |-> pack_one(args[k])])

-------------------------------------------------------------------------------
(* Unpacking: an operator takes the bytes and how many were read, and      *)
(* returns a value and how many are read then.                             *)

Type(b, at) == b[at + 1] % 8
Cookie(b, at) == b[at + 1] \div 8

\* The number in n bytes from at: unsigned, and as two's complement.
Unsigned(b, at, n) ==
  FoldLeft(LAMBDA x, k : x + b[at + k] * Base ^ (k - 1), 0, [k \in 1 .. n |-> k])
Signed(b, at, n) ==
  LET u == Unsigned(b, at, n) IN IF u >= Base ^ n \div 2 THEN u - Base ^ n ELSE u

\* How many bytes a number of this cookie has.
Width(cookie) ==
  CASE cookie = TYPE_NUMBER_BYTE -> 1
    [] cookie = TYPE_NUMBER_WORD -> 2
    [] cookie = TYPE_NUMBER_DWORD -> 4
    [] cookie = TYPE_NUMBER_QWORD -> 8
    [] OTHER -> 0

rb_integer(b, at, cookie) ==
  <<IF cookie \in {TYPE_NUMBER_DWORD, TYPE_NUMBER_QWORD}
    THEN Signed(b, at, Width(cookie)) ELSE Unsigned(b, at, Width(cookie)),
    at + Width(cookie)>>

ReadString(b, at, n) == <<Str(SubSeq(b, at + 1, at + n)), at + n>>

\* The array size that follows a table's header.
ArraySize(b, at) ==
  IF Cookie(b, at) = MAX_COOKIE - 1 THEN rb_integer(b, at + 2, Cookie(b, at + 1))
  ELSE <<Cookie(b, at), at + 1>>

\* lua_rawseti and lua_rawset: a nil value stores nothing.
Store(pairs, k, v) ==
  {p \in pairs : p[1] # k} \cup (IF v = Nil THEN {} ELSE {<<k, v>>})

\* unpack_one, and rb_table's two loops: element i of an array of n, then pairs
\* until the nil that ends them.
RECURSIVE unpack_one(_, _), ReadArray(_, _, _, _, _), ReadHash(_, _, _)
unpack_one(b, at) ==
  LET t == Type(b, at)
      cookie == Cookie(b, at)
  IN CASE t = TYPE_NIL -> <<Nil, at + 1>>
       [] t = TYPE_BOOLEAN -> <<Bool(cookie # 0), at + 1>>
       [] t = TYPE_NUMBER /\ cookie = TYPE_NUMBER_DOUBLE -> <<Float(b[at + 2]), at + 2>>
       [] t = TYPE_NUMBER /\ cookie # TYPE_NUMBER_DOUBLE ->
            LET r == rb_integer(b, at + 1, cookie) IN <<Num(r[1]), r[2]>>
       [] t = TYPE_USERDATA -> <<Pointer(b[at + 2]), at + 2>>
       [] t = TYPE_SHORT_STRING -> ReadString(b, at + 1, cookie)
       [] t = TYPE_LONG_STRING ->
            LET n == IF cookie = 2 THEN 2 ELSE 4
            IN ReadString(b, at + 1 + n, Unsigned(b, at + 1, n))
       [] t = TYPE_TABLE ->
            LET size == ArraySize(b, at)
                array == ReadArray(b, size[2], 1, size[1], {})
            IN ReadHash(b, array[2], array[1])
ReadArray(b, at, i, n, pairs) ==
  IF i > n THEN <<pairs, at>>
  ELSE LET r == unpack_one(b, at)
       IN ReadArray(b, r[2], i + 1, n, Store(pairs, Num(i), r[1]))
ReadHash(b, at, pairs) ==
  IF Type(b, at) = TYPE_NIL THEN <<[tab |-> pairs], at + 1>>
  ELSE LET k == unpack_one(b, at)
           v == unpack_one(b, k[2])
       IN ReadHash(b, v[2], Store(pairs, k[1], v[1]))

RECURSIVE UnpackFrom(_, _)
UnpackFrom(b, at) ==
  IF at >= Len(b) THEN <<>>
  ELSE LET r == unpack_one(b, at) IN <<r[1]>> \o UnpackFrom(b, r[2])

luaseri_unpack(b) == UnpackFrom(b, 0)

=============================================================================
