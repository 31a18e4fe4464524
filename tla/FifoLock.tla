------------------------------ MODULE FifoLock ------------------------------
(***************************************************************************)
(* What the critical section of lualib/skynet/queue.lua promises: at most  *)
(* one coroutine is inside, the others enter in the order in which they    *)
(* came, and nobody enters while somebody is in line.                      *)
(***************************************************************************)
EXTENDS Sequences

CONSTANTS Thread, Nobody

VARIABLES
    inside,     \* the thread in the critical section, or Nobody
    line        \* the threads that came and are not inside yet

Init == inside = Nobody /\ line = <<>>

\* A thread finds the section free and nobody in line.
Pass(t) ==
    /\ inside = Nobody /\ line = <<>>
    /\ inside' = t
    /\ UNCHANGED line

\* A thread has to wait.
Arrive(t) ==
    /\ inside # t
    /\ inside # Nobody \/ line # <<>>
    /\ line' = Append(line, t)
    /\ UNCHANGED inside

\* The first in line enters.
Admit ==
    /\ inside = Nobody /\ line # <<>>
    /\ inside' = Head(line)
    /\ line' = Tail(line)

Exit ==
    /\ inside # Nobody
    /\ inside' = Nobody
    /\ UNCHANGED line

Next == (\E t \in Thread : Pass(t) \/ Arrive(t)) \/ Admit \/ Exit

Spec == Init /\ [][Next]_<<inside, line>>
=============================================================================
