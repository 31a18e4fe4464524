-------------------------------- MODULE MCGate --------------------------------
(* A small instance of Gate.  Payloads of no byte and of as many as need the
   high byte of the length; reads that take all or a part of what is there; two
   replies that differ, so that their order shows. *)
EXTENDS Gate

MCScript == [i \in Conns |-> <<<<1, 0>>, <<>>>>]
MCReplies == {<<0>>, <<1>>}

=============================================================================
