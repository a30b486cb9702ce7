------------------------- MODULE DemoLockFreeStackMC -------------------------
(***************************************************************************)
(* Three threads on one stack, for TLC.  One pushes, pops and pushes, so   *)
(* that the head another thread has read can come and go while a second    *)
(* thread pushes and a third pops.  The other program is that of           *)
(* lockFreeStackDemo up to the joins, with five pushes for ten: the last   *)
(* two find room in the vector, which has grown to one, two and four.      *)
(***************************************************************************)
EXTENDS DemoLockFreeStack, TLC

CONSTANTS producer1, producer2, consumer

MCProgram == (producer1 :> <<"push", "push", "pop", "pop", "push">>)
             @@ (producer2 :> <<"push">>) @@ (consumer :> <<"pop", "pop">>)
DemoProgram == (producer1 :> <<"push", "push", "push">>) @@ (producer2 :> <<"push", "push">>)
               @@ (consumer :> <<>>)

=============================================================================
