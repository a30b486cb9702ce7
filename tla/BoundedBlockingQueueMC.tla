----------------------- MODULE BoundedBlockingQueueMC -----------------------
(***************************************************************************)
(* An instance of the bounded blocking queue for TLC.  Any thread may call *)
(* any of its methods again and again; the calls are shared out so that    *)
(* the interesting cases occur with few threads: two waiting pushers, one  *)
(* of them with a deadline that can race a notification; a third thread    *)
(* that barges in with tryPush; two waiting poppers; two calls of close.   *)
(***************************************************************************)
EXTENDS BoundedBlockingQueue, TLC

CONSTANTS p1, p2, c1, k1

MCThreads == {p1, p2, c1, k1}
MCCalls == (p1 :> {"push", "close"}) @@ (p2 :> {"pushFor"}) 
           @@ (c1 :> {"pop"}) @@ (k1 :> {"close", "pop", "tryPush"})

=============================================================================
