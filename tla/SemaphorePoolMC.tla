-------------------------- MODULE SemaphorePoolMC --------------------------
(***************************************************************************)
(* The demos of semaphore_worker_thread_pool.cpp, and a second client that *)
(* submits and stops while main does, on three workers with two slots.     *)
(***************************************************************************)
EXTENDS SemaphorePool, TLC

CONSTANTS main, other, r1, r2, r3, plain

Client(mine, theirs) == (main :> mine) @@ (other :> theirs)

\* threadPoolDemo and workerPlusResourceLimitDemo, with the stop() of the
\* destructor at the end; two clients that race for the pool.
DemoScripts ==
    {Client(<<r1, r2, r3, Stop, Stop>>, <<>>),
     Client(<<r1, plain, Stop, Stop>>, <<>>),
     Client(<<r1, Stop, Stop>>, <<r2, Stop, plain>>)}

=============================================================================
