---------------------- MODULE CancellableQueueWorkerMC ----------------------
(***************************************************************************)
(* cancellableQueueDemo with two tasks, the same with a second client that *)
(* submits while main stops the worker, a second client that stops it      *)
(* while main submits, and two clients that submit to a worker that nobody *)
(* stops, for TLC.                                                         *)
(***************************************************************************)
EXTENDS CancellableQueueWorker, TLC

CONSTANTS main, other, k1, k2, k3

Submits(k)   == [op |-> "submit", task |-> k]
StopsIt      == [op |-> "requestStop", task |-> NoTask]
LeavesScope  == [op |-> "destroy", task |-> NoTask]

Client(mine, theirs) == (main :> mine) @@ (other :> theirs)

DemoScripts ==
    {Client(<<Submits(k1), Submits(k2), StopsIt, LeavesScope>>, <<>>),
     Client(<<Submits(k1), StopsIt, LeavesScope>>, <<Submits(k2), Submits(k3)>>),
     Client(<<Submits(k1), Submits(k2), LeavesScope>>, <<StopsIt, Submits(k3)>>),
     Client(<<Submits(k1), Submits(k2)>>, <<Submits(k3)>>)}

=============================================================================
