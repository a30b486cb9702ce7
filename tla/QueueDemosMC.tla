---------------------------- MODULE QueueDemosMC ----------------------------
(***************************************************************************)
(* The six demos, each on a queue of capacity 2, for TLC.                  *)
(***************************************************************************)
EXTENDS QueueDemos

ASSUME DemoThreadsAssumption == DemoThreads

\* The scripts decide who calls what.
AllCalls == [t \in Threads |-> Methods]
ThreeValues == 1 .. Capacity + 1

=============================================================================
