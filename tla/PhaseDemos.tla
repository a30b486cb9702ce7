----------------------------- MODULE PhaseDemos -----------------------------
(***************************************************************************)
(* latch_barrier_phase_sync.cpp: workers that meet at a latch or, phase    *)
(* after phase, at a barrier.  The phases are counted by the lines that    *)
(* the workers print in them.                                              *)
(***************************************************************************)
EXTENDS StdSync

\* A line of output under the mutex that every demo of this file has for it.
Say(line) == Locked("outputMutex", <<Note(line)>>)

\* Main waits at the latch for the workers, not for their threads.
LatchCompletionDemo ==
    LET workers == {A, B, C}
        worker == Say("started") \o Say("finished") \o <<CountDown("done")>>
    IN  Demo([done |-> 3, outputMutex |-> {}, started |-> Silent,
              finished |-> Silent, allReached |-> Silent],
             <<Start([w \in workers |-> worker]), Await("done"),
               Note("allReached"), Join(workers)>>,
             [done : {0}],
             Nothing,
             {After("allReached", "finished", workers)})

\* arrive_and_wait counts down and waits.
LatchStartLineDemo ==
    LET workers == {A, B, C, D}
        worker == Say("preparing") \o Say("reached")
                  \o <<CountDown("startLine"), Await("startLine")>> \o Say("together")
    IN  Demo([startLine |-> 4, outputMutex |-> {}, preparing |-> Silent,
              reached |-> Silent, together |-> Silent],
             <<Start([w \in workers |-> worker]), Join(workers)>>,
             [together : {workers}],
             Nothing,
             {After("together", "reached", workers)})

\* The last worker of a phase runs the completion step, under the mutex.
BarrierPhaseDemo ==
    LET workers == {A, B, C}
        completion == Locked("outputMutex", <<Add("completedPhase", 1)>>)
        phase(working, arrived) ==
            Say(working) \o Say(arrived) \o <<ArriveAndWait("phaseBarrier", completion)>>
        worker == phase("working0", "arrived0") \o phase("working1", "arrived1")
                  \o phase("working2", "arrived2")
    IN  Demo([phaseBarrier |-> Barrier(3), outputMutex |-> {}, completedPhase |-> 0,
              working0 |-> Silent, working1 |-> Silent, working2 |-> Silent,
              arrived0 |-> Silent, arrived1 |-> Silent, arrived2 |-> Silent],
             <<Start([w \in workers |-> worker]), Join(workers)>>,
             [completedPhase : {3}],
             Nothing,
             {After("working1", "arrived0", workers), After("working2", "arrived1", workers)})

\* Three take part in phase 0, two in the phases after it.
ArriveAndDropDemo ==
    LET phase(line) == Say(line) \o <<ArriveAndWait("phaseBarrier", <<>>)>>
        worker == phase("phase0") \o phase("phase1") \o phase("phase2")
        temporaryWorker == Say("participates")
                           \o <<ArriveAndDrop("phaseBarrier", <<>>), Note("left")>>
    IN  Demo([phaseBarrier |-> Barrier(3), outputMutex |-> {}, phase0 |-> Silent,
              phase1 |-> Silent, phase2 |-> Silent, participates |-> Silent, left |-> Silent],
             <<Start(A :> worker @@ B :> worker @@ C :> temporaryWorker), Join({A, B, C})>>,
             [phaseBarrier : {[expected |-> 2, pending |-> 2, phase |-> 3]}],
             Nothing,
             {After("phase1", "phase0", {A, B}), After("phase1", "participates", {C}),
              After("phase2", "phase1", {A, B})})

\* The results are separate variables; main reads them before any join.
LatchMemoryVisibilityDemo ==
    LET worker(result, id) == <<Write(result, id * id), CountDown("done")>>
    IN  Demo([done |-> 4, r0 |-> 0, r1 |-> 0, r2 |-> 0, r3 |-> 0],
             <<Start(A :> worker("r0", 0) @@ B :> worker("r1", 1) @@
                     C :> worker("r2", 2) @@ D :> worker("r3", 3)),
               Await("done"), Read("r0"), Read("r1"), Read("r2"), Read("r3"),
               Join({A, B, C, D})>>,
             [r0 : {0}, r1 : {1}, r2 : {4}, r3 : {9}],
             Nothing,
             {})

PhaseProgram ==
    <<LatchCompletionDemo, LatchStartLineDemo, BarrierPhaseDemo, ArriveAndDropDemo,
     LatchMemoryVisibilityDemo>>

=============================================================================
