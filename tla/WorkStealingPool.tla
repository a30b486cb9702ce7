-------------------------- MODULE WorkStealingPool --------------------------
(***************************************************************************)
(* WorkStealingPool of code_traps/work_stealing_scheduler.cpp: each worker *)
(* has a deque of its own, clients share a global queue, and two atomics,  *)
(* stopping_ and outstandingTasks_, decide when workers sleep and exit.    *)
(*                                                                         *)
(* No mutex covers the atomics and the queues together: a submission is    *)
(* four steps (check, count, insert, notify) and a worker's search, exit   *)
(* test and wait are steps too, all interleaved.  Each queue operation is  *)
(* one critical section of that queue's mutex and so one step.  Atomics    *)
(* are read and written in one order by all threads here: every load is an *)
(* acquire and every store a release, and no property relates two loads    *)
(* of different atomics that the code does not order.                      *)
(***************************************************************************)
EXTENDS Integers, Sequences, FiniteSets, SequencesExt

CONSTANTS Workers,     (* the pool's threads                                 *)
          Clients,     (* threads outside the pool                           *)
          Closers,     (* the clients that call shutdown() in the end        *)
          Tasks, NoTask,
          Program,     (* Program[c]: what client c submits, in order        *)
          Children,    (* Children[k]: what task k submits while it runs     *)
          LateSubmits  (* may a client still submit while another shuts down *)

Threads == Workers \cup Clients

\* The constructor throws for zero workers.
ASSUME PoolAssumption ==
    /\ Workers # {} /\ IsFiniteSet(Workers)
    /\ Workers \cap Clients = {}
    /\ Closers \subseteq Clients
    /\ NoTask \notin Tasks
    /\ Program \in [Clients -> Seq(Tasks)]
    /\ Children \in [Tasks -> Seq(Tasks)]
    /\ LateSubmits \in BOOLEAN

\* Each call of submit() hands over a std::function of its own, so a task is
\* submitted at one place of one program or one body.
ASSUME SubmissionsAreDistinct ==
    /\ \A c \in Clients : IsInjective(Program[c])
    /\ \A k \in Tasks : IsInjective(Children[k])
    /\ \A c, d \in Clients : c # d => ToSet(Program[c]) \cap ToSet(Program[d]) = {}
    /\ \A k, l \in Tasks : k # l => ToSet(Children[k]) \cap ToSet(Children[l]) = {}
    /\ \A c \in Clients, k \in Tasks : ToSet(Program[c]) \cap ToSet(Children[k]) = {}

VARIABLES globalQueue,  (* globalQueue_                                      *)
          local,        (* localQueues_, front first                         *)
          stopping,     (* stopping_                                         *)
          outstanding,  (* outstandingTasks_                                 *)
          pc,           (* where each worker is in workerLoop                *)
          task,         (* the task each worker runs                         *)
          todo,         (* what each thread has still to submit              *)
          submit,       (* where each thread is in submit()                  *)
          cpc,          (* where each client is after its submissions        *)
          refused,      (* the tasks submit() returned false for             *)
          done          (* the tasks that have ended                         *)

queues == <<globalQueue, local>>
atomics == <<stopping, outstanding>>
workers == <<pc, task>>
record == <<refused, done>>
vars == <<queues, atomics, workers, todo, submit, cpc, record>>

Init == /\ globalQueue = <<>>
        /\ local = [w \in Workers |-> <<>>]
        /\ stopping = FALSE
        /\ outstanding = 0
        /\ pc = [w \in Workers |-> "popLocal"]
        /\ task = [w \in Workers |-> NoTask]
        /\ todo = [t \in Threads |-> IF t \in Clients THEN Program[t] ELSE <<>>]
        /\ submit = [t \in Threads |-> "idle"]
        /\ cpc = [c \in Clients |-> "submitting"]
        /\ refused = {}
        /\ done = {}

-----------------------------------------------------------------------------
(* submit(), by a client or by a task that a worker runs *)

Submitting(t) == todo[t] # <<>> /\ (t \in Workers => pc[t] = "run")

\* The test of stopping_; nothing keeps its answer true afterwards.
SubmitCheck(t) ==
    /\ submit[t] = "idle" /\ Submitting(t)
    /\ \/ /\ stopping
          /\ refused' = refused \cup {Head(todo[t])}
          /\ todo' = [todo EXCEPT ![t] = Tail(@)]
          /\ UNCHANGED <<submit, done>>
       \/ /\ ~stopping
          /\ submit' = [submit EXCEPT ![t] = "checked"]
          /\ UNCHANGED <<todo, record>>
    /\ UNCHANGED <<queues, atomics, workers, cpc>>

\* Mutation of SubmitCount: the task is not counted.
SubmitUncounted(t) ==
    /\ submit[t] = "checked"
    /\ submit' = [submit EXCEPT ![t] = "counted"]
    /\ UNCHANGED <<queues, atomics, workers, todo, cpc, record>>

SubmitCount(t) ==
    /\ submit[t] = "checked"
    /\ outstanding' = outstanding + 1
    /\ submit' = [submit EXCEPT ![t] = "counted"]
    /\ UNCHANGED <<queues, stopping, workers, todo, cpc, record>>

\* A worker pushes at the front of its own deque, a client into the global
\* queue.
Insert(t, k) ==
    \/ /\ t \in Workers
       /\ local' = [local EXCEPT ![t] = <<k>> \o @]
       /\ UNCHANGED globalQueue
    \/ /\ t \in Clients
       /\ globalQueue' = Append(globalQueue, k)
       /\ UNCHANGED local

SubmitInsert(t) ==
    /\ submit[t] = "counted"
    /\ Insert(t, Head(todo[t]))
    /\ todo' = [todo EXCEPT ![t] = Tail(@)]
    /\ submit' = [submit EXCEPT ![t] = "inserted"]
    /\ UNCHANGED <<atomics, workers, cpc, record>>

Asleep == {w \in Workers : pc[w] = "asleep"}

\* notify_one without waitMutex_: a worker that is about to sleep misses it.
SubmitNotify(t) ==
    /\ submit[t] = "inserted"
    /\ submit' = [submit EXCEPT ![t] = "idle"]
    /\ \/ Asleep = {} /\ UNCHANGED pc
       \/ \E w \in Asleep : pc' = [pc EXCEPT ![w] = "predicate"]
    /\ UNCHANGED <<queues, atomics, task, todo, cpc, record>>

Submit(t) == SubmitCheck(t) \/ SubmitCount(t) \/ SubmitInsert(t) \/ SubmitNotify(t)

-----------------------------------------------------------------------------
(* findTask() *)

RunNow(w, k) ==
    /\ pc' = [pc EXCEPT ![w] = "run"]
    /\ task' = [task EXCEPT ![w] = k]
    /\ todo' = [todo EXCEPT ![w] = Children[k]]
    /\ UNCHANGED <<atomics, submit, cpc, record>>

Goto(w, location) ==
    /\ pc' = [pc EXCEPT ![w] = location]
    /\ UNCHANGED <<queues, atomics, task, todo, submit, cpc, record>>

\* The owner pops at the front.
PopLocal(w) ==
    /\ pc[w] = "popLocal"
    /\ \/ /\ local[w] # <<>>
          /\ local' = [local EXCEPT ![w] = Tail(@)]
          /\ RunNow(w, Head(local[w]))
          /\ UNCHANGED globalQueue
       \/ local[w] = <<>> /\ Goto(w, "popGlobal")

PopGlobal(w) ==
    /\ pc[w] = "popGlobal"
    /\ \/ /\ globalQueue # <<>>
          /\ globalQueue' = Tail(globalQueue)
          /\ RunNow(w, Head(globalQueue))
          /\ UNCHANGED local
       \/ globalQueue = <<>> /\ Goto(w, "steal")

\* Mutation of StealTask: the thief reads the back and does not remove it.
StealCopy(w) ==
    /\ pc[w] = "steal"
    /\ \/ \E victim \in Workers \ {w} :
             /\ local[victim] # <<>>
             /\ RunNow(w, Last(local[victim]))
             /\ UNCHANGED queues
       \/ Goto(w, "exitTest")

\* A thief takes from the back of another worker's deque.  Its random picks
\* may all miss, and its try_lock may fail, whatever the deques hold.
StealTask(w) ==
    /\ pc[w] = "steal"
    /\ \/ \E victim \in Workers \ {w} :
             /\ local[victim] # <<>>
             /\ local' = [local EXCEPT ![victim] = Front(@)]
             /\ RunNow(w, Last(local[victim]))
             /\ UNCHANGED globalQueue
       \/ Goto(w, "exitTest")

-----------------------------------------------------------------------------
(* workerLoop(), runTask() *)

\* Mutation of EndTask: without the guard a task that throws is not counted.
EndTaskUnguarded(w) ==
    /\ pc[w] = "run" /\ submit[w] = "idle"
    /\ outstanding' = IF todo[w] = <<>> THEN outstanding - 1 ELSE outstanding
    /\ done' = done \cup {task[w]}
    /\ pc' = [pc EXCEPT ![w] = "popLocal"]
    /\ task' = [task EXCEPT ![w] = NoTask]
    /\ todo' = [todo EXCEPT ![w] = <<>>]
    /\ UNCHANGED <<queues, stopping, submit, cpc, refused>>

\* A task ends when it has submitted its children, or earlier by throwing;
\* the completion guard counts it down in both cases.
EndTask(w) ==
    /\ pc[w] = "run" /\ submit[w] = "idle"
    /\ outstanding' = outstanding - 1
    /\ done' = done \cup {task[w]}
    /\ pc' = [pc EXCEPT ![w] = "popLocal"]
    /\ task' = [task EXCEPT ![w] = NoTask]
    /\ todo' = [todo EXCEPT ![w] = <<>>]
    /\ UNCHANGED <<queues, stopping, submit, cpc, refused>>

\* stopping_ is never reset, so the test counts from its second load on.
ExitTest(w) ==
    /\ pc[w] = "exitTest"
    /\ Goto(w, IF stopping /\ outstanding = 0 THEN "exited" ELSE "predicate")

\* The predicate of wait_for reads atomics that change without waitMutex_:
\* between its answer and the sleep the world may change.
WaitPredicate(w) ==
    /\ pc[w] = "predicate"
    /\ Goto(w, IF stopping \/ outstanding > 0 THEN "popLocal" ELSE "parking")

Park(w) == pc[w] = "parking" /\ Goto(w, "asleep")

\* Mutation of WaitTimeout: wait instead of wait_for.
WaitForever(w) == pc[w] = "asleep" /\ FALSE

\* After 2 ms wait_for returns, whatever the predicate says.
WaitTimeout(w) == pc[w] = "asleep" /\ Goto(w, "popLocal")

SpuriousWakeup(w) == pc[w] = "asleep" /\ Goto(w, "predicate")

Work(w) == \/ PopLocal(w) \/ PopGlobal(w) \/ StealTask(w) \/ EndTask(w)
           \/ ExitTest(w) \/ WaitPredicate(w) \/ Park(w)

-----------------------------------------------------------------------------
(* waitUntilIdle(), shutdown() *)

Advance(c, from, to) ==
    /\ cpc[c] = from
    /\ cpc' = [cpc EXCEPT ![c] = to]

Quiet(c) == todo[c] = <<>> /\ submit[c] = "idle"

\* Mutation of WaitUntilIdle: it looks at the queues instead of the counter.
WaitUntilEmpty(c) ==
    /\ Quiet(c) /\ globalQueue = <<>> /\ \A w \in Workers : local[w] = <<>>
    /\ Advance(c, "submitting", "idle")
    /\ UNCHANGED <<queues, atomics, workers, todo, submit, record>>

\* A client that has submitted everything polls the counter until it is zero.
WaitUntilIdle(c) ==
    /\ Quiet(c) /\ outstanding = 0
    /\ Advance(c, "submitting", "idle")
    /\ UNCHANGED <<queues, atomics, workers, todo, submit, record>>

\* Only one caller's compare-exchange succeeds; the others return at once.
Shutdown(c) ==
    /\ c \in Closers /\ Quiet(c)
    /\ LateSubmits \/ \A d \in Clients : Quiet(d)
    /\ \E from \in {"submitting", "idle"} :
          Advance(c, from, IF stopping THEN "returned" ELSE "notifyAll")
    /\ stopping' = TRUE
    /\ UNCHANGED <<queues, outstanding, workers, todo, submit, record>>

ShutdownNotify(c) ==
    /\ Advance(c, "notifyAll", "joining")
    /\ pc' = [w \in Workers |-> IF w \in Asleep THEN "predicate" ELSE pc[w]]
    /\ UNCHANGED <<queues, atomics, task, todo, submit, record>>

Exited == \A w \in Workers : pc[w] = "exited"

Join(c) ==
    /\ Exited
    /\ Advance(c, "joining", "returned")
    /\ UNCHANGED <<queues, atomics, workers, todo, submit, record>>

Close(c) == Shutdown(c) \/ ShutdownNotify(c) \/ Join(c)

-----------------------------------------------------------------------------
\* Every client that is a closer has returned, the others have submitted.
Terminated == /\ Exited
              /\ \A t \in Threads : Quiet(t)
              /\ \A c \in Closers : cpc[c] = "returned"

Next == \/ \E t \in Threads : Submit(t)
        \/ \E w \in Workers : Work(w) \/ WaitTimeout(w) \/ SpuriousWakeup(w)
        \/ \E c \in Clients : WaitUntilIdle(c) \/ Close(c)
        \/ Terminated /\ UNCHANGED vars

\* Threads run, a submission that has begun is finished, and the 2 ms pass.
\* A closer does call shutdown() in the end (the destructor does).
Fairness == /\ \A t \in Threads : WF_vars(Submit(t))
            /\ \A w \in Workers : WF_vars(Work(w)) /\ WF_vars(WaitTimeout(w))
            /\ \A c \in Closers : WF_vars(Close(c))

Spec == Init /\ [][Next]_vars /\ Fairness

-----------------------------------------------------------------------------
(* Properties *)

\* Types; a worker has a task exactly while it runs one, and only then is it
\* inside submit().
TypeOK ==
    /\ globalQueue \in Seq(Tasks)
    /\ local \in [Workers -> Seq(Tasks)]
    /\ stopping \in BOOLEAN
    /\ outstanding \in Nat
    /\ pc \in [Workers -> {"popLocal", "popGlobal", "steal", "run", "exitTest",
                           "predicate", "parking", "asleep", "exited"}]
    /\ task \in [Workers -> Tasks \cup {NoTask}]
    /\ todo \in [Threads -> Seq(Tasks)]
    /\ submit \in [Threads -> {"idle", "checked", "counted", "inserted"}]
    /\ cpc \in [Clients -> {"submitting", "idle", "notifyAll", "joining", "returned"}]
    /\ refused \subseteq Tasks /\ done \subseteq Tasks
    /\ \A w \in Workers : /\ pc[w] = "run" <=> task[w] # NoTask
                          /\ submit[w] # "idle" => pc[w] = "run"

\* Where the pool holds task k: being submitted and counted, queued, running.
Holders(k) == {t \in Threads : submit[t] = "counted" /\ Head(todo[t]) = k}
Places(k) == UNION {{w} \X {i \in DOMAIN local[w] : local[w][i] = k} : w \in Workers}
Slots(k) == {i \in DOMAIN globalQueue : globalQueue[i] = k}
Runners(k) == {w \in Workers : task[w] = k}
Copies(k) == Cardinality(Holders(k)) + Cardinality(Places(k))
             + Cardinality(Slots(k)) + Cardinality(Runners(k))

\* Owner and thief take from opposite ends of a deque, others from the global
\* queue: no task is with two workers, runs twice, or is lost half-way.
InOnePlace == \A k \in Tasks : Copies(k) <= IF k \in done THEN 0 ELSE 1

\* "When the counter reaches zero, all submitted work has completed."  The
\* counter is never below the work that is pending, at any step of a nested
\* submission, a steal, or a task that throws.
CounterCounts ==
    outstanding = Cardinality({k \in Tasks : Copies(k) > 0})

\* What waitUntilIdle tells its caller: the tasks it has submitted have ended,
\* and so have the tasks they submitted in turn.
IdleMeansDone ==
    \A c \in Clients : cpc[c] = "idle" =>
        \A k \in ToSet(Program[c]) :
            /\ k \in refused \cup done
            /\ \A child \in ToSet(Children[k]) : Copies(child) = 0

\* "drain global and local queues ... wake all workers, join workers": when
\* the last worker has ended no task waits in a queue.
DrainedAtExit == Exited => globalQueue = <<>> /\ \A w \in Workers : local[w] = <<>>

\* The pool implements the task pool, liveness included: each accepted task
\* runs although notifications get lost, and a shutdown ends.
Status(k) == CASE k \in done         -> "done"
               [] k \in refused      -> "refused"
               [] Runners(k) # {}    -> "running"
               [] OTHER -> IF Copies(k) > 0 THEN "accepted" ELSE "new"

Pool == INSTANCE TaskPool WITH status <- [k \in Tasks |-> Status(k)],
                               closing <- stopping, joined <- Exited

ImplementsTaskPool == Pool!Spec

=============================================================================
