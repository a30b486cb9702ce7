--------------------------- MODULE SemaphorePool ---------------------------
(***************************************************************************)
(* ThreadPool and SemaphoreGuard of semaphore_worker_thread_pool.cpp: a    *)
(* task queue and a stopped flag behind one mutex, workers that wait on a  *)
(* condition variable, stop() that drains and joins, and tasks that use a  *)
(* resource with fewer slots than there are workers.                       *)
(*                                                                         *)
(* Each critical section of mutex_ is one step, and so is each of the      *)
(* mutex around the count of active users; notifications follow after the  *)
(* unlock.  No task throws: an exception would end the process.            *)
(***************************************************************************)
EXTENDS Integers, Sequences, FiniteSets

CONSTANTS Workers,   (* the pool's threads                                  *)
          Clients,   (* the threads that call submit and stop               *)
          Tasks, NoTask,
          Guarded,   (* the tasks that use the resource                     *)
          Slots,     (* the permits of the semaphore                        *)
          Scripts    (* the scripts the clients may have, see Init          *)

Stop == NoTask       \* in a script: a call of stop()

\* The constructor accepts zero workers, which then run nothing; the demos
\* have three and five.
ASSUME PoolAssumption ==
    /\ Workers # {} /\ IsFiniteSet(Workers)
    /\ NoTask \notin Tasks
    /\ Guarded \subseteq Tasks
    /\ Slots \in Nat
    /\ Scripts \subseteq [Clients -> Seq(Tasks \cup {Stop})]

\* Each call of submit() hands over a std::function of its own.
ASSUME SubmissionsAreDistinct ==
    \A s \in Scripts : \A c, d \in Clients : \A i \in DOMAIN s[c], j \in DOMAIN s[d] :
        s[c][i] = s[d][j] /\ s[c][i] # Stop => c = d /\ i = j

VARIABLES queue,     (* tasks_                                              *)
          stopped,   (* stopped_                                            *)
          pc,        (* where each worker is, in workerLoop or in its task  *)
          task,      (* the task each worker runs                           *)
          script,    (* what each client has still to call                  *)
          call,      (* what each client has still to do in its call        *)
          permits,   (* resourceSlots                                       *)
          active,    (* activeResourceUsers                                 *)
          done,      (* the tasks that have ended                           *)
          refused    (* the tasks submit() threw for                        *)

poolVars == <<queue, stopped>>
clientVars == <<script, call, refused>>
taskVars == <<permits, active, done>>
vars == <<poolVars, pc, task, clientVars, taskVars>>

Init == /\ queue = <<>>
        /\ stopped = FALSE
        /\ pc = [w \in Workers |-> "fetch"]
        /\ task = [w \in Workers |-> NoTask]
        /\ script \in Scripts
        /\ call = [c \in Clients |-> "none"]
        /\ permits = Slots
        /\ active = 0
        /\ done = {}
        /\ refused = {}

Goto(w, l) == pc' = [pc EXCEPT ![w] = l]

-----------------------------------------------------------------------------
(* workerLoop() *)

Waiting == {w \in Workers : pc[w] = "waiting"}

\* Mutation of Fetch: an if where the wait has its loop.  A worker that wakes
\* with nothing to do takes the front of an empty queue.
FetchOnAnyWakeup(w) ==
    /\ pc[w] \in {"fetch", "awake"}
    /\ \/ /\ queue # <<>>
          /\ queue' = Tail(queue)
          /\ task' = [task EXCEPT ![w] = Head(queue)]
          /\ Goto(w, IF Head(queue) \in Guarded THEN "acquire" ELSE "run")
       \/ /\ queue = <<>>
          /\ Goto(w, IF stopped THEN "exited" ELSE IF pc[w] = "awake" THEN "run" ELSE "waiting")
          /\ UNCHANGED <<queue, task>>
    /\ UNCHANGED <<stopped, clientVars, taskVars>>

\* Mutation of Fetch: the worker ends as soon as the pool is stopped.
FetchStopFirst(w) ==
    /\ pc[w] \in {"fetch", "awake"}
    /\ \/ /\ queue # <<>> /\ ~stopped
          /\ queue' = Tail(queue)
          /\ task' = [task EXCEPT ![w] = Head(queue)]
          /\ Goto(w, IF Head(queue) \in Guarded THEN "acquire" ELSE "run")
       \/ /\ queue = <<>> \/ stopped
          /\ Goto(w, IF stopped THEN "exited" ELSE "waiting")
          /\ UNCHANGED <<queue, task>>
    /\ UNCHANGED <<stopped, clientVars, taskVars>>

\* The critical section of the loop, entered or resumed after a wakeup.  The
\* task runs after it.
Fetch(w) ==
    /\ pc[w] \in {"fetch", "awake"}
    /\ \/ /\ queue # <<>>
          /\ queue' = Tail(queue)
          /\ task' = [task EXCEPT ![w] = Head(queue)]
          /\ Goto(w, IF Head(queue) \in Guarded THEN "acquire" ELSE "run")
       \/ /\ queue = <<>>
          /\ Goto(w, IF stopped THEN "exited" ELSE "waiting")
          /\ UNCHANGED <<queue, task>>
    /\ UNCHANGED <<stopped, clientVars, taskVars>>

SpuriousWakeup(w) ==
    /\ w \in Waiting
    /\ Goto(w, "awake")
    /\ UNCHANGED <<poolVars, task, clientVars, taskVars>>

-----------------------------------------------------------------------------
(* The tasks *)

EndTask(w) ==
    /\ done' = done \cup {task[w]}
    /\ task' = [task EXCEPT ![w] = NoTask]
    /\ Goto(w, "fetch")

\* A task that only prints.
Run(w) ==
    /\ pc[w] = "run"
    /\ EndTask(w)
    /\ UNCHANGED <<poolVars, clientVars, permits, active>>

\* Mutation of Acquire: permits are counted, but nobody waits for one.
AcquireAnyway(w) ==
    /\ pc[w] = "acquire"
    /\ permits' = IF permits > 0 THEN permits - 1 ELSE 0
    /\ Goto(w, "enter")
    /\ UNCHANGED <<poolVars, task, clientVars, active, done>>

\* The SemaphoreGuard of the task is constructed: it holds a permit.
Acquire(w) ==
    /\ pc[w] = "acquire" /\ permits > 0
    /\ permits' = permits - 1
    /\ Goto(w, "enter")
    /\ UNCHANGED <<poolVars, task, clientVars, active, done>>

Enter(w) ==
    /\ pc[w] = "enter"
    /\ active' = active + 1
    /\ Goto(w, "use")
    /\ UNCHANGED <<poolVars, task, clientVars, permits, done>>

Leave(w) ==
    /\ pc[w] = "use"
    /\ active' = active - 1
    /\ Goto(w, "release")
    /\ UNCHANGED <<poolVars, task, clientVars, permits, done>>

\* The end of the task destroys the guard, which gives the permit back.
Release(w) ==
    /\ pc[w] = "release"
    /\ permits' = permits + 1
    /\ EndTask(w)
    /\ UNCHANGED <<poolVars, clientVars, active>>

-----------------------------------------------------------------------------
(* submit() and stop() *)

\* Client c is about to call submit with a task, or stop.
Calls(c) == call[c] = "none" /\ script[c] # <<>>
Subject(c) == Head(script[c])
CallEnds(c) == script' = [script EXCEPT ![c] = Tail(@)]

\* Throws when the pool is stopped; the client goes on.
Submit(c) ==
    /\ Calls(c) /\ Subject(c) # Stop
    /\ \/ /\ stopped
          /\ refused' = refused \cup {Subject(c)}
          /\ UNCHANGED <<queue, call>>
       \/ /\ ~stopped
          /\ queue' = Append(queue, Subject(c))
          /\ call' = [call EXCEPT ![c] = "notifyOne"]
          /\ UNCHANGED refused
    /\ CallEnds(c)
    /\ UNCHANGED <<stopped, pc, task, taskVars>>

SubmitNotify(c) ==
    /\ call[c] = "notifyOne"
    /\ call' = [call EXCEPT ![c] = "none"]
    /\ \/ Waiting = {} /\ UNCHANGED pc
       \/ \E w \in Waiting : Goto(w, "awake")
    /\ UNCHANGED <<poolVars, task, script, refused, taskVars>>

\* A second stop() returns at once, whether the workers have ended or not.
StopPool(c) ==
    /\ Calls(c) /\ Subject(c) = Stop
    /\ \/ stopped /\ CallEnds(c) /\ UNCHANGED call
       \/ ~stopped /\ call' = [call EXCEPT ![c] = "notifyAll"] /\ UNCHANGED script
    /\ stopped' = TRUE
    /\ UNCHANGED <<queue, pc, task, refused, taskVars>>

StopNotify(c) ==
    /\ call[c] = "notifyAll"
    /\ call' = [call EXCEPT ![c] = "join"]
    /\ pc' = [w \in Workers |-> IF w \in Waiting THEN "awake" ELSE pc[w]]
    /\ UNCHANGED <<poolVars, task, script, refused, taskVars>>

Exited == \A w \in Workers : pc[w] = "exited"

Join(c) ==
    /\ call[c] = "join" /\ Exited
    /\ call' = [call EXCEPT ![c] = "none"]
    /\ CallEnds(c)
    /\ UNCHANGED <<poolVars, pc, task, refused, taskVars>>

-----------------------------------------------------------------------------
WorkerStep(w) == \/ Fetch(w) \/ Run(w)
                 \/ Acquire(w) \/ Enter(w) \/ Leave(w) \/ Release(w)

ClientStep(c) == \/ Submit(c) \/ SubmitNotify(c)
                 \/ StopPool(c) \/ StopNotify(c) \/ Join(c)

Terminated == Exited /\ \A c \in Clients : script[c] = <<>> /\ call[c] = "none"

Next == \/ \E w \in Workers : WorkerStep(w) \/ SpuriousWakeup(w)
        \/ \E c \in Clients : ClientStep(c)
        \/ Terminated /\ UNCHANGED vars

\* Threads that can run do; only the pool has to wake its workers.
Fairness == /\ \A w \in Workers : WF_vars(WorkerStep(w))
            /\ \A c \in Clients : WF_vars(ClientStep(c))

Spec == Init /\ [][Next]_vars /\ Fairness

-----------------------------------------------------------------------------
(* Properties *)

InTask == {"run", "acquire", "enter", "use", "release"}

\* Types; a worker has a task exactly while it runs one, and only a task that
\* uses the resource is anywhere near it.
TypeOK ==
    /\ queue \in Seq(Tasks)
    /\ stopped \in BOOLEAN
    /\ pc \in [Workers -> {"fetch", "waiting", "awake", "exited"} \cup InTask]
    /\ task \in [Workers -> Tasks \cup {NoTask}]
    /\ script \in [Clients -> Seq(Tasks \cup {Stop})]
    /\ call \in [Clients -> {"none", "notifyOne", "notifyAll", "join"}]
    /\ permits \in Nat
    /\ active \in Int
    /\ done \subseteq Tasks
    /\ refused \subseteq Tasks
    /\ \A w \in Workers : pc[w] \in InTask <=> task[w] # NoTask

Holders == {w \in Workers : pc[w] \in {"enter", "use", "release"}}
Users   == {w \in Workers : pc[w] = "use"}

\* Every permit is in the semaphore or with one worker, and the count of
\* active users is right.
PermitsConserved == /\ permits + Cardinality(Holders) = Slots
                    /\ active = Cardinality(Users)

\* "Only two may use the expensive resource at the same time", whatever the
\* number of workers; and when the workers have ended, every permit is back.
ResourceLimited == /\ active <= Slots
                   /\ Cardinality(Users) <= Slots
                   /\ Exited => permits = Slots /\ active = 0

\* "All queued tasks completed": the pool implements the task pool, in which
\* an accepted task runs once, to its end, before the pool is joined.  Tasks
\* that wait for a permit hold up their workers but not for ever.
Status(k) == CASE k \in done                        -> "done"
               [] k \in refused                     -> "refused"
               [] \E w \in Workers : task[w] = k    -> "running"
               [] \E i \in DOMAIN queue : queue[i] = k -> "accepted"
               [] OTHER                             -> "new"

Pool == INSTANCE TaskPool WITH status <- [k \in Tasks |-> Status(k)],
                               closing <- stopped, joined <- Exited

ImplementsTaskPool == Pool!Spec

=============================================================================
