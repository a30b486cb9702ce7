----------------------------- MODULE ThreadPool -----------------------------
(***************************************************************************)
(* ThreadPool of code_traps/thread_pool_future_shutdown.cpp: a task queue  *)
(* and a stopping flag behind one mutex, workers that wait on a condition  *)
(* variable, submit() that hands out a future, shutdown() that drains and  *)
(* joins.  Clients, and the tasks themselves, are threads that run a       *)
(* script of submit, get (of a future) and shutdown.                       *)
(*                                                                         *)
(* Queue and flag are only touched under mutex_, so each critical section  *)
(* is one step; the notifications follow after the unlock.  A future is    *)
(* ready when its packaged_task has ended, with a value or an exception.   *)
(***************************************************************************)
EXTENDS Integers, Sequences, FiniteSets

CONSTANTS Workers,   (* the pool's threads                                  *)
          Clients,   (* threads outside the pool                            *)
          Tasks, NoTask,
          Body,      (* Body[k]: the script of task k                       *)
          Scripts    (* the scripts the clients may have, see Init          *)

Threads == Workers \cup Clients

Steps == [op : {"submit", "get"}, task : Tasks] \cup [op : {"shutdown"}, task : {NoTask}]

\* The constructor throws for zero workers.  No task shuts the pool down: it
\* would join its own thread.
ASSUME PoolAssumption ==
    /\ Workers # {} /\ IsFiniteSet(Workers)
    /\ IsFiniteSet(Clients) /\ Workers \cap Clients = {}
    /\ NoTask \notin Tasks
    /\ Body \in [Tasks -> Seq([op : {"submit", "get"}, task : Tasks])]
    /\ Scripts \subseteq [Clients -> Seq(Steps)]

Submissions(s) == {i \in DOMAIN s : s[i].op = "submit"}

\* Each call of submit() makes a packaged_task of its own, so a task is
\* submitted at one place of one script or one body.
ASSUME SubmissionsAreDistinct ==
    /\ \A s \in Scripts :
          /\ \A c, d \in Clients : \A i \in Submissions(s[c]), j \in Submissions(s[d]) :
                s[c][i].task = s[d][j].task => c = d /\ i = j
          /\ \A c \in Clients, k \in Tasks : \A i \in Submissions(s[c]), j \in Submissions(Body[k]) :
                s[c][i].task # Body[k][j].task
    /\ \A k, l \in Tasks : \A i \in Submissions(Body[k]), j \in Submissions(Body[l]) :
          Body[k][i].task = Body[l][j].task => k = l /\ i = j

VARIABLES queue,     (* tasks_                                              *)
          stopping,  (* stopping_                                           *)
          pc,        (* where each worker is in workerLoop                  *)
          task,      (* the task each worker runs                           *)
          script,    (* what each thread has still to do                    *)
          call,      (* what each thread has still to do in its call        *)
          future,    (* the future of each task                             *)
          refused    (* the tasks submit() threw for                        *)

vars == <<queue, stopping, pc, task, script, call, future, refused>>

Init == /\ queue = <<>>
        /\ stopping = FALSE
        /\ pc = [w \in Workers |-> "fetch"]
        /\ task = [w \in Workers |-> NoTask]
        /\ \E s \in Scripts :
              script = [t \in Threads |-> IF t \in Clients THEN s[t] ELSE <<>>]
        /\ call = [t \in Threads |-> "none"]
        /\ future = [k \in Tasks |-> "none"]
        /\ refused = {}

-----------------------------------------------------------------------------
(* workerLoop() *)

Waiting == {w \in Workers : pc[w] = "waiting"}

\* Mutation of Fetch: an if where the wait has its loop.  A worker that wakes
\* with nothing to do takes the front of an empty queue.
FetchOnAnyWakeup(w) ==
    /\ pc[w] \in {"fetch", "awake"}
    /\ \/ /\ queue # <<>>
          /\ queue' = Tail(queue)
          /\ pc' = [pc EXCEPT ![w] = "run"]
          /\ task' = [task EXCEPT ![w] = Head(queue)]
          /\ script' = [script EXCEPT ![w] = Body[Head(queue)]]
       \/ /\ queue = <<>>
          /\ pc' = [pc EXCEPT ![w] = IF stopping THEN "exited"
                                     ELSE IF pc[w] = "awake" THEN "run" ELSE "waiting"]
          /\ UNCHANGED <<queue, task, script>>
    /\ UNCHANGED <<stopping, call, future, refused>>

\* Mutation of Fetch: the worker ends as soon as the pool is stopping.
FetchStopFirst(w) ==
    /\ pc[w] \in {"fetch", "awake"}
    /\ \/ /\ queue # <<>> /\ ~stopping
          /\ queue' = Tail(queue)
          /\ pc' = [pc EXCEPT ![w] = "run"]
          /\ task' = [task EXCEPT ![w] = Head(queue)]
          /\ script' = [script EXCEPT ![w] = Body[Head(queue)]]
       \/ /\ queue = <<>> \/ stopping
          /\ pc' = [pc EXCEPT ![w] = IF stopping THEN "exited" ELSE "waiting"]
          /\ UNCHANGED <<queue, task, script>>
    /\ UNCHANGED <<stopping, call, future, refused>>

\* The critical section of the loop, entered or resumed after a wakeup.
Fetch(w) ==
    /\ pc[w] \in {"fetch", "awake"}
    /\ \/ /\ queue # <<>>
          /\ queue' = Tail(queue)
          /\ pc' = [pc EXCEPT ![w] = "run"]
          /\ task' = [task EXCEPT ![w] = Head(queue)]
          /\ script' = [script EXCEPT ![w] = Body[Head(queue)]]
       \/ /\ queue = <<>>
          /\ pc' = [pc EXCEPT ![w] = IF stopping THEN "exited" ELSE "waiting"]
          /\ UNCHANGED <<queue, task, script>>
    /\ UNCHANGED <<stopping, call, future, refused>>

SpuriousWakeup(w) ==
    /\ w \in Waiting
    /\ pc' = [pc EXCEPT ![w] = "awake"]
    /\ UNCHANGED <<queue, stopping, task, script, call, future, refused>>

\* Mutation of EndTask: an exception ends the worker with the task.
EndTaskDies(w) ==
    /\ pc[w] = "run" /\ call[w] = "none"
    /\ future' = [future EXCEPT ![task[w]] = "ready"]
    /\ pc' = [pc EXCEPT ![w] = IF script[w] = <<>> THEN "fetch" ELSE "exited"]
    /\ task' = [task EXCEPT ![w] = NoTask]
    /\ script' = [script EXCEPT ![w] = <<>>]
    /\ UNCHANGED <<queue, stopping, call, refused>>

\* The packaged_task of worker w ends: its future is ready.
EndTask(w) ==
    /\ pc[w] = "run" /\ call[w] = "none"
    /\ future' = [future EXCEPT ![task[w]] = "ready"]
    /\ pc' = [pc EXCEPT ![w] = "fetch"]
    /\ task' = [task EXCEPT ![w] = NoTask]
    /\ script' = [script EXCEPT ![w] = <<>>]
    /\ UNCHANGED <<queue, stopping, call, refused>>

Return(w) == script[w] = <<>> /\ EndTask(w)
Throw(w)  == script[w] # <<>> /\ EndTask(w)

-----------------------------------------------------------------------------
(* submit(), future::get(), shutdown() *)

\* Thread t is at a step of its script with this operation.
At(t, op) == /\ call[t] = "none" /\ script[t] # <<>> /\ Head(script[t]).op = op
             /\ t \in Workers => pc[t] = "run"

Subject(t) == Head(script[t]).task
Proceed(t) == script' = [script EXCEPT ![t] = Tail(@)]

\* Mutation of Submit: stopping_ is not tested.
SubmitUnchecked(t) ==
    /\ At(t, "submit")
    /\ queue' = Append(queue, Subject(t))
    /\ future' = [future EXCEPT ![Subject(t)] = "pending"]
    /\ call' = [call EXCEPT ![t] = "notifyOne"]
    /\ Proceed(t)
    /\ UNCHANGED <<stopping, pc, task, refused>>

\* submit() throws when the pool is stopping.  A client catches that; in a
\* task the exception leaves the task, as any other.
Submit(t) ==
    /\ At(t, "submit")
    /\ \/ /\ stopping
          /\ refused' = refused \cup {Subject(t)}
          /\ script' = [script EXCEPT ![t] = IF t \in Workers THEN <<>> ELSE Tail(@)]
          /\ UNCHANGED <<queue, call, future>>
       \/ /\ ~stopping
          /\ queue' = Append(queue, Subject(t))
          /\ future' = [future EXCEPT ![Subject(t)] = "pending"]
          /\ call' = [call EXCEPT ![t] = "notifyOne"]
          /\ Proceed(t)
          /\ UNCHANGED refused
    /\ UNCHANGED <<stopping, pc, task>>

\* Mutation of SubmitNotify: no notification.
SubmitSilent(t) ==
    /\ call[t] = "notifyOne"
    /\ call' = [call EXCEPT ![t] = "none"]
    /\ UNCHANGED <<queue, stopping, pc, task, script, future, refused>>

\* condition_.notify_one(), after the unlock.
SubmitNotify(t) ==
    /\ call[t] = "notifyOne"
    /\ call' = [call EXCEPT ![t] = "none"]
    /\ \/ Waiting = {} /\ UNCHANGED pc
       \/ \E w \in Waiting : pc' = [pc EXCEPT ![w] = "awake"]
    /\ UNCHANGED <<queue, stopping, task, script, future, refused>>

\* get() blocks until the future is ready; there is none for a refused task.
Get(t) ==
    /\ At(t, "get")
    /\ future[Subject(t)] = "ready" \/ Subject(t) \in refused
    /\ Proceed(t)
    /\ UNCHANGED <<queue, stopping, pc, task, call, future, refused>>

\* A second shutdown() returns at once, joined or not.
Shutdown(t) ==
    /\ At(t, "shutdown")
    /\ \/ stopping /\ Proceed(t) /\ UNCHANGED call
       \/ ~stopping /\ call' = [call EXCEPT ![t] = "notifyAll"] /\ UNCHANGED script
    /\ stopping' = TRUE
    /\ UNCHANGED <<queue, pc, task, future, refused>>

\* Mutation of ShutdownNotify: notify_one for notify_all.
ShutdownNotifyOne(t) ==
    /\ call[t] = "notifyAll"
    /\ call' = [call EXCEPT ![t] = "join"]
    /\ \/ Waiting = {} /\ UNCHANGED pc
       \/ \E w \in Waiting : pc' = [pc EXCEPT ![w] = "awake"]
    /\ UNCHANGED <<queue, stopping, task, script, future, refused>>

\* condition_.notify_all(), after the unlock.
ShutdownNotify(t) ==
    /\ call[t] = "notifyAll"
    /\ call' = [call EXCEPT ![t] = "join"]
    /\ pc' = [w \in Workers |-> IF w \in Waiting THEN "awake" ELSE pc[w]]
    /\ UNCHANGED <<queue, stopping, task, script, future, refused>>

Exited == \A w \in Workers : pc[w] = "exited"

Join(t) ==
    /\ call[t] = "join" /\ Exited
    /\ call' = [call EXCEPT ![t] = "none"]
    /\ Proceed(t)
    /\ UNCHANGED <<queue, stopping, pc, task, future, refused>>

-----------------------------------------------------------------------------
Step(t) == \/ Submit(t) \/ SubmitNotify(t) \/ Get(t)
           \/ Shutdown(t) \/ ShutdownNotify(t) \/ Join(t)

Terminated == Exited /\ \A t \in Threads : script[t] = <<>> /\ call[t] = "none"

Next == \/ \E t \in Threads : Step(t)
        \/ \E w \in Workers : Fetch(w) \/ Return(w) \/ Throw(w) \/ SpuriousWakeup(w)
        \/ Terminated /\ UNCHANGED vars

\* Threads that can run do; tasks end if they do not wait for ever.  Nothing
\* makes a task throw, and nothing wakes a worker but the pool.
Fairness == /\ \A t \in Threads : WF_vars(Step(t))
            /\ \A w \in Workers : WF_vars(Fetch(w)) /\ WF_vars(Return(w))

Spec == Init /\ [][Next]_vars /\ Fairness

-----------------------------------------------------------------------------
(* Properties *)

\* Types; a worker has a task exactly while it runs one.
TypeOK ==
    /\ queue \in Seq(Tasks)
    /\ stopping \in BOOLEAN
    /\ pc \in [Workers -> {"fetch", "waiting", "awake", "run", "exited"}]
    /\ task \in [Workers -> Tasks \cup {NoTask}]
    /\ script \in [Threads -> Seq(Steps)]
    /\ call \in [Threads -> {"none", "notifyOne", "notifyAll", "join"}]
    /\ future \in [Tasks -> {"none", "pending", "ready"}]
    /\ refused \subseteq Tasks
    /\ \A w \in Workers : pc[w] = "run" <=> task[w] # NoTask

\* Notifications to come, and workers that were woken.
Signals == Cardinality({t \in Threads : call[t] = "notifyOne"})
           + Cardinality({w \in Workers : pc[w] = "awake"})

\* While a worker waits, each queued task has a notification on its way or a
\* worker that was woken; and no worker waits behind shutdown's notify_all.
NoWorkerForgotten ==
    Waiting # {} => /\ ~stopping => Len(queue) <= Signals
                    /\ stopping => \E t \in Threads : call[t] = "notifyAll"

\* "Stop accepting new tasks": the flag and the queue are tested and changed
\* under one mutex, so nothing enters the queue once shutdown has begun, not
\* even from a submission that began before it.
ClosedQueueDrains ==
    [][stopping => stopping' /\ (queue' = queue \/ (queue # <<>> /\ queue' = Tail(queue)))]_vars

\* "pool destructor drained queued tasks": when the workers have ended, every
\* future that was handed out is ready, so a later get() cannot block.
DrainedWhenJoined ==
    Exited => queue = <<>> /\ \A k \in Tasks : future[k] # "pending"

\* Every script ends: no get() waits for ever, no shutdown() does, although
\* tasks wait for the tasks they have submitted.
ScriptsEnd == <>(\A c \in Clients : script[c] = <<>> /\ call[c] = "none")

\* The pool implements the task pool.
Status(k) == CASE future[k] = "ready"             -> "done"
               [] k \in refused                   -> "refused"
               [] \E w \in Workers : task[w] = k  -> "running"
               [] OTHER -> IF future[k] = "pending" THEN "accepted" ELSE "new"

Pool == INSTANCE TaskPool WITH status <- [k \in Tasks |-> Status(k)],
                               closing <- stopping, joined <- Exited

ImplementsTaskPool == Pool!Spec

=============================================================================
