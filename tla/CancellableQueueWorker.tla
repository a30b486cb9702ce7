----------------------- MODULE CancellableQueueWorker -----------------------
(***************************************************************************)
(* CancellableQueueWorker of jthread_stop_token_cancellation.cpp:          *)
(* one std::jthread takes tasks from a queue behind mutex_ and waits on    *)
(* cv_ for a task or for the stop request of its stop_token.               *)
(*                                                                         *)
(* The stop request is no part of what mutex_ protects: request_stop()     *)
(* sets it, the stop_callback and requestStop() then notify cv_, and all   *)
(* of this may fall between the worker's test of its predicate and its     *)
(* sleep.  So the test and the sleep are two steps here, and the worker    *)
(* holds mutex_ between them; a critical section that is one step needs no *)
(* variable for the mutex.                                                 *)
(***************************************************************************)
EXTENDS Integers, Sequences

CONSTANTS Clients,   (* threads that call the object                        *)
          Owner,     (* the client whose scope destroys it                  *)
          Tasks, NoTask,
          Scripts    (* the scripts the clients may have, see Init          *)

Steps == [op : {"submit"}, task : Tasks] \cup [op : {"requestStop", "destroy"}, task : {NoTask}]

ASSUME WorkerAssumption ==
    /\ Owner \in Clients
    /\ NoTask \notin Tasks
    /\ Scripts \subseteq [Clients -> Seq(Steps)]

\* What a client has still to do in a call, after its first step.
Rest == {"notifyOne", "callback", "notifyAll", "join"}

VARIABLES queue,      (* tasks_                                             *)
          stopped,    (* stop_requested()                                   *)
          registered, (* the stop_callback of run() exists                  *)
          pc,         (* where the worker is in run()                       *)
          script,     (* what each client has still to call                 *)
          call,       (* what each client has still to do in its call       *)
          processed,  (* the tasks the worker has taken                     *)
          late        (* the tasks submitted after the stop request         *)

vars == <<queue, stopped, registered, pc, script, call, processed, late>>

record == <<processed, late>>

Init == /\ queue = <<>>
        /\ stopped = FALSE
        /\ registered = FALSE
        /\ pc = "start"
        /\ script \in Scripts
        /\ call = [c \in Clients |-> <<>>]
        /\ processed = {}
        /\ late = {}

-----------------------------------------------------------------------------
(* run() *)

\* What client c does next in its call.
At(c, what) == call[c] # <<>> /\ Head(call[c]) = what

\* Mutation of Register: the stop_callback has no name, and ends with the
\* statement that makes it.
RegisterTemporary ==
    /\ pc = "start"
    /\ pc' = "loop"
    /\ UNCHANGED <<queue, stopped, registered, script, call, record>>

\* The stop_callback is made.  If the stop came first it runs here, and
\* notifies nobody: the only thread that ever waits is this one.
Register ==
    /\ pc = "start"
    /\ registered' = TRUE
    /\ pc' = "loop"
    /\ UNCHANGED <<queue, stopped, script, call, record>>

Take == /\ queue # <<>>
        /\ queue' = Tail(queue)
        /\ processed' = processed \cup {Head(queue)}
        /\ pc' = "processing"

\* Mutation of Test: the predicate is !tasks_.empty().
TestQueueOnly ==
    /\ pc \in {"loop", "awake"}
    /\ \/ Take
       \/ queue = <<>> /\ pc' = "blocking" /\ UNCHANGED <<queue, processed>>
    /\ UNCHANGED <<stopped, registered, script, call, late>>

\* Mutation of Test: a stop request ends the loop, whatever is queued.
TestStopFirst ==
    /\ pc \in {"loop", "awake"}
    /\ \/ ~stopped /\ Take
       \/ /\ stopped \/ queue = <<>>
          /\ pc' = IF stopped THEN "returning" ELSE "blocking"
          /\ UNCHANGED <<queue, processed>>
    /\ UNCHANGED <<stopped, registered, script, call, late>>

\* The predicate of the wait and the test after it, under mutex_.  Once seen,
\* the stop request stays, and the queue cannot change in between.
Test ==
    /\ pc \in {"loop", "awake"}
    /\ \/ Take
       \/ /\ queue = <<>>
          /\ pc' = IF stopped THEN "returning" ELSE "blocking"
          /\ UNCHANGED <<queue, processed>>
    /\ UNCHANGED <<stopped, registered, script, call, late>>

Goto(from, to) ==
    /\ pc = from
    /\ pc' = to
    /\ UNCHANGED <<queue, stopped, registered, script, call, record>>

\* cv_.wait releases mutex_ and sleeps in one step.
Block          == Goto("blocking", "waiting")
SpuriousWakeup == Goto("waiting", "awake")
Processed      == Goto("processing", "loop")

\* The stop_callback is destroyed, after a call of it that is under way.
Return ==
    /\ pc = "returning" /\ ~\E c \in Clients : At(c, "callback")
    /\ pc' = "ended"
    /\ registered' = FALSE
    /\ UNCHANGED <<queue, stopped, script, call, record>>

Worker == Register \/ Test \/ Block \/ Processed \/ Return

-----------------------------------------------------------------------------
(* submit() *)

\* Client c makes its next call, and has then the rest to do.  The owner's
\* scope ends when nobody else uses the object any more.
Call(c, op, rest) ==
    /\ call[c] = <<>> /\ script[c] # <<>> /\ Head(script[c]).op = op
    /\ op = "destroy" => \A d \in Clients \ {c} : script[d] = <<>> /\ call[d] = <<>>
    /\ script' = [script EXCEPT ![c] = Tail(@)]
    /\ call' = [call EXCEPT ![c] = rest]

Push(k) ==
    /\ queue' = Append(queue, k)
    /\ late' = IF stopped THEN late \cup {k} ELSE late
    /\ UNCHANGED <<stopped, registered, pc, processed>>

\* Mutation of Submit: the push is not under mutex_.
SubmitUnlocked(c) == Call(c, "submit", <<"notifyOne">>) /\ Push(Head(script[c]).task)

\* The worker holds mutex_ from the test of its predicate to its sleep.
Submit(c) == /\ pc # "blocking"
             /\ Call(c, "submit", <<"notifyOne">>) /\ Push(Head(script[c]).task)

\* Client c takes the next step of its call, which is this one.
Continue(c, what) == At(c, what) /\ call' = [call EXCEPT ![c] = Tail(@)]

\* Mutation of Notify: what it should do for submit() is forgotten.
NotifyStopOnly(c) ==
    /\ Continue(c, "notifyOne") \/ Continue(c, "callback") \/ Continue(c, "notifyAll")
    /\ pc' = IF pc = "waiting" /\ ~At(c, "notifyOne") THEN "awake" ELSE pc
    /\ UNCHANGED <<queue, stopped, registered, script, record>>

\* There is one thread to notify, for notify_one and notify_all.
Notify(c) ==
    /\ Continue(c, "notifyOne") \/ Continue(c, "callback") \/ Continue(c, "notifyAll")
    /\ pc' = IF pc = "waiting" THEN "awake" ELSE pc
    /\ UNCHANGED <<queue, stopped, registered, script, record>>

-----------------------------------------------------------------------------
(* requestStop() and the destructor *)

\* worker_.request_stop(): the first request runs the callback, if there is
\* one by now.  Nothing here takes mutex_.
Request(c, op, rest) ==
    /\ stopped' = TRUE
    /\ Call(c, op, IF ~stopped /\ registered THEN <<"callback">> \o rest ELSE rest)
    /\ UNCHANGED <<queue, registered, pc, record>>

RequestStop(c) == Request(c, "requestStop", <<"notifyAll">>)

\* After the body of the destructor, ~jthread() joins.
Destroy(c) == Request(c, "destroy", <<"notifyAll", "join">>)

Join(c) ==
    /\ Continue(c, "join") /\ pc = "ended"
    /\ UNCHANGED <<queue, stopped, registered, pc, script, record>>

-----------------------------------------------------------------------------
Step(c) == Submit(c) \/ Notify(c) \/ RequestStop(c) \/ Destroy(c) \/ Join(c)

Terminated == pc = "ended" /\ \A c \in Clients : script[c] = <<>> /\ call[c] = <<>>

Next == \/ \E c \in Clients : Step(c)
        \/ Worker \/ SpuriousWakeup
        \/ Terminated /\ UNCHANGED vars

\* Threads that can run do.  Nothing wakes the worker but a notification.
Fairness == WF_vars(Worker) /\ \A c \in Clients : WF_vars(Step(c))

Spec == Init /\ [][Next]_vars /\ Fairness

-----------------------------------------------------------------------------
(* Properties *)

\* Types; the callback exists while run() does.
TypeOK ==
    /\ queue \in Seq(Tasks)
    /\ stopped \in BOOLEAN
    /\ registered = (pc \notin {"start", "ended"})
    /\ pc \in {"start", "loop", "awake", "processing", "blocking", "waiting",
               "returning", "ended"}
    /\ script \in [Clients -> Seq(Steps)]
    /\ call \in [Clients -> Seq(Rest)]
    /\ processed \subseteq Tasks
    /\ late \subseteq Tasks

\* submit() pushes under mutex_ and notifies: the worker never sleeps on a
\* task that nobody is about to wake it for.
NoTaskSleptOn == pc = "waiting" /\ queue # <<>> =>
                    \E c \in Clients : \E i \in DOMAIN call[c] :
                       call[c][i] \in {"notifyOne", "callback", "notifyAll"}

\* "queue worker stopping": the worker ends only when it has taken every task
\* that was submitted before the stop request, whoever submitted it.
DrainedBeforeStop ==
    pc \in {"returning", "ended"} =>
        stopped /\ \A i \in DOMAIN queue : queue[i] \in late

\* A worker that is asleep when the stop_callback starts does end.
SleeperStops == pc = "waiting" /\ (\E c \in Clients : At(c, "callback")) ~> pc = "ended"

\* Every task submitted before a stop request is taken, whether or not a stop
\* request, or another submission, ever wakes the worker again.
TasksTaken == \A k \in Tasks :
    (\E i \in DOMAIN queue : queue[i] = k) /\ k \notin late ~> k \in processed

\* "Then the blocked thread wakes and checks stop state": a stop request, with
\* its callback and its notifications, ends the worker, and so the join in
\* the destructor returns.
StopEndsWorker == stopped ~> pc = "ended"

=============================================================================
