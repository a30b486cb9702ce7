------------------------ MODULE BoundedBlockingQueue ------------------------
(***************************************************************************)
(* BoundedBlockingQueue<T> of code_traps/bounded_blocking_queue.cpp: a     *)
(* FIFO queue with a capacity and a closed flag behind one mutex, and two  *)
(* condition variables, notEmpty_ and notFull_.                            *)
(*                                                                         *)
(* Every method touches the queue and the flag only while it holds mutex_, *)
(* and a wait evaluates its predicate and joins the waiters before the     *)
(* mutex is free again, so a critical section is one atomic step.  What    *)
(* the methods do after the unlock is a step of its own: another thread    *)
(* may run between the unlock and the notification.                        *)
(*                                                                         *)
(* A thread in a wait is "Blocked" until a notification, a spurious wakeup *)
(* or its deadline makes it "Awake" (or "Expired"): it then has to take    *)
(* the mutex again and re-evaluate the predicate, and other threads may    *)
(* take the mutex first.                                                   *)
(***************************************************************************)
EXTENDS Integers, Sequences, FiniteSets

CONSTANTS Threads,   (* the threads that share the queue                    *)
          Values,    (* what they may push                                  *)
          NoValue,   (* held by a thread that carries no value              *)
          Capacity,  (* the constructor's argument                          *)
          Calls      (* Calls[t]: the methods the program of thread t calls *)

Methods == {"push", "tryPush", "pushFor", "pop", "close"}

\* The constructor throws on capacity 0, so no queue has that capacity.
ASSUME CapacityAssumption == Capacity \in Nat \ {0}
ASSUME ThreadsAssumption == IsFiniteSet(Threads)
ASSUME CallsAssumption == Calls \in [Threads -> SUBSET Methods]
ASSUME NoValueAssumption == NoValue \notin Values

VARIABLES queue,    (* queue_                                               *)
          closed,   (* closed_                                              *)
          pc,       (* where each thread is                                 *)
          value,    (* what a blocked push carries, what a pop has taken    *)
          result    (* what the thread's latest call returns                *)

vars == <<queue, closed, pc, value, result>>

Init == /\ queue = <<>>
        /\ closed = FALSE
        /\ pc = [t \in Threads |-> "idle"]
        /\ value = [t \in Threads |-> NoValue]
        /\ result = [t \in Threads |-> FALSE]

-----------------------------------------------------------------------------
Room == Len(queue) < Capacity

\* The threads in notFull_'s and in notEmpty_'s set of waiters.
WaitingNotFull == {t \in Threads : pc[t] \in {"pushBlocked", "pushForBlocked"}}
WaitingNotEmpty == {t \in Threads : pc[t] = "popBlocked"}

\* Where a waiting thread goes when a condition variable releases it.
Woken(location) == CASE location = "pushBlocked"    -> "pushAwake"
                     [] location = "pushForBlocked" -> "pushForAwake"
                     [] location = "popBlocked"     -> "popAwake"

\* The call of thread t has decided what it returns and continues at next.
Decide(t, next, carried, returned) ==
    /\ pc' = [pc EXCEPT ![t] = next]
    /\ value' = [value EXCEPT ![t] = carried]
    /\ result' = [result EXCEPT ![t] = returned]

\* Mutation of Block: the item of the waiting push has been moved from.
BlockMovedFrom(t, next, carried) ==
    /\ pc' = [pc EXCEPT ![t] = next]
    /\ value' = [value EXCEPT ![t] = NoValue]
    /\ UNCHANGED <<queue, closed, result>>

\* Thread t blocks in a wait: the mutex is free, t is among the waiters.
Block(t, next, carried) ==
    /\ pc' = [pc EXCEPT ![t] = next]
    /\ value' = [value EXCEPT ![t] = carried]
    /\ UNCHANGED <<queue, closed, result>>

-----------------------------------------------------------------------------
(* push, tryPush, pushFor *)

\* Mutation of InsertOrRefuse: the item overtakes those already queued.
InsertInFront(t, v) ==
    /\ UNCHANGED closed
    /\ \/ /\ closed
          /\ Decide(t, "idle", NoValue, FALSE)
          /\ UNCHANGED queue
       \/ /\ ~closed /\ Room
          /\ queue' = <<v>> \o queue
          /\ Decide(t, "notifyNotEmpty", NoValue, TRUE)

\* The wait is over with a true predicate: refuse when closed, else insert
\* and unlock; notEmpty_.notify_one() is still to come.
InsertOrRefuse(t, v) ==
    /\ UNCHANGED closed
    /\ \/ /\ closed
          /\ Decide(t, "idle", NoValue, FALSE)
          /\ UNCHANGED queue
       \/ /\ ~closed /\ Room
          /\ queue' = Append(queue, v)
          /\ Decide(t, "notifyNotEmpty", NoValue, TRUE)

\* The critical section of push and pushFor, entered or resumed by t.
PushSection(t, v, blocked) ==
    \/ InsertOrRefuse(t, v)
    \/ ~closed /\ ~Room /\ Block(t, blocked, v)

Push(t, v) ==
    /\ pc[t] = "idle" /\ "push" \in Calls[t]
    /\ PushSection(t, v, "pushBlocked")

\* Mutation of PushResume: a woken push does not look at closed_ again.
PushResumeUnchecked(t) ==
    /\ pc[t] = "pushAwake"
    /\ Room
    /\ queue' = Append(queue, value[t])
    /\ Decide(t, "notifyNotEmpty", NoValue, TRUE)
    /\ UNCHANGED closed

PushResume(t) ==
    /\ pc[t] = "pushAwake"
    /\ PushSection(t, value[t], "pushBlocked")

TryPush(t, v) ==
    /\ pc[t] = "idle" /\ "tryPush" \in Calls[t]
    /\ \/ InsertOrRefuse(t, v)
       \/ /\ ~closed /\ ~Room
          /\ Decide(t, "idle", NoValue, FALSE)
          /\ UNCHANGED <<queue, closed>>

PushFor(t, v) ==
    /\ pc[t] = "idle" /\ "pushFor" \in Calls[t]
    /\ PushSection(t, v, "pushForBlocked")

PushForResume(t) ==
    /\ pc[t] = "pushForAwake"
    /\ PushSection(t, value[t], "pushForBlocked")

\* The deadline of a pushFor passes, in the wait or while the thread that
\* was woken is still competing for the mutex.
PushForExpire(t) ==
    /\ pc[t] \in {"pushForBlocked", "pushForAwake"}
    /\ pc' = [pc EXCEPT ![t] = "pushForExpired"]
    /\ UNCHANGED <<queue, closed, value, result>>

\* Mutation of PushForLastTry: the result of wait_for is not looked at.
PushForLastTryAlways(t) ==
    /\ pc[t] = "pushForExpired" /\ ~closed
    /\ queue' = Append(queue, value[t])
    /\ Decide(t, "notifyNotEmpty", NoValue, TRUE)
    /\ UNCHANGED closed

\* Mutation of PushForLastTry: a timeout fails without a last look.
PushForLastTryNever(t) ==
    /\ pc[t] = "pushForExpired"
    /\ Decide(t, "idle", NoValue, FALSE)
    /\ UNCHANGED <<queue, closed>>

\* Mutation of PushForLastTry: every wakeup starts a new relative timeout.
PushForLastTryAfresh(t) ==
    /\ pc[t] = "pushForExpired"
    /\ PushSection(t, value[t], "pushForBlocked")

\* wait_for returns the predicate, evaluated once more after the deadline.
PushForLastTry(t) ==
    /\ pc[t] = "pushForExpired"
    /\ \/ InsertOrRefuse(t, value[t])
       \/ /\ ~closed /\ ~Room
          /\ Decide(t, "idle", NoValue, FALSE)
          /\ UNCHANGED <<queue, closed>>

-----------------------------------------------------------------------------
(* pop *)

\* Mutation of PopSection: the item that was read is not removed.
PopSectionReading(t) ==
    /\ UNCHANGED <<queue, closed>>
    /\ \/ queue # <<>> /\ Decide(t, "notifyNotFull", Head(queue), TRUE)
       \/ queue = <<>> /\ closed /\ Decide(t, "idle", NoValue, FALSE)
       \/ queue = <<>> /\ ~closed /\ Block(t, "popBlocked", NoValue)

\* Mutation of PopSection: closed_ is looked at before the queue.
PopSectionClosedFirst(t) ==
    /\ UNCHANGED closed
    /\ \/ closed /\ Decide(t, "idle", NoValue, FALSE) /\ UNCHANGED queue
       \/ /\ ~closed /\ queue # <<>>
          /\ queue' = Tail(queue)
          /\ Decide(t, "notifyNotFull", Head(queue), TRUE)
       \/ queue = <<>> /\ ~closed /\ Block(t, "popBlocked", NoValue)

\* The critical section of pop: a closed queue is drained before a pop fails.
PopSection(t) ==
    /\ UNCHANGED closed
    /\ \/ /\ queue # <<>>
          /\ queue' = Tail(queue)
          /\ Decide(t, "notifyNotFull", Head(queue), TRUE)
       \/ /\ queue = <<>> /\ closed
          /\ Decide(t, "idle", NoValue, FALSE)
          /\ UNCHANGED queue
       \/ /\ queue = <<>> /\ ~closed
          /\ Block(t, "popBlocked", NoValue)

Pop(t) ==
    /\ pc[t] = "idle" /\ "pop" \in Calls[t]
    /\ PopSection(t)

PopResume(t) ==
    /\ pc[t] = "popAwake"
    /\ PopSection(t)

-----------------------------------------------------------------------------
(* notifications, outside the mutex *)

\* notify_one: releases one of the waiters, any of them, if there is one;
\* the call of thread t then returns.
NotifyOne(t, waiters) ==
    /\ \/ /\ waiters = {}
          /\ pc' = [pc EXCEPT ![t] = "idle"]
       \/ \E w \in waiters :
             pc' = [pc EXCEPT ![t] = "idle", ![w] = Woken(pc[w])]
    /\ value' = [value EXCEPT ![t] = NoValue]
    /\ UNCHANGED <<queue, closed, result>>

PushNotify(t) == pc[t] = "notifyNotEmpty" /\ NotifyOne(t, WaitingNotEmpty)

\* Mutation of PopNotify: it notifies the other condition variable.
PopNotifyNotEmpty(t) == pc[t] = "notifyNotFull" /\ NotifyOne(t, WaitingNotEmpty)

PopNotify(t) == pc[t] = "notifyNotFull" /\ NotifyOne(t, WaitingNotFull)

\* notify_all: releases every waiter; thread t continues at next.
NotifyAll(t, waiters, next) ==
    /\ pc' = [u \in Threads |-> IF u = t THEN next
                                ELSE IF u \in waiters THEN Woken(pc[u])
                                ELSE pc[u]]
    /\ UNCHANGED <<queue, closed, value, result>>

\* A condition variable may release a waiter nobody notified.
SpuriousWakeup(t) ==
    /\ t \in WaitingNotFull \cup WaitingNotEmpty
    /\ pc' = [pc EXCEPT ![t] = Woken(pc[t])]
    /\ UNCHANGED <<queue, closed, value, result>>

-----------------------------------------------------------------------------
(* close *)

\* Mutation of Close: the flag is set and nobody is notified.
CloseSilently(t) ==
    /\ pc[t] = "idle" /\ "close" \in Calls[t]
    /\ closed' = TRUE
    /\ UNCHANGED <<queue, pc, value, result>>

\* Only the call that closes the queue notifies; a later one returns at once.
Close(t) ==
    /\ pc[t] = "idle" /\ "close" \in Calls[t]
    /\ closed' = TRUE
    /\ pc' = [pc EXCEPT ![t] = IF closed THEN "idle" ELSE "closeNotEmpty"]
    /\ UNCHANGED <<queue, value, result>>

CloseNotifyNotEmpty(t) ==
    /\ pc[t] = "closeNotEmpty"
    /\ NotifyAll(t, WaitingNotEmpty, "closeNotFull")

\* Mutation of CloseNotifyNotFull: notify_one instead of notify_all.
CloseNotifyOneNotFull(t) ==
    /\ pc[t] = "closeNotFull"
    /\ NotifyOne(t, WaitingNotFull)

CloseNotifyNotFull(t) ==
    /\ pc[t] = "closeNotFull"
    /\ NotifyAll(t, WaitingNotFull, "idle")

-----------------------------------------------------------------------------
\* What thread t does once it runs inside a call; it never stops half-way.
Continue(t) == \/ PushResume(t) \/ PushForResume(t) \/ PushForLastTry(t)
               \/ PopResume(t) \/ PushNotify(t) \/ PopNotify(t)
               \/ CloseNotifyNotEmpty(t) \/ CloseNotifyNotFull(t)

Call(t) == \/ \E v \in Values : Push(t, v) \/ TryPush(t, v) \/ PushFor(t, v)
           \/ Pop(t) \/ Close(t)

Next == \E t \in Threads :
           Call(t) \/ Continue(t) \/ PushForExpire(t) \/ SpuriousWakeup(t)

\* A thread that can run does run, and time passes.  Nothing is assumed of
\* the calls a program makes, and nothing of spurious wakeups.
Fairness == \A t \in Threads : /\ WF_vars(Continue(t))
                               /\ WF_vars(PushForExpire(t))

Spec == Init /\ [][Next]_vars /\ Fairness

-----------------------------------------------------------------------------
(* Properties *)

PushLocations == {"pushBlocked", "pushAwake", "pushForBlocked", "pushForAwake",
                  "pushForExpired"}
Locations == PushLocations \cup
             {"idle", "popBlocked", "popAwake", "notifyNotEmpty", "notifyNotFull",
              "closeNotEmpty", "closeNotFull"}

\* Types, and who carries an item: a push that waits holds on to the one it was
\* called with, a pop that has unlocked holds the one it returns.
TypeOK == /\ queue \in Seq(Values)
          /\ closed \in BOOLEAN
          /\ pc \in [Threads -> Locations]
          /\ value \in [Threads -> Values \cup {NoValue}]
          /\ result \in [Threads -> BOOLEAN]
          /\ \A t \in Threads :
                 value[t] \in IF pc[t] \in PushLocations \cup {"notifyNotFull"}
                             THEN Values ELSE {NoValue}

\* The queue never outgrows its capacity, whichever of the three ways to push
\* is used, and whatever runs between a wakeup and the insertion.
CapacityRespected == Len(queue) <= Capacity

\* The threads that will use, or hand on, a slot that became free.
SlotSignals == {t \in Threads : pc[t] \in {"notifyNotFull", "pushAwake",
                                          "pushForAwake", "pushForExpired"}}

\* The threads that will use, or hand on, an item that came in.
ItemSignals == {t \in Threads : pc[t] \in {"notifyNotEmpty", "popAwake"}}

\* On notFull_ (pop: unlock, then notify_one): while a pusher waits at an open
\* queue, every free slot has a notification on its way or an awake pusher.
SlotsSignalled ==
    ~closed /\ WaitingNotFull # {} => Capacity - Len(queue) <= Cardinality(SlotSignals)

\* On notEmpty_ (push, tryPush, pushFor: insert, unlock, then notify_one):
\* while a popper waits at an open queue, every item has a notification on its
\* way or an awake popper.
ItemsSignalled ==
    ~closed /\ WaitingNotEmpty # {} => Len(queue) <= Cardinality(ItemSignals)

\* On close: whoever still waits at a closed queue is ahead of the closing
\* thread's notify_all, even when other close calls have returned already.
CloseSignalled ==
    closed => /\ WaitingNotEmpty # {} => \E t \in Threads : pc[t] = "closeNotEmpty"
              /\ WaitingNotFull # {} => \E t \in Threads :
                                           pc[t] \in {"closeNotEmpty", "closeNotFull"}

\* No wakeup is lost, however the steps after the unlocks interleave with
\* barging threads, deadlines, spurious wakeups and a concurrent close.
NoLostWakeup == SlotsSignalled /\ ItemsSignalled /\ CloseSignalled

\* Closing is final and a closed queue only drains from the front, also for a
\* push that was already waiting, or already woken, when the queue was closed.
ClosedOnlyDrains ==
    [][closed => /\ closed'
                 /\ queue' = queue \/ (queue # <<>> /\ queue' = Tail(queue))]_vars

\* close lets every call return: each call running at a closed queue ends.
CloseReleasesCalls ==
    \A t \in Threads : closed /\ pc[t] # "idle" ~> pc[t] = "idle"

\* pushFor returns, whatever the others do: its deadline is absolute, and a
\* thread that is woken again and again does not start waiting afresh.
PushForReturns ==
    \A t \in Threads :
        pc[t] \in {"pushForBlocked", "pushForAwake", "pushForExpired"}
            ~> pc[t] \notin {"pushForBlocked", "pushForAwake", "pushForExpired"}

\* The queue implements the bounded channel: mutex, waiters, wakeups and
\* notifications cannot be seen from outside, and no pending call that could
\* be answered is forgotten.
Phase(location) ==
    CASE location = "idle"                                      -> "idle"
      [] location \in {"pushBlocked", "pushAwake"}              -> "pushing"
      [] location \in {"pushForBlocked", "pushForAwake"}        -> "pushingFor"
      [] location = "pushForExpired"                            -> "lastTry"
      [] location \in {"popBlocked", "popAwake"}                -> "popping"
      [] location \in {"notifyNotEmpty", "notifyNotFull",
                       "closeNotEmpty", "closeNotFull"}         -> "answered"

Channel == INSTANCE BoundedChannel
               WITH buf <- queue, item <- value, answer <- result,
                    phase <- [t \in Threads |-> Phase(pc[t])]

ImplementsChannel == Channel!Spec

=============================================================================
