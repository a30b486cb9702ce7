--------------------------- MODULE ConditionDemos ---------------------------
(***************************************************************************)
(* condition_variable_producer_consumer.cpp: a queue whose pop waits, a    *)
(* bounded queue whose push waits as well, and what a notification is      *)
(* worth.                                                                  *)
(***************************************************************************)
EXTENDS StdSync

-----------------------------------------------------------------------------
(* BlockingQueue.  What a pop takes goes to the end of taken; at the end   *)
(* of the queue it goes on with ended.                                     *)

BlockingQueue == [queue |-> <<>>, mutex |-> {}, cv |-> Nothing, stopped |-> FALSE]

\* A push on the stopped queue throws.
BlockingPush(value) ==
    <<Lock("mutex"),
      If(<<IsTrue("stopped")>>, <<Unlock("mutex"), Return>>, <<>>),
      PushBack("queue", value), Unlock("mutex"), NotifyOne("cv")>>

BlockingPop(taken, ended) ==
    <<Lock("mutex"), Wait("cv", "mutex", <<IsTrue("stopped"), NonEmpty("queue")>>),
      If(<<NonEmpty("queue")>>, <<Take("queue", taken), Unlock("mutex")>>,
                                <<Unlock("mutex")>> \o ended)>>

\* Mutation of BlockingStop: only one of the consumers is told.
BlockingStopOne == Locked("mutex", <<Write("stopped", TRUE)>>) \o <<NotifyOne("cv")>>

BlockingStop == Locked("mutex", <<Write("stopped", TRUE)>>) \o <<NotifyAll("cv")>>

\* Two of the five items of the first producer and one of the second.  The
\* consumers have them all, each producer's in its order.
ProducerConsumerDemo ==
    LET consumer(taken) == <<Forever(BlockingPop(taken, <<Note("exiting"), Return>>))>>
        items == {1, 2, 101}
        some == UNION {{s \in [1 .. n -> items] : \A i, j \in 1 .. n : i < j =>
                            s[i] # s[j] /\ s[i] # s[j] + 1} : n \in 0 .. 3}
        values(s) == {s[i] : i \in DOMAIN s}
    IN  Demo(BlockingQueue @@ [taken1 |-> <<>>, taken2 |-> <<>>, exiting |-> Silent],
             <<Start(A :> consumer("taken1") @@ B :> consumer("taken2") @@
                     C :> BlockingPush(1) \o BlockingPush(2) @@ D :> BlockingPush(101)),
               Join({C, D})>> \o BlockingStop \o <<Join({A, B})>>,
             {f \in [taken1 : some, taken2 : some, exiting : {{A, B}}] :
                 /\ Len(f.taken1) + Len(f.taken2) = 3
                 /\ values(f.taken1) \cup values(f.taken2) = items},
             Nothing,
             {})

-----------------------------------------------------------------------------
(* BoundedQueue *)

BoundedQueue(capacity) ==
    [queue |-> <<>>, capacity |-> capacity, mutex |-> {}, notEmpty |-> Nothing,
     notFull |-> Nothing, stopped |-> FALSE]

BoundedPush(value, capacity) ==
    <<Lock("mutex"),
      Wait("notFull", "mutex", <<IsTrue("stopped"), Shorter("queue", capacity)>>),
      If(<<IsTrue("stopped")>>, <<Unlock("mutex"), Return>>, <<>>),
      PushBack("queue", value), Unlock("mutex"), NotifyOne("notEmpty")>>

BoundedPop(taken) ==
    <<Lock("mutex"), Wait("notEmpty", "mutex", <<IsTrue("stopped"), NonEmpty("queue")>>),
      If(<<NonEmpty("queue")>>, <<>>, <<Unlock("mutex"), Return>>),
      Take("queue", taken), Unlock("mutex"), NotifyOne("notFull")>>

BoundedStop ==
    Locked("mutex", <<Write("stopped", TRUE)>>) \o <<NotifyAll("notEmpty"), NotifyAll("notFull")>>

\* Four of the five items through a queue of two.
BoundedQueueDemo ==
    LET items == <<0, 1, 2, 3>>
        producer == BoundedPush(0, 2) \o BoundedPush(1, 2) \o BoundedPush(2, 2)
                    \o BoundedPush(3, 2)
    IN  Demo(BoundedQueue(2) @@ [popped |-> <<>>],
             <<Start(A :> producer @@ B :> Times(4, BoundedPop("popped"))), Join({A, B})>>
             \o BoundedStop,
             [popped : {items}],
             [queue |-> {<<>>, <<0>>, <<1>>, <<2>>, <<3>>, <<0, 1>>, <<1, 2>>, <<2, 3>>}],
             {})

-----------------------------------------------------------------------------
(* The demos of the condition variable itself *)

Ready == [m |-> {}, cv |-> Nothing, ready |-> FALSE, observed |-> Silent]

AwaitReady == <<Lock("m"), Wait("cv", "m", <<IsTrue("ready")>>), Note("observed"), Unlock("m")>>
SetReady   == Locked("m", <<Write("ready", TRUE)>>) \o <<NotifyOne("cv")>>

BasicWaitDemo ==
    Demo(Ready, <<Start(A :> AwaitReady)>> \o SetReady \o <<Join({A})>>,
         [observed : {{A}}], Nothing, {})

\* The notification comes before the thread that waits for it.
LostNotificationDemo ==
    Demo(Ready, SetReady \o <<Start(A :> AwaitReady), Join({A})>>,
         [observed : {{A}}], Nothing, {})

TimedWaitDemo ==
    Demo(Ready @@ [became |-> Silent, timedOut |-> Silent],
         <<Lock("m"), WaitFor("cv", "m", <<IsTrue("ready")>>, <<Note("became")>>,
                              <<Note("timedOut")>>), Unlock("m")>>,
         [became : {Silent}, timedOut : {{Main}}], Nothing, {})

ConditionProgram ==
    <<BasicWaitDemo, ProducerConsumerDemo, LostNotificationDemo, TimedWaitDemo,
      BoundedQueueDemo>>

=============================================================================
