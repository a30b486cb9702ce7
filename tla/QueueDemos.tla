----------------------------- MODULE QueueDemos -----------------------------
(***************************************************************************)
(* The demo functions of code_traps/bounded_blocking_queue.cpp as programs *)
(* that run on the queue: each thread calls its methods in order, and a    *)
(* "drain" is the loop  while (queue.pop(value)).  The numbers of items    *)
(* and the capacities are scaled down; a demo that fills its queue fills   *)
(* it here too.  Joining a thread is waiting for its script to be empty.   *)
(***************************************************************************)
EXTENDS BoundedBlockingQueue, SequencesExt

CONSTANTS Main, Worker1, Worker2

\* The queue of a demo: its threads, and the numbers it pushes.
DemoThreads == /\ Threads = {Main, Worker1, Worker2}
               /\ Main # Worker1 /\ Main # Worker2 /\ Worker1 # Worker2
               /\ Values = 1 .. Capacity + 1

VARIABLES demo,     (* the demo function that runs                          *)
          script,   (* what each thread has still to do                     *)
          accepted, (* the items whose push returned true, in that order    *)
          taken     (* what each thread's pops have given it                *)

demoVars == <<vars, demo, script, accepted, taken>>

-----------------------------------------------------------------------------
Step(method, v) == [method |-> method, item |-> v]
Do(method) == <<Step(method, NoValue)>>

\* Calls of one method with the items 1, 2, ... n.
Repeat(method, n) == [i \in 1 .. n |-> Step(method, i)]

Script(main, worker1, worker2) ==
    [t \in Threads |-> CASE t = Main    -> main
                        [] t = Worker1 -> worker1
                        [] t = Worker2 -> worker2]

basicProducerConsumerDemo ==
    Script(<<>>, Repeat("push", Capacity + 1) \o Do("close"), Do("drain"))

multipleWorkersDemo ==
    Script(Repeat("push", Capacity + 1) \o Do("close"), Do("drain"), Do("drain"))

tryPushDemo ==
    Script(Repeat("tryPush", Capacity + 1) \o Do("close") \o Do("drain"), <<>>, <<>>)

timedPushDemo ==
    Script(Repeat("push", Capacity) \o <<Step("pushFor", Capacity + 1)>>
               \o Do("close") \o Do("drain"), <<>>, <<>>)

closeWakesWaitersDemo == Script(Do("close"), Do("pop"), <<>>)

gracefulDrainDemo ==
    Script(Repeat("push", Capacity) \o Do("close") \o Do("drain"), <<>>, <<>>)

Demos == [basicProducerConsumer |-> basicProducerConsumerDemo,
          multipleWorkers       |-> multipleWorkersDemo,
          tryPush               |-> tryPushDemo,
          timedPush             |-> timedPushDemo,
          closeWakesWaiters     |-> closeWakesWaitersDemo,
          gracefulDrain         |-> gracefulDrainDemo]

DemoInit == /\ Init
            /\ demo \in DOMAIN Demos
            /\ script = Demos[demo]
            /\ accepted = <<>>
            /\ taken = [t \in Threads |-> <<>>]

-----------------------------------------------------------------------------
Now(t) == Head(script[t])

\* The next call of thread t.
Begin(t) ==
    /\ script[t] # <<>>
    /\ CASE Now(t).method = "push"             -> Push(t, Now(t).item)
         [] Now(t).method = "tryPush"          -> TryPush(t, Now(t).item)
         [] Now(t).method = "pushFor"          -> PushFor(t, Now(t).item)
         [] Now(t).method \in {"pop", "drain"} -> Pop(t)
         [] Now(t).method = "close"            -> Close(t)

\* A call that returns ends its step of the script; a drain goes on until a
\* pop returns false.
Advance(t) ==
    script' = IF pc'[t] # "idle" \/ (Now(t).method = "drain" /\ result'[t])
              THEN script
              ELSE [script EXCEPT ![t] = Tail(@)]

\* What the thread sees when its call returns.
Observe(t) ==
    LET returned == pc'[t] = "idle" /\ result'[t]
    IN  /\ accepted' = IF returned /\ Now(t).method \in {"push", "tryPush", "pushFor"}
                       THEN Append(accepted, Now(t).item) ELSE accepted
        /\ taken' = IF returned /\ Now(t).method \in {"pop", "drain"}
                    THEN [taken EXCEPT ![t] = Append(@, value[t])] ELSE taken

Run(t) == /\ Begin(t) \/ Continue(t)
          /\ Advance(t)
          /\ Observe(t)
          /\ UNCHANGED demo

\* A sleeping thread, released by the clock or by nobody.
Wake(t) == /\ PushForExpire(t) \/ SpuriousWakeup(t)
           /\ UNCHANGED <<demo, script, accepted, taken>>

Finished == \A t \in Threads : script[t] = <<>>

DemoNext == \/ \E t \in Threads : Run(t) \/ Wake(t)
            \/ Finished /\ UNCHANGED demoVars

\* Every demo thread runs on until it is done.
DemoSpec == /\ DemoInit /\ [][DemoNext]_demoVars
            /\ \A t \in Threads : /\ WF_demoVars(Run(t))
                                  /\ WF_demoVars(PushForExpire(t) /\ Wake(t))

-----------------------------------------------------------------------------
(* Properties *)

\* "consumer observed closed and empty queue", "worker exiting", and every
\* join: no demo hangs, whichever of its threads is ahead.
DemosFinish == <>Finished

\* No item is lost and none is handed out twice, between a producer and two
\* workers that race in pop: an item a push has returned true for is in the
\* queue, on its way out of a pop, or with exactly one thread, once.
Delivered == UNION {{<<t, i>> : i \in DOMAIN taken[t]} : t \in Threads}
CopiesOf(v) ==
    Cardinality({i \in DOMAIN queue : queue[i] = v})
    + Cardinality({t \in Threads : pc[t] = "notifyNotFull" /\ value[t] = v})
    + Cardinality({d \in Delivered : taken[d[1]][d[2]] = v})
ExactlyOnce == \A v \in Values : /\ CopiesOf(v) <= 1
                                 /\ v \in ToSet(accepted) => CopiesOf(v) = 1

\* FIFO as the consumers see it: there is one producer in every demo, so each
\* thread gets its items in the order of their numbers.
TakenInOrder == \A t \in Threads : \A i, j \in DOMAIN taken[t] :
                    i < j => taken[t][i] < taken[t][j]

\* "queue now closed and empty": after the joins everything accepted has been
\* popped, and the accepted items are those the demo prints as accepted: the
\* third tryPush of two and the timed push at a full queue are rejected.
DrainedAsPrinted ==
    Finished =>
        /\ queue = <<>>
        /\ ToSet(accepted) = {taken[d[1]][d[2]] : d \in Delivered}
        /\ Len(accepted) = CASE demo = "closeWakesWaiters" -> 0
                             [] demo \in {"tryPush", "timedPush", "gracefulDrain"} -> Capacity
                             [] OTHER -> Capacity + 1

=============================================================================
