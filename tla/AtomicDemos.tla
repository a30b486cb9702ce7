---------------------------- MODULE AtomicDemos ----------------------------
(***************************************************************************)
(* Threads that meet at atomics only: atomic_memory_order.cpp, the         *)
(* compare_exchange demos of lock_free_cas_aba.cpp, false_sharing.cpp and  *)
(* the atomic demos of concurrency_thread_mutex_atomic.cpp.                *)
(***************************************************************************)
EXTENDS StdSync

-----------------------------------------------------------------------------
(* atomic_memory_order.cpp *)

RelaxedCounterDemo ==
    LET worker == Times(Rounds, <<FetchAdd("counter", 1, "relaxed")>>)
    IN  Demo([counter |-> 0, printed |-> 0],
             <<Start([t \in {A, B} |-> worker]), Join({A, B}),
               Load("counter", "printed", "relaxed")>>,
             [printed : {2 * Rounds}],
             Nothing,
             {})

\* The payload is two ordinary variables, which only the order of the
\* operations on ready keeps from being a data race.
\* Mutation of Publish: the flag is stored with the order of a counter.
PublishRelaxed == <<Write("id", 42), Write("message", 1), Store("ready", TRUE, "relaxed")>>

Publish   == <<Write("id", 42), Write("message", 1), Store("ready", TRUE, "release")>>
Subscribe == <<SpinUntil("ready", TRUE, "acquire"), Read("id"), Read("message")>>

ReleaseAcquireDemo ==
    Demo([id |-> 0, message |-> 0, ready |-> FALSE],
         <<Start(A :> Publish @@ B :> Subscribe), Join({A, B})>>,
         [id : {42}, message : {1}],
         Nothing,
         {})

SequentialConsistencyDemo ==
    Demo([value |-> 0, observed |-> 0],
         <<Start(A :> <<Store("value", 10, "seq_cst")>> @@
                 B :> <<Load("value", "observed", "seq_cst")>>),
           Join({A, B})>>,
         [value : {10}, observed : {0, 10}],
         Nothing,
         {})

\* Twice from 0: the second finds 1.
CompareExchangeDemo ==
    LET exchange(desired, line) ==
            CompareExchange("state", "expected", "value", desired, "seq_cst",
                            <<Note(line)>>, <<>>)
    IN  Demo([state |-> 0, expected |-> 0, success |-> Silent, secondSuccess |-> Silent],
             <<exchange(1, "success"), Write("expected", 0), exchange(2, "secondSuccess")>>,
             [state : {1}, expected : {1}, success : {{Main}}, secondSuccess : {Silent}],
             Nothing,
             {})

\* current is the caller's variable, which a failed exchange brings up to date.
UpdateMax(maxValue, candidate, current) ==
    <<Load(maxValue, current, "relaxed"),
      ExchangeWhile(<<Less(current, candidate)>>, maxValue, current, "value", candidate,
                    "relaxed")>>

\* Four of the six candidates, the greatest neither first nor last.
CompareExchangeLoopDemo ==
    Demo([maximum |-> 0, currentA |-> 0, currentB |-> 0, currentC |-> 0, currentD |-> 0],
         <<Start(A :> UpdateMax("maximum", 20, "currentA") @@
                 B :> UpdateMax("maximum", 100, "currentB") @@
                 C :> UpdateMax("maximum", 45, "currentC") @@
                 D :> UpdateMax("maximum", 80, "currentD")),
           Join({A, B, C, D})>>,
         [maximum : {100}],
         Nothing,
         {})

AtomicWaitDemo ==
    Demo([ready |-> FALSE, data |-> 0, sees |-> Silent],
         <<Start(A :> <<WaitWhile("ready", FALSE, "acquire"), Read("data"), Note("sees")>> @@
                 B :> <<Write("data", 123), Store("ready", TRUE, "release"),
                        NotifyOne("ready")>>),
           Join({A, B})>>,
         [data : {123}, sees : {{A}}],
         Nothing,
         {})

CompoundInvariantWarningDemo ==
    Demo([accountBalance |-> 100, transactionCount |-> 0, balance |-> 0, count |-> 0],
         <<Load("accountBalance", "balance", "seq_cst"),
           Load("transactionCount", "count", "seq_cst")>>,
         [balance : {100}, count : {0}],
         Nothing,
         {})

AtomicProgram ==
    <<RelaxedCounterDemo, ReleaseAcquireDemo, SequentialConsistencyDemo,
      CompareExchangeDemo, CompareExchangeLoopDemo, AtomicWaitDemo,
      CompoundInvariantWarningDemo>>

-----------------------------------------------------------------------------
(* lock_free_cas_aba.cpp; its stack is the module DemoLockFreeStack *)

\* The first exchange fails and learns the value the second one needs.
CompareExchangeBasicDemo ==
    LET exchange(line) ==
            CompareExchange("state", "expected", "value", 10, "seq_cst",
                            <<Note(line)>>, <<>>)
    IN  Demo([state |-> 5, expected |-> 0, firstSuccess |-> Silent, secondSuccess |-> Silent],
             <<exchange("firstSuccess"), exchange("secondSuccess")>>,
             [state : {10}, expected : {5}, firstSuccess : {Silent}, secondSuccess : {{Main}}],
             Nothing,
             {})

CasIncrementDemo ==
    LET current(t) == IF t = A THEN "current1" ELSE "current2"
        increment(t) ==
            Times(Rounds, <<Load("counter", current(t), "relaxed"),
                            ExchangeWhile(<<Always>>, "counter", current(t), "plus", 1,
                                          "relaxed")>>)
    IN  Demo([counter |-> 0, current1 |-> 0, current2 |-> 0],
             <<Start([t \in {A, B} |-> increment(t)]), Join({A, B})>>,
             [counter : {2 * Rounds}],
             Nothing,
             {})

CasProgram == <<CompareExchangeBasicDemo, CasIncrementDemo>>

-----------------------------------------------------------------------------
(* false_sharing.cpp: where the counters lie does not change what they count *)

TwoCounters ==
    LET counter(t) == IF t = A THEN "first" ELSE "second"
        count(t) == Times(Rounds, <<FetchAdd(counter(t), 1, "relaxed")>>)
    IN  Demo([first |-> 0, second |-> 0, printed1 |-> 0, printed2 |-> 0],
             <<Start([t \in {A, B} |-> count(t)]), Join({A, B}),
               Load("first", "printed1", "seq_cst"), Load("second", "printed2", "seq_cst")>>,
             [printed1 : {Rounds}, printed2 : {Rounds}],
             Nothing,
             {})

FalseSharingDemo  == TwoCounters
PaddedCounterDemo == TwoCounters

-----------------------------------------------------------------------------
(* concurrency_thread_mutex_atomic.cpp *)

AtomicCounterDemo ==
    LET work == Times(Rounds, <<FetchAdd("counter", 1, "seq_cst")>>)
    IN  Demo([counter |-> 0, printed |-> 0],
             <<Start([t \in {A, B} |-> work]), Join({A, B}),
               Load("counter", "printed", "seq_cst")>>,
             [printed : {2 * Rounds}],
             Nothing,
             {})

AtomicFlagDemo ==
    Demo([stop |-> FALSE, observed |-> Silent, stopped |-> Silent],
         <<Start(A :> <<SpinUntil("stop", TRUE, "seq_cst"), Note("observed")>>),
           Store("stop", TRUE, "seq_cst"), Join({A}), Note("stopped")>>,
         [observed : {{A}}],
         Nothing,
         {After("stopped", "observed", {A})})

=============================================================================
