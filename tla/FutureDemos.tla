---------------------------- MODULE FutureDemos ----------------------------
(***************************************************************************)
(* future_promise_async.cpp: one result handed from a thread to another    *)
(* through a promise, a packaged task or async.                            *)
(***************************************************************************)
EXTENDS StdSync

\* Outcomes that are exceptions, thrown where the future is asked.
Failed == -1
Broken == -2

\* A thread that owns its promise destroys it at the end.
Owning(p, ops) == ops \o <<DestroyPromise(p, Broken)>>

PromiseWorker(p, x) == Owning(p, <<Fulfil(p, x * 2)>>)

BasicPromiseFutureDemo ==
    Demo([promise |-> <<>>, future |-> "promise", result |-> 0],
         <<Start(A :> PromiseWorker("promise", 21)), Get("future", "result"), Join({A})>>,
         [result : {42}],
         Nothing,
         {})

PromiseExceptionWorker(p) == Owning(p, <<Fulfil(p, Failed)>>)

PromiseExceptionDemo ==
    Demo([promise |-> <<>>, future |-> "promise", result |-> 0],
         <<Start(A :> PromiseExceptionWorker("promise")), Get("future", "result"), Join({A})>>,
         [result : {Failed}],
         Nothing,
         {})

\* The promise goes out of scope without an outcome.
BrokenPromiseDemo ==
    Demo([promise |-> <<>>, future |-> "promise", result |-> 0],
         Owning("promise", <<>>) \o <<Get("future", "result")>>,
         [result : {Broken}],
         Nothing,
         {})

\* async(launch::async, ...): a thread that the future joins.
Async(t, ops)          == Start(t :> ops)
GetAsync(f, into, t)   == <<Get(f, into), Join({t})>>

Calculate(p, x) == <<Fulfil(p, x * x)>>

AsyncDemo ==
    Demo([state |-> <<>>, future |-> "state", result |-> 0],
         <<Async(A, Calculate("state", 12))>> \o GetAsync("future", "result", A),
         [result : {144}],
         Nothing,
         {})

\* launch::deferred: get() runs the callable, in the thread that asks.
DeferredDemo ==
    Demo([state |-> <<>>, future |-> "state", result |-> 0, ran |-> Silent],
         <<If(<<IsNot("future", NoState)>>, <<Note("ran"), Fulfil("state", 1)>>, <<>>),
           Get("future", "result")>>,
         [ran : {{Main}}, result : {1}],
         Nothing,
         {})

AsyncExceptionDemo ==
    Demo([state |-> <<>>, future |-> "state", result |-> 0],
         <<Async(A, <<Fulfil("state", Failed)>>)>> \o GetAsync("future", "result", A),
         [result : {Failed}],
         Nothing,
         {})

\* valid() is whether the future still has a state.
FutureValidDemo ==
    LET valid(line) == If(<<IsNot("future", NoState)>>, <<Note(line)>>, <<>>)
    IN  Demo([state |-> <<>>, future |-> "state", result |-> 0, validBefore |-> Silent,
              validAfter |-> Silent],
             <<Async(A, <<Fulfil("state", 42)>>), valid("validBefore")>>
             \o GetAsync("future", "result", A) \o <<valid("validAfter")>>,
             [validBefore : {{Main}}, result : {42}, validAfter : {Silent}],
             Nothing,
             {})

\* Each consumer has a copy of the shared future.
SharedFutureDemo ==
    Demo([promise |-> <<>>, future1 |-> "promise", future2 |-> "promise",
          result1 |-> 0, result2 |-> 0],
         <<Start(A :> <<GetShared("future1", "result1")>> @@
                 B :> <<GetShared("future2", "result2")>>),
           Fulfil("promise", 99), Join({A, B})>>,
         [result1 : {99}, result2 : {99}],
         Nothing,
         {})

PackagedTaskDemo ==
    Demo([task |-> <<>>, future |-> "task", result |-> 0],
         <<Start(A :> Owning("task", <<Fulfil("task", 10 + 20)>>)),
           Get("future", "result"), Join({A})>>,
         [result : {30}],
         Nothing,
         {})

\* The result may come before the time is over or after it.
WaitForDemo ==
    Demo([state |-> <<>>, future |-> "state", result |-> 0, ready |-> Silent,
          timeout |-> Silent],
         <<Async(A, <<Fulfil("state", 7)>>),
           WaitReady("future", <<Note("ready")>>, <<Note("timeout")>>)>>
         \o GetAsync("future", "result", A),
         {[result |-> 7, ready |-> {Main}, timeout |-> Silent],
          [result |-> 7, ready |-> Silent, timeout |-> {Main}]},
         Nothing,
         {})

AsyncTemporaryWarningDemo ==
    Demo([state1 |-> <<>>, state2 |-> <<>>, first |-> "state1", second |-> "state2",
          unit1 |-> 0, unit2 |-> 0],
         <<Async(A, <<Fulfil("state1", 1)>>), Async(B, <<Fulfil("state2", 1)>>)>>
         \o GetAsync("first", "unit1", A) \o GetAsync("second", "unit2", B),
         [unit1 : {1}, unit2 : {1}],
         Nothing,
         {})

FutureProgram ==
    <<BasicPromiseFutureDemo, PromiseExceptionDemo, BrokenPromiseDemo, AsyncDemo,
     DeferredDemo, AsyncExceptionDemo, FutureValidDemo, SharedFutureDemo,
     PackagedTaskDemo, WaitForDemo, AsyncTemporaryWarningDemo>>

=============================================================================
