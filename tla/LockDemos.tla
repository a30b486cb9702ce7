----------------------------- MODULE LockDemos -----------------------------
(***************************************************************************)
(* Threads that share variables under mutexes and semaphores: the demos of *)
(* deadlock_livelock_starvation.cpp, those with a thread or a mutex of     *)
(* concurrency_thread_mutex_atomic.cpp, semaphoreLimitDemo, and the guards *)
(* that an exception unwinds.                                              *)
(***************************************************************************)
EXTENDS StdSync

\* scoped_lock lock(first, second): std::lock takes them, the end of the
\* scope gives them back.
ScopedLock(first, second, ops) ==
    <<LockBoth(first, second)>> \o ops \o <<Unlock(first), Unlock(second)>>

-----------------------------------------------------------------------------
(* deadlock_livelock_starvation.cpp *)

ScopedLockDemo ==
    LET worker == Times(Rounds, ScopedLock("first", "second",
                                           <<Add("firstValue", 1), Add("secondValue", 1)>>))
    IN  Demo([first |-> {}, second |-> {}, firstValue |-> 0, secondValue |-> 0],
             <<Start([t \in {A, B} |-> worker]), Join({A, B}),
               Read("firstValue"), Read("secondValue")>>,
             [firstValue : {2 * Rounds}, secondValue : {2 * Rounds}],
             Nothing,
             {})

\* An account is a balance and a mutex.  Nothing moves if they are the same
\* or the balance is too small.
Transfer(from, to, amount) ==
    IF from = to THEN <<>>
    ELSE ScopedLock(from.mutex, to.mutex,
                    <<If(<<Less(from.balance, amount)>>, <<>>,
                         <<Add(from.balance, -amount), Add(to.balance, amount)>>)>>)

\* Each account begins with what its thread transfers to the other.
BankTransferDemo ==
    LET first  == [balance |-> "balance1", mutex |-> "mutex1"]
        second == [balance |-> "balance2", mutex |-> "mutex2"]
        worker(t) == Times(Rounds, IF t = A THEN Transfer(first, second, 1)
                                   ELSE Transfer(second, first, 1))
    IN  Demo([balance1 |-> Rounds, balance2 |-> Rounds, mutex1 |-> {}, mutex2 |-> {}],
             <<Start([t \in {A, B} |-> worker(t)]), Join({A, B}),
               Read("balance1"), Read("balance2")>>,
             [balance1 : {Rounds}, balance2 : {Rounds}],
             [balance1 |-> 0 .. 2 * Rounds, balance2 |-> 0 .. 2 * Rounds],
             {})

\* Five attempts with std::try_lock, a pause after each.
TryLockBackoffDemo ==
    LET acquired == <<Note("acquired"), Unlock("second"), Unlock("first"), Return>>
        worker[attempts \in 0 .. 5] ==
            IF attempts = 0 THEN <<Note("gaveUp")>>
            ELSE <<TryLockBoth("first", "second", acquired, worker[attempts - 1])>>
    IN  Demo([first |-> {}, second |-> {}, acquired |-> Silent, gaveUp |-> Silent],
             <<Start(A :> worker[5] @@ B :> worker[5]), Join({A, B})>>,
             {f \in [acquired : SUBSET {A, B}, gaveUp : SUBSET {A, B}] :
                 f.acquired # {} /\ f.gaveUp = {A, B} \ f.acquired},
             Nothing,
             {})

LockOrderProgram == <<ScopedLockDemo, BankTransferDemo, TryLockBackoffDemo>>

-----------------------------------------------------------------------------
(* concurrency_thread_mutex_atomic.cpp *)

BasicThreadDemo ==
    Demo([hello |-> Silent, joined |-> Silent],
         <<Start(A :> <<Note("hello")>>), Note("hello"), Join({A}), Note("joined")>>,
         [hello : {{Main, A}}],
         Nothing,
         {After("joined", "hello", {Main, A})})

\* The thread gets a copy of x, made before it starts.
ArgumentCopyDemo ==
    Demo([x |-> 10, value |-> 0],
         <<Copy("x", "value"), Start(A :> <<Add("value", 100)>>), Join({A}), Read("x")>>,
         [x : {10}, value : {110}],
         Nothing,
         {})

ArgumentReferenceDemo ==
    Demo([x |-> 10],
         <<Start(A :> <<Add("x", 100)>>), Join({A}), Read("x")>>,
         [x : {110}],
         Nothing,
         {})

MutexCounterDemo ==
    LET work == Times(Rounds, Locked("m", <<Add("counter", 1)>>))
    IN  Demo([counter |-> 0, m |-> {}],
             <<Start([t \in {A, B} |-> work]), Join({A, B}), Read("counter")>>,
             [counter : {2 * Rounds}],
             Nothing,
             {})

\* The guard gives the mutex back on the way from the throw to the handler.
LockGuardExceptionDemo ==
    Demo([m |-> {}, locked |-> Silent, caught |-> Silent],
         Locked("m", <<Note("locked")>>) \o <<Note("caught")>>,
         [m : {{}}, caught : {{Main}}],
         Nothing,
         {})

UniqueLockDemo ==
    Demo([m |-> {}], Locked("m", <<>>) \o Locked("m", <<>>), [m : {{}}], Nothing, {})

ScopedLockPairDemo ==
    LET work == Times(Rounds, ScopedLock("m1", "m2", <<Add("a", 1), Add("b", 1)>>))
    IN  Demo([m1 |-> {}, m2 |-> {}, a |-> 0, b |-> 0],
             <<Start([t \in {A, B} |-> work]), Join({A, B}), Read("a"), Read("b")>>,
             [a : {2 * Rounds}, b : {2 * Rounds}],
             Nothing,
             {})

\* Two of the five elements of each thread.
VectorPushMutexDemo ==
    LET work(base) == Locked("m", <<PushBack("values", base)>>)
                      \o Locked("m", <<PushBack("values", base + 1)>>)
    IN  Demo([values |-> <<>>, m |-> {}],
             <<Start(A :> work(100) @@ B :> work(200)), Join({A, B}), Read("values")>>,
             [values : {<<100, 101, 200, 201>>, <<100, 200, 101, 201>>, <<100, 200, 201, 101>>,
                        <<200, 201, 100, 101>>, <<200, 100, 201, 101>>, <<200, 100, 101, 201>>}],
             Nothing,
             {})

-----------------------------------------------------------------------------
(* semaphore_worker_thread_pool.cpp; its pool is the module SemaphorePool *)

\* Mutation of SemaphoreGuard: a guard without a name gives its permit back at
\* once.
TemporaryGuard(semaphore, ops) == <<Acquire(semaphore), Release(semaphore)>> \o ops

SemaphoreGuard(semaphore, ops) == <<Acquire(semaphore)>> \o ops \o <<Release(semaphore)>>

\* Four of the six threads, two slots.
SemaphoreLimitDemo ==
    LET workers == {A, B, C, D}
        work == SemaphoreGuard("slots", Locked("outputMutex", <<Add("active", 1)>>)
                                        \o Locked("outputMutex", <<Add("active", -1)>>))
    IN  Demo([slots |-> 2, outputMutex |-> {}, active |-> 0],
             <<Start([w \in workers |-> work]), Join(workers)>>,
             [slots : {2}, active : {0}],
             [active |-> 0 .. 2],
             {})

-----------------------------------------------------------------------------
(* raii_exception_safety.cpp, constructor_destructor_raii.cpp *)

LockGuardDemo ==
    Demo([m |-> {}, inside |-> Silent, caught |-> Silent],
         Locked("m", <<Note("inside")>>) \o <<Note("caught")>>,
         [m : {{}}, caught : {{Main}}],
         Nothing,
         {})

MutexRaiiDemo == Demo([m |-> {}], Locked("m", <<>>), [m : {{}}], Nothing, {})

=============================================================================
