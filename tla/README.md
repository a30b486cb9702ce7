# modern-cpp-review: verification project

`modern-cpp-review` is a collection of 44 C++ programs (`code_traps/`) with notes
(`cheat_sheet/`). Most programs show one language feature and print what happens.
About a dozen hold small concurrent components: bounded queues, thread pools, a
work-stealing scheduler, a cancellable worker, a lock-free stack, caches behind
reader-writer locks. Those components are the repository's core logic, and what makes
them hard is the same everywhere: threads that interleave between an unlock and a
notification, deadlines that race wakeups, shutdown that races submission, and state
that is read at one moment and used at another. This directory models them in TLA+,
checks the models with TLC, and proves the central ones with TLAPS.

In the text below, file names such as `bounded_blocking_queue.cpp` are files of
`src/code_traps/`.

## Inventory

| Component | State | Operations | Hard behaviour | What makes it correct |
|---|---|---|---|---|
| `BoundedBlockingQueue` (`bounded_blocking_queue.cpp`) | `queue_`, `closed_`, mutex, two condition variables | `push`, `tryPush`, `pushFor`, `pop`, `close` | notify after unlock, barging, deadline against notification, close against blocked calls | capacity, no lost wakeup, FIFO, a closed queue drains, every call returns after close |
| `WorkStealingPool` (`work_stealing_scheduler.cpp`) | a deque per worker, global queue, `stopping_`, `outstandingTasks_` | `submit`, `popLocal`, `popGlobal`, `stealTask`, `runTask`, `waitUntilIdle`, `shutdown` | owner against thief, nested submission, completion counter, submit against shutdown, notification without the mutex | each accepted task runs once, idle means done, shutdown drains |
| `ThreadPool` with futures (`thread_pool_future_shutdown.cpp`) | `tasks_`, `stopping_`, mutex, condition variable, one future per task | `submit`, `get`, `shutdown`, worker loop | nested submission and `get` in a task, exceptions, shutdown with queued tasks | every future handed out gets ready, nothing is accepted after shutdown |
| `CancellableQueueWorker` (`jthread_stop_token_cancellation.cpp`) | `tasks_`, mutex, condition variable, stop state of a `jthread` | `submit`, `requestStop`, destructor, `run` | the stop state is not under the mutex; the callback runs in the requesting thread | the worker drains, then ends; the destructor returns |
| `DemoLockFreeStack` (`lock_free_cas_aba.cpp`) | `head_`, nodes, `allocatedNodes_` | `push`, `pop`, destructor | CAS loops, stale `next`, ABA, an unprotected vector | linearizability, every node freed once |
| `ThreadPool`, `SemaphoreGuard` (`semaphore_worker_thread_pool.cpp`) | `tasks_`, `stopped_`, mutex, condition variable; a counting semaphore | `submit`, `stop`, acquire and release in a guard | permits held by pool tasks, two clients that stop | bounded concurrency, permits come back, `stop` drains |
| `BlockingQueue`, `BoundedQueue` (`condition_variable_producer_consumer.cpp`) | queue, `stopped_` | `push`, `pop`, `stop` | as the bounded queue; a notification before the wait | as the bounded queue |
| locks (`deadlock_livelock_starvation.cpp`) | two accounts, two mutexes | `transfer`, bounded `try_lock` retry | opposite lock orders, both give up | no deadlock, the sum is kept, one gets both locks |
| phases (`latch_barrier_phase_sync.cpp`) | latch and barrier counts | `arrive_and_wait`, `arrive_and_drop`, completion | a participant that leaves; results read before any join | nobody is a phase ahead, no data race |
| caches (`shared_mutex_reader_writer_lock.cpp`) | map behind a `shared_mutex` | `get`, `put`, `erase`, `getOrCompute` | read lock released, then write lock | one value per key |
| once (`call_once_thread_local.cpp`) | `once_flag`, a local static, thread-local variables | `call_once` | the initialiser throws | it succeeds once, all wait for it |
| atomics (`atomic_memory_order.cpp`, `lock_free_cas_aba.cpp`, `false_sharing.cpp`, `concurrency_thread_mutex_atomic.cpp`) | counters, a flag, a maximum | CAS loops, publication, `wait` | lost updates, an order too weak | the maximum, the sum, no data race on what is published |
| futures (`future_promise_async.cpp`) | one shared state each | `set_value`, `set_exception`, `get`, `wait_for` | a promise destroyed without a value | the outcome arrives, whatever it is |
| stop tokens (`jthread_stop_token_cancellation.cpp`) | a stop state, its callbacks | `request_stop`, `stop_callback`, destructor of `jthread` | a callback registered around the request | it runs once and before the join returns |
| containers (`generic_container_*.cpp`) | storage, size, capacity | `push_back`, `grow`, copy, move, `clear` | an exception half-way | each object is constructed and destroyed once, a call that throws changes no element, as far as the elements' type allows |
| ownership and guards (`raii_exception_safety.cpp`, `constructor_destructor_raii.cpp`, `shared_ptr_control_block.cpp`, `smart_pointers*.cpp`, `rule_of_three_five_zero.cpp`) | a mutex in a guard; library reference counts | copy, move, reset | exceptions | released once |
| language-feature demos (21 files) | none that lasts | none | none | not modelled |

`README.md` of the repository also names `practice/` and `interview_answers/`; they are
not in it.

The components do not call each other: each program has its own. What they share is the
shape of a queue behind a mutex and a condition variable, and a pool of workers around it.
Within a program the demo functions are the clients.

## Modules

| Module | What it is |
|---|---|
| `BoundedChannel` | abstract: a bounded FIFO with calls that wait, time out or are answered; no mutex, no waiters, no notifications |
| `BoundedBlockingQueue` | the queue's methods, step by step; implements `BoundedChannel` |
| `QueueDemos` | extends it: the six demo functions of the file as programs that call the queue |
| `BoundedBlockingQueueProofs` | theorems about `BoundedBlockingQueue`, and about `QueueDemos` for queues of any capacity |
| `TaskPool` | abstract: each task is accepted or refused, runs once, and a pool that closes is joined when all have ended |
| `WorkStealingPool`, `ThreadPool` | the two pools; both implement `TaskPool` |
| `WorkStealingPoolProofs`, `ThreadPoolProofs` | theorems about them, and that they implement the safety part of `TaskPool` |
| `CancellableQueueWorker` | the `jthread` worker with its stop request |
| `CancellableQueueWorkerProofs` | theorems about it |
| `AtomicStack` | abstract: push and pop at once |
| `DemoLockFreeStack` | the stack, one step per shared access; implements `AtomicStack` |
| `DemoLockFreeStackProofs` | theorems about it, and that it implements `AtomicStack` |
| `SemaphorePool` | the pool of the semaphore file and the semaphore its tasks share; implements `TaskPool` |
| `SemaphorePoolProofs` | theorems about `SemaphorePool` |
| `StdSync` | the standard library's threads and synchronisation, as a machine that runs programs |
| `PhaseDemos`, `OnceDemos`, `FutureDemos`, `AtomicDemos`, `LockDemos`, `CacheDemos`, `StopDemos`, `ConditionDemos` | programs for that machine: the demo functions of the concurrent files, and the small classes they use |
| `SyncDemos` | runs every one of those programs and states their properties |
| `SyncDemosProofs` | theorems about the ten of them that loop, for any number of rounds |
| `VectorValues` | abstract: a vector is the sequence of its elements; a call takes effect as a whole, or throws and takes none |
| `SimpleVector` | storage, objects and every construction of them; implements `VectorValues` |
| `SimpleVectorProofs` | theorems about `SimpleVector`, and that it implements `VectorValues` |
| `*MC` | constants for TLC |

Definitions whose comment begins "Mutation of" are variants of the definition they name,
each with one mistake a change to the code might make. No specification uses them; they
serve to see that a property fails when the code is wrong.

### Steps and atomicity

A critical section is one step: what it reads and writes is touched only under its mutex.
A condition variable's wait evaluates the predicate, joins the waiters and frees the mutex
in that same step; afterwards the thread is *blocked* until a notification, a spurious
wakeup or a deadline makes it *awake*, and then it competes for the mutex like any other
thread. What the code does after the unlock (a notification, a join) is a step of its
own. Where the code leaves the mutex out, the models have more steps: the atomics of
`WorkStealingPool` are read and written one by one, the predicate of its wait and the sleep
are two steps, and so are the test and the sleep in `CancellableQueueWorker`, whose stop request
needs no mutex. In `DemoLockFreeStack` every shared access is a step, and the two halves of the
unprotected `push_back` as well: its data race is modelled by the updates it can lose and, where a call
writes outside the vector's storage, by the fact that it does (`stray`).
Values are those of an interleaving (sequential consistency) in every model; what weaker memory
orders leave unordered is the subject of `StdSync`, for the demo programs. The stack's model does not see
that a failed CAS of `pop` loads the head `relaxed` (line 132) and that `oldHead->next` is then read without an
acquire.

### `BoundedBlockingQueue`

`queue`, `closed` are the members; `pc[t]` says where thread t is in a method, `value[t]` what
a waiting push carries or a pop has taken, `result[t]` what the latest call returned.
`Push`, `TryPush`, `PushFor`, `Pop`, `Close` are the first critical sections of the methods;
`PushResume`, `PushForResume`, `PopResume` the later ones, after a wakeup; `PushForExpire` is the
deadline, and `PushForLastTry` the last evaluation of the predicate in `wait_for`.
`PushNotify`, `PopNotify`, `CloseNotifyNotEmpty`, `CloseNotifyNotFull` are the notifications.
`Calls[t]` says which methods the program of thread t uses.

### `WorkStealingPool`

`local`, `globalQueue`, `stopping`, `outstanding` are the members; `pc[w]`, `task[w]` the worker's place
in its loop and its task; `submit[t]` the place inside `submit()`; `todo[t]` what thread t (a
client, or a worker for the task it runs) has still to submit; `cpc[c]` the client's place in
`waitUntilIdle` and `shutdown`. A thief's random victims may all be poor choices and its
`try_lock` may fail, so `StealTask` may always give up. A task may throw at any point between
its submissions. `Closers` are the clients that call `shutdown` (one of them as the
destructor); `LateSubmits` says whether they may do so while another client is inside
`submit()`.

### `ThreadPool`

`queue` and `stopping` are the members; threads run scripts of `submit`, `get` and `shutdown`: a
client's is one of `Scripts`, a worker's is the body of its task. `call[t]` is what a call has
still to do after its critical section. A future is ready when its task has ended, by a
value or an exception.

### `CancellableQueueWorker`

`queue` is `tasks_`; `stopped` and `registered` are the stop state; `call[c]` lists what client c's call
has still to do: run the callback, notify, join. The destructor of the `stop_callback`
waits for a callback that is running (`Return`). `late` remembers which tasks came after the
stop request, `processed` which were taken.

### `DemoLockFreeStack`

`head` and `next` are the stack and its nodes; `allocated` (the cells of the storage), `storage` (how often it was
reallocated) and `size` are the vector of nodes; `node`, `seen`, `place` are the
locals of `push` and `pop`. `AllocateAt` reads the vector: the position behind its elements, and whether there is
room (`Position`). `Record` goes on from there, at the position it has read or at the one it finds by then:
it writes one cell (`Write`) or, if there was no room, doubles the storage (`Reallocate`). If the position is no longer in
the vector's storage, because of a reallocation or because another thread has taken the last cell, the behaviour is
undefined and `stray` becomes true. From then on the vector is not followed, and what else the stray write has
destroyed is left open: what is said about the list holds as long as it does not hit the list's nodes. A node stands for its value. `List` follows the nodes from the
head and is the contents of the abstract stack. `Nodes` bounds the number of pushes: one that finds no
node left does not begin, and in the runs there is a node for each push of the programs.

### `SemaphorePool`

`queue`, `stopped` are the members, `permits` and `active` the semaphore and the counter of
`workerPlusResourceLimitDemo`; `pc[w]` is the worker's place in `workerLoop` or in its task, `script[c]` what
client c has still to call and `call[c]` what its call has still to do. A task in `Guarded` constructs its
`SemaphoreGuard` (`Acquire`), counts itself in (`Enter`) and out (`Leave`) under the output mutex, and
destroys the guard (`Release`); another only prints (`Run`).

### `StdSync` and the demo programs

Nearly all concurrent files consist of short functions over library objects. Rather than a
module for each, `StdSync` models the library once: `code[t]` is the list of operations thread t
has still to do, `mem[x]` the value of each object, `asleep[t]` what a thread waits to be notified of.
Each operation is one action that says what the library does: a mutex is the set of its
holders; `std::lock` takes one mutex, tries the other and backs off; a barrier counts the participants that are still
expected and runs its completion step in the last arriver; a `once_flag` is new, running or done, and a
throw makes it new; a stop request runs the callbacks in the thread that asks. It is not code of the
repository, and `PROJECT.json` marks its definitions external. The demo modules are: a demo function is
translated to a *program*, a record with its objects and their initial values, the operations of
main and of the threads it starts, and what the demo says of itself: the values its output
claims (`final`), what holds at all times (`always`), and which line of output must wait
for which (`gates`). `After("together", "reached", workers)` says that nobody prints "together" before all
have printed "reached". A class of the file, such as `LazyCache`, is an operator for each method.

Besides the values, `hb` keeps the happens-before relation of C++: `known[t]` are the accesses to ordinary variables
that happen before what thread t does next, `shown[o]` those a thread learns of when it synchronises with
object o (unlock and lock, `count_down` and `wait`, `set_value` and `get`, a release store and an acquire load,
start and join). Two accesses to a variable, a write among them, of which the second does not know
the first, are a data race whatever values they saw; `hb.races` collects them. So a `memory_order_relaxed` in
the place of a release shows as a race on the payload, although no model here has a store
buffer: a stale value could only be read where an order is missing, and then there is a race, or by
a relaxed load of an atomic itself, on which no demo's output depends.

### `SimpleVector`

`store.heap[b]` are the cells of a block, raw or with an object; `vec[v]` is the triple of `data_`, `size_`, `capacity_`;
`call` is the call under way, `pc` its place, `block` and `constructed` its locals. Every construction
and every allocation may throw, except a move that is noexcept. `T` is what the compiler knows of the element type: whether it
can be copied, and whether its move is noexcept. `move_if_noexcept` copies only a `T` that can be copied and may throw when
moved (`MoveIfNoexcept`). A `T` that cannot be copied and may throw is moved anyway, and a `grow()` that
fails leaves the first elements of the vector emptied: there the strong guarantee cannot be given
(`cheat_sheet/21_generic_container_rule_of_five_exception_safety.md`, lines 361 to 370), and `VectorValues` promises only that nothing else has changed (`Strong`, `Emptied`).
Calls that copy are made only of a `T` that can be copied. `store.sound` gets lost with a construction over an object, a
destruction or reading of what is none, an access outside a block, a deallocation with objects left or
with the wrong size. The vectors' elements between two calls (`seen`) are the abstract `contents`.

## Runs

| Run | Bounds | What it shows |
|---|---|---|
| `bounded_queue` | 4 threads, capacity 2, one value | calls go on for ever. Two pushers can wait, one of them with a deadline, while a third thread barges in with `tryPush`; two poppers can wait; two calls of `close`. Types and who holds an item; capacity; no lost wakeup; a closed queue only drains; after close every call returns; `pushFor` returns; implementation of `BoundedChannel` with its liveness |
| `queue_demos` | the six demos, capacity 2, three items | each item is delivered once, in order; the printed numbers; every demo ends |
| `thread_pool` | 2 workers, 2 clients, 3 tasks, four pairs of scripts | no worker sleeps on a task; a stopping pool accepts nothing; futures are ready when the workers have ended; every script ends; implementation of `TaskPool` |
| `work_stealing` | 2 workers, 2 clients, a parent with two children and an external task | a task is in one place; the counter counts; idle means done; implementation of `TaskPool` with its liveness |
| `work_stealing_late_submit` | the same | **violated**, see Findings |
| `queue_worker` | 2 clients, 3 tasks, four pairs of scripts | no task is slept on; what came before the stop is processed; a worker asleep at the stop ends; tasks are taken without any stop |
| `queue_worker_stop` | the same | **violated**, see Findings |
| `lock_free_stack` | 3 threads, 4 nodes | implementation of `AtomicStack`; the loops end |
| `lock_free_stack_nodes` | the demo's two producers, three pushes and two | **violated**, see Findings |
| `sync_demos` | the demo programs one by one, five threads, loops of `Rounds` = 2 | no data race; the printed results; limits at all times; no line too early; every demo ends, and none deadlocks |
| `semaphore_pool` | 3 workers, 2 slots, 2 clients, up to 3 tasks, three pairs of scripts | types and which worker has a task; slots are never exceeded and all permits come back; implementation of `TaskPool` with its liveness |
| `simple_vector` | 2 vectors and a temporary, 2 values, up to 3 elements, 3 blocks | for each of the four kinds of element type: objects and storage are accounted for; implementation of `VectorValues`: the strong guarantee where the type allows it, and what is noexcept does not throw |

Why the bounds are enough for what they are to show. The queue needs two waiters on one
condition variable for `notify_one` to have a choice, one thread that barges in, and a
capacity above one so that two slots can be free at once while two wait; values do not
influence the control flow, so one is enough, and order and identity of items are checked in
`queue_demos`. The work-stealing deque needs two elements for owner and thief to be at
different ends and one for them to meet. The thread pool needs a second worker for nesting, and a
task more than workers. ABA needs a node to leave the head and come back while a pop
is between its read and its CAS: a thread that pushes twice, pops twice and pushes again. The vector of nodes grows
to one, two and four, so the fourth and the fifth push find room in it, and there one can overwrite the other. No
run has a counter that is cut off; programs are finite, except in `bounded_queue`,
where the state space is finite by itself.

In `sync_demos` some demos are smaller than in the code, so that all interleavings can be explored: the loops
of 100 to 50000000 rounds have two (two rounds of two threads contain every way in which two
updates can overlap); `callOnceBasicDemo` and `semaphoreLimitDemo` have four of their five and six threads,
which is still two more than the semaphore has slots; `cacheDemo` has two of its four readers, who are alike;
`producerConsumerDemo` has three of its ten items, two of one producer and one of the other, so that
order within a producer and a race between them both occur; `boundedQueueDemo` four of five, twice the capacity;
`compareExchangeLoopDemo` four of six candidates, with the greatest neither first nor last; `vectorPushMutexDemo` two of each
thread's five elements. In `semaphore_pool` one worker and one task more than slots must wait; in
`simple_vector` three elements make a vector grow with none, with one and with two objects in it, of which the second
may fail, and three blocks are what two vectors and a grow or a temporary can hold.

Deadlock is checked in every run; the programs that end have a `Terminated` or `Finished` step that
leaves everything as it is.

### Fairness

Weak fairness of each thread's own next step inside a call: the operating system runs
every thread that can run, and a mutex is not kept by anyone for ever. In `BoundedBlockingQueue` a thread
need not call anything, so calls are not fair; its liveness properties speak about calls
under way. `PushForExpire` and `WaitTimeout` are weakly fair because time passes. Spurious
wakeups, exceptions and the thief's failures are possible and never assumed. In the
pools, clients do reach the end of their scripts' next call, as the demo functions do.
`BoundedChannel` asks for less: some waiting push completes if one can, not a chosen one; the
code does not order its waiters, and a pusher may starve.

`SyncDemos` asks for little: while some thread can go on, one of them does, whichever it is. That is enough because
each demo is finite, except where a thread polls: a polling loop is one operation that is enabled when its
condition holds, so nothing is gained by polling. Spurious wakeups may happen at any time but only
finitely often (`<>[][code' # code]_vars`: from some time on every step is a step of a program), since a
thread that is woken for ever without cause makes no progress and the standard rules out no such
implementation; real ones wake seldom. A call of `SimpleVector` that has begun goes on.

## Proofs

`BoundedBlockingQueueProofs` proves, for any finite set of threads, any values and any positive
capacity (assumptions `CapacityAssumption`, `ThreadsAssumption`, `CallsAssumption`, `NoValueAssumption`: the constructor
throws on capacity 0):

* `TypeCorrect`: `TypeOK` is invariant. It is inductive by itself.
* `CapacityHolds`: `CapacityRespected`, inductive relative to `TypeOK`; every insertion is guarded by `Room`
  in the same critical section, also after a wakeup and after a deadline.
* `WakeupsHold`: `NoLostWakeup`. The two counting invariants say that while somebody waits for a
  slot (an item), the free slots (items) are at most the threads that signal one or were
  woken for one. `Covered(f, W, S, d)` is that statement for any program counter f; each step
  moves one thread (`MoveOne`, `MoveKeepsCovered`), hands a signal from the notifier to the woken thread
  (`HandOverKeepsCovered`), or wakes all (`NotifyAllCovers`). That is why a `pushFor` whose deadline has passed must be
  counted as a signal, and must look at the predicate once more before it fails: it may
  hold the only one. `CloseStep` is the part about a closed queue: a waiter is ahead of a `notify_all`.
* `ClosingHolds`: the action property `ClosedOnlyDrains`.
* `QueueIsChannel`: every step of the queue is a step of `BoundedChannel` or stutters there, under the mapping
  in which a thread's phase is all that remains of its `pc`. With the invariants above this is the safety
  part of `ImplementsChannel`.

`SemaphorePoolProofs` proves, for any finite nonempty set of workers, any clients, tasks and scripts and any number of
slots (`PoolAssumption`, and `SubmissionsAreDistinct`: each call of `submit` makes a task of its own):

* `PoolTypeCorrect`: `TypeOK` is invariant. By itself it is not inductive: a client that joins the workers then takes the
  tail of its script, which must not be empty; `StopPending` says so.
* `PermitsHold`: `PermitsConserved`, the strengthening for the next theorem. The permits and the workers between `Acquire` and
  `Release` add up to the slots, and `active` counts the workers between `Enter` and `Leave`; each step moves at most
  one worker in or out of these sets (`MoveOneWorker`) and changes the counter by as much; a `notify_all` moves several, none of
  them in or out.
* `ResourceIsLimited`: `ResourceLimited`. Users hold permits, so there are at most as many as slots; without the conservation of
  permits nothing would bound them, since a permit given back twice would let a third in.
* `PoolIsTaskPool`: `Pool!Safety`. `OnceInv` says that a task is at one place, still in a script, in the queue, with a worker or
  over, and there once; `EndInv` that a worker has ended only with the pool stopped and the queue empty. Each step then moves one
  task from one status to the next (`FetchStarts`, `EndFinishes`, `SubmitDecides`), closes the pool, or changes nothing that the
  task pool sees; the pool is joined by the last worker that finds the queue empty (`LastFetch`).

`ThreadPoolProofs` proves, for any workers, any finite set of clients, any tasks and any scripts in which a call of `shutdown`
names no task (`PoolAssumption`):

* `PoolTypeCorrect`: `TypeOK`, with `ScriptsFit`: a worker runs bodies, in which no `shutdown` stands, and a client inside
  `shutdown` has that call in front of it, so that what `Join` takes is the front of a script.
* `NotificationsSuffice`: `NoWorkerForgotten`, inductive relative to `TypeOK`. A step moves one worker out of or into the sleepers
  (`WorkerMoves`), starts or ends one notification (`CallMoves`), or wakes all; in each case the queued tasks that no notification
  and no worker awake answers for do not become more. A notification that finds nobody asleep may be lost, since no
  worker is then forgotten.
* `ClosedQueue`: the action property `ClosedQueueDrains`; the stop flag is read in the critical section that inserts.
* `FuturesReadyWhenJoined`: `DrainedWhenJoined` says nothing of what leads there, so it is strengthened to `DrainInv`: a worker
  has ended only with the pool stopping and its queue empty (`EndedOnEmpty`), and a pending future's task is queued or
  with a worker (`PendingIsHeld`). The first survives a submission only because a stopping pool refuses.

Its last part proves from these `PoolIsTaskPool`: `Pool!Safety`, if besides each call of `submit` makes a task of its own
(`SubmissionsAreDistinct`). Here a task may still have to be submitted by a task that has not begun, or never will, since
a task that throws drops the rest of its script. `Listed` says that somebody may still submit it; `ScriptsInv` that no two
places of the scripts under way, and of the bodies of tasks that have not begun, name the same one, and `PlaceInv` that a listed
task was never seen, a queued one is in the queue once and with no worker, and a running one with one worker. A step can only
take a task off the lists (`ScriptsShrink`), except that the body of a task that begins becomes a script.

`WorkStealingPoolProofs` proves, for any finite nonempty set of workers, any clients, tasks and programs, whether or not a client may
shut the pool down inside another's `submit` (`PoolAssumption`, `SubmissionsAreDistinct`: a task stands for one call of
`submit`, whose `std::function` is its own, so no task is in two places of the programs):

* `TaskInOnePlace`: `InOnePlace`. The counts of copies it states are not inductive; `PlaceInv` is. Its parts: types (`Types`), no
  list holds a task twice (`NoRepeats`), of all the places a task may be at (still to be submitted, a deque, the global queue,
  with a worker, over) it is at one (`OnePlace`), and the tasks of a body that has not begun are at none (`Unborn`).
  Every step leaves the places alone, moves one task, or lets one body begin or end (`TakeEffect`, `EndEffect`, `RefuseEffect`,
  `InsertEffect`, `StayEffect`); that is all that `OnePlace` needs of a step (`EffectsKeepPlaces`). `CopiesOfTask` translates places
  back into counts.
* `CounterIsExact`: `CounterCounts`. `HeldStep` says that a step counts one new task up, one old task down, or changes neither
  the tasks held nor the counter.
* `PoolTypeCorrect`: `TypeOK`. It contains that the counter is a natural number, so it needs the theorem above.
* `IdleTellsTheTruth`: `IdleMeansDone`, by `IdleInv`: a thread submits only what its program or its task lists (`Origin`), what a client
  listed is unsubmitted, held or over (`Kept`), and `IdleTruth`, which is the property itself with its children. When the
  counter reads 0 nothing is held, and afterwards only a parent that runs could bring up a child; the parent is over.

Its last part proves from these invariants `PoolIsTaskPool`: `Pool!Safety`, if `LateSubmits` is false (with it
true the statement is refuted, see Findings). `PoolInv` adds that no task is both refused and over, `ShutInv` that a worker ends only when the
pool is stopping and that then no client is inside `submit()` or will be; this is the step the code leaves to its callers. Each
step moves the status of one task (`TakeStarts`, `EndFinishes`, `CountAccepts`, `CheckRefuses`) or none (`SameStatus`). The pool
is joined with the exit test of the last worker, which has read a counter of 0: by `CounterIsExact` nothing is held at that moment.

`CancellableQueueWorkerProofs` proves, for any clients, tasks and scripts (`WorkerAssumption`):

* `WorkerTypeCorrect`: `TypeOK`, inductive by itself.
* `WorkerDrains`: `DrainedBeforeStop`, inductive relative to it: once stopped, `Push` counts everything as late.
* `WorkerNotForgotten`: `NoTaskSleptOn`, strengthened by the moment before the sleep, at which the queue is empty since `submit()`
  needs the mutex that the worker holds. The stop request needs none, so there is no such theorem about it (Finding 2).

`SimpleVectorProofs` proves, for any vectors and values and any set of blocks that an allocator may give out (`VectorAssumption`):

* `ObjectsHold`: `ObjectsAccounted`. What it says between the calls is strengthened to `Inv`, which says it at every step. The block
  that a call is filling counts as a vector of its own, with the elements constructed so far (`Held`): that of `grow()` as the
  local vector, which has nothing at that time, that of a copy as its target, whose `size_` is still 0. Then `Settled` describes
  every state: blocks are distinct, each holds its elements and then raw cells, except that of the vector from which
  `grow()` moves the first objects are husks. A step gives back a block (`SettledRelease`), hands one over (`SettledHandOver`),
  gets one (`SettledAcquire`), changes how many cells are constructed (`SettledResize`) or moves an element away
  (`SettledHusk`); the lemmas before these say that in such a state `construct_at`, `destroy_at` and `deallocate` are used soundly.
* `CallsKeepGuarantee`: the vectors implement the safety part of `VectorValues`, the guarantees of a call that throws. To `Inv` come `NameInv` (which
  call leads to which place) and `ContentsInv`: the elements in the storage of each vector are those last seen between two calls,
  except the husks that a `grow()` under way has left (`Husks`: how many), and the block that a call is filling holds a prefix of the elements it copies or
  moves. A step that ends a call then changes what is seen as `VectorValues` says (`ReturnNext`), or not at all (`ThrowNext`), or empties the first
  elements of a type that has to be moved; `Elements` says what an element may therefore be. The others leave it alone (`Silent`). What is done to the block of one vector does not change what the others hold, since
  blocks are not shared (`AgreeElsewhere`).

The same module proves about `QueueDemos`, for queues of any positive capacity with one item more than they hold
(`DemoThreads`: three distinct threads, the items 1 to `Capacity + 1`; it is a hypothesis of each of these theorems, and
`QueueDemosMC` has TLC evaluate it), about the six demos at once:

* `ExactlyOnceHolds`, `TakenInOrderHolds`, `DrainedAsPrintedHolds`: the three invariants of the run `queue_demos`. None is inductive;
  `DemoInv` is. What the demos have in common is said once, of the scripts (`DemoScript`): one thread, the *producer*, pushes 1, 2, ...
  and then closes, the others pop. `ScriptInv` says that what a thread has still to do is the end of its script, so that
  `Done(t)` counts what it has done, and `CallInv` in which call a thread at a location is. `hands` are a thread's items with
  the one its pop carries; `ItemInv` says that the queue and all hands hold different items, the queue in
  order behind everything in the hands, none beyond the number of pushes that have inserted (`Ahead`).
  `AcceptInv` relates the accepted items to those places, with the one item between insertion and return as the
  exception; `CloseInv` and `DrainInv` say that the queue is closed behind the last push and that a drain is left in some script or
  the queue is empty; `CountInv` how many were accepted and, where the producer is alone, how long the queue is.
  Each step does one of nine things (`StepDoes`), and to the items one of four (`ItemsMove`).
* `DemosAreQueueRuns`: the demos' steps are steps of `BoundedBlockingQueue`.
* `DemosDoNotHang`: until all is done, some thread has something to do and is in no wait that only another can end. If all
  slept, `NoLostWakeup` would make the queue open, and full or empty; `DemoInv` says that then the producer
  would not be in a push, or a thread with a drain would not be asleep. This is what of `DemosFinish` is not liveness.

`DemoLockFreeStackProofs` proves, for any threads and programs and any finite set of nodes (`StackAssumption`):

* `StackTypeCorrect`: `TypeOK`, with `NodeInv` (below), since what a pop reads is a node that was allocated. It says nothing of where
  `push_back` writes: with two producers that may be outside the vector's storage.
* `StackIsLinearizable`: `ImplementsStack`, by `StackInv`. `NodeInv` says who owns a node: a push its own until its CAS, and
  from then on it is *published* and its `next` never changes (`PublishedStays`), so that a `next` which a pop has read is still true
  at its CAS. `ListInv` says that some sequence of different published nodes that nobody has popped hangs together from the head
  (`IsList`), and `GotInv` that nothing was popped twice; both need that a popped node is not allocated again, the reason
  why this stack has no ABA. The model's `List` is a recursive function over the heap. `NthIs` shows that it finds
  the list that `IsList` describes: the recursion has this solution and no other, by induction over the set of
  indices at which two solutions agree (`Induction`, from the well-foundedness of the naturals).
* `NodesPoppedOnce`: no two pops return the same node.
* `RetainedWithOnePusher`: if one thread alone pushes, whoever pops, nothing is ever written outside the vector's storage, and the
  vector holds each node once when all is done. `RetainInv` says that a push goes on at the position it has read (`Undisturbed`),
  and that the vector holds the nodes used, but for the one that is being recorded. With two pushers that is refuted (Finding 3).

`SyncDemosProofs` proves, for any number of rounds (`RoundsAssumption`) and any five different threads (`ThreadsAssumption`), about
the ten demos whose loops the code lets run 100 to 50000000 times and the run `sync_demos` twice (`LoopingDemos`: counters under a
mutex, under `std::scoped_lock` of two, with `fetch_add`, with `compare_exchange_weak`; two counters in one
cache line and in two; the bank transfers in both directions; the worker that polls its stop token):

* `LoopsRaceFree`: `RaceFree`. `hb` records which accesses a thread knows of and which can be learnt from an object. `Ordered` says that
  nobody knows of an access that has not been made, `Guarded(h, objects, x, m, holders)` that all accesses to `x` are
  known to who holds the mutex `m`, or while it is free shown at `m`. Locking, unlocking and writing keep it (`GuardLocked`,
  `GuardUnlocked`, `GuardWritten`), and a thread that knows of all accesses may make one (`AccessIs`).
  `std::lock` gives its first mutex back when the second is taken, and starts over with that one: on the way a
  thread has one, none or the other (`PairFailsFirst`, `PairFailsSecond`). The guard is one of the two, the same for both
  threads, also where these name them in opposite orders.
* `LoopsAsPrinted`: `AsPrinted`. No demo's statement is inductive. For each there is an invariant (`MutexInv`, `PairInv`,
  `TallyInv`, `TwoInv`, `CasInv`, `BankInv`, `CancelInv`) of one shape: main has not started the threads; or they run, each at a numbered
  operation of its loop, and the variables follow from the numbers; or they have been joined. `From(p, j)` is a list from its
  operation j on, and `TimesIs` says what the j-th operation of a repeated list is, so that a loop of any length is a number and its
  remainder. In `CasInv` an exchange that succeeds writes one more than what it read, whatever the other thread did in between,
  since it compares; one that fails, also without cause, leaves the thread at the same number. In `CancelInv` the two lines
  exclude each other, and a worker that has nothing left has printed one.
* `LoopsWithinLimits`: `WithinLimits`. `BankCounts` says that an account holds the money it began with, less the debits of
  its own thread, with the credits of the other's; a thread is between a debit and its credit only inside both mutexes.
  With that neither account is overdrawn: no more is taken from it than there are rounds.
* `LoopsDoNotHang`: until all is done some thread can go on (`CanGo`): it has an operation left, is not asleep, and the operation
  need not wait (`Passes`, the guards of those that these demos execute: a thread to join has ended, a mutex is free). Who holds a
  mutex never waits for another, since `std::lock` only tries its second one; so its holder can go on, and if there is
  none, everybody can. This is the part of `DemosEnd` that is not about fairness. The guards are written
  out because ENABLED cannot be reasoned about here; for these demos they are what enables a step of the thread.

`LoopInv` is their disjunction over what `Running` is; main and the workers of each demo keep its part of it (`LoopNext`). The other
demos have no loop that `Rounds` bounds and no constant but the threads' names: TLC goes through all their behaviours (reduced
as described above), and a theorem would add nothing to that.

Only checked by TLC, on the instances above: all liveness (TLAPS does not reason about fairness and ENABLED here), with
it the fairness of the abstract specifications and what `OperationsEnd`, `DemosFinish` and `DemosEnd` say beyond the absence of
deadlock; and the demos of `SyncDemos` without such loops, among them all that have `gates`, so that no theorem
speaks of `NoLineEarly`. An induction over data is out of
reach where it has to be stated for an operator, as in the library's theorems; for sets of numbers it is not, and
that was enough for the stack's list. A repeated list is therefore not defined by recursion but as a function of the
index (`Times`). `DrainedAtExit`, `StopEndsWorker` and `NodesRetained` are refuted (Findings); what does hold in their
place is proved: `PoolIsTaskPool` without late submissions, `WorkerDrains`, `RetainedWithOnePusher`.

## Findings

1. `WorkStealingPool::submit` tests `stopping_` and queues its task later. If another thread shuts the pool
   down in between, the workers end, `submit` returns true and the task never runs
   (`work_stealing_late_submit`). The notes ask for the two to be atomic
   (`cheat_sheet/43_thread_pool_future_shutdown.md:371`, `:875`).
2. `CancellableQueueWorker`: a stop request, its callback and its notifications can all come after the worker has
   evaluated its predicate and before it sleeps. The destructor then waits for ever
   (`queue_worker_stop`). `requestStop` and the destructor would have to pass through `mutex_`.
3. `DemoLockFreeStack::push` appends to a vector without synchronisation, in a demo with two producers: a call can write
   behind the vector's storage or into storage that was given back; and also where none does, a node can be missing from
   the vector when the destructor deletes its elements (`lock_free_stack_nodes`).

Two things were seen that are no contradiction to any text: the second caller of a pool's
`shutdown` returns before the workers have ended, and the idle workers of the
work-stealing pool spin while a long task runs.

`BoundedQueue` accepts capacity 0 and the semaphore file's pool zero workers; what waits on them then waits until
`stop()`, or is dropped. `SimpleVector::push_back(v[0])` on a full vector reads storage that `grow()` has given back. No demo
does any of this and no text speaks of it, so they are hazards with a note in `PROJECT.json`, not findings.

## Not modelled

* Text output, except where a line tells of other threads (the `gates`); sleeps, which only space out the prints and in
  the models are any length of time; result values of tasks; measured times.
* Values that only a weak memory order allows (see `StdSync`); a `try_lock` that fails on a free mutex, which the standard
  permits and the implementations do not do; futures whose `get` is called twice; exceptions other than those the
  demos throw and those of `SimpleVector`.
* Functions that only print (warnings, explanations, static checks) and code that is commented out. `UnsafeReferenceCache` belongs to
  a warning: nothing constructs it.
* `rawStorageDemo`, and the single-threaded programs about ownership and language features: straight-line code in which
  every run is the same, and which a test covers as well as a model. `Buffer` of `rule_of_three_five_zero.cpp` is a
  `SimpleVector` of ints that never grows.

`PROJECT.json` lists each part with its status.

## Plan

Written so far, in this order: the bounded queue with its abstract channel, its demos and its
proofs; the work-stealing pool; the pool with futures; the cancellable worker; the lock-free stack; the library machine
with the demo programs; the semaphore pool with its proofs; the vector;
the proofs of the two other pools, of the worker and of the vector, and that the three pools implement the task pool and the vector
`VectorValues`; the proofs of the queue's demos and of the stack; those of the demo programs that loop.

What is left: every safety property of the components' modules is proved, and of the specifications they implement the safety
part; of the demo programs, what depends on a number. A theorem about `StdSync` itself could still be stated, that its
mutexes, semaphores and barriers keep what the standard promises for every program.
