--------------------------- MODULE ThreadPoolProofs ---------------------------
(***************************************************************************)
(* Proofs about the pool of thread_pool_future_shutdown.cpp, for every     *)
(* number of workers and clients, all tasks with any bodies and all        *)
(* scripts of the clients; the last part proves that it implements the     *)
(* safety part of the abstract task pool.                                  *)
(***************************************************************************)
EXTENDS ThreadPool, FiniteSetTheorems, SequenceTheorems, TLAPS

-----------------------------------------------------------------------------
(* Type correctness *)

TaskSteps == [op : {"submit", "get"}, task : Tasks]

\* A worker runs the body of a task, which has no shutdown in it; a client
\* inside shutdown() has that call in front of it in its script.
ScriptsFit ==
    /\ \A w \in Workers : script[w] \in Seq(TaskSteps) /\ call[w] \in {"none", "notifyOne"}
    /\ \A c \in Clients : call[c] \in {"notifyAll", "join"} => script[c] # <<>>

TypeInv == TypeOK /\ ScriptsFit

\* The tail of a script is a script.
LEMMA ScriptTail ==
    ASSUME TypeOK, NEW t \in Threads, script[t] # <<>>
    PROVE  /\ Head(script[t]) \in Steps
           /\ Tail(script[t]) \in Seq(Steps)
           /\ Head(script[t]).op \in {"submit", "get"} => Subject(t) \in Tasks
<1>1. script[t] \in Seq(Steps)
  BY DEF TypeOK
<1>2. Head(script[t]) \in Steps /\ Tail(script[t]) \in Seq(Steps)
  BY <1>1, HeadTailProperties
<1>3. Head(script[t]).op \in {"submit", "get"} => Head(script[t]).task \in Tasks
  BY <1>2 DEF Steps
<1> QED BY <1>2, <1>3 DEF Subject

\* A task's body is a script without shutdown.
LEMMA BodyIsScript ==
    ASSUME NEW k \in Tasks
    PROVE  Body[k] \in Seq(TaskSteps) /\ Body[k] \in Seq(Steps)
<1>1. Body[k] \in Seq(TaskSteps)
  BY PoolAssumption DEF TaskSteps
<1>2. TaskSteps \subseteq Steps
  BY DEF Steps, TaskSteps
<1> QED BY <1>1, <1>2

LEMMA InitTypes == Init => TypeInv
<1> SUFFICES ASSUME Init PROVE TypeInv
  OBVIOUS
<1>1. queue \in Seq(Tasks)
  BY EmptySeq DEF Init
<1>2. stopping \in BOOLEAN
  BY Zenon DEF Init
<1>3. /\ pc \in [Workers -> {"fetch", "waiting", "awake", "run", "exited"}]
      /\ task \in [Workers -> Tasks \cup {NoTask}]
      /\ call \in [Threads -> {"none", "notifyOne", "notifyAll", "join"}]
      /\ future \in [Tasks -> {"none", "pending", "ready"}]
  BY DEF Init
<1>4. refused \subseteq Tasks
  BY DEF Init
<1>5. script \in [Threads -> Seq(Steps)]
  <2>1. PICK s \in Scripts : script = [t \in Threads |-> IF t \in Clients THEN s[t] ELSE <<>>]
    BY DEF Init
  <2>2. s \in [Clients -> Seq(Steps)]
    BY PoolAssumption
  <2>3. \A t \in Threads : (IF t \in Clients THEN s[t] ELSE <<>>) \in Seq(Steps)
    BY <2>2, EmptySeq
  <2> QED BY <2>1, <2>3
<1>6. \A w \in Workers : pc[w] = "run" <=> task[w] # NoTask
  BY DEF Init
<1>7. ScriptsFit
  <2>1. PICK s \in Scripts : script = [t \in Threads |-> IF t \in Clients THEN s[t] ELSE <<>>]
    BY DEF Init
  <2>2. \A w \in Workers : script[w] = <<>> /\ call[w] = "none"
    BY <2>1, PoolAssumption DEF Init, Threads
  <2>3. \A c \in Clients : call[c] = "none"
    BY DEF Init, Threads
  <2> QED BY <2>2, <2>3, EmptySeq DEF ScriptsFit
<1> QED BY <1>1, <1>2, <1>3, <1>4, <1>5, <1>6, <1>7 DEF TypeInv, TypeOK

\* Every action keeps the types.
LEMMA TypesStep == TypeInv /\ [Next]_vars => TypeOK'
<1> SUFFICES ASSUME TypeOK, ScriptsFit, [Next]_vars PROVE TypeOK'
  BY DEF TypeInv
<1>0. NoTask \notin Tasks /\ Workers \subseteq Threads
  BY PoolAssumption DEF Threads
<1>1. ASSUME NEW w \in Workers, Fetch(w) PROVE TypeOK'
  <2>1. CASE queue # <<>>
    <3>1. Head(queue) \in Tasks /\ Tail(queue) \in Seq(Tasks)
      BY <2>1, HeadTailProperties DEF TypeOK
    <3>2. Body[Head(queue)] \in Seq(Steps)
      BY <3>1, BodyIsScript
    <3>3. /\ queue' = Tail(queue)
          /\ pc' = [pc EXCEPT ![w] = "run"]
          /\ task' = [task EXCEPT ![w] = Head(queue)]
          /\ script' = [script EXCEPT ![w] = Body[Head(queue)]]
          /\ UNCHANGED <<stopping, call, future, refused>>
      BY <1>1, <2>1 DEF Fetch
    <3>4. script' \in [Threads -> Seq(Steps)]
      BY <3>2, <3>3 DEF TypeOK
    <3>5. \A u \in Workers : pc'[u] = "run" <=> task'[u] # NoTask
      BY <1>0, <3>1, <3>3 DEF TypeOK
    <3>6. /\ pc' \in [Workers -> {"fetch", "waiting", "awake", "run", "exited"}]
          /\ task' \in [Workers -> Tasks \cup {NoTask}]
      BY <3>1, <3>3 DEF TypeOK
    <3>7. stopping' \in BOOLEAN
      BY <3>3, Zenon DEF TypeOK
    <3> QED BY <3>1, <3>3, <3>4, <3>5, <3>6, <3>7 DEF TypeOK
  <2>2. CASE queue = <<>>
    BY <1>1, <2>2 DEF Fetch, TypeOK
  <2> QED BY <2>1, <2>2
<1>2. ASSUME NEW w \in Workers, EndTask(w) PROVE TypeOK'
  <2>1. <<>> \in Seq(Steps)
    BY EmptySeq
  <2> QED BY <1>0, <1>2, <2>1 DEF EndTask, TypeOK
<1>3. ASSUME NEW w \in Workers, SpuriousWakeup(w) PROVE TypeOK'
  BY <1>3 DEF SpuriousWakeup, Waiting, TypeOK
<1>4. ASSUME NEW t \in Threads, Submit(t) PROVE TypeOK'
  <2>1. Subject(t) \in Tasks /\ Tail(script[t]) \in Seq(Steps) /\ <<>> \in Seq(Steps)
    BY <1>4, ScriptTail, EmptySeq DEF Submit, At
  <2>2. Append(queue, Subject(t)) \in Seq(Tasks)
    BY <2>1, AppendProperties DEF TypeOK
  <2>3. CASE stopping
    BY <1>4, <2>1, <2>3 DEF Submit, TypeOK
  <2>4. CASE ~stopping
    <3>1. /\ queue' = Append(queue, Subject(t))
          /\ future' = [future EXCEPT ![Subject(t)] = "pending"]
          /\ call' = [call EXCEPT ![t] = "notifyOne"]
          /\ script' = [script EXCEPT ![t] = Tail(@)]
          /\ UNCHANGED <<stopping, pc, task, refused>>
      BY <1>4, <2>4 DEF Submit, Proceed
    <3>2. script' \in [Threads -> Seq(Steps)]
      BY <2>1, <3>1 DEF TypeOK
    <3>3. /\ future' \in [Tasks -> {"none", "pending", "ready"}]
          /\ call' \in [Threads -> {"none", "notifyOne", "notifyAll", "join"}]
      BY <2>1, <3>1 DEF TypeOK
    <3>4. stopping' \in BOOLEAN
      BY <3>1, Zenon DEF TypeOK
    <3> QED BY <2>2, <3>1, <3>2, <3>3, <3>4 DEF TypeOK
  <2> QED BY <2>3, <2>4
<1>5. ASSUME NEW t \in Threads, SubmitNotify(t) PROVE TypeOK'
  BY <1>5 DEF SubmitNotify, Waiting, TypeOK
<1>6. ASSUME NEW t \in Threads, Get(t) PROVE TypeOK'
  <2>1. Tail(script[t]) \in Seq(Steps)
    BY <1>6, ScriptTail DEF Get, At
  <2> QED BY <1>6, <2>1 DEF Get, Proceed, TypeOK
<1>7. ASSUME NEW t \in Threads, Shutdown(t) PROVE TypeOK'
  <2>1. Tail(script[t]) \in Seq(Steps)
    BY <1>7, ScriptTail DEF Shutdown, At
  <2> QED BY <1>7, <2>1 DEF Shutdown, Proceed, TypeOK
<1>8. ASSUME NEW t \in Threads, ShutdownNotify(t) PROVE TypeOK'
  BY <1>8 DEF ShutdownNotify, Waiting, TypeOK
<1>9. ASSUME NEW t \in Threads, Join(t) PROVE TypeOK'
  <2>1. Tail(script[t]) \in Seq(Steps)
    BY <1>9, ScriptTail DEF Join, ScriptsFit, Threads
  <2> QED BY <1>9, <2>1 DEF Join, Proceed, TypeOK
<1>10. CASE UNCHANGED vars
  BY <1>10 DEF vars, TypeOK
<1> QED BY <1>1, <1>2, <1>3, <1>4, <1>5, <1>6, <1>7, <1>8, <1>9, <1>10
        DEF Next, Step, Return, Throw

\* The scripts of workers come from bodies and are only shortened; a client's
\* step of shutdown() is taken off when that call ends.
LEMMA ScriptsFitStep == TypeInv /\ [Next]_vars => ScriptsFit'
<1> SUFFICES ASSUME TypeOK, ScriptsFit, [Next]_vars PROVE ScriptsFit'
  BY DEF TypeInv
<1>0. Workers \subseteq Threads /\ Clients \subseteq Threads /\ Workers \cap Clients = {}
  BY PoolAssumption DEF Threads
<1>1. <<>> \in Seq(TaskSteps)
  BY EmptySeq
<1>2. ASSUME NEW w \in Workers, script[w] # <<>>
      PROVE  Tail(script[w]) \in Seq(TaskSteps) /\ Head(script[w]).op # "shutdown"
  <2>1. Head(script[w]) \in TaskSteps /\ Tail(script[w]) \in Seq(TaskSteps)
    BY <1>2, HeadTailProperties DEF ScriptsFit
  <2> QED BY <2>1 DEF TaskSteps
<1>3. ASSUME NEW w \in Workers, Fetch(w) PROVE ScriptsFit'
  <2>1. CASE queue # <<>>
    <3>1. Body[Head(queue)] \in Seq(TaskSteps)
      BY <2>1, HeadTailProperties, BodyIsScript DEF TypeOK
    <3> QED BY <1>0, <1>3, <2>1, <3>1 DEF Fetch, ScriptsFit, TypeOK
  <2>2. CASE queue = <<>>
    BY <1>3, <2>2 DEF Fetch, ScriptsFit
  <2> QED BY <2>1, <2>2
<1>4. ASSUME NEW w \in Workers, EndTask(w) PROVE ScriptsFit'
  BY <1>0, <1>1, <1>4 DEF EndTask, ScriptsFit, TypeOK
<1>5. ASSUME NEW w \in Workers, SpuriousWakeup(w) PROVE ScriptsFit'
  BY <1>5 DEF SpuriousWakeup, ScriptsFit
<1>6. ASSUME NEW t \in Threads, Submit(t) PROVE ScriptsFit'
  <2>1. script[t] # <<>> /\ call[t] = "none"
    BY <1>6 DEF Submit, At
  <2>2. CASE t \in Workers
    <3>1. script'[t] \in Seq(TaskSteps) /\ call'[t] \in {"none", "notifyOne"}
      BY <1>1, <1>2, <1>6, <2>1, <2>2 DEF Submit, Proceed, TypeOK
    <3>2. \A u \in Threads \ {t} : script'[u] = script[u] /\ call'[u] = call[u]
      BY <1>6 DEF Submit, Proceed, TypeOK
    <3> QED BY <1>0, <2>2, <3>1, <3>2 DEF ScriptsFit
  <2>3. CASE t \notin Workers
    <3>1. call'[t] \in {"none", "notifyOne"}
      BY <1>6, <2>1 DEF Submit, TypeOK
    <3>2. \A u \in Threads \ {t} : script'[u] = script[u] /\ call'[u] = call[u]
      BY <1>6 DEF Submit, Proceed, TypeOK
    <3> QED BY <1>0, <2>3, <3>1, <3>2 DEF ScriptsFit
  <2> QED BY <2>2, <2>3
<1>7. ASSUME NEW t \in Threads, Get(t) PROVE ScriptsFit'
  BY <1>0, <1>2, <1>7 DEF Get, At, Proceed, ScriptsFit, TypeOK
<1>8. ASSUME NEW t \in Threads, Shutdown(t) PROVE ScriptsFit'
  <2>1. t \in Clients /\ script[t] # <<>> /\ call[t] = "none"
    BY <1>2, <1>8 DEF Shutdown, At, Threads
  <2>2. CASE stopping
    BY <1>0, <1>8, <2>1, <2>2 DEF Shutdown, Proceed, ScriptsFit, TypeOK
  <2>3. CASE ~stopping
    BY <1>0, <1>8, <2>1, <2>3 DEF Shutdown, Proceed, ScriptsFit, TypeOK
  <2> QED BY <2>2, <2>3
<1>9. ASSUME NEW t \in Threads, SubmitNotify(t) \/ ShutdownNotify(t) PROVE ScriptsFit'
  <2>1. CASE SubmitNotify(t)
    BY <1>0, <2>1 DEF SubmitNotify, ScriptsFit, TypeOK
  <2>2. CASE ShutdownNotify(t)
    BY <1>0, <2>2 DEF ShutdownNotify, ScriptsFit, TypeOK, Threads
  <2> QED BY <1>9, <2>1, <2>2
<1>10. ASSUME NEW t \in Threads, Join(t) PROVE ScriptsFit'
  <2>1. t \in Clients
    BY <1>10 DEF Join, ScriptsFit, Threads
  <2> QED BY <1>0, <1>10, <2>1 DEF Join, Proceed, ScriptsFit, TypeOK
<1>11. CASE UNCHANGED vars
  BY <1>11 DEF vars, ScriptsFit
<1> QED BY <1>3, <1>4, <1>5, <1>6, <1>7, <1>8, <1>9, <1>10, <1>11
        DEF Next, Step, Return, Throw

LEMMA TypeInvHolds == Spec => []TypeInv
<1>1. TypeInv /\ [Next]_vars => TypeInv'
  BY TypesStep, ScriptsFitStep DEF TypeInv
<1> QED BY InitTypes, <1>1, PTL DEF Spec

\* The pool's state stays in its types, and a worker has a task exactly while
\* it runs one: workerLoop takes a task only from a queue that is not empty.
THEOREM PoolTypeCorrect == Spec => []TypeOK
<1>1. TypeInv => TypeOK
  BY DEF TypeInv
<1> QED BY <1>1, TypeInvHolds, PTL

-----------------------------------------------------------------------------
(* The queue and the flag *)

\* Once stopping_ is set the queue only loses its front: submit() tests the
\* flag in the critical section in which it appends.
THEOREM ClosedQueue == Spec => ClosedQueueDrains
<1> DEFINE Drains == stopping => /\ stopping'
                                 /\ queue' = queue \/ (queue # <<>> /\ queue' = Tail(queue))
<1>1. TypeOK /\ [Next]_vars => [Drains]_vars
  <2> SUFFICES ASSUME TypeOK, [Next]_vars, stopping PROVE Drains
    OBVIOUS
  <2>1. ASSUME NEW w \in Workers, Fetch(w) PROVE Drains
    BY <2>1 DEF Fetch
  <2>2. ASSUME NEW w \in Workers, EndTask(w) \/ SpuriousWakeup(w) PROVE Drains
    BY <2>2 DEF EndTask, SpuriousWakeup
  <2>3. ASSUME NEW t \in Threads, Submit(t) PROVE Drains
    BY <2>3 DEF Submit
  <2>4. ASSUME NEW t \in Threads, Shutdown(t) PROVE Drains
    BY <2>4 DEF Shutdown
  <2>5. ASSUME NEW t \in Threads, SubmitNotify(t) \/ Get(t) \/ ShutdownNotify(t) \/ Join(t)
        PROVE  Drains
    BY <2>5 DEF SubmitNotify, Get, ShutdownNotify, Join
  <2>6. CASE UNCHANGED vars
    BY <2>6 DEF vars
  <2> QED BY <2>1, <2>2, <2>3, <2>4, <2>5, <2>6 DEF Next, Step, Return, Throw
<1> QED BY <1>1, PoolTypeCorrect, PTL DEF Spec, ClosedQueueDrains

-----------------------------------------------------------------------------
(* The futures when the workers have ended *)

\* A worker ends only when the pool is stopping and the queue is empty, and
\* nothing enters the queue after that.
EndedOnEmpty == \A w \in Workers : pc[w] = "exited" => stopping /\ queue = <<>>

Queued(k) == \E i \in DOMAIN queue : queue[i] = k
Running(k) == \E w \in Workers : task[w] = k

\* A future that is not ready belongs to a task that is queued or running.
PendingIsHeld == \A k \in Tasks : future[k] = "pending" => Queued(k) \/ Running(k)

DrainInv == EndedOnEmpty /\ PendingIsHeld

LEMMA EndedOnEmptyStep == TypeOK /\ EndedOnEmpty /\ [Next]_vars => EndedOnEmpty'
<1> SUFFICES ASSUME TypeOK, EndedOnEmpty, [Next]_vars PROVE EndedOnEmpty'
  OBVIOUS
<1> USE DEF EndedOnEmpty
<1>1. ASSUME NEW w \in Workers, Fetch(w) PROVE EndedOnEmpty'
  BY <1>1 DEF Fetch, TypeOK
<1>2. ASSUME NEW w \in Workers, EndTask(w) \/ SpuriousWakeup(w) PROVE EndedOnEmpty'
  BY <1>2 DEF EndTask, SpuriousWakeup, TypeOK
<1>3. ASSUME NEW t \in Threads, Submit(t) PROVE EndedOnEmpty'
  BY <1>3 DEF Submit
<1>4. ASSUME NEW t \in Threads, Get(t) \/ Shutdown(t) \/ Join(t) PROVE EndedOnEmpty'
  BY <1>4 DEF Get, Shutdown, Join
<1>5. ASSUME NEW t \in Threads, SubmitNotify(t) \/ ShutdownNotify(t) PROVE EndedOnEmpty'
  BY <1>5 DEF SubmitNotify, ShutdownNotify, Waiting, TypeOK
<1>6. CASE UNCHANGED vars
  BY <1>6 DEF vars
<1> QED BY <1>1, <1>2, <1>3, <1>4, <1>5, <1>6 DEF Next, Step, Return, Throw

LEMMA PendingIsHeldStep == TypeOK /\ PendingIsHeld /\ [Next]_vars => PendingIsHeld'
<1> SUFFICES ASSUME TypeOK, PendingIsHeld, [Next]_vars PROVE PendingIsHeld'
  OBVIOUS
<1> USE DEF PendingIsHeld
<1>1. ASSUME NEW w \in Workers, Fetch(w) PROVE PendingIsHeld'
  <2>1. CASE queue # <<>>
    <3> SUFFICES ASSUME NEW k \in Tasks, future[k] = "pending" PROVE Queued(k)' \/ Running(k)'
      BY <1>1 DEF Fetch
    <3>1. queue' = Tail(queue) /\ task' = [task EXCEPT ![w] = Head(queue)] /\ task[w] = NoTask
      BY <1>1, <2>1 DEF Fetch, TypeOK
    <3>2. CASE k = Head(queue)
      BY <3>1, <3>2 DEF Running, TypeOK
    <3>3. CASE Running(k)
      <4>1. PICK u \in Workers : task[u] = k
        BY <3>3 DEF Running
      <4>2. u # w
        BY <3>1, <4>1, PoolAssumption
      <4> QED BY <3>1, <4>1, <4>2 DEF Running, TypeOK
    <3>4. CASE Queued(k) /\ k # Head(queue)
      <4>1. PICK i \in DOMAIN queue : queue[i] = k
        BY <3>4 DEF Queued
      <4>2. i \in 1..Len(queue) /\ i # 1 /\ Len(queue) \in Nat
        BY <3>4, <4>1 DEF TypeOK
      <4>3. i - 1 \in DOMAIN Tail(queue) /\ Tail(queue)[i - 1] = k
        BY <4>1, <4>2 DEF TypeOK
      <4> QED BY <3>1, <4>3 DEF Queued
    <3> QED BY <3>2, <3>3, <3>4
  <2>2. CASE queue = <<>>
    BY <1>1, <2>2 DEF Fetch, Queued, Running
  <2> QED BY <2>1, <2>2
<1>2. ASSUME NEW w \in Workers, EndTask(w) PROVE PendingIsHeld'
  <2> SUFFICES ASSUME NEW k \in Tasks, future'[k] = "pending" PROVE Queued(k)' \/ Running(k)'
    OBVIOUS
  <2>1. task[w] \in Tasks /\ task' = [task EXCEPT ![w] = NoTask] /\ queue' = queue
    BY <1>2 DEF EndTask, TypeOK
  <2>2. k # task[w] /\ future[k] = "pending"
    BY <1>2, <2>1 DEF EndTask, TypeOK
  <2>3. CASE Queued(k)
    BY <2>1, <2>3 DEF Queued
  <2>4. CASE Running(k)
    BY <2>1, <2>2, <2>4 DEF Running, TypeOK
  <2> QED BY <2>2, <2>3, <2>4
<1>3. ASSUME NEW t \in Threads, Submit(t) PROVE PendingIsHeld'
  <2>1. CASE stopping
    BY <1>3, <2>1 DEF Submit, Queued, Running
  <2>2. CASE ~stopping
    <3> SUFFICES ASSUME NEW k \in Tasks, future'[k] = "pending" PROVE Queued(k)' \/ Running(k)'
      OBVIOUS
    <3>1. Subject(t) \in Tasks
      BY <1>3, ScriptTail DEF Submit, At
    <3>2. /\ queue' = Append(queue, Subject(t)) /\ task' = task
          /\ Len(queue') = Len(queue) + 1 /\ queue'[Len(queue) + 1] = Subject(t)
          /\ \A i \in 1..Len(queue) : queue'[i] = queue[i]
          /\ DOMAIN queue = 1..Len(queue) /\ DOMAIN queue' = 1..Len(queue')
          /\ Len(queue) \in Nat
      BY <1>3, <2>2, <3>1, AppendProperties DEF Submit, TypeOK
    <3>3. CASE k = Subject(t)
      BY <3>2, <3>3 DEF Queued
    <3>4. CASE k # Subject(t)
      <4>1. future[k] = "pending"
        BY <1>3, <2>2, <3>1, <3>4 DEF Submit, TypeOK
      <4>2. CASE Running(k)
        BY <3>2, <4>2 DEF Running
      <4>3. CASE Queued(k)
        BY <3>2, <4>3 DEF Queued
      <4> QED BY <4>1, <4>2, <4>3
    <3> QED BY <3>3, <3>4
  <2> QED BY <2>1, <2>2
<1>4. ASSUME UNCHANGED <<queue, task, future>> PROVE PendingIsHeld'
  BY <1>4 DEF Queued, Running
<1>5. ASSUME NEW t \in Threads, \/ SubmitNotify(t) \/ Get(t) \/ Shutdown(t)
                                \/ ShutdownNotify(t) \/ Join(t)
      PROVE  PendingIsHeld'
  BY <1>4, <1>5 DEF SubmitNotify, Get, Shutdown, ShutdownNotify, Join
<1>6. ASSUME NEW w \in Workers, SpuriousWakeup(w) PROVE PendingIsHeld'
  BY <1>4, <1>6 DEF SpuriousWakeup
<1>7. CASE UNCHANGED vars
  BY <1>4, <1>7 DEF vars
<1> QED BY <1>1, <1>2, <1>3, <1>5, <1>6, <1>7 DEF Next, Step, Return, Throw

\* When the workers have ended, no future of an accepted task is left
\* unready: shutdown() drains before it joins, for any scripts and bodies.
THEOREM FuturesReadyWhenJoined == Spec => []DrainedWhenJoined
<1>1. Init => DrainInv
  BY DEF Init, DrainInv, EndedOnEmpty, PendingIsHeld
<1>2. TypeOK /\ DrainInv /\ [Next]_vars => DrainInv'
  BY EndedOnEmptyStep, PendingIsHeldStep DEF DrainInv
<1>3. TypeOK /\ DrainInv => DrainedWhenJoined
  <2> SUFFICES ASSUME TypeOK, EndedOnEmpty, PendingIsHeld, Exited
               PROVE  queue = <<>> /\ \A k \in Tasks : future[k] # "pending"
    BY DEF DrainInv, DrainedWhenJoined
  <2>1. queue = <<>>
    BY PoolAssumption DEF Exited, EndedOnEmpty
  <2>2. ASSUME NEW k \in Tasks PROVE ~Queued(k) /\ ~Running(k)
    BY <2>1, PoolAssumption DEF Queued, Running, Exited, TypeOK
  <2> QED BY <2>1, <2>2 DEF PendingIsHeld
<1> QED BY <1>1, <1>2, <1>3, PoolTypeCorrect, PTL DEF Spec

-----------------------------------------------------------------------------
(* Notifications *)

\* How many elements of S the function f takes into L.
Count(S, f, L) == Cardinality({x \in S : f[x] \in L})

LEMMA CountIsNat ==
    ASSUME NEW S, IsFiniteSet(S), NEW f, NEW L
    PROVE  Count(S, f, L) \in Nat
<1>1. IsFiniteSet({x \in S : f[x] \in L})
  BY FS_Subset
<1> QED BY <1>1, FS_CardinalityType DEF Count

\* When only x takes another value, the count changes by what x leaves and
\* enters.
LEMMA MoveOne ==
    ASSUME NEW S, IsFiniteSet(S), NEW L, NEW f, NEW g, NEW x \in S,
           \A y \in S : y # x => g[y] = f[y]
    PROVE  /\ Count(S, f, L) \in Nat
           /\ f[x] \notin L /\ g[x] \in L => Count(S, g, L) = Count(S, f, L) + 1
           /\ f[x] \in L /\ g[x] \notin L => Count(S, g, L) = Count(S, f, L) - 1
           /\ f[x] \notin L /\ g[x] \notin L => Count(S, g, L) = Count(S, f, L)
<1> DEFINE here  == {y \in S : f[y] \in L}
           there == {y \in S : g[y] \in L}
<1>1. IsFiniteSet(here) /\ Cardinality(here) \in Nat
  BY FS_Subset, FS_CardinalityType
<1>2. Count(S, f, L) \in Nat
  BY <1>1 DEF Count
<1>3. CASE f[x] \notin L /\ g[x] \in L
  <2>1. there = here \cup {x} /\ x \notin here
    BY <1>3
  <2> QED BY <2>1, <1>1, <1>3, FS_AddElement DEF Count
<1>4. CASE f[x] \in L /\ g[x] \notin L
  <2>1. there = here \ {x} /\ x \in here
    BY <1>4
  <2> QED BY <2>1, <1>1, <1>4, FS_RemoveElement DEF Count
<1>5. CASE f[x] \notin L /\ g[x] \notin L
  <2>1. there = here
    BY <1>5
  <2> QED BY <2>1, <1>1, <1>5 DEF Count
<1> QED BY <1>2, <1>3, <1>4, <1>5

Notifying == Count(Threads, call, {"notifyOne"})
Woken == Count(Workers, pc, {"awake"})

LEMMA SignalsAreCounted == /\ Signals = Notifying + Woken
                           /\ Signals' = Notifying' + Woken'
                           /\ IsFiniteSet(Workers) /\ IsFiniteSet(Threads)
                           /\ Notifying \in Nat /\ Woken \in Nat
                           /\ Notifying' \in Nat /\ Woken' \in Nat
<1>1. IsFiniteSet(Workers) /\ IsFiniteSet(Threads)
  BY PoolAssumption, FS_Union DEF Threads
<1>2. /\ Notifying \in Nat /\ Woken \in Nat
      /\ Notifying' \in Nat /\ Woken' \in Nat
  BY <1>1, CountIsNat DEF Notifying, Woken
<1>3. /\ {t \in Threads : call[t] \in {"notifyOne"}} = {t \in Threads : call[t] = "notifyOne"}
      /\ {w \in Workers : pc[w] \in {"awake"}} = {w \in Workers : pc[w] = "awake"}
      /\ {t \in Threads : call'[t] \in {"notifyOne"}} = {t \in Threads : call'[t] = "notifyOne"}
      /\ {w \in Workers : pc'[w] \in {"awake"}} = {w \in Workers : pc'[w] = "awake"}
  OBVIOUS
<1> QED BY <1>1, <1>2, <1>3, Zenon DEF Signals, Notifying, Woken, Count

\* One worker changes its place; one thread changes where it is in its call.
LEMMA WorkerMoves ==
    ASSUME NEW w \in Workers, \A u \in Workers : u # w => pc'[u] = pc[u]
    PROVE  /\ Woken \in Nat /\ Woken' \in Nat
           /\ pc[w] # "awake" /\ pc'[w] = "awake" => Woken' = Woken + 1
           /\ pc[w] = "awake" /\ pc'[w] # "awake" => Woken' = Woken - 1
           /\ pc[w] # "awake" /\ pc'[w] # "awake" => Woken' = Woken
<1>1. IsFiniteSet(Workers)
  BY PoolAssumption
<1>2. Woken' \in Nat
  BY <1>1, CountIsNat DEF Woken
<1> QED BY <1>1, <1>2, MoveOne DEF Woken

LEMMA CallMoves ==
    ASSUME NEW t \in Threads, \A u \in Threads : u # t => call'[u] = call[u]
    PROVE  /\ Notifying \in Nat /\ Notifying' \in Nat
           /\ call[t] # "notifyOne" /\ call'[t] = "notifyOne" => Notifying' = Notifying + 1
           /\ call[t] = "notifyOne" /\ call'[t] # "notifyOne" => Notifying' = Notifying - 1
<1>1. IsFiniteSet(Threads)
  BY PoolAssumption, FS_Union DEF Threads
<1>2. Notifying' \in Nat
  BY <1>1, CountIsNat DEF Notifying
<1> QED BY <1>1, <1>2, MoveOne DEF Notifying

\* A worker goes to sleep only when it finds nothing to do, and then every
\* submission brings its notification with it.
LEMMA NoWorkerForgottenStep == TypeOK /\ NoWorkerForgotten /\ [Next]_vars => NoWorkerForgotten'
<1> SUFFICES ASSUME TypeOK, NoWorkerForgotten, [Next]_vars, Waiting' # {}
             PROVE  /\ ~stopping' => Len(queue') <= Signals'
                    /\ stopping' => \E t \in Threads : call'[t] = "notifyAll"
  BY DEF NoWorkerForgotten
<1> DEFINE Covered == /\ ~stopping => Len(queue) <= Signals
                      /\ stopping => \E t \in Threads : call[t] = "notifyAll"
<1>0. /\ Len(queue) \in Nat /\ Workers \subseteq Threads
      /\ pc \in [Workers -> {"fetch", "waiting", "awake", "run", "exited"}]
      /\ call \in [Threads -> {"none", "notifyOne", "notifyAll", "join"}]
      /\ Waiting # {} => Covered
  BY DEF TypeOK, Threads, NoWorkerForgotten
<1> USE SignalsAreCounted
<1>1. ASSUME NEW w \in Workers, Fetch(w) PROVE Covered'
  <2>1. UNCHANGED <<stopping, call>> /\ Notifying' = Notifying
    BY <1>1 DEF Fetch, Notifying
  <2>2. CASE queue # <<>>
    <3>1. /\ pc' = [pc EXCEPT ![w] = "run"] /\ pc[w] \in {"fetch", "awake"}
          /\ Len(queue') = Len(queue) - 1
      BY <1>1, <2>2, HeadTailProperties DEF Fetch, TypeOK
    <3>2. Woken' = Woken \/ Woken' = Woken - 1
      <4>1. pc'[w] = "run" /\ \A u \in Workers : u # w => pc'[u] = pc[u]
        BY <1>0, <3>1
      <4> QED BY <3>1, <4>1, WorkerMoves
    <3>3. Waiting # {}
      BY <1>0, <3>1 DEF Waiting
    <3>4. Covered
      BY <1>0, <3>3
    <3>5. ~stopping' => Len(queue') <= Signals'
      BY <1>0, <2>1, <3>1, <3>2, <3>4
    <3> QED BY <2>1, <3>4, <3>5
  <2>3. CASE queue = <<>>
    <3>1. queue' = <<>> /\ pc' = [pc EXCEPT ![w] = IF stopping THEN "exited" ELSE "waiting"]
      BY <1>1, <2>3 DEF Fetch
    <3>2. Len(queue') = 0
      BY <3>1
    <3>3. ~stopping' => Len(queue') <= Signals'
      <4>1. pc'[w] # "awake" /\ \A u \in Workers : u # w => pc'[u] = pc[u]
        BY <1>0, <3>1
      <4>2. Woken' \in Nat
        BY <4>1, WorkerMoves
      <4>3. Notifying' \in Nat
        BY <2>1
      <4>4. \A m, n \in Nat : m + n >= 0
        OBVIOUS
      <4>5. Notifying' + Woken' >= 0
        BY <4>2, <4>3, <4>4
      <4> QED BY <3>2, <4>5
    <3>4. CASE stopping
      <4>1. Waiting # {}
        BY <1>0, <3>1, <3>4 DEF Waiting
      <4> QED BY <1>0, <2>1, <3>3, <3>4, <4>1
    <3> QED BY <2>1, <3>3, <3>4
  <2> QED BY <2>2, <2>3
<1>2. ASSUME NEW w \in Workers, EndTask(w) PROVE Covered'
  <2>1. UNCHANGED <<queue, stopping, call>> /\ Notifying' = Notifying
    BY <1>2 DEF EndTask, Notifying
  <2>2. pc' = [pc EXCEPT ![w] = "fetch"] /\ pc[w] = "run"
    BY <1>2 DEF EndTask
  <2>3. Woken' = Woken
    BY <1>0, <2>2, WorkerMoves
  <2>4. Waiting # {}
    BY <1>0, <2>2 DEF Waiting
  <2> QED BY <1>0, <2>1, <2>3, <2>4
<1>3. ASSUME NEW w \in Workers, SpuriousWakeup(w) PROVE Covered'
  <2>1. UNCHANGED <<queue, stopping, call>> /\ Notifying' = Notifying
    BY <1>3 DEF SpuriousWakeup, Notifying
  <2>2. pc' = [pc EXCEPT ![w] = "awake"] /\ pc[w] = "waiting" /\ Waiting # {}
    BY <1>3 DEF SpuriousWakeup, Waiting
  <2>3. Woken' = Woken + 1
    BY <1>0, <2>2, WorkerMoves
  <2> QED BY <1>0, <2>1, <2>2, <2>3
<1>4. ASSUME NEW t \in Threads, Submit(t) PROVE Covered'
  <2>1. pc' = pc /\ stopping' = stopping /\ Woken' = Woken /\ Waiting # {}
    BY <1>4 DEF Submit, Woken, Waiting
  <2>2. CASE stopping
    BY <1>0, <1>4, <2>1, <2>2 DEF Submit
  <2>3. CASE ~stopping
    <3>1. Subject(t) \in Tasks
      BY <1>4, ScriptTail DEF Submit, At
    <3>2. Len(queue') = Len(queue) + 1
      BY <1>4, <2>3, <3>1, AppendProperties DEF Submit, TypeOK
    <3>3. call' = [call EXCEPT ![t] = "notifyOne"] /\ call[t] = "none"
      BY <1>4, <2>3 DEF Submit, At
    <3>4. Notifying' = Notifying + 1
      BY <1>0, <3>3, CallMoves
    <3> QED BY <1>0, <2>1, <2>3, <3>2, <3>4
  <2> QED BY <2>2, <2>3
<1>5. ASSUME NEW t \in Threads, SubmitNotify(t) PROVE Covered'
  <2>1. UNCHANGED <<queue, stopping>> /\ call' = [call EXCEPT ![t] = "none"] /\ call[t] = "notifyOne"
    BY <1>5 DEF SubmitNotify
  <2>2. Notifying' = Notifying - 1
    BY <1>0, <2>1, CallMoves
  <2>3. PICK w \in Waiting : pc' = [pc EXCEPT ![w] = "awake"]
    BY <1>5 DEF SubmitNotify, Waiting
  <2>4. w \in Workers /\ pc[w] = "waiting" /\ Waiting # {}
    BY <2>3 DEF Waiting
  <2>5. Woken' = Woken + 1
    BY <1>0, <2>3, <2>4, WorkerMoves
  <2>6. stopping => \E u \in Threads : call'[u] = "notifyAll"
    BY <1>0, <2>1, <2>4
  <2> QED BY <1>0, <2>1, <2>2, <2>4, <2>5, <2>6
<1>6. ASSUME NEW t \in Threads, Get(t) PROVE Covered'
  <2>1. UNCHANGED <<queue, stopping, pc, call>>
    BY <1>6 DEF Get
  <2>2. Notifying' = Notifying /\ Woken' = Woken /\ Waiting # {}
    BY <2>1 DEF Notifying, Woken, Waiting
  <2> QED BY <1>0, <2>1, <2>2
<1>7. ASSUME NEW t \in Threads, Shutdown(t) PROVE Covered'
  <2>1. UNCHANGED <<queue, pc>> /\ stopping' /\ Waiting # {}
    BY <1>7 DEF Shutdown, Waiting
  <2>2. CASE stopping
    BY <1>0, <1>7, <2>1, <2>2 DEF Shutdown
  <2>3. CASE ~stopping
    BY <1>0, <1>7, <2>1, <2>3 DEF Shutdown
  <2> QED BY <2>2, <2>3
<1>8. ASSUME NEW t \in Threads, ShutdownNotify(t) PROVE FALSE
  BY <1>0, <1>8 DEF ShutdownNotify, Waiting
<1>9. ASSUME NEW t \in Threads, Join(t) PROVE Covered'
  <2>1. Waiting = {} /\ pc' = pc
    BY <1>9 DEF Join, Exited, Waiting
  <2> QED BY <2>1 DEF Waiting
<1>10. CASE UNCHANGED vars
  <2>1. UNCHANGED <<queue, stopping, pc, call>>
    BY <1>10 DEF vars
  <2>2. Notifying' = Notifying /\ Woken' = Woken /\ Waiting # {}
    BY <2>1 DEF Notifying, Woken, Waiting
  <2> QED BY <1>0, <2>1, <2>2
<1>11. Covered'
  BY <1>1, <1>2, <1>3, <1>4, <1>5, <1>6, <1>7, <1>8, <1>9, <1>10
     DEF Next, Step, Return, Throw
<1> QED BY <1>11

\* No notification is lost, although notify_one() and notify_all() come after
\* the unlock: as long as a worker sleeps, each queued task has a notification
\* or a woken worker of its own, and a stopping pool has its notify_all ahead.
THEOREM NotificationsSuffice == Spec => []NoWorkerForgotten
<1>1. Init => NoWorkerForgotten
  BY DEF Init, NoWorkerForgotten, Waiting
<1> QED BY <1>1, NoWorkerForgottenStep, PoolTypeCorrect, PTL DEF Spec

-----------------------------------------------------------------------------
(* Where a task is *)

Begun(k) == future[k] = "ready" \/ Running(k)

\* Some thread has still to submit task k, now or in a task that will begin.
InScript(k) == \E t \in Threads : \E i \in Submissions(script[t]) : script[t][i].task = k
InBody(k)   == \E l \in Tasks : ~Begun(l) /\ \E i \in Submissions(Body[l]) : Body[l][i].task = k
Listed(k)   == InScript(k) \/ InBody(k)

ScriptsInv ==
    /\ \A t, u \in Threads : \A i \in Submissions(script[t]), j \in Submissions(script[u]) :
          script[t][i].task = script[u][j].task => t = u /\ i = j
    /\ \A t \in Threads, k \in Tasks : \A i \in Submissions(script[t]), j \in Submissions(Body[k]) :
          script[t][i].task = Body[k][j].task => Begun(k)

\* A task that has still to be submitted was never seen, one in the queue is
\* there once and with no worker, one with a worker is with that one only.
PlaceInv ==
    /\ \A i, j \in DOMAIN queue : queue[i] = queue[j] => i = j
    /\ \A v, w \in Workers : task[v] = task[w] /\ task[v] # NoTask => v = w
    /\ \A k \in Tasks : /\ Listed(k) => future[k] = "none" /\ k \notin refused
                        /\ Queued(k) => future[k] = "pending" /\ ~Running(k)
                        /\ Running(k) => future[k] = "pending"
                        /\ k \in refused => future[k] = "none"

OnceInv == ScriptsInv /\ PlaceInv

OnceVars == <<queue, task, script, future, refused>>

LEMMA OnceUnchanged == OnceInv /\ UNCHANGED OnceVars => OnceInv'
BY DEF OnceInv, ScriptsInv, PlaceInv, OnceVars, Listed, InScript, InBody, Begun, Queued, Running

\* The front of a script or of the queue leaves it.
LEMMA TailOf ==
    ASSUME NEW S, NEW s \in Seq(S), s # <<>>
    PROVE  /\ Head(s) \in S /\ Tail(s) \in Seq(S)
           /\ 1 \in DOMAIN s /\ s[1] = Head(s)
           /\ \A i \in DOMAIN Tail(s) : i \in Nat /\ i # 0 /\ i + 1 \in DOMAIN s /\ Tail(s)[i] = s[i + 1]
           /\ \A i \in DOMAIN s : i # 1 => i - 1 \in DOMAIN Tail(s) /\ Tail(s)[i - 1] = s[i]
OBVIOUS

\* A thread takes a step of its script or drops the rest of it: nothing is
\* then listed that was not, and what the step submits is not listed any more.
LEMMA ScriptsShrink ==
    ASSUME TypeOK, ScriptsInv, NEW t \in Threads, script[t] # <<>>,
           Proceed(t) \/ script' = [script EXCEPT ![t] = <<>>],
           \A k \in Tasks : Begun(k) <=> Begun(k)'
    PROVE  /\ ScriptsInv'
           /\ \A k \in Tasks : Listed(k)' => Listed(k)
           /\ Head(script[t]).op = "submit" =>
                  \E k \in Tasks : k = Subject(t) /\ Listed(k) /\ ~Listed(k)'
<1>1. script \in [Threads -> Seq(Steps)]
  BY DEF TypeOK
<1> DEFINE Was(u, i) == IF u = t THEN i + 1 ELSE i
<1>2. ASSUME NEW u \in Threads, NEW i \in Submissions(script'[u])
      PROVE  /\ Was(u, i) \in Submissions(script[u]) /\ script'[u][i] = script[u][Was(u, i)]
             /\ i \in Nat /\ (u = t => Was(u, i) # 1)
  <2>1. CASE u = t
    <3>1. script'[t] = <<>> \/ script'[t] = Tail(script[t])
      BY <1>1 DEF Proceed
    <3>2. i \in DOMAIN script'[t]
      BY <1>2, <2>1 DEF Submissions
    <3>3. script'[t] = Tail(script[t])
      BY <3>1, <3>2
    <3>4. i \in Nat /\ i # 0 /\ i + 1 \in DOMAIN script[t] /\ script'[t][i] = script[t][i + 1]
      BY <1>1, <3>2, <3>3, TailOf
    <3>5. script'[u][i].op = "submit"
      BY <1>2 DEF Submissions
    <3>6. i + 1 \in Submissions(script[t])
      BY <2>1, <3>4, <3>5 DEF Submissions
    <3> QED BY <2>1, <3>4, <3>6
  <2>2. CASE u # t
    <3>1. script'[u] = script[u] /\ script[u] \in Seq(Steps)
      BY <1>1, <2>2 DEF Proceed
    <3>2. i \in Nat
      BY <1>2, <3>1 DEF Submissions
    <3> QED BY <1>2, <2>2, <3>1, <3>2
  <2> QED BY <2>1, <2>2
<1>3. ASSUME NEW u \in Threads, NEW v \in Threads,
             NEW i \in Submissions(script'[u]), NEW j \in Submissions(script'[v]),
             script'[u][i].task = script'[v][j].task
      PROVE  u = v /\ i = j
  <2>1. u = v /\ Was(u, i) = Was(v, j)
    <3> HIDE DEF Was
    <3> QED BY <1>2, <1>3 DEF ScriptsInv
  <2> QED BY <1>2, <2>1
<1>4. ASSUME NEW u \in Threads, NEW k \in Tasks,
             NEW i \in Submissions(script'[u]), NEW j \in Submissions(Body[k]),
             script'[u][i].task = Body[k][j].task
      PROVE  Begun(k)'
  <2> HIDE DEF Was
  <2> QED BY <1>2, <1>4 DEF ScriptsInv
<1>5. ASSUME NEW k \in Tasks PROVE InBody(k)' <=> InBody(k)
  BY DEF InBody
<1>6. ASSUME NEW k \in Tasks, InScript(k)'
      PROVE  \E u \in Threads : \E i \in Submissions(script[u]) :
                 script[u][i].task = k /\ (u = t => i # 1)
  <2> HIDE DEF Was
  <2> QED BY <1>2, <1>6 DEF InScript
<1>7. \A k \in Tasks : Listed(k)' => Listed(k)
  BY <1>5, <1>6 DEF Listed, InScript
<1>8. ASSUME Head(script[t]).op = "submit"
      PROVE  \E k \in Tasks : k = Subject(t) /\ Listed(k) /\ ~Listed(k)'
  <2>1. PICK k \in Tasks : k = Subject(t)
    BY <1>8, ScriptTail
  <2>2. 1 \in Submissions(script[t]) /\ script[t][1].task = k
    BY <1>1, <1>8, <2>1, TailOf DEF Submissions, Subject
  <2>3. ~InScript(k)'
    BY <1>6, <2>2 DEF ScriptsInv
  <2>4. ~InBody(k)
    BY <2>2 DEF ScriptsInv, InBody
  <2> QED BY <1>5, <2>1, <2>2, <2>3, <2>4 DEF Listed, InScript
<1>9. ScriptsInv'
  BY <1>3, <1>4 DEF ScriptsInv
<1> QED BY <1>7, <1>8, <1>9

\* What Fetch, EndTask and Submit do to the places of tasks.
FetchPlaces(w, k) ==
    /\ pc[w] \in {"fetch", "awake"} /\ queue # <<>> /\ queue[1] = k
    /\ queue' = Tail(queue) /\ task' = [task EXCEPT ![w] = k]
    /\ script' = [script EXCEPT ![w] = Body[k]]
    /\ UNCHANGED <<future, refused>>

LEMMA FetchTakes ==
    ASSUME TypeOK, NEW w \in Workers, Fetch(w), queue # <<>>
    PROVE  \E k \in Tasks : FetchPlaces(w, k)
<1>1. PICK k : k = Head(queue)
  OBVIOUS
<1>2. k \in Tasks /\ queue[1] = k
  BY <1>1, TailOf DEF TypeOK
<1> QED BY <1>1, <1>2 DEF Fetch, FetchPlaces

LEMMA FetchQueue ==
    ASSUME TypeOK, OnceInv, NEW w \in Workers, NEW k \in Tasks, FetchPlaces(w, k)
    PROVE  /\ task[w] = NoTask /\ task'[w] = k /\ \A v \in Workers \ {w} : task'[v] = task[v]
           /\ Queued(k) /\ ~Queued(k)' /\ ~Running(k) /\ Running(k)' /\ future[k] = "pending"
           /\ \A l \in Tasks : l # k => (Queued(l)' <=> Queued(l)) /\ (Running(l)' <=> Running(l))
           /\ \A i, j \in DOMAIN queue' : queue'[i] = queue'[j] => i = j
<1>1. task[w] = NoTask /\ task'[w] = k /\ \A v \in Workers \ {w} : task'[v] = task[v]
  BY DEF FetchPlaces, TypeOK
<1>2. /\ 1 \in DOMAIN queue /\ queue[1] = k
      /\ \A i \in DOMAIN queue' : i \in Nat /\ i # 0 /\ i + 1 \in DOMAIN queue /\ queue'[i] = queue[i + 1]
      /\ \A i \in DOMAIN queue : i # 1 => i - 1 \in DOMAIN queue' /\ queue'[i - 1] = queue[i]
  BY TailOf DEF FetchPlaces, TypeOK
<1>3. Queued(k) /\ Running(k)'
  BY <1>1, <1>2 DEF Queued, Running
<1>4. ~Running(k) /\ future[k] = "pending"
  BY <1>3 DEF OnceInv, PlaceInv
<1>5. ~Queued(k)' /\ \A i, j \in DOMAIN queue' : queue'[i] = queue'[j] => i = j
  BY <1>2 DEF OnceInv, PlaceInv, Queued
<1>6. ASSUME NEW l \in Tasks, l # k PROVE (Queued(l)' <=> Queued(l)) /\ (Running(l)' <=> Running(l))
  <2>1. Queued(l)' <=> Queued(l)
    BY <1>2, <1>6 DEF Queued
  <2>2. Running(l)' <=> Running(l)
    BY <1>1, <1>6, PoolAssumption DEF Running
  <2> QED BY <2>1, <2>2
<1> QED BY <1>1, <1>3, <1>4, <1>5, <1>6

LEMMA OnceFetch ==
    ASSUME TypeOK, OnceInv, NEW w \in Workers, NEW k \in Tasks, FetchPlaces(w, k)
    PROVE  OnceInv'
<1>1. /\ task[w] = NoTask /\ task'[w] = k /\ \A v \in Workers \ {w} : task'[v] = task[v]
      /\ Queued(k) /\ ~Queued(k)' /\ ~Running(k) /\ Running(k)' /\ future[k] = "pending"
      /\ \A l \in Tasks : l # k => (Queued(l)' <=> Queued(l)) /\ (Running(l)' <=> Running(l))
      /\ \A i, j \in DOMAIN queue' : queue'[i] = queue'[j] => i = j
  BY FetchQueue
<1>2. future' = future /\ refused' = refused /\ w \in Threads
  BY DEF FetchPlaces, Threads
<1>3. /\ script'[w] = Body[k] /\ \A t \in Threads \ {w} : script'[t] = script[t]
  BY <1>2 DEF FetchPlaces, TypeOK
<1>4. ~Begun(k) /\ Begun(k)' /\ \A l \in Tasks : l # k => (Begun(l)' <=> Begun(l))
  BY <1>1, <1>2 DEF Begun
<1>5. ScriptsInv'
  <2>1. ASSUME NEW t \in Threads, NEW u \in Threads,
               NEW i \in Submissions(script'[t]), NEW j \in Submissions(script'[u]),
               script'[t][i].task = script'[u][j].task
        PROVE  t = u /\ i = j
    <3>1. CASE t = w /\ u = w
      BY <1>3, <2>1, <3>1, SubmissionsAreDistinct
    <3>2. CASE t # w /\ u = w
      BY <1>3, <1>4, <2>1, <3>2 DEF OnceInv, ScriptsInv
    <3>3. CASE t = w /\ u # w
      BY <1>3, <1>4, <2>1, <3>3 DEF OnceInv, ScriptsInv
    <3>4. CASE t # w /\ u # w
      BY <1>3, <2>1, <3>4 DEF OnceInv, ScriptsInv
    <3> QED BY <3>1, <3>2, <3>3, <3>4
  <2>2. ASSUME NEW t \in Threads, NEW l \in Tasks,
               NEW i \in Submissions(script'[t]), NEW j \in Submissions(Body[l]),
               script'[t][i].task = Body[l][j].task
        PROVE  Begun(l)'
    <3>1. CASE t = w
      BY <1>3, <1>4, <2>2, <3>1, SubmissionsAreDistinct
    <3>2. CASE t # w
      BY <1>3, <1>4, <2>2, <3>2 DEF OnceInv, ScriptsInv
    <3> QED BY <3>1, <3>2
  <2> QED BY <2>1, <2>2 DEF ScriptsInv
<1>6. ASSUME NEW l \in Tasks, Listed(l)' PROVE Listed(l)
  <2>1. CASE InScript(l)'
    <3>1. PICK t \in Threads : \E i \in Submissions(script'[t]) : script'[t][i].task = l
      BY <2>1 DEF InScript
    <3>2. CASE t = w
      BY <1>3, <1>4, <3>1, <3>2 DEF Listed, InBody
    <3>3. CASE t # w
      BY <1>3, <3>1, <3>3 DEF Listed, InScript
    <3> QED BY <3>2, <3>3
  <2>2. CASE InBody(l)'
    BY <1>4, <2>2 DEF Listed, InBody
  <2> QED BY <1>6, <2>1, <2>2 DEF Listed
<1>7. \A u, v \in Workers : task'[u] = task'[v] /\ task'[u] # NoTask => u = v
  BY <1>1 DEF OnceInv, PlaceInv, Running
<1>8. \A l \in Tasks : /\ Listed(l)' => future'[l] = "none" /\ l \notin refused'
                       /\ Queued(l)' => future'[l] = "pending" /\ ~Running(l)'
                       /\ Running(l)' => future'[l] = "pending"
                       /\ l \in refused' => future'[l] = "none"
  BY <1>1, <1>2, <1>6 DEF OnceInv, PlaceInv
<1> QED BY <1>1, <1>5, <1>7, <1>8 DEF OnceInv, PlaceInv

LEMMA EndPlaces ==
    ASSUME TypeOK, OnceInv, NEW w \in Workers, EndTask(w)
    PROVE  \E k \in Tasks :
              /\ k = task[w] /\ Running(k) /\ ~Running(k)' /\ future[k] = "pending" /\ ~Queued(k)
              /\ future' = [future EXCEPT ![k] = "ready"]
              /\ UNCHANGED <<queue, refused>>
              /\ \A l \in Tasks : l # k => (Running(l)' <=> Running(l))
              /\ \A v \in Workers : v # w => task'[v] = task[v]
              /\ task'[w] = NoTask
<1>1. task[w] \in Tasks /\ pc[w] = "run"
  BY DEF EndTask, TypeOK
<1>2. PICK k \in Tasks : k = task[w]
  BY <1>1
<1>3. /\ task'[w] = NoTask /\ \A v \in Workers : v # w => task'[v] = task[v]
      /\ future' = [future EXCEPT ![k] = "ready"] /\ UNCHANGED <<queue, refused>>
  BY <1>2 DEF EndTask, TypeOK
<1>4. Running(k) /\ NoTask \notin Tasks
  BY <1>2, PoolAssumption DEF Running
<1>5. future[k] = "pending" /\ ~Queued(k)
  BY <1>4 DEF OnceInv, PlaceInv
<1>6. ~Running(k)'
  BY <1>2, <1>3, <1>4 DEF Running, OnceInv, PlaceInv
<1>7. \A l \in Tasks : l # k => (Running(l)' <=> Running(l))
  BY <1>2, <1>3, <1>4 DEF Running
<1> QED BY <1>2, <1>3, <1>4, <1>5, <1>6, <1>7

LEMMA OnceEnd ==
    ASSUME TypeOK, OnceInv, NEW w \in Workers, EndTask(w)
    PROVE  OnceInv'
<1>1. PICK k \in Tasks :
              /\ k = task[w] /\ Running(k) /\ ~Running(k)' /\ future[k] = "pending" /\ ~Queued(k)
              /\ future' = [future EXCEPT ![k] = "ready"]
              /\ UNCHANGED <<queue, refused>>
              /\ \A l \in Tasks : l # k => (Running(l)' <=> Running(l))
              /\ \A v \in Workers : v # w => task'[v] = task[v]
              /\ task'[w] = NoTask
  BY EndPlaces
<1>2. future'[k] = "ready" /\ \A l \in Tasks : l # k => future'[l] = future[l]
  BY <1>1 DEF TypeOK
<1>3. \A l \in Tasks : Begun(l) <=> Begun(l)'
  BY <1>1, <1>2 DEF Begun
<1>4. w \in Threads /\ script' = [script EXCEPT ![w] = <<>>]
  BY DEF EndTask, Threads
<1>5. ScriptsInv' /\ \A l \in Tasks : Listed(l)' => Listed(l)
  <2>1. CASE script[w] = <<>>
    <3>1. script' = script
      BY <1>4, <2>1 DEF TypeOK
    <3> QED BY <1>3, <3>1 DEF OnceInv, ScriptsInv, Listed, InScript, InBody
  <2>2. CASE script[w] # <<>>
    BY <1>3, <1>4, <2>2, ScriptsShrink DEF OnceInv
  <2> QED BY <2>1, <2>2
<1>6. \A l : Queued(l)' <=> Queued(l)
  BY <1>1 DEF Queued
<1>7. \A u, v \in Workers : task'[u] = task'[v] /\ task'[u] # NoTask => u = v
  BY <1>1 DEF OnceInv, PlaceInv
<1>8. ~Listed(k) /\ k \notin refused
  BY <1>1 DEF OnceInv, PlaceInv
<1>9. \A l \in Tasks : /\ Listed(l)' => future'[l] = "none" /\ l \notin refused'
                       /\ Queued(l)' => future'[l] = "pending" /\ ~Running(l)'
                       /\ Running(l)' => future'[l] = "pending"
                       /\ l \in refused' => future'[l] = "none"
  BY <1>1, <1>2, <1>5, <1>6, <1>8 DEF OnceInv, PlaceInv
<1> QED BY <1>1, <1>5, <1>7, <1>9 DEF OnceInv, PlaceInv

LEMMA SubmitPlaces ==
    ASSUME TypeOK, OnceInv, NEW t \in Threads, Submit(t)
    PROVE  \E k \in Tasks :
              /\ ScriptsInv' /\ \A l \in Tasks : Listed(l)' => Listed(l) /\ l # k
              /\ Listed(k) /\ ~Queued(k) /\ ~Running(k) /\ task' = task
              /\ IF stopping THEN refused' = refused \cup {k} /\ UNCHANGED <<queue, future>>
                 ELSE /\ queue' = Append(queue, k) /\ refused' = refused
                      /\ future' = [future EXCEPT ![k] = "pending"]
<1>1. script[t] # <<>> /\ Head(script[t]).op = "submit" /\ task' = task
  BY DEF Submit, At
<1>2. PICK k \in Tasks : k = Subject(t)
  BY <1>1, ScriptTail
<1>3. IF stopping THEN refused' = refused \cup {k} /\ UNCHANGED <<queue, future>>
      ELSE /\ queue' = Append(queue, k) /\ refused' = refused
           /\ future' = [future EXCEPT ![k] = "pending"]
  BY <1>2 DEF Submit
<1>4. Proceed(t) \/ script' = [script EXCEPT ![t] = <<>>]
  BY DEF Submit, Proceed
<1>5. \A l \in Tasks : Begun(l) <=> Begun(l)'
  <2>1. \A l \in Tasks : Running(l)' <=> Running(l)
    BY <1>1 DEF Running
  <2>2. CASE stopping
    BY <1>3, <2>1, <2>2 DEF Begun
  <2>3. CASE ~stopping
    <3>1. future'[k] = "pending" /\ \A l \in Tasks : l # k => future'[l] = future[l]
      BY <1>3, <2>3 DEF TypeOK
    <3>2. future[k] = "none"
      <4>1. k \in Tasks /\ (Listed(k) => future[k] = "none")
        BY DEF OnceInv, PlaceInv
      <4>2. Listed(k)
        <5>1. 1 \in DOMAIN script[t] /\ script[t][1] = Head(script[t])
          BY <1>1, TailOf DEF TypeOK
        <5> QED BY <1>1, <1>2, <5>1 DEF Listed, InScript, Submissions, Subject
      <4> QED BY <4>1, <4>2
    <3> QED BY <2>1, <3>1, <3>2 DEF Begun
  <2> QED BY <2>2, <2>3
<1>6. /\ ScriptsInv'
      /\ \A l \in Tasks : Listed(l)' => Listed(l)
      /\ \E l \in Tasks : l = Subject(t) /\ Listed(l) /\ ~Listed(l)'
  BY <1>1, <1>4, <1>5, ScriptsShrink DEF OnceInv
<1>7. Listed(k) /\ ~Listed(k)'
  BY <1>2, <1>6
<1>8. ~Queued(k) /\ ~Running(k)
  BY <1>7 DEF OnceInv, PlaceInv
<1> QED BY <1>1, <1>3, <1>6, <1>7, <1>8

LEMMA QueueGrows ==
    ASSUME TypeOK, NEW k \in Tasks, queue' = Append(queue, k), ~Queued(k)
    PROVE  /\ Queued(k)' /\ \A l : l # k => (Queued(l)' <=> Queued(l))
           /\ (\A i, j \in DOMAIN queue : queue[i] = queue[j] => i = j)
              => \A i, j \in DOMAIN queue' : queue'[i] = queue'[j] => i = j
<1>1. /\ Len(queue) \in Nat /\ DOMAIN queue = 1 .. Len(queue) /\ DOMAIN queue' = 1 .. Len(queue) + 1
      /\ queue'[Len(queue) + 1] = k /\ \A i \in DOMAIN queue : queue'[i] = queue[i]
  BY AppendProperties DEF TypeOK
<1> QED BY <1>1 DEF Queued

LEMMA OnceSubmit == ASSUME TypeOK, OnceInv, NEW t \in Threads, Submit(t) PROVE OnceInv'
<1>1. PICK k \in Tasks :
              /\ ScriptsInv' /\ \A l \in Tasks : Listed(l)' => Listed(l) /\ l # k
              /\ Listed(k) /\ ~Queued(k) /\ ~Running(k) /\ task' = task
              /\ IF stopping THEN refused' = refused \cup {k} /\ UNCHANGED <<queue, future>>
                 ELSE /\ queue' = Append(queue, k) /\ refused' = refused
                      /\ future' = [future EXCEPT ![k] = "pending"]
  BY SubmitPlaces
<1>2. future[k] = "none" /\ k \notin refused
  BY <1>1 DEF OnceInv, PlaceInv
<1>3. \A l : Running(l)' <=> Running(l)
  BY <1>1 DEF Running
<1>4. CASE stopping
  <2>1. \A l : Queued(l)' <=> Queued(l)
    BY <1>1, <1>4 DEF Queued
  <2>2. \A l \in Tasks : /\ Listed(l)' => future'[l] = "none" /\ l \notin refused'
                         /\ Queued(l)' => future'[l] = "pending" /\ ~Running(l)'
                         /\ Running(l)' => future'[l] = "pending"
                         /\ l \in refused' => future'[l] = "none"
    BY <1>1, <1>2, <1>3, <1>4, <2>1 DEF OnceInv, PlaceInv
  <2> QED BY <1>1, <1>4, <2>2 DEF OnceInv, PlaceInv
<1>5. CASE ~stopping
  <2>1. future'[k] = "pending" /\ \A l \in Tasks : l # k => future'[l] = future[l]
    BY <1>1, <1>5 DEF TypeOK
  <2>2. /\ \A l : l # k => (Queued(l)' <=> Queued(l))
        /\ \A i, j \in DOMAIN queue' : queue'[i] = queue'[j] => i = j
    BY <1>1, <1>5, QueueGrows DEF OnceInv, PlaceInv
  <2>3. \A l \in Tasks : /\ Listed(l)' => future'[l] = "none" /\ l \notin refused'
                         /\ Queued(l)' => future'[l] = "pending" /\ ~Running(l)'
                         /\ Running(l)' => future'[l] = "pending"
                         /\ l \in refused' => future'[l] = "none"
    BY <1>1, <1>2, <1>3, <1>5, <2>1, <2>2 DEF OnceInv, PlaceInv
  <2> QED BY <1>1, <2>2, <2>3 DEF OnceInv, PlaceInv
<1> QED BY <1>4, <1>5

\* Steps in which no task changes its place.
LEMMA OnceProceed ==
    ASSUME TypeOK, OnceInv, NEW t \in Threads, script[t] # <<>>, Proceed(t) \/ UNCHANGED script,
           UNCHANGED <<queue, task, future, refused>>
    PROVE  OnceInv'
<1>1. CASE UNCHANGED script
  BY <1>1, OnceUnchanged DEF OnceVars
<1>2. CASE Proceed(t)
  <2>1. \A l : (Queued(l)' <=> Queued(l)) /\ (Running(l)' <=> Running(l)) /\ (Begun(l)' <=> Begun(l))
    BY DEF Queued, Running, Begun
  <2>2. ScriptsInv' /\ \A l \in Tasks : Listed(l)' => Listed(l)
    BY <1>2, <2>1, ScriptsShrink DEF OnceInv
  <2>3. \A l \in Tasks : /\ Listed(l)' => future'[l] = "none" /\ l \notin refused'
                         /\ Queued(l)' => future'[l] = "pending" /\ ~Running(l)'
                         /\ Running(l)' => future'[l] = "pending"
                         /\ l \in refused' => future'[l] = "none"
    BY <2>1, <2>2 DEF OnceInv, PlaceInv
  <2> QED BY <2>2, <2>3 DEF OnceInv, PlaceInv
<1> QED BY <1>1, <1>2

Quiet(t) == \/ SubmitNotify(t) \/ Get(t) \/ ShutdownNotify(t) \/ Join(t)

LEMMA OnceQuiet ==
    ASSUME TypeInv, OnceInv, NEW t \in Threads, Quiet(t) \/ Shutdown(t)
    PROVE  OnceInv' /\ UNCHANGED <<queue, task, future, refused>>
<1>1. TypeOK /\ UNCHANGED <<queue, task, future, refused>>
  BY DEF TypeInv, Quiet, SubmitNotify, Get, Shutdown, ShutdownNotify, Join
<1>2. CASE UNCHANGED script
  BY <1>1, <1>2, OnceUnchanged DEF OnceVars
<1>3. CASE script[t] # <<>> /\ Proceed(t)
  BY <1>1, <1>3, OnceProceed
<1>4. Join(t) => script[t] # <<>>
  BY DEF Join, TypeInv, ScriptsFit, Threads
<1> QED BY <1>1, <1>2, <1>3, <1>4 DEF Quiet, SubmitNotify, Get, Shutdown, ShutdownNotify, Join, At

LEMMA OnceStep == TypeInv /\ OnceInv /\ [Next]_vars => OnceInv'
<1> SUFFICES ASSUME TypeInv, OnceInv, [Next]_vars PROVE OnceInv'
  OBVIOUS
<1>1. TypeOK
  BY DEF TypeInv
<1>2. ASSUME NEW w \in Workers, Fetch(w) PROVE OnceInv'
  <2>1. CASE queue = <<>>
    BY <1>2, <2>1, OnceUnchanged DEF Fetch, OnceVars
  <2>2. CASE queue # <<>>
    BY <1>1, <1>2, <2>2, FetchTakes, OnceFetch
  <2> QED BY <2>1, <2>2
<1>3. ASSUME NEW w \in Workers, SpuriousWakeup(w) PROVE OnceInv'
  BY <1>3, OnceUnchanged DEF SpuriousWakeup, OnceVars
<1>4. CASE UNCHANGED vars
  BY <1>4, OnceUnchanged DEF vars, OnceVars
<1> QED BY <1>1, <1>2, <1>3, <1>4, OnceEnd, OnceSubmit, OnceQuiet DEF Next, Step, Return, Throw, Quiet

-----------------------------------------------------------------------------
(* The refinement *)

PlaceStatus(k) == IF future[k] = "ready" THEN "done"
                  ELSE IF k \in refused THEN "refused"
                  ELSE IF Running(k) THEN "running"
                  ELSE IF future[k] = "pending" THEN "accepted" ELSE "new"

StatusIsPlace == \A k \in Tasks : Status(k) = PlaceStatus(k)

LEMMA StatusHolds == OnceInv => StatusIsPlace
<1> SUFFICES ASSUME OnceInv, NEW k \in Tasks PROVE Status(k) = PlaceStatus(k)
  BY DEF StatusIsPlace
<1>1. /\ Running(k) => future[k] = "pending"
      /\ k \in refused => future[k] = "none"
      /\ Running(k) <=> \E w \in Workers : task[w] = k
  BY DEF OnceInv, PlaceInv, Running
<1>2. CASE future[k] = "ready"
  BY <1>1, <1>2 DEF Status, PlaceStatus
<1>3. CASE k \in refused
  BY <1>1, <1>3 DEF Status, PlaceStatus
<1>4. CASE Running(k)
  BY <1>1, <1>4 DEF Status, PlaceStatus
<1>5. CASE future[k] # "ready" /\ k \notin refused /\ ~Running(k)
  BY <1>1, <1>5 DEF Status, PlaceStatus
<1> QED BY <1>2, <1>3, <1>4, <1>5

LEMMA StatusHoldsNext == OnceInv' => StatusIsPlace'
BY StatusHolds, PTL

Same == \A l \in Tasks : Status(l)' = Status(l)

Goes(k, from, to) == /\ Status(k) = from /\ Status(k)' = to
                     /\ \A l \in Tasks : l # k => Status(l)' = Status(l)

LEMMA SameStatus ==
    ASSUME UNCHANGED <<task, future, refused>>, OnceInv, OnceInv'
    PROVE  Same
<1>1. StatusIsPlace /\ StatusIsPlace'
  BY StatusHolds, StatusHoldsNext
<1> QED BY <1>1 DEF StatusIsPlace, PlaceStatus, Same, Running

LEMMA FetchStarts ==
    ASSUME TypeOK, OnceInv, OnceInv', NEW w \in Workers, Fetch(w), queue # <<>>
    PROVE  \E k \in Tasks : Goes(k, "accepted", "running")
<1>1. PICK k \in Tasks : FetchPlaces(w, k)
  BY FetchTakes
<1>2. /\ ~Running(k) /\ Running(k)' /\ future[k] = "pending" /\ k \notin refused
      /\ \A l \in Tasks : l # k => (Running(l)' <=> Running(l))
  BY <1>1, FetchQueue DEF OnceInv, PlaceInv
<1>3. future' = future /\ refused' = refused
  BY <1>1 DEF FetchPlaces
<1>4. StatusIsPlace /\ StatusIsPlace'
  BY StatusHolds, StatusHoldsNext
<1>5. Status(k) = "accepted" /\ Status(k)' = "running"
  BY <1>2, <1>3, <1>4 DEF StatusIsPlace, PlaceStatus
<1>6. \A l \in Tasks : l # k => Status(l)' = Status(l)
  BY <1>2, <1>3, <1>4 DEF StatusIsPlace, PlaceStatus
<1> QED BY <1>5, <1>6 DEF Goes

LEMMA EndFinishes ==
    ASSUME TypeOK, OnceInv, OnceInv', NEW w \in Workers, EndTask(w)
    PROVE  \E k \in Tasks : Goes(k, "running", "done")
<1>1. PICK k \in Tasks :
              /\ k = task[w] /\ Running(k) /\ ~Running(k)' /\ future[k] = "pending" /\ ~Queued(k)
              /\ future' = [future EXCEPT ![k] = "ready"]
              /\ UNCHANGED <<queue, refused>>
              /\ \A l \in Tasks : l # k => (Running(l)' <=> Running(l))
              /\ \A v \in Workers : v # w => task'[v] = task[v]
              /\ task'[w] = NoTask
  BY EndPlaces
<1>2. future'[k] = "ready" /\ \A l \in Tasks : l # k => future'[l] = future[l]
  BY <1>1 DEF TypeOK
<1>3. k \notin refused
  BY <1>1 DEF OnceInv, PlaceInv
<1>4. StatusIsPlace /\ StatusIsPlace'
  BY StatusHolds, StatusHoldsNext
<1>5. Status(k) = "running" /\ Status(k)' = "done"
  BY <1>1, <1>2, <1>3, <1>4 DEF StatusIsPlace, PlaceStatus
<1>6. \A l \in Tasks : l # k => Status(l)' = Status(l)
  BY <1>1, <1>2, <1>4 DEF StatusIsPlace, PlaceStatus
<1> QED BY <1>5, <1>6 DEF Goes

LEMMA SubmitDecides ==
    ASSUME TypeOK, OnceInv, OnceInv', NEW t \in Threads, Submit(t)
    PROVE  \E k \in Tasks : Goes(k, "new", IF stopping THEN "refused" ELSE "accepted")
<1>1. PICK k \in Tasks :
              /\ ScriptsInv' /\ \A l \in Tasks : Listed(l)' => Listed(l) /\ l # k
              /\ Listed(k) /\ ~Queued(k) /\ ~Running(k) /\ task' = task
              /\ IF stopping THEN refused' = refused \cup {k} /\ UNCHANGED <<queue, future>>
                 ELSE /\ queue' = Append(queue, k) /\ refused' = refused
                      /\ future' = [future EXCEPT ![k] = "pending"]
  BY SubmitPlaces
<1>2. future[k] = "none" /\ k \notin refused /\ ~Running(k)
  BY <1>1 DEF OnceInv, PlaceInv
<1>3. \A l : Running(l)' <=> Running(l)
  BY <1>1 DEF Running
<1>4. StatusIsPlace /\ StatusIsPlace'
  BY StatusHolds, StatusHoldsNext
<1>5. Status(k) = "new"
  BY <1>2, <1>4 DEF StatusIsPlace, PlaceStatus
<1>6. CASE stopping
  <2>1. refused' = refused \cup {k} /\ future' = future
    BY <1>1, <1>6
  <2>2. Status(k)' = "refused"
    BY <1>2, <1>3, <1>4, <2>1 DEF StatusIsPlace, PlaceStatus
  <2>3. \A l \in Tasks : l # k => Status(l)' = Status(l)
    BY <1>3, <1>4, <2>1 DEF StatusIsPlace, PlaceStatus
  <2> QED BY <1>5, <1>6, <2>2, <2>3 DEF Goes
<1>7. CASE ~stopping
  <2>1. /\ refused' = refused /\ future'[k] = "pending"
        /\ \A l \in Tasks : l # k => future'[l] = future[l]
    BY <1>1, <1>7 DEF TypeOK
  <2>2. Status(k)' = "accepted"
    BY <1>2, <1>3, <1>4, <2>1 DEF StatusIsPlace, PlaceStatus
  <2>3. \A l \in Tasks : l # k => Status(l)' = Status(l)
    BY <1>3, <1>4, <2>1 DEF StatusIsPlace, PlaceStatus
  <2> QED BY <1>5, <1>7, <2>2, <2>3 DEF Goes
<1> QED BY <1>6, <1>7

LEMMA TaskGoes ==
    ASSUME NEW k \in Tasks, NEW s, NEW r, Goes(k, r, s), UNCHANGED stopping, Exited' = Exited
    PROVE  Status(k) = r /\ Pool!Becomes(k, s)
<1>1. [l \in Tasks |-> Status(l)]' = [[l \in Tasks |-> Status(l)] EXCEPT ![k] = s]
  BY DEF Goes
<1> QED BY <1>1 DEF Goes, Pool!Becomes

LEMMA NothingGoes ==
    ASSUME Same, UNCHANGED stopping, Exited' = Exited
    PROVE  UNCHANGED Pool!vars
BY DEF Same, Pool!vars

\* A worker that goes on, and did not end before, leaves the pool unjoined.
LEMMA NobodyExits ==
    ASSUME TypeOK, NEW w \in Workers, NEW l, l # "exited", pc[w] # "exited",
           pc' = [pc EXCEPT ![w] = l]
    PROVE  Exited' = Exited
BY DEF TypeOK, Exited

LEMMA ExitedWhenStopping == EndedOnEmpty /\ Exited => stopping /\ queue = <<>>
BY PoolAssumption DEF EndedOnEmpty, Exited

DoneInv == TypeInv /\ OnceInv /\ DrainInv

\* A worker that finds nothing to do may be the last to end.
LEMMA LastFetch ==
    ASSUME DoneInv, OnceInv', NEW w \in Workers, Fetch(w), queue = <<>>
    PROVE  Pool!Next \/ UNCHANGED Pool!vars
<1>1. UNCHANGED <<queue, stopping, task, future, refused>> /\ TypeOK
  BY DEF Fetch, DoneInv, TypeInv
<1>2. Same
  BY <1>1, SameStatus DEF DoneInv
<1>3. ~Exited
  BY DEF Fetch, Exited
<1>4. CASE ~Exited'
  <2>1. Exited' = Exited
    BY <1>3, <1>4 DEF Exited
  <2> QED BY <1>1, <1>2, <2>1, NothingGoes
<1>5. CASE Exited'
  <2>1. /\ pc[w] \in {"fetch", "awake"}
        /\ pc' = [pc EXCEPT ![w] = IF stopping THEN "exited" ELSE "waiting"]
    BY DEF Fetch
  <2>2. stopping
    BY <1>1, <1>5, <2>1 DEF TypeOK, Exited
  <2>3. ASSUME NEW k \in Tasks PROVE future[k] # "pending" /\ ~Running(k)
    <3>1. ~Queued(k)
      BY <1>1 DEF Queued
    <3>2. ASSUME NEW v \in Workers, task[v] = k PROVE FALSE
      <4>1. pc[v] = "run"
        BY <1>1, <3>2, PoolAssumption DEF TypeOK
      <4>2. pc'[v] = "run"
        BY <1>1, <2>1, <4>1 DEF TypeOK
      <4> QED BY <1>5, <4>2 DEF Exited
    <3> QED BY <3>1, <3>2 DEF Running, DoneInv, DrainInv, PendingIsHeld
  <2>4. \A k \in Tasks : Status(k) \notin {"accepted", "running"}
    BY <2>3, StatusHolds DEF StatusIsPlace, PlaceStatus, DoneInv
  <2> QED BY <1>1, <1>2, <1>3, <1>5, <2>2, <2>4 DEF Same, Pool!Join, Pool!Next
<1> QED BY <1>4, <1>5

LEMMA PoolStep == DoneInv /\ [Next]_vars => [Pool!Next]_(Pool!vars)
<1> SUFFICES ASSUME DoneInv, [Next]_vars PROVE Pool!Next \/ UNCHANGED Pool!vars
  OBVIOUS
<1>0. TypeOK /\ OnceInv /\ OnceInv' /\ EndedOnEmpty
  BY OnceStep DEF DoneInv, TypeInv, DrainInv
<1>1. ASSUME NEW w \in Workers, Fetch(w), queue # <<>> PROVE Pool!Next
  <2>1. PICK k \in Tasks : Goes(k, "accepted", "running")
    BY <1>0, <1>1, FetchStarts
  <2>2. pc' = [pc EXCEPT ![w] = "run"] /\ stopping' = stopping /\ pc[w] # "exited"
    BY <1>1 DEF Fetch
  <2>3. Exited' = Exited
    BY <1>0, <2>2, NobodyExits
  <2> QED BY <2>1, <2>2, <2>3, TaskGoes DEF Pool!Start, Pool!Next
<1>2. ASSUME NEW w \in Workers, EndTask(w) PROVE Pool!Next
  <2>1. PICK k \in Tasks : Goes(k, "running", "done")
    BY <1>0, <1>2, EndFinishes
  <2>2. pc' = [pc EXCEPT ![w] = "fetch"] /\ stopping' = stopping /\ pc[w] # "exited"
    BY <1>2 DEF EndTask
  <2>3. Exited' = Exited
    BY <1>0, <2>2, NobodyExits
  <2> QED BY <2>1, <2>2, <2>3, TaskGoes DEF Pool!Finish, Pool!Next
<1>3. ASSUME NEW t \in Threads, Submit(t) PROVE Pool!Next
  <2>1. PICK k \in Tasks : Goes(k, "new", IF stopping THEN "refused" ELSE "accepted")
    BY <1>0, <1>3, SubmitDecides
  <2>2. stopping' = stopping /\ Exited' = Exited
    BY <1>3 DEF Submit, Exited
  <2>3. CASE stopping
    BY <2>1, <2>2, <2>3, TaskGoes DEF Pool!Refuse, Pool!Next
  <2>4. CASE ~stopping
    <3>1. ~Exited
      BY <1>0, <2>4, ExitedWhenStopping
    <3> QED BY <2>1, <2>2, <2>4, <3>1, TaskGoes DEF Pool!Accept, Pool!Next
  <2> QED BY <2>3, <2>4
<1>4. ASSUME NEW t \in Threads, Shutdown(t) PROVE Pool!Next
  <2>1. Same
    BY <1>0, <1>4, SameStatus DEF Shutdown
  <2>2. stopping' = TRUE /\ Exited' = Exited
    BY <1>4 DEF Shutdown, Exited
  <2> QED BY <2>1, <2>2 DEF Same, Pool!Close, Pool!Next
<1>5. ASSUME UNCHANGED <<task, future, refused>>, UNCHANGED stopping, Exited' = Exited
      PROVE  UNCHANGED Pool!vars
  BY <1>0, <1>5, SameStatus, NothingGoes
<1>6. ASSUME NEW w \in Workers, SpuriousWakeup(w) PROVE UNCHANGED Pool!vars
  <2>1. /\ UNCHANGED <<task, future, refused>> /\ UNCHANGED stopping
        /\ pc[w] # "exited" /\ pc' = [pc EXCEPT ![w] = "awake"]
    BY <1>6 DEF SpuriousWakeup, Waiting
  <2>2. Exited' = Exited
    BY <1>0, <2>1, NobodyExits
  <2> QED BY <1>5, <2>1, <2>2
<1>7. ASSUME NEW t \in Threads, Quiet(t) PROVE UNCHANGED Pool!vars
  <2>1. UNCHANGED <<task, future, refused>> /\ UNCHANGED stopping
    BY <1>7 DEF Quiet, SubmitNotify, Get, ShutdownNotify, Join
  <2>2. CASE SubmitNotify(t)
    <3>1. pc' = pc \/ \E w \in Workers : pc[w] # "exited" /\ pc' = [pc EXCEPT ![w] = "awake"]
      BY <2>2 DEF SubmitNotify, Waiting
    <3>2. Exited' = Exited
      BY <1>0, <3>1, NobodyExits DEF Exited
    <3> QED BY <1>5, <2>1, <3>2
  <2>3. CASE ShutdownNotify(t)
    <3>1. Exited' = Exited
      BY <1>0, <2>3 DEF ShutdownNotify, Waiting, Exited, TypeOK
    <3> QED BY <1>5, <2>1, <3>1
  <2>4. CASE Get(t) \/ Join(t)
    <3>1. Exited' = Exited
      BY <2>4 DEF Get, Join, Exited
    <3> QED BY <1>5, <2>1, <3>1
  <2> QED BY <1>7, <2>2, <2>3, <2>4 DEF Quiet
<1>8. CASE UNCHANGED vars
  BY <1>5, <1>8 DEF vars, Exited
<1> QED BY <1>0, <1>1, <1>2, <1>3, <1>4, <1>6, <1>7, <1>8, LastFetch
        DEF Next, Step, Return, Throw, Quiet

\* In the first state each task has at most one place to be submitted at.
LEMMA InitOnce == Init => OnceInv /\ \A k \in Tasks : ~Running(k)
<1> SUFFICES ASSUME Init PROVE OnceInv /\ \A k \in Tasks : ~Running(k)
  OBVIOUS
<1>1. PICK s \in Scripts : script = [t \in Threads |-> IF t \in Clients THEN s[t] ELSE <<>>]
  BY DEF Init
<1>2. \A t \in Threads : t \in Clients \/ Submissions(script[t]) = {}
  BY <1>1 DEF Submissions
<1>3. \A t \in Threads : t \in Clients => script[t] = s[t]
  BY <1>1
<1>4. ScriptsInv
  <2>1. ASSUME NEW t \in Threads, NEW u \in Threads,
               NEW i \in Submissions(script[t]), NEW j \in Submissions(script[u]),
               script[t][i].task = script[u][j].task
        PROVE  t = u /\ i = j
    <3>1. t \in Clients /\ u \in Clients /\ script[t] = s[t] /\ script[u] = s[u]
      BY <1>2, <1>3, <2>1
    <3>2. i \in Submissions(s[t]) /\ j \in Submissions(s[u]) /\ s[t][i].task = s[u][j].task
      BY <2>1, <3>1
    <3> QED BY <3>1, <3>2, SubmissionsAreDistinct
  <2>2. ASSUME NEW t \in Threads, NEW k \in Tasks,
               NEW i \in Submissions(script[t]), NEW j \in Submissions(Body[k])
        PROVE  script[t][i].task # Body[k][j].task
    <3>1. t \in Clients /\ script[t] = s[t] /\ i \in Submissions(s[t])
      BY <1>2, <1>3, <2>2
    <3> QED BY <2>2, <3>1, SubmissionsAreDistinct
  <2> QED BY <2>1, <2>2 DEF ScriptsInv
<1>5. \A k \in Tasks : ~Queued(k) /\ ~Running(k) /\ future[k] = "none" /\ k \notin refused
  BY PoolAssumption DEF Init, Queued, Running
<1>6. /\ \A i, j \in DOMAIN queue : queue[i] = queue[j] => i = j
      /\ \A v \in Workers : task[v] = NoTask
  BY DEF Init
<1> QED BY <1>4, <1>5, <1>6 DEF OnceInv, PlaceInv

\* "Stop accepting new tasks", "drain": for any number of workers, any scripts
\* of the clients and any bodies of tasks, with tasks that submit tasks, throw
\* and wait for futures, a task that submit() accepts runs once and has ended
\* when the pool is joined, and only a pool that is stopping refuses one.
THEOREM PoolIsTaskPool == Spec => Pool!Safety
<1>1. Init => OnceInv /\ DrainInv
  BY InitOnce DEF Init, DrainInv, EndedOnEmpty, PendingIsHeld
<1>2. Init => Pool!Init
  <2> SUFFICES ASSUME Init PROVE Pool!Init
    OBVIOUS
  <2>1. \A k \in Tasks : ~Running(k) /\ future[k] = "none" /\ k \notin refused
    BY InitOnce DEF Init
  <2>2. \A k \in Tasks : Status(k) = "new"
    BY <1>1, <2>1, StatusHolds DEF StatusIsPlace, PlaceStatus
  <2>3. ~Exited /\ ~stopping
    BY PoolAssumption DEF Init, Exited
  <2> QED BY <2>2, <2>3 DEF Init, Pool!Init
<1>3. TypeInv /\ OnceInv /\ DrainInv /\ [Next]_vars => OnceInv' /\ DrainInv'
  BY OnceStep, EndedOnEmptyStep, PendingIsHeldStep DEF TypeInv, DrainInv
<1>4. TypeInv /\ OnceInv /\ DrainInv /\ [Next]_vars => [Pool!Next]_(Pool!vars)
  BY PoolStep DEF DoneInv
<1> QED BY <1>1, <1>2, <1>3, <1>4, TypeInvHolds, PTL DEF Spec, Pool!Safety

=============================================================================
