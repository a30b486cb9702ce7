------------------------- MODULE SemaphorePoolProofs -------------------------
(***************************************************************************)
(* Proofs about the pool of semaphore_worker_thread_pool.cpp, for every    *)
(* number of workers, of slots, of clients and of tasks.                   *)
(***************************************************************************)
EXTENDS SemaphorePool, FiniteSetTheorems, SequenceTheorems, TLAPS

Locations == {"fetch", "waiting", "awake", "exited"} \cup InTask

-----------------------------------------------------------------------------
(* Type correctness *)

\* A client that is in stop() has that call before it in its script: without
\* this, the end of the call might take the tail of an empty script.
StopPending == \A c \in Clients : call[c] \in {"notifyAll", "join"} => script[c] # <<>>

TypeInv == TypeOK /\ StopPending

\* The pool's state stays in its types, and a worker has a task exactly while
\* it runs one: workerLoop takes a task only from a queue that is not empty.
LEMMA TypeInvHolds == Spec => []TypeInv
<1>1. Init => TypeInv
  <2>1. ASSUME Init PROVE TypeOK
    <3>1. script \in [Clients -> Seq(Tasks \cup {Stop})] /\ permits \in Nat
      BY <2>1, PoolAssumption DEF Init
    <3>2. queue \in Seq(Tasks)
      BY <2>1, EmptySeq DEF Init
    <3>3. \A w \in Workers : pc[w] \in InTask <=> task[w] # NoTask
      BY <2>1 DEF Init, InTask
    <3>4. /\ pc \in [Workers -> {"fetch", "waiting", "awake", "exited"} \cup InTask]
          /\ task \in [Workers -> Tasks \cup {NoTask}]
          /\ call \in [Clients -> {"none", "notifyOne", "notifyAll", "join"}]
      BY <2>1 DEF Init
    <3>5. stopped \in BOOLEAN
      BY <2>1, Zenon DEF Init
    <3>6. active \in Int /\ done \subseteq Tasks /\ refused \subseteq Tasks
      BY <2>1, SMT DEF Init
    <3> QED BY <3>1, <3>2, <3>3, <3>4, <3>5, <3>6 DEF TypeOK
  <2>2. Init => StopPending
    BY DEF Init, StopPending
  <2> QED BY <2>1, <2>2 DEF TypeInv
<1>2. TypeInv /\ [Next]_vars => TypeOK'
  <2> SUFFICES ASSUME TypeOK, StopPending, [Next]_vars PROVE TypeOK'
    BY DEF TypeInv
  <2>0. NoTask \notin Tasks
    BY PoolAssumption
  <2>1. ASSUME NEW w \in Workers, Fetch(w) PROVE TypeOK'
    <3>1. queue # <<>> => Head(queue) \in Tasks /\ Tail(queue) \in Seq(Tasks)
      BY HeadTailProperties DEF TypeOK
    <3> QED BY <2>0, <2>1, <3>1, ZenonT(60)
            DEF TypeOK, InTask, Fetch, Goto, clientVars, taskVars
  <2>2. ASSUME NEW w \in Workers, Run(w) PROVE TypeOK'
    BY <2>0, <2>2 DEF TypeOK, InTask, Run, EndTask, Goto, poolVars, clientVars
  <2>3. ASSUME NEW w \in Workers, Acquire(w) PROVE TypeOK'
    BY <2>3 DEF TypeOK, InTask, Acquire, Goto, poolVars, clientVars
  <2>4. ASSUME NEW w \in Workers, Enter(w) \/ Leave(w) PROVE TypeOK'
    <3>1. CASE Enter(w)
      BY <3>1 DEF TypeOK, InTask, Enter, Goto, poolVars, clientVars
    <3>2. CASE Leave(w)
      BY <3>2 DEF TypeOK, InTask, Leave, Goto, poolVars, clientVars
    <3> QED BY <2>4, <3>1, <3>2
  <2>5. ASSUME NEW w \in Workers, Release(w) PROVE TypeOK'
    BY <2>0, <2>5 DEF TypeOK, InTask, Release, EndTask, Goto, poolVars, clientVars
  <2>6. ASSUME NEW w \in Workers, SpuriousWakeup(w) PROVE TypeOK'
    BY <2>6 DEF TypeOK, InTask, SpuriousWakeup, Waiting, Goto, poolVars, clientVars, taskVars
  <2>7. ASSUME NEW c \in Clients, script[c] # <<>>
        PROVE  /\ Subject(c) \in Tasks \cup {Stop}
               /\ Tail(script[c]) \in Seq(Tasks \cup {Stop})
    BY <2>7, HeadTailProperties DEF TypeOK, Subject
  <2>8. ASSUME NEW c \in Clients, Submit(c) PROVE TypeOK'
    <3>1. Subject(c) \in Tasks /\ Append(queue, Subject(c)) \in Seq(Tasks)
      BY <2>7, <2>8, AppendProperties DEF Submit, Calls, Stop, TypeOK
    <3> QED BY <2>7, <2>8, <3>1 DEF TypeOK, InTask, Submit, Calls, CallEnds, taskVars
  <2>9. ASSUME NEW c \in Clients, SubmitNotify(c) PROVE TypeOK'
    BY <2>9 DEF TypeOK, InTask, SubmitNotify, Waiting, Goto, poolVars, taskVars
  <2>10. ASSUME NEW c \in Clients, StopPool(c) PROVE TypeOK'
    BY <2>7, <2>10 DEF TypeOK, InTask, StopPool, Calls, CallEnds, taskVars
  <2>11. ASSUME NEW c \in Clients, StopNotify(c) PROVE TypeOK'
    BY <2>11 DEF TypeOK, InTask, StopNotify, Waiting, poolVars, taskVars
  <2>12. ASSUME NEW c \in Clients, Join(c) PROVE TypeOK'
    <3>1. Tail(script[c]) \in Seq(Tasks \cup {Stop})
      BY <2>7, <2>12 DEF Join, StopPending
    <3> QED BY <2>12, <3>1 DEF TypeOK, InTask, Join, CallEnds, poolVars, taskVars
  <2>13. CASE UNCHANGED vars
    BY <2>13 DEF TypeOK, InTask, vars, poolVars, clientVars, taskVars
  <2> QED BY <2>1, <2>2, <2>3, <2>4, <2>5, <2>6, <2>8, <2>9, <2>10, <2>11, <2>12, <2>13
          DEF Next, WorkerStep, ClientStep
<1>3. TypeInv /\ [Next]_vars => StopPending'
  <2> SUFFICES ASSUME TypeOK, StopPending, [Next]_vars PROVE StopPending'
    BY DEF TypeInv
  <2> USE DEF StopPending
  <2>1. ASSUME NEW w \in Workers, WorkerStep(w) \/ SpuriousWakeup(w)
        PROVE  UNCHANGED <<script, call>>
    BY <2>1 DEF WorkerStep, Fetch, Run, Acquire, Enter, Leave, Release, SpuriousWakeup, clientVars
  <2>2. ASSUME NEW c \in Clients, Submit(c) \/ SubmitNotify(c) PROVE StopPending'
    BY <2>2 DEF TypeOK, Submit, SubmitNotify, Calls, CallEnds
  <2>3. ASSUME NEW c \in Clients, StopPool(c) \/ StopNotify(c) \/ Join(c) PROVE StopPending'
    BY <2>3 DEF TypeOK, StopPool, StopNotify, Join, Calls, CallEnds
  <2>4. CASE UNCHANGED vars
    BY <2>4 DEF vars, clientVars
  <2> QED BY <2>1, <2>2, <2>3, <2>4 DEF Next, ClientStep
<1> QED BY <1>1, <1>2, <1>3, PTL DEF Spec, TypeInv

\* The pool's state stays in its types, and a worker has a task exactly while
\* it runs one: workerLoop takes a task only from a queue that is not empty.
THEOREM PoolTypeCorrect == Spec => []TypeOK
<1>1. TypeInv => TypeOK
  BY DEF TypeInv
<1> QED BY <1>1, TypeInvHolds, PTL

-----------------------------------------------------------------------------
(* The permits of the semaphore *)

\* The number of workers at the locations L.
Count(f, L) == Cardinality({w \in Workers : f[w] \in L})

\* When one worker changes its location, the number of workers at the
\* locations L changes by what that worker leaves and enters.
LEMMA MoveOneWorker ==
    ASSUME NEW L, NEW D, NEW f \in [Workers -> D], NEW w \in Workers, NEW l
    PROVE  /\ Count(f, L) \in Nat
           /\ f[w] \notin L /\ l \in L => Count([f EXCEPT ![w] = l], L) = Count(f, L) + 1
           /\ f[w] \in L /\ l \notin L => Count([f EXCEPT ![w] = l], L) = Count(f, L) - 1
           /\ (f[w] \in L <=> l \in L) => Count([f EXCEPT ![w] = l], L) = Count(f, L)
<1> DEFINE here  == {u \in Workers : f[u] \in L}
           there == {u \in Workers : [f EXCEPT ![w] = l][u] \in L}
<1>1. IsFiniteSet(here) /\ Cardinality(here) \in Nat
  BY PoolAssumption, FS_Subset, FS_CardinalityType
<1>2. CASE f[w] \notin L /\ l \in L
  <2>1. there = here \cup {w} /\ w \notin here
    BY <1>2
  <2> QED BY <2>1, <1>1, <1>2, FS_AddElement DEF Count
<1>3. CASE f[w] \in L /\ l \notin L
  <2>1. there = here \ {w} /\ w \in here
    BY <1>3
  <2> QED BY <2>1, <1>1, <1>3, FS_RemoveElement DEF Count
<1>4. CASE f[w] \in L <=> l \in L
  <2>1. there = here
    BY <1>4
  <2> QED BY <2>1, <1>1, <1>4 DEF Count
<1> QED BY <1>2, <1>3, <1>4

HolderLocations == {"enter", "use", "release"}

\* Only a worker in a task that uses the resource changes who holds a permit
\* and who uses the resource, and it changes the counters with them.
LEMMA PermitsStep == TypeOK /\ PermitsConserved /\ [Next]_vars => PermitsConserved'
<1> SUFFICES ASSUME TypeOK, PermitsConserved, [Next]_vars PROVE PermitsConserved'
  OBVIOUS
<1> DEFINE Conserved(p, a, f) == /\ p + Count(f, HolderLocations) = Slots
                                 /\ a = Count(f, {"use"})
<1>1. Conserved(permits, active, pc)
  BY DEF PermitsConserved, Holders, Users, Count, HolderLocations
<1>2. Conserved(permits', active', pc') => PermitsConserved'
  BY DEF PermitsConserved, Holders, Users, Count, HolderLocations
<1>3. /\ pc \in [Workers -> Locations] /\ permits \in Nat /\ active \in Int
      /\ Count(pc, HolderLocations) \in Nat /\ Count(pc, {"use"}) \in Nat
      /\ Slots \in Nat
  <2>1. pc \in [Workers -> Locations] /\ permits \in Nat /\ active \in Int
    BY DEF TypeOK, Locations
  <2>2. PICK w \in Workers : TRUE
    BY PoolAssumption
  <2> QED BY <2>1, <2>2, PoolAssumption, MoveOneWorker
<1>4. ASSUME NEW w \in Workers, NEW l, l \notin HolderLocations,
             pc[w] \notin HolderLocations, pc' = [pc EXCEPT ![w] = l]
      PROVE  /\ Count(pc', HolderLocations) = Count(pc, HolderLocations)
             /\ Count(pc', {"use"}) = Count(pc, {"use"})
  BY <1>3, <1>4, MoveOneWorker DEF HolderLocations
<1>5. ASSUME UNCHANGED <<permits, active>>, UNCHANGED pc PROVE PermitsConserved'
  BY <1>1, <1>2, <1>5
<1>6. ASSUME NEW w \in Workers, WorkerStep(w) \/ SpuriousWakeup(w) PROVE PermitsConserved'
  <2>1. CASE Fetch(w)
    <3>1. /\ pc[w] \notin HolderLocations /\ UNCHANGED <<permits, active>>
          /\ \E l \in {"acquire", "run", "exited", "waiting"} : pc' = [pc EXCEPT ![w] = l]
      BY <2>1 DEF Fetch, Goto, HolderLocations, taskVars
    <3> QED BY <1>1, <1>2, <1>4, <3>1 DEF HolderLocations
  <2>2. CASE Run(w)
    <3>1. /\ pc[w] \notin HolderLocations /\ UNCHANGED <<permits, active>>
          /\ pc' = [pc EXCEPT ![w] = "fetch"]
      BY <2>2 DEF Run, EndTask, Goto, HolderLocations
    <3> QED BY <1>1, <1>2, <1>4, <3>1 DEF HolderLocations
  <2>3. CASE Acquire(w)
    <3>1. /\ pc[w] = "acquire" /\ pc' = [pc EXCEPT ![w] = "enter"]
          /\ permits' = permits - 1 /\ active' = active
      BY <2>3 DEF Acquire, Goto
    <3>2. /\ Count(pc', HolderLocations) = Count(pc, HolderLocations) + 1
          /\ Count(pc', {"use"}) = Count(pc, {"use"})
      BY <1>3, <3>1, MoveOneWorker, ZenonT(60) DEF HolderLocations
    <3> QED BY <1>1, <1>2, <1>3, <3>1, <3>2
  <2>4. CASE Enter(w)
    <3>1. /\ pc[w] = "enter" /\ pc' = [pc EXCEPT ![w] = "use"]
          /\ permits' = permits /\ active' = active + 1
      BY <2>4 DEF Enter, Goto
    <3>2. /\ Count(pc', HolderLocations) = Count(pc, HolderLocations)
          /\ Count(pc', {"use"}) = Count(pc, {"use"}) + 1
      BY <1>3, <3>1, MoveOneWorker DEF HolderLocations
    <3> QED BY <1>1, <1>2, <1>3, <3>1, <3>2
  <2>5. CASE Leave(w)
    <3>1. /\ pc[w] = "use" /\ pc' = [pc EXCEPT ![w] = "release"]
          /\ permits' = permits /\ active' = active - 1
      BY <2>5 DEF Leave, Goto
    <3>2. /\ Count(pc', HolderLocations) = Count(pc, HolderLocations)
          /\ Count(pc', {"use"}) = Count(pc, {"use"}) - 1
      BY <1>3, <3>1, MoveOneWorker DEF HolderLocations
    <3> QED BY <1>1, <1>2, <1>3, <3>1, <3>2
  <2>6. CASE Release(w)
    <3>1. /\ pc[w] = "release" /\ pc' = [pc EXCEPT ![w] = "fetch"]
          /\ permits' = permits + 1 /\ active' = active
      BY <2>6 DEF Release, EndTask, Goto
    <3>2. /\ Count(pc', HolderLocations) = Count(pc, HolderLocations) - 1
          /\ Count(pc', {"use"}) = Count(pc, {"use"})
      BY <1>3, <3>1, MoveOneWorker, ZenonT(60) DEF HolderLocations
    <3> QED BY <1>1, <1>2, <1>3, <3>1, <3>2
  <2>7. CASE SpuriousWakeup(w)
    <3>1. /\ pc[w] \notin HolderLocations /\ UNCHANGED <<permits, active>>
          /\ pc' = [pc EXCEPT ![w] = "awake"]
      BY <2>7 DEF SpuriousWakeup, Waiting, Goto, HolderLocations, taskVars
    <3> QED BY <1>1, <1>2, <1>4, <3>1 DEF HolderLocations
  <2> QED BY <1>6, <2>1, <2>2, <2>3, <2>4, <2>5, <2>6, <2>7 DEF WorkerStep
<1>7. ASSUME NEW c \in Clients, SubmitNotify(c) PROVE PermitsConserved'
  <2>1. UNCHANGED <<permits, active>>
    BY <1>7 DEF SubmitNotify, taskVars
  <2>2. ASSUME NEW w \in Waiting, Goto(w, "awake") PROVE PermitsConserved'
    <3>1. w \in Workers /\ pc[w] \notin HolderLocations /\ pc' = [pc EXCEPT ![w] = "awake"]
      BY <2>2 DEF Waiting, Goto, HolderLocations
    <3> QED BY <1>1, <1>2, <1>4, <2>1, <3>1 DEF HolderLocations
  <2> QED BY <1>5, <1>7, <2>1, <2>2 DEF SubmitNotify
<1>8. ASSUME NEW c \in Clients, StopNotify(c) PROVE PermitsConserved'
  <2>1. /\ UNCHANGED <<permits, active>>
        /\ pc' = [w \in Workers |-> IF w \in Waiting THEN "awake" ELSE pc[w]]
    BY <1>8 DEF StopNotify, taskVars
  <2>2. ASSUME NEW w \in Workers
        PROVE  /\ pc'[w] \in HolderLocations <=> pc[w] \in HolderLocations
               /\ pc'[w] \in {"use"} <=> pc[w] \in {"use"}
    <3>1. w \in Waiting => pc'[w] = "awake" /\ pc[w] = "waiting"
      BY <2>1 DEF Waiting
    <3>2. w \notin Waiting => pc'[w] = pc[w]
      BY <2>1
    <3> QED BY <3>1, <3>2 DEF HolderLocations
  <2>3. /\ Count(pc', HolderLocations) = Count(pc, HolderLocations)
        /\ Count(pc', {"use"}) = Count(pc, {"use"})
    <3>1. {w \in Workers : pc'[w] \in HolderLocations}
             = {w \in Workers : pc[w] \in HolderLocations}
      BY <2>2
    <3>2. {w \in Workers : pc'[w] \in {"use"}} = {w \in Workers : pc[w] \in {"use"}}
      BY <2>2
    <3> QED BY <3>1, <3>2 DEF Count
  <2> QED BY <1>1, <1>2, <2>1, <2>3
<1>9. ASSUME NEW c \in Clients, Submit(c) \/ StopPool(c) \/ Join(c) PROVE PermitsConserved'
  <2>1. UNCHANGED <<permits, active, pc>>
    BY <1>9 DEF Submit, StopPool, Join, taskVars
  <2> QED BY <1>5, <2>1
<1>10. CASE UNCHANGED vars
  BY <1>5, <1>10 DEF vars, taskVars
<1> QED BY <1>6, <1>7, <1>8, <1>9, <1>10 DEF Next, ClientStep

\* Every permit of the semaphore is free or held by one worker, and the count
\* of active users counts the workers that use the resource: SemaphoreGuard
\* gives back what it has taken.
THEOREM PermitsHold == Spec => []PermitsConserved
<1>1. Init => PermitsConserved
  <2> SUFFICES ASSUME Init PROVE PermitsConserved
    OBVIOUS
  <2>1. Holders = {} /\ Users = {}
    BY DEF Init, Holders, Users
  <2> QED BY <2>1, FS_EmptySet, PoolAssumption DEF Init, PermitsConserved
<1> QED BY <1>1, PermitsStep, PoolTypeCorrect, PTL DEF Spec

\* However many workers the pool has, no more of them use the resource than
\* the semaphore has slots; and a pool whose workers have ended has all its
\* permits back.
THEOREM ResourceIsLimited == Spec => []ResourceLimited
<1>1. TypeOK /\ PermitsConserved => ResourceLimited
  <2> SUFFICES ASSUME TypeOK, PermitsConserved PROVE ResourceLimited
    OBVIOUS
  <2>1. IsFiniteSet(Holders) /\ Users \subseteq Holders
    BY PoolAssumption, FS_Subset DEF Holders, Users
  <2>2. /\ Cardinality(Users) <= Cardinality(Holders)
        /\ Cardinality(Holders) \in Nat /\ Cardinality(Users) \in Nat
    BY <2>1, FS_Subset, FS_CardinalityType
  <2>3. permits \in Nat /\ Slots \in Nat
    BY PoolAssumption DEF TypeOK
  <2>4. ASSUME Exited PROVE Holders = {} /\ Users = {}
    BY <2>4 DEF Exited, Holders, Users
  <2> QED BY <2>2, <2>3, <2>4, FS_EmptySet DEF ResourceLimited, PermitsConserved
<1> QED BY <1>1, PermitsHold, PoolTypeCorrect, PTL

-----------------------------------------------------------------------------
(* Where a task is *)

Unsubmitted(k) == \E c \in Clients : \E i \in DOMAIN script[c] : script[c][i] = k
Queued(k) == \E i \in DOMAIN queue : queue[i] = k
Runs(k)   == \E w \in Workers : task[w] = k
Over(k)   == k \in done \cup refused

\* Nothing is submitted, queued or run twice, and a task that is at one place
\* is at no other.
OnceInv ==
    /\ \A c, d \in Clients : \A i \in DOMAIN script[c], j \in DOMAIN script[d] :
          script[c][i] = script[d][j] /\ script[c][i] # Stop => c = d /\ i = j
    /\ \A i, j \in DOMAIN queue : queue[i] = queue[j] => i = j
    /\ \A v, w \in Workers : task[v] = task[w] /\ task[v] # NoTask => v = w
    /\ \A k \in Tasks : /\ Unsubmitted(k) => ~Queued(k) /\ ~Runs(k) /\ ~Over(k)
                        /\ Queued(k) => ~Runs(k) /\ ~Over(k)
                        /\ Runs(k) => ~Over(k)
    /\ done \cap refused = {}

\* A worker ends only with the pool stopped and the queue empty.
EndInv == \A w \in Workers : pc[w] = "exited" => stopped /\ queue = <<>>

OnceVars == <<script, queue, task, done, refused>>

LEMMA OnceUnchanged == OnceInv /\ UNCHANGED OnceVars => OnceInv'
BY DEF OnceInv, OnceVars, Unsubmitted, Queued, Runs, Over

\* The front of a script or of the queue leaves it.
LEMMA TailOf ==
    ASSUME NEW S, NEW s \in Seq(S), s # <<>>
    PROVE  /\ Head(s) \in S /\ Tail(s) \in Seq(S)
           /\ 1 \in DOMAIN s /\ s[1] = Head(s)
           /\ \A i \in DOMAIN Tail(s) : i \in Nat /\ i # 0 /\ i + 1 \in DOMAIN s /\ Tail(s)[i] = s[i + 1]
           /\ \A i \in DOMAIN s : i # 1 => i - 1 \in DOMAIN Tail(s) /\ Tail(s)[i - 1] = s[i]
OBVIOUS

LEMMA OnceFetch == ASSUME TypeOK, OnceInv, NEW w \in Workers, Fetch(w) PROVE OnceInv'
<1>1. CASE queue = <<>>
  BY <1>1, OnceUnchanged DEF Fetch, OnceVars, clientVars, taskVars
<1>2. CASE queue # <<>>
  <2>1. PICK k : k = Head(queue)
    OBVIOUS
  <2>2. /\ queue' = Tail(queue) /\ task' = [task EXCEPT ![w] = k] /\ pc[w] \notin InTask
        /\ UNCHANGED <<script, done, refused>>
    BY <1>2, <2>1 DEF Fetch, clientVars, taskVars, InTask
  <2>3. task[w] = NoTask /\ task'[w] = k /\ \A v \in Workers \ {w} : task'[v] = task[v]
    BY <2>2 DEF TypeOK
  <2>4. /\ k \in Tasks /\ 1 \in DOMAIN queue /\ queue[1] = k
        /\ \A i \in DOMAIN queue' : i \in Nat /\ i # 0 /\ i + 1 \in DOMAIN queue /\ queue'[i] = queue[i + 1]
    BY <1>2, <2>1, <2>2, TailOf DEF TypeOK
  <2>5. \A i, j \in DOMAIN queue' : queue'[i] = queue'[j] => i = j
    BY <2>4 DEF OnceInv
  <2>6. \A l : Queued(l)' => Queued(l) /\ l # k
    BY <2>4 DEF OnceInv, Queued
  <2>7. \A l \in Tasks : Runs(l)' => Runs(l) \/ l = k
    BY <2>3 DEF Runs
  <2>8. Queued(k) /\ ~Runs(k) /\ ~Over(k) /\ ~Unsubmitted(k)
    BY <2>4 DEF Queued, OnceInv
  <2>9. \A l : Unsubmitted(l)' = Unsubmitted(l) /\ Over(l)' = Over(l)
    BY <2>2 DEF Unsubmitted, Over
  <2>10. \A u, v \in Workers : task'[u] = task'[v] /\ task'[u] # NoTask => u = v
    BY <2>3, <2>8 DEF OnceInv, Runs
  <2>11. \A l \in Tasks : /\ Unsubmitted(l)' => ~Queued(l)' /\ ~Runs(l)' /\ ~Over(l)'
                          /\ Queued(l)' => ~Runs(l)' /\ ~Over(l)'
                          /\ Runs(l)' => ~Over(l)'
    BY <2>6, <2>7, <2>8, <2>9 DEF OnceInv
  <2> QED BY <2>2, <2>5, <2>10, <2>11 DEF OnceInv
<1> QED BY <1>1, <1>2

LEMMA OnceEnd ==
    ASSUME TypeOK, OnceInv, NEW w \in Workers, Run(w) \/ Release(w)
    PROVE  OnceInv'
<1>1. PICK k : k = task[w]
  OBVIOUS
<1>2. /\ done' = done \cup {k} /\ task' = [task EXCEPT ![w] = NoTask] /\ pc[w] \in InTask
      /\ UNCHANGED <<script, queue, refused>>
  BY <1>1 DEF Run, Release, EndTask, poolVars, clientVars, InTask
<1>3. k \in Tasks /\ Runs(k) /\ NoTask \notin Tasks
  BY <1>1, <1>2, PoolAssumption DEF TypeOK, Runs
<1>4. task'[w] = NoTask /\ \A v \in Workers \ {w} : task'[v] = task[v]
  BY <1>2 DEF TypeOK
<1>5. \A l \in Tasks : Runs(l)' => Runs(l) /\ l # k
  BY <1>1, <1>3, <1>4 DEF Runs, OnceInv
<1>6. \A l : /\ Unsubmitted(l)' = Unsubmitted(l) /\ Queued(l)' = Queued(l)
             /\ Over(l)' => Over(l) \/ l = k
  BY <1>2 DEF Unsubmitted, Queued, Over
<1>7. ~Unsubmitted(k) /\ ~Queued(k) /\ ~Over(k)
  BY <1>3 DEF OnceInv
<1>8. \A u, v \in Workers : task'[u] = task'[v] /\ task'[u] # NoTask => u = v
  BY <1>4 DEF OnceInv
<1>9. done' \cap refused' = {}
  BY <1>2, <1>7 DEF Over, OnceInv
<1>10. \A l \in Tasks : /\ Unsubmitted(l)' => ~Queued(l)' /\ ~Runs(l)' /\ ~Over(l)'
                        /\ Queued(l)' => ~Runs(l)' /\ ~Over(l)'
                        /\ Runs(l)' => ~Over(l)'
  BY <1>5, <1>6, <1>7 DEF OnceInv
<1> QED BY <1>2, <1>8, <1>9, <1>10 DEF OnceInv

LEMMA OnceAdvance ==
    ASSUME TypeOK, OnceInv, NEW c \in Clients, script[c] # <<>>, CallEnds(c)
    PROVE  /\ \A d, e \in Clients : \A i \in DOMAIN script'[d], j \in DOMAIN script'[e] :
                 script'[d][i] = script'[e][j] /\ script'[d][i] # Stop => d = e /\ i = j
           /\ \A k \in Tasks : Unsubmitted(k)' => Unsubmitted(k) /\ k # Subject(c)
           /\ Subject(c) # Stop => Subject(c) \in Tasks /\ Unsubmitted(Subject(c))
<1>1. PICK k : k = Subject(c)
  OBVIOUS
<1>2. script \in [Clients -> Seq(Tasks \cup {Stop})] /\ Stop \notin Tasks
  BY PoolAssumption DEF TypeOK, Stop
<1>3. /\ 1 \in DOMAIN script[c] /\ script[c][1] = k /\ k \in Tasks \cup {Stop}
      /\ \A i \in DOMAIN Tail(script[c]) : /\ i \in Nat /\ i # 0 /\ i + 1 \in DOMAIN script[c]
                                           /\ Tail(script[c])[i] = script[c][i + 1]
  BY <1>1, <1>2, TailOf DEF Subject
<1>4. script'[c] = Tail(script[c]) /\ \A d \in Clients \ {c} : script'[d] = script[d]
  BY <1>2 DEF CallEnds
<1> DEFINE Was(d, i) == IF d = c THEN i + 1 ELSE i
<1>5. ASSUME NEW d \in Clients, NEW i \in DOMAIN script'[d]
      PROVE  /\ Was(d, i) \in DOMAIN script[d] /\ script'[d][i] = script[d][Was(d, i)]
             /\ i \in Nat /\ (d = c => Was(d, i) # 1)
  <2>1. CASE d = c
    <3>1. i \in DOMAIN Tail(script[c])
      BY <1>4, <2>1
    <3>2. i \in Nat /\ i # 0 /\ i + 1 \in DOMAIN script[c] /\ Tail(script[c])[i] = script[c][i + 1]
      BY <1>3, <3>1
    <3>3. Was(d, i) = i + 1 /\ Was(d, i) # 1
      BY <2>1, <3>2
    <3>4. script'[d][i] = script[d][i + 1]
      BY <1>4, <2>1, <3>2
    <3> QED BY <2>1, <3>2, <3>3, <3>4
  <2>2. CASE d # c
    <3>1. script'[d] = script[d] /\ script[d] \in Seq(Tasks \cup {Stop})
      BY <1>2, <1>4, <2>2
    <3>2. i \in Nat
      BY <3>1
    <3> QED BY <2>2, <3>1, <3>2
  <2> QED BY <2>1, <2>2
<1>6. ASSUME NEW d \in Clients, NEW e \in Clients,
             NEW i \in DOMAIN script'[d], NEW j \in DOMAIN script'[e],
             script'[d][i] = script'[e][j], script'[d][i] # Stop
      PROVE  d = e /\ i = j
  <2>1. d = e /\ Was(d, i) = Was(e, j)
    <3> HIDE DEF Was
    <3> QED BY <1>5, <1>6 DEF OnceInv
  <2> QED BY <1>5, <2>1
<1>8. ASSUME NEW l \in Tasks, Unsubmitted(l)' PROVE Unsubmitted(l) /\ l # k
  <2>1. PICK d \in Clients : \E i \in DOMAIN script'[d] : script'[d][i] = l
    BY <1>8 DEF Unsubmitted
  <2>2. PICK i \in DOMAIN script'[d] : script'[d][i] = l
    BY <2>1
  <2>3. PICK n \in DOMAIN script[d] : script[d][n] = l /\ (d = c => n # 1)
    BY <1>5, <2>2
  <2>4. l # Stop
    BY <1>2
  <2> QED BY <1>3, <2>3, <2>4 DEF Unsubmitted, OnceInv
<1>7. k # Stop => k \in Tasks /\ Unsubmitted(k)
  BY <1>3 DEF Unsubmitted
<1> QED BY <1>1, <1>6, <1>7, <1>8

LEMMA OnceSubmit == ASSUME TypeOK, OnceInv, NEW c \in Clients, Submit(c) PROVE OnceInv'
<1>1. PICK k : k = Subject(c)
  OBVIOUS
<1>2. /\ k \in Tasks /\ Unsubmitted(k)
      /\ \A d, e \in Clients : \A i \in DOMAIN script'[d], j \in DOMAIN script'[e] :
            script'[d][i] = script'[e][j] /\ script'[d][i] # Stop => d = e /\ i = j
      /\ \A l \in Tasks : Unsubmitted(l)' => Unsubmitted(l) /\ l # k
  BY <1>1, OnceAdvance DEF Submit, Calls
<1>3. ~Queued(k) /\ ~Runs(k) /\ ~Over(k)
  BY <1>2 DEF OnceInv
<1>4. task' = task /\ done' = done /\ \A l : Runs(l)' = Runs(l)
  BY DEF Submit, taskVars, Runs
<1>5. CASE stopped
  <2>1. queue' = queue /\ refused' = refused \cup {k}
    BY <1>1, <1>5 DEF Submit
  <2>2. \A l : Queued(l)' = Queued(l) /\ (Over(l)' => Over(l) \/ l = k)
    BY <1>4, <2>1 DEF Queued, Over
  <2>3. done' \cap refused' = {}
    BY <1>3, <1>4, <2>1 DEF OnceInv, Over
  <2>4. \A l \in Tasks : /\ Unsubmitted(l)' => ~Queued(l)' /\ ~Runs(l)' /\ ~Over(l)'
                         /\ Queued(l)' => ~Runs(l)' /\ ~Over(l)'
                         /\ Runs(l)' => ~Over(l)'
    BY <1>2, <1>3, <1>4, <2>2 DEF OnceInv
  <2> QED BY <1>2, <1>4, <2>1, <2>3, <2>4 DEF OnceInv
<1>6. CASE ~stopped
  <2>1. queue' = Append(queue, k) /\ refused' = refused
    BY <1>1, <1>6 DEF Submit
  <2>2. /\ Len(queue) \in Nat /\ DOMAIN queue = 1 .. Len(queue) /\ DOMAIN queue' = 1 .. Len(queue) + 1
        /\ queue'[Len(queue) + 1] = k /\ \A i \in DOMAIN queue : queue'[i] = queue[i]
    BY <1>2, <2>1, AppendProperties DEF TypeOK
  <2>3. \A l : Queued(l)' => Queued(l) \/ l = k
    BY <2>2 DEF Queued
  <2>4. \A l : Over(l)' = Over(l)
    BY <1>4, <2>1 DEF Over
  <2>5. \A i, j \in DOMAIN queue' : queue'[i] = queue'[j] => i = j
    BY <1>3, <2>2 DEF OnceInv, Queued
  <2>6. \A l \in Tasks : /\ Unsubmitted(l)' => ~Queued(l)' /\ ~Runs(l)' /\ ~Over(l)'
                         /\ Queued(l)' => ~Runs(l)' /\ ~Over(l)'
                         /\ Runs(l)' => ~Over(l)'
    BY <1>2, <1>3, <1>4, <2>3, <2>4 DEF OnceInv
  <2> QED BY <1>2, <1>4, <2>1, <2>5, <2>6 DEF OnceInv
<1> QED BY <1>5, <1>6

LEMMA OnceLeave ==
    ASSUME TypeInv, OnceInv, NEW c \in Clients, StopPool(c) \/ Join(c)
    PROVE  OnceInv' /\ UNCHANGED <<queue, task, done, refused>>
<1>1. UNCHANGED <<queue, task, done, refused>>
  BY DEF StopPool, Join, poolVars, taskVars
<1>2. CASE UNCHANGED script
  BY <1>1, <1>2, OnceUnchanged DEF OnceVars, TypeInv
<1>3. CASE CallEnds(c) /\ script[c] # <<>>
  <2>1. /\ \A d, e \in Clients : \A i \in DOMAIN script'[d], j \in DOMAIN script'[e] :
              script'[d][i] = script'[e][j] /\ script'[d][i] # Stop => d = e /\ i = j
        /\ \A k \in Tasks : Unsubmitted(k)' => Unsubmitted(k)
    BY <1>3, OnceAdvance DEF TypeInv
  <2>2. \A l : Queued(l)' = Queued(l) /\ Runs(l)' = Runs(l) /\ Over(l)' = Over(l)
    BY <1>1 DEF Queued, Runs, Over
  <2> QED BY <1>1, <2>1, <2>2 DEF OnceInv
<1> QED BY <1>1, <1>2, <1>3 DEF StopPool, Join, Calls, TypeInv, StopPending

\* A task is at most once in the pool, and not at all before it is submitted
\* and after its end.
LEMMA OnceStep == TypeInv /\ OnceInv /\ [Next]_vars => OnceInv'
<1> SUFFICES ASSUME TypeInv, OnceInv, [Next]_vars PROVE OnceInv'
  OBVIOUS
<1>1. TypeOK
  BY DEF TypeInv
<1>2. ASSUME NEW w \in Workers, Acquire(w) \/ Enter(w) \/ Leave(w) \/ SpuriousWakeup(w) PROVE OnceInv'
  BY <1>2, OnceUnchanged DEF Acquire, Enter, Leave, SpuriousWakeup, poolVars, clientVars, taskVars, OnceVars
<1>3. ASSUME NEW c \in Clients, SubmitNotify(c) \/ StopNotify(c) PROVE OnceInv'
  BY <1>3, OnceUnchanged DEF SubmitNotify, StopNotify, poolVars, taskVars, OnceVars
<1>4. CASE UNCHANGED vars
  BY <1>4, OnceUnchanged DEF vars, poolVars, clientVars, taskVars, OnceVars
<1> QED BY <1>1, <1>2, <1>3, <1>4, OnceFetch, OnceEnd, OnceSubmit, OnceLeave
        DEF Next, WorkerStep, ClientStep

LEMMA EndStep == TypeOK /\ EndInv /\ [Next]_vars => EndInv'
<1> SUFFICES ASSUME TypeOK, EndInv, [Next]_vars PROVE EndInv'
  OBVIOUS
<1>0. pc \in [Workers -> Locations]
  BY DEF TypeOK, Locations
<1>1. ASSUME NEW w \in Workers, NEW l, l # "exited", Goto(w, l), stopped' = stopped,
             queue = <<>> => queue' = <<>>
      PROVE  EndInv'
  BY <1>0, <1>1 DEF EndInv, Goto
<1>2. ASSUME NEW w \in Workers, Fetch(w) PROVE EndInv'
  <2>1. CASE queue # <<>>
    <3>1. PICK l : l = IF Head(queue) \in Guarded THEN "acquire" ELSE "run"
      OBVIOUS
    <3>2. Goto(w, l) /\ stopped' = stopped /\ l # "exited"
      BY <1>2, <2>1, <3>1 DEF Fetch
    <3> QED BY <1>1, <2>1, <3>2
  <2>2. CASE queue = <<>>
    BY <1>0, <1>2, <2>2 DEF Fetch, EndInv, Goto
  <2> QED BY <2>1, <2>2
<1>3. ASSUME NEW w \in Workers, \/ Run(w) \/ Acquire(w) \/ Enter(w) \/ Leave(w) \/ Release(w)
                                \/ SpuriousWakeup(w)
      PROVE  EndInv'
  BY <1>1, <1>3 DEF Run, Acquire, Enter, Leave, Release, EndTask, SpuriousWakeup, poolVars
<1>4. ASSUME NEW c \in Clients, SubmitNotify(c) PROVE EndInv'
  <2>1. UNCHANGED <<queue, stopped>>
    BY <1>4 DEF SubmitNotify, poolVars
  <2>2. pc' = pc \/ \E w \in Workers : Goto(w, "awake")
    BY <1>4 DEF SubmitNotify, Waiting
  <2> QED BY <1>1, <2>1, <2>2 DEF EndInv
<1>5. ASSUME NEW c \in Clients, StopNotify(c) PROVE EndInv'
  BY <1>0, <1>5 DEF StopNotify, Waiting, poolVars, EndInv
<1>6. ASSUME NEW c \in Clients, Submit(c) \/ StopPool(c) \/ Join(c) PROVE EndInv'
  <2>1. pc' = pc /\ (stopped => stopped' /\ queue' = queue)
    BY <1>6 DEF Submit, StopPool, Join, poolVars
  <2> QED BY <2>1 DEF EndInv
<1>7. CASE UNCHANGED vars
  BY <1>7 DEF vars, poolVars, EndInv
<1> QED BY <1>2, <1>3, <1>4, <1>5, <1>6, <1>7 DEF Next, WorkerStep, ClientStep

-----------------------------------------------------------------------------
(* The refinement *)

LEMMA StatusOfTask ==
    ASSUME OnceInv, NEW k \in Tasks
    PROVE  Status(k) = IF k \in done THEN "done"
                       ELSE IF k \in refused THEN "refused"
                       ELSE IF Runs(k) THEN "running"
                       ELSE IF Queued(k) THEN "accepted" ELSE "new"
<1>1. /\ Queued(k) => ~Runs(k) /\ k \notin done /\ k \notin refused
      /\ Runs(k) => k \notin done /\ k \notin refused
      /\ k \in done => k \notin refused
  BY DEF OnceInv, Over
<1>2. /\ Runs(k) <=> \E w \in Workers : task[w] = k
      /\ Queued(k) <=> \E i \in DOMAIN queue : queue[i] = k
  BY DEF Runs, Queued
<1>3. CASE k \in done
  BY <1>1, <1>2, <1>3 DEF Status
<1>4. CASE k \in refused
  BY <1>1, <1>2, <1>4 DEF Status
<1>5. CASE Runs(k)
  BY <1>1, <1>2, <1>5 DEF Status
<1>6. CASE Queued(k)
  BY <1>1, <1>2, <1>6 DEF Status
<1>7. CASE k \notin done /\ k \notin refused /\ ~Runs(k) /\ ~Queued(k)
  BY <1>2, <1>7 DEF Status
<1> QED BY <1>3, <1>4, <1>5, <1>6, <1>7

StatusIsPlace ==
    \A k \in Tasks : Status(k) = IF k \in done THEN "done"
                                 ELSE IF k \in refused THEN "refused"
                                 ELSE IF Runs(k) THEN "running"
                                 ELSE IF Queued(k) THEN "accepted" ELSE "new"

LEMMA StatusHolds == OnceInv => StatusIsPlace
BY StatusOfTask DEF StatusIsPlace

LEMMA StatusHoldsNext == OnceInv' => StatusIsPlace'
BY StatusHolds, PTL

Same == \A l \in Tasks : Status(l)' = Status(l)

Goes(k, from, to) == /\ Status(k) = from /\ Status(k)' = to
                     /\ \A l \in Tasks : l # k => Status(l)' = Status(l)

LEMMA SameStatus ==
    ASSUME UNCHANGED <<queue, task, done, refused>>, OnceInv, OnceInv'
    PROVE  Same
<1>1. StatusIsPlace /\ StatusIsPlace'
  BY StatusHolds, StatusHoldsNext
<1> QED BY <1>1 DEF StatusIsPlace, Same, Runs, Queued

LEMMA FetchStarts ==
    ASSUME TypeOK, OnceInv, OnceInv', NEW w \in Workers, Fetch(w), queue # <<>>
    PROVE  \E k \in Tasks : Goes(k, "accepted", "running")
<1>1. PICK k : k = Head(queue)
  OBVIOUS
<1>2. /\ queue' = Tail(queue) /\ task' = [task EXCEPT ![w] = k] /\ pc[w] \notin InTask
      /\ UNCHANGED <<done, refused>>
  BY <1>1 DEF Fetch, clientVars, taskVars, InTask
<1>3. task[w] = NoTask /\ task'[w] = k /\ \A v \in Workers \ {w} : task'[v] = task[v]
  BY <1>2 DEF TypeOK
<1>4. /\ k \in Tasks /\ 1 \in DOMAIN queue /\ queue[1] = k
      /\ \A i \in DOMAIN queue' : i \in Nat /\ i # 0 /\ i + 1 \in DOMAIN queue /\ queue'[i] = queue[i + 1]
      /\ \A i \in DOMAIN queue : i # 1 => i - 1 \in DOMAIN queue' /\ queue'[i - 1] = queue[i]
  BY <1>1, <1>2, TailOf DEF TypeOK
<1>5. Queued(k) /\ ~Runs(k) /\ ~Over(k) /\ Runs(k)' /\ ~Over(k)'
  BY <1>2, <1>3, <1>4 DEF Queued, Runs, Over, OnceInv
<1>6. ASSUME NEW l \in Tasks, l # k
      PROVE  (Queued(l)' <=> Queued(l)) /\ (Runs(l)' <=> Runs(l))
  <2>1. Queued(l)' <=> Queued(l)
    BY <1>4, <1>6 DEF Queued
  <2>2. Runs(l)' <=> Runs(l)
    BY <1>3, <1>6, PoolAssumption DEF Runs
  <2> QED BY <2>1, <2>2
<1>7. StatusIsPlace /\ StatusIsPlace'
  BY StatusHolds, StatusHoldsNext
<1>8. Status(k) = "accepted" /\ Status(k)' = "running"
  BY <1>4, <1>5, <1>7 DEF StatusIsPlace, Over
<1>9. \A l \in Tasks : l # k => Status(l)' = Status(l)
  BY <1>2, <1>6, <1>7 DEF StatusIsPlace
<1> QED BY <1>4, <1>8, <1>9 DEF Goes

LEMMA EndFinishes ==
    ASSUME TypeOK, OnceInv, OnceInv', NEW w \in Workers, Run(w) \/ Release(w)
    PROVE  \E k \in Tasks : Goes(k, "running", "done")
<1>1. PICK k : k = task[w]
  OBVIOUS
<1>2. /\ done' = done \cup {k} /\ task' = [task EXCEPT ![w] = NoTask] /\ pc[w] \in InTask
      /\ UNCHANGED <<queue, refused>>
  BY <1>1 DEF Run, Release, EndTask, poolVars, clientVars, InTask
<1>3. k \in Tasks /\ Runs(k) /\ ~Over(k) /\ NoTask \notin Tasks
  BY <1>1, <1>2, PoolAssumption DEF TypeOK, Runs, OnceInv
<1>4. task'[w] = NoTask /\ \A v \in Workers \ {w} : task'[v] = task[v]
  BY <1>2 DEF TypeOK
<1>5. \A l \in Tasks : l # k => (Runs(l)' <=> Runs(l))
  BY <1>1, <1>3, <1>4 DEF Runs
<1>6. \A l : Queued(l)' = Queued(l)
  BY <1>2 DEF Queued
<1>7. StatusIsPlace /\ StatusIsPlace'
  BY StatusHolds, StatusHoldsNext
<1>8. Status(k) = "running" /\ Status(k)' = "done"
  BY <1>2, <1>3, <1>7 DEF StatusIsPlace, Over
<1>9. \A l \in Tasks : l # k => Status(l)' = Status(l)
  BY <1>2, <1>5, <1>6, <1>7 DEF StatusIsPlace
<1> QED BY <1>3, <1>8, <1>9 DEF Goes

LEMMA SubmitDecides ==
    ASSUME TypeOK, OnceInv, OnceInv', NEW c \in Clients, Submit(c)
    PROVE  \E k \in Tasks : Goes(k, "new", IF stopped THEN "refused" ELSE "accepted")
<1>1. PICK k : k = Subject(c)
  OBVIOUS
<1>2. k \in Tasks /\ ~Queued(k) /\ ~Runs(k) /\ ~Over(k)
  <2>1. k \in Tasks /\ Unsubmitted(k)
    BY <1>1, OnceAdvance DEF Submit, Calls
  <2> QED BY <2>1 DEF OnceInv
<1>3. task' = task /\ done' = done /\ \A l : Runs(l)' = Runs(l)
  BY DEF Submit, taskVars, Runs
<1>4. StatusIsPlace /\ StatusIsPlace'
  BY StatusHolds, StatusHoldsNext
<1>5. CASE stopped
  <2>1. queue' = queue /\ refused' = refused \cup {k} /\ \A l : Queued(l)' = Queued(l)
    BY <1>1, <1>5 DEF Submit, Queued
  <2>2. Status(k) = "new" /\ Status(k)' = "refused"
    BY <1>2, <1>3, <1>4, <2>1 DEF StatusIsPlace, Over
  <2>3. \A l \in Tasks : l # k => Status(l)' = Status(l)
    BY <1>3, <1>4, <2>1 DEF StatusIsPlace
  <2> QED BY <1>2, <1>5, <2>2, <2>3 DEF Goes
<1>6. CASE ~stopped
  <2>1. queue' = Append(queue, k) /\ refused' = refused
    BY <1>1, <1>6 DEF Submit
  <2>2. /\ Len(queue) \in Nat /\ DOMAIN queue = 1 .. Len(queue) /\ DOMAIN queue' = 1 .. Len(queue) + 1
        /\ queue'[Len(queue) + 1] = k /\ \A i \in DOMAIN queue : queue'[i] = queue[i]
    BY <1>2, <2>1, AppendProperties DEF TypeOK
  <2>3. Queued(k)' /\ \A l : l # k => (Queued(l)' <=> Queued(l))
    BY <2>2 DEF Queued
  <2>4. Status(k) = "new" /\ Status(k)' = "accepted"
    BY <1>2, <1>3, <1>4, <2>1, <2>3 DEF StatusIsPlace, Over
  <2>5. \A l \in Tasks : l # k => Status(l)' = Status(l)
    BY <1>3, <1>4, <2>1, <2>3 DEF StatusIsPlace
  <2> QED BY <1>2, <1>6, <2>4, <2>5 DEF Goes
<1> QED BY <1>5, <1>6

LEMMA TaskGoes ==
    ASSUME NEW k \in Tasks, NEW s, NEW r, Goes(k, r, s), UNCHANGED stopped, Exited' = Exited
    PROVE  Status(k) = r /\ Pool!Becomes(k, s)
<1>1. [l \in Tasks |-> Status(l)]' = [[l \in Tasks |-> Status(l)] EXCEPT ![k] = s]
  BY DEF Goes
<1> QED BY <1>1 DEF Goes, Pool!Becomes

LEMMA NothingGoes ==
    ASSUME Same, UNCHANGED stopped, Exited' = Exited
    PROVE  UNCHANGED Pool!vars
BY DEF Same, Pool!vars

LEMMA NobodyExits ==
    ASSUME TypeOK, NEW w \in Workers, NEW l, Goto(w, l), l # "exited", pc[w] # "exited"
    PROVE  Exited' = Exited
BY DEF TypeOK, Goto, Exited

LEMMA ExitedWhenStopped == EndInv /\ Exited => stopped /\ queue = <<>>
BY PoolAssumption DEF EndInv, Exited

OnceAndEnd == TypeInv /\ OnceInv /\ EndInv

\* A worker that finds nothing to do may be the last to end.
LEMMA LastFetch ==
    ASSUME OnceAndEnd, OnceInv', NEW w \in Workers, Fetch(w), queue = <<>>
    PROVE  Pool!Next \/ UNCHANGED Pool!vars
<1>1. UNCHANGED <<queue, stopped, task, done, refused>> /\ TypeOK
  BY DEF Fetch, clientVars, taskVars, OnceAndEnd, TypeInv
<1>2. Same
  BY <1>1, SameStatus DEF OnceAndEnd
<1>3. ~Exited
  BY DEF Fetch, Exited
<1>4. CASE ~Exited'
  <2>1. Exited' = Exited
    BY <1>3, <1>4 DEF Exited
  <2> QED BY <1>1, <1>2, <2>1, NothingGoes
<1>5. CASE Exited'
  <2>1. stopped
    <3>1. pc'[w] = "exited"
      BY <1>5 DEF Exited
    <3>2. pc' = [pc EXCEPT ![w] = IF stopped THEN "exited" ELSE "waiting"]
      BY DEF Fetch, Goto
    <3>3. pc'[w] = IF stopped THEN "exited" ELSE "waiting"
      BY <1>1, <3>2 DEF TypeOK
    <3> QED BY <3>1, <3>3
  <2>2. ASSUME NEW k \in Tasks PROVE ~Queued(k) /\ ~Runs(k)
    <3>1. ~Queued(k)
      BY DEF Queued
    <3>2. ASSUME NEW v \in Workers, task[v] = k PROVE FALSE
      <4>1. pc[v] \in InTask
        BY <1>1, <3>2, PoolAssumption DEF TypeOK
      <4>2. v # w
        BY <4>1 DEF Fetch, InTask
      <4>3. pc'[v] = pc[v]
        BY <1>1, <4>2 DEF Fetch, Goto, TypeOK
      <4> QED BY <1>5, <4>1, <4>3 DEF Exited, InTask
    <3> QED BY <3>1, <3>2 DEF Runs
  <2>3. \A k \in Tasks : Status(k) \notin {"accepted", "running"}
    BY <2>2, StatusHolds DEF StatusIsPlace, OnceAndEnd
  <2> QED BY <1>1, <1>2, <1>3, <1>5, <2>1, <2>3 DEF Same, Pool!Join, Pool!Next
<1> QED BY <1>4, <1>5

LEMMA PoolStep == OnceAndEnd /\ [Next]_vars => [Pool!Next]_(Pool!vars)
<1> SUFFICES ASSUME OnceAndEnd, [Next]_vars PROVE Pool!Next \/ UNCHANGED Pool!vars
  OBVIOUS
<1>0. TypeOK /\ OnceInv /\ OnceInv' /\ EndInv
  BY OnceStep DEF OnceAndEnd, TypeInv
<1>1. ASSUME NEW w \in Workers, Fetch(w), queue # <<>> PROVE Pool!Next
  <2>1. PICK k \in Tasks : Goes(k, "accepted", "running")
    BY <1>0, <1>1, FetchStarts
  <2>2. PICK l : l = IF Head(queue) \in Guarded THEN "acquire" ELSE "run"
    OBVIOUS
  <2>3. Goto(w, l) /\ stopped' = stopped /\ l # "exited" /\ pc[w] # "exited"
    BY <1>1, <2>2 DEF Fetch
  <2>4. Exited' = Exited
    BY <1>0, <2>3, NobodyExits
  <2> QED BY <2>1, <2>3, <2>4, TaskGoes DEF Pool!Start, Pool!Next
<1>2. ASSUME NEW w \in Workers, Run(w) \/ Release(w) PROVE Pool!Next
  <2>1. PICK k \in Tasks : Goes(k, "running", "done")
    BY <1>0, <1>2, EndFinishes
  <2>2. Goto(w, "fetch") /\ stopped' = stopped /\ pc[w] # "exited"
    BY <1>2 DEF Run, Release, EndTask, poolVars
  <2>3. Exited' = Exited
    BY <1>0, <2>2, NobodyExits
  <2> QED BY <2>1, <2>2, <2>3, TaskGoes DEF Pool!Finish, Pool!Next
<1>3. ASSUME NEW c \in Clients, Submit(c) PROVE Pool!Next
  <2>1. PICK k \in Tasks : Goes(k, "new", IF stopped THEN "refused" ELSE "accepted")
    BY <1>0, <1>3, SubmitDecides
  <2>2. stopped' = stopped /\ Exited' = Exited
    BY <1>3 DEF Submit, Exited
  <2>3. CASE stopped
    BY <2>1, <2>2, <2>3, TaskGoes DEF Pool!Refuse, Pool!Next
  <2>4. CASE ~stopped
    <3>1. ~Exited
      BY <1>0, <2>4, ExitedWhenStopped
    <3> QED BY <2>1, <2>2, <2>4, <3>1, TaskGoes DEF Pool!Accept, Pool!Next
  <2> QED BY <2>3, <2>4
<1>4. ASSUME NEW c \in Clients, StopPool(c) PROVE Pool!Next
  <2>1. Same
    BY <1>0, <1>4, OnceLeave, SameStatus DEF OnceAndEnd
  <2>2. stopped' = TRUE /\ Exited' = Exited
    BY <1>4 DEF StopPool, Exited
  <2> QED BY <2>1, <2>2 DEF Same, Pool!Close, Pool!Next
<1>5. ASSUME UNCHANGED <<queue, task, done, refused>>, UNCHANGED stopped, Exited' = Exited
      PROVE  UNCHANGED Pool!vars
  BY <1>0, <1>5, SameStatus, NothingGoes
<1>6. ASSUME NEW w \in Workers, Acquire(w) \/ Enter(w) \/ Leave(w) \/ SpuriousWakeup(w)
      PROVE  UNCHANGED Pool!vars
  <2>1. UNCHANGED <<queue, task, done, refused>> /\ UNCHANGED stopped
    BY <1>6 DEF Acquire, Enter, Leave, SpuriousWakeup, poolVars, clientVars, taskVars
  <2>2. pc[w] # "exited" /\ \E l : l # "exited" /\ Goto(w, l)
    BY <1>6 DEF Acquire, Enter, Leave, SpuriousWakeup, Waiting
  <2> QED BY <1>0, <1>5, <2>1, <2>2, NobodyExits
<1>7. ASSUME NEW c \in Clients, SubmitNotify(c) PROVE UNCHANGED Pool!vars
  <2>1. UNCHANGED <<queue, task, done, refused>> /\ UNCHANGED stopped
    BY <1>7 DEF SubmitNotify, poolVars, taskVars
  <2>2. pc' = pc \/ \E w \in Workers : pc[w] # "exited" /\ Goto(w, "awake")
    BY <1>7 DEF SubmitNotify, Waiting
  <2>3. Exited' = Exited
    BY <1>0, <2>2, NobodyExits DEF Exited
  <2> QED BY <1>5, <2>1, <2>3
<1>8. ASSUME NEW c \in Clients, StopNotify(c) PROVE UNCHANGED Pool!vars
  <2>1. UNCHANGED <<queue, task, done, refused>> /\ UNCHANGED stopped
    BY <1>8 DEF StopNotify, poolVars, taskVars
  <2>2. Exited' = Exited
    BY <1>0, <1>8 DEF StopNotify, Waiting, Exited, TypeOK
  <2> QED BY <1>5, <2>1, <2>2
<1>9. ASSUME NEW c \in Clients, Join(c) PROVE UNCHANGED Pool!vars
  BY <1>5, <1>9 DEF Join, Exited, poolVars, taskVars
<1>10. CASE UNCHANGED vars
  BY <1>5, <1>10 DEF vars, poolVars, clientVars, taskVars, Exited
<1> QED BY <1>0, <1>1, <1>2, <1>3, <1>4, <1>6, <1>7, <1>8, <1>9, <1>10, LastFetch
        DEF Next, WorkerStep, ClientStep

\* "All queued tasks completed": for any number of workers, of slots and of
\* clients, a task the pool accepts runs once and has ended when the pool is
\* joined; it refuses one only when it is stopped.
THEOREM PoolIsTaskPool == Spec => Pool!Safety
<1>1. Init => OnceInv /\ EndInv
  <2>1. Init => OnceInv
    <3> SUFFICES ASSUME Init PROVE OnceInv
      OBVIOUS
    <3>1. \A k \in Tasks : ~Queued(k) /\ ~Runs(k) /\ ~Over(k)
      BY PoolAssumption DEF Init, Queued, Runs, Over
    <3> QED BY <3>1, SubmissionsAreDistinct DEF Init, OnceInv
  <2>2. Init => EndInv
    BY DEF Init, EndInv
  <2> QED BY <2>1, <2>2
<1>2. Init => Pool!Init
  <2> SUFFICES ASSUME Init PROVE Pool!Init
    OBVIOUS
  <2>1. \A k \in Tasks : ~Queued(k) /\ ~Runs(k) /\ ~Over(k)
    BY PoolAssumption DEF Init, Queued, Runs, Over
  <2>2. \A k \in Tasks : Status(k) = "new"
    BY <1>1, <2>1, StatusHolds DEF StatusIsPlace, Over
  <2>3. ~Exited
    BY PoolAssumption DEF Init, Exited
  <2> QED BY <2>2, <2>3 DEF Init, Pool!Init
<1>3. TypeInv /\ OnceInv /\ EndInv /\ [Next]_vars => OnceInv' /\ EndInv'
  BY OnceStep, EndStep DEF TypeInv
<1>4. TypeInv /\ OnceInv /\ EndInv /\ [Next]_vars => [Pool!Next]_(Pool!vars)
  BY PoolStep DEF OnceAndEnd
<1> QED BY <1>1, <1>2, <1>3, <1>4, TypeInvHolds, PTL DEF Spec, Pool!Safety

=============================================================================
