------------------------ MODULE WorkStealingPoolProofs ------------------------
(***************************************************************************)
(* Proofs about the pool of work_stealing_scheduler.cpp, for every number  *)
(* of workers and clients and all programs and children of tasks in which  *)
(* each task is submitted at one place; the last part proves that it       *)
(* implements the safety part of the abstract task pool.                   *)
(***************************************************************************)
EXTENDS WorkStealingPool, FiniteSetTheorems, SequenceTheorems, TLAPS

-----------------------------------------------------------------------------
(* Queues without repetition, taken from and put into at both ends *)

LEMMA TakeFront ==
    ASSUME NEW S, NEW s \in Seq(S), s # <<>>
    PROVE  /\ Head(s) \in S /\ Tail(s) \in Seq(S) /\ Head(s) \in ToSet(s)
           /\ IsInjective(s) => /\ IsInjective(Tail(s))
                                /\ ToSet(Tail(s)) = ToSet(s) \ {Head(s)}
<1>1. /\ Head(s) \in S /\ Tail(s) \in Seq(S)
      /\ Len(s) \in Nat \ {0} /\ Len(Tail(s)) = Len(s) - 1
      /\ DOMAIN s = 1..Len(s) /\ DOMAIN Tail(s) = 1..Len(Tail(s))
      /\ Head(s) = s[1]
      /\ \A i \in 1..Len(Tail(s)) : Tail(s)[i] = s[i + 1]
  BY EmptySeq, LenProperties, HeadTailProperties
<1>2. Head(s) \in ToSet(s)
  BY <1>1 DEF ToSet
<1>3. ASSUME IsInjective(s) PROVE IsInjective(Tail(s))
  BY <1>1, <1>3 DEF IsInjective
<1>4. ASSUME IsInjective(s) PROVE ToSet(Tail(s)) = ToSet(s) \ {Head(s)}
  <2>1. ASSUME NEW k \in ToSet(Tail(s)) PROVE k \in ToSet(s) /\ k # Head(s)
    <3>1. PICK i \in 1..Len(Tail(s)) : k = s[i + 1]
      BY <1>1, <2>1 DEF ToSet
    <3>2. i + 1 \in 1..Len(s) /\ i + 1 # 1
      BY <1>1
    <3> QED BY <1>1, <1>4, <3>1, <3>2 DEF ToSet, IsInjective
  <2>2. ASSUME NEW k \in ToSet(s), k # Head(s) PROVE k \in ToSet(Tail(s))
    <3>1. PICK i \in 1..Len(s) : k = s[i]
      BY <1>1, <2>2 DEF ToSet
    <3>2. i - 1 \in 1..Len(Tail(s)) /\ (i - 1) + 1 = i
      BY <1>1, <2>2, <3>1
    <3>3. Tail(s)[i - 1] = k
      BY <1>1, <3>1, <3>2
    <3> QED BY <1>1, <3>2, <3>3 DEF ToSet
  <2> QED BY <2>1, <2>2
<1> QED BY <1>1, <1>2, <1>3, <1>4

LEMMA TakeBack ==
    ASSUME NEW S, NEW s \in Seq(S), s # <<>>
    PROVE  /\ Last(s) \in S /\ Front(s) \in Seq(S) /\ Last(s) \in ToSet(s)
           /\ IsInjective(s) => /\ IsInjective(Front(s))
                                /\ ToSet(Front(s)) = ToSet(s) \ {Last(s)}
<1>1. /\ Len(s) \in Nat \ {0} /\ DOMAIN s = 1..Len(s) /\ Last(s) = s[Len(s)]
      /\ \A i \in 1..Len(s) : s[i] \in S
  BY EmptySeq, LenProperties, ElementOfSeq DEF Last
<1>2. /\ Front(s) \in Seq(S) /\ Len(Front(s)) = Len(s) - 1
      /\ \A i \in 1..(Len(s) - 1) : Front(s)[i] = s[i]
  <2>1. /\ 1 \in Int /\ Len(s) - 1 \in Int
        /\ \A i \in 1..(Len(s) - 1) : s[i] \in S
    BY <1>1
  <2>2. /\ SubSeq(s, 1, Len(s) - 1) \in Seq(S)
        /\ Len(SubSeq(s, 1, Len(s) - 1)) = IF 1 <= Len(s) - 1 THEN Len(s) - 1 - 1 + 1 ELSE 0
        /\ \A i \in 1..(Len(s) - 1 - 1 + 1) : SubSeq(s, 1, Len(s) - 1)[i] = s[1 + i - 1]
    BY <2>1, SubSeqProperties
  <2> QED BY <1>1, <2>2 DEF Front
<1>3. DOMAIN Front(s) = 1..(Len(s) - 1)
  BY <1>2, LenProperties
<1>4. Last(s) \in S /\ Last(s) \in ToSet(s)
  BY <1>1 DEF ToSet
<1>5. ASSUME IsInjective(s) PROVE IsInjective(Front(s))
  BY <1>1, <1>2, <1>3, <1>5 DEF IsInjective
<1>6. ASSUME IsInjective(s) PROVE ToSet(Front(s)) = ToSet(s) \ {Last(s)}
  <2>1. ASSUME NEW k \in ToSet(Front(s)) PROVE k \in ToSet(s) /\ k # Last(s)
    <3>1. PICK i \in 1..(Len(s) - 1) : k = s[i]
      BY <1>2, <1>3, <2>1 DEF ToSet
    <3>2. \A n \in Nat \ {0} : n \in 1..n /\ \A j \in 1..(n - 1) : j \in 1..n /\ j # n
      OBVIOUS
    <3>3. i \in 1..Len(s) /\ i # Len(s) /\ Len(s) \in 1..Len(s)
      BY <1>1, <3>2
    <3> QED BY <1>1, <1>6, <3>1, <3>3 DEF ToSet, IsInjective
  <2>2. ASSUME NEW k \in ToSet(s), k # Last(s) PROVE k \in ToSet(Front(s))
    <3>1. PICK i \in 1..Len(s) : k = s[i]
      BY <1>1, <2>2 DEF ToSet
    <3>2. i \in 1..(Len(s) - 1)
      BY <1>1, <2>2, <3>1
    <3> QED BY <1>2, <1>3, <3>1, <3>2 DEF ToSet
  <2> QED BY <2>1, <2>2
<1> QED BY <1>2, <1>4, <1>5, <1>6

LEMMA PutBack ==
    ASSUME NEW S, NEW s \in Seq(S), NEW k \in S
    PROVE  /\ Append(s, k) \in Seq(S)
           /\ ToSet(Append(s, k)) = ToSet(s) \cup {k}
           /\ IsInjective(s) /\ k \notin ToSet(s) => IsInjective(Append(s, k))
<1>1. /\ Len(s) \in Nat /\ DOMAIN s = 1..Len(s)
      /\ Append(s, k) \in Seq(S) /\ DOMAIN Append(s, k) = 1..(Len(s) + 1)
      /\ \A i \in 1..Len(s) : Append(s, k)[i] = s[i]
      /\ Append(s, k)[Len(s) + 1] = k
  BY LenProperties, AppendProperties
<1>2. 1..(Len(s) + 1) = 1..Len(s) \cup {Len(s) + 1}
  BY <1>1
<1>3. ToSet(Append(s, k)) = ToSet(s) \cup {k}
  BY <1>1, <1>2 DEF ToSet
<1>4. ASSUME IsInjective(s), k \notin ToSet(s) PROVE IsInjective(Append(s, k))
  <2> SUFFICES ASSUME NEW i \in 1..(Len(s) + 1), NEW j \in 1..(Len(s) + 1),
                      Append(s, k)[i] = Append(s, k)[j]
               PROVE  i = j
    BY <1>1 DEF IsInjective
  <2>1. \A n \in 1..Len(s) : s[n] # k
    BY <1>1, <1>4 DEF ToSet
  <2> QED BY <1>1, <1>2, <1>4, <2>1 DEF IsInjective
<1> QED BY <1>1, <1>3, <1>4

LEMMA PutFront ==
    ASSUME NEW S, NEW s \in Seq(S), NEW k \in S
    PROVE  /\ <<k>> \o s \in Seq(S)
           /\ ToSet(<<k>> \o s) = ToSet(s) \cup {k}
           /\ IsInjective(s) /\ k \notin ToSet(s) => IsInjective(<<k>> \o s)
<1> DEFINE r == <<k>> \o s
<1>1. /\ <<k>> \in Seq(S) /\ Len(<<k>>) = 1 /\ <<k>>[1] = k
      /\ Len(s) \in Nat /\ DOMAIN s = 1..Len(s)
  BY LenProperties
<1>2. /\ r \in Seq(S) /\ Len(r) = Len(s) + 1
      /\ \A i \in 1..(Len(s) + 1) : r[i] = IF i <= 1 THEN <<k>>[i] ELSE s[i - 1]
  BY <1>1, ConcatProperties
<1>3. DOMAIN r = 1..(Len(s) + 1) /\ r[1] = k /\ \A i \in 1..Len(s) : r[i + 1] = s[i]
  <2>1. DOMAIN r = 1..(Len(s) + 1)
    BY <1>2, LenProperties
  <2>2. r[1] = k
    BY <1>1, <1>2
  <2>3. ASSUME NEW i \in 1..Len(s) PROVE r[i + 1] = s[i]
    BY <1>1, <1>2
  <2> QED BY <2>1, <2>2, <2>3
<1> HIDE DEF r
<1>4. \A i \in 1..(Len(s) + 1) : i = 1 \/ (i - 1 \in 1..Len(s) /\ (i - 1) + 1 = i)
  BY <1>1
<1>5. \A i \in 1..(Len(s) + 1) : r[i] = k \/ (i - 1 \in 1..Len(s) /\ r[i] = s[i - 1])
  BY <1>3, <1>4
<1>6. ToSet(r) = ToSet(s) \cup {k}
  <2>1. ASSUME NEW x \in ToSet(r) PROVE x \in ToSet(s) \cup {k}
    BY <1>1, <1>3, <1>5 DEF ToSet
  <2>2. k \in ToSet(r)
    BY <1>1, <1>3 DEF ToSet
  <2>3. ASSUME NEW x \in ToSet(s) PROVE x \in ToSet(r)
    <3>1. PICK i \in 1..Len(s) : x = s[i]
      BY <1>1 DEF ToSet
    <3>2. i + 1 \in DOMAIN r /\ r[i + 1] = x
      BY <1>1, <1>3, <3>1
    <3> QED BY <3>2 DEF ToSet
  <2> QED BY <2>1, <2>2, <2>3
<1>7. ASSUME IsInjective(s), k \notin ToSet(s) PROVE IsInjective(r)
  <2> SUFFICES ASSUME NEW i \in 1..(Len(s) + 1), NEW j \in 1..(Len(s) + 1), r[i] = r[j]
               PROVE  i = j
    BY <1>3 DEF IsInjective
  <2>1. \A n \in 1..Len(s) : s[n] # k
    BY <1>1, <1>7 DEF ToSet
  <2>2. CASE i = 1 \/ j = 1
    BY <1>3, <1>4, <2>1, <2>2
  <2>3. CASE i # 1 /\ j # 1
    <3>1. /\ i - 1 \in 1..Len(s) /\ (i - 1) + 1 = i
          /\ j - 1 \in 1..Len(s) /\ (j - 1) + 1 = j
      BY <1>4, <2>3
    <3>2. s[i - 1] = s[j - 1]
      BY <1>3, <3>1
    <3>3. i - 1 = j - 1
      BY <1>1, <1>7, <3>1, <3>2 DEF IsInjective
    <3> QED BY <3>1, <3>3
  <2> QED BY <2>2, <2>3
<1> QED BY <1>2, <1>6, <1>7 DEF r

-----------------------------------------------------------------------------
(* Types *)

OffTask == {"popLocal", "popGlobal", "steal", "exitTest", "predicate",
            "parking", "asleep", "exited"}

\* The types, but for the sign of the counter; a worker submits only for the
\* task it runs, and a submission under way has its task in front of todo.
Types ==
    /\ globalQueue \in Seq(Tasks)
    /\ local \in [Workers -> Seq(Tasks)]
    /\ stopping \in BOOLEAN
    /\ outstanding \in Int
    /\ pc \in [Workers -> OffTask \cup {"run"}]
    /\ task \in [Workers -> Tasks \cup {NoTask}]
    /\ todo \in [Threads -> Seq(Tasks)]
    /\ submit \in [Threads -> {"idle", "checked", "counted", "inserted"}]
    /\ cpc \in [Clients -> {"submitting", "idle", "notifyAll", "joining", "returned"}]
    /\ refused \subseteq Tasks /\ done \subseteq Tasks
    /\ \A w \in Workers : /\ pc[w] = "run" <=> task[w] # NoTask
                          /\ submit[w] # "idle" => pc[w] = "run"
                          /\ pc[w] # "run" => todo[w] = <<>>
    /\ \A t \in Threads : submit[t] \in {"checked", "counted"} => todo[t] # <<>>

\* A worker goes on, without a task before or after.
Moves(w) == \E l \in OffTask : pc[w] \in OffTask /\ Goto(w, l)

\* Worker w takes task k out of the deque of a worker or the global queue.
TakesFrom(w, k, v) ==
    /\ v \in Workers /\ local[v] # <<>>
    /\ \/ k = Head(local[v]) /\ local' = [local EXCEPT ![v] = Tail(@)]
       \/ k = Last(local[v]) /\ local' = [local EXCEPT ![v] = Front(@)]
    /\ UNCHANGED globalQueue

TakesGlobal(w, k) ==
    /\ globalQueue # <<>> /\ k = Head(globalQueue) /\ globalQueue' = Tail(globalQueue)
    /\ UNCHANGED local

Takes(w, k) == /\ pc[w] \in OffTask /\ RunNow(w, k)
               /\ (\E v \in Workers : TakesFrom(w, k, v)) \/ TakesGlobal(w, k)

\* What a worker does apart from its task is one of these two.
LEMMA WorkerSteps ==
    ASSUME NEW w \in Workers,
           \/ PopLocal(w) \/ PopGlobal(w) \/ StealTask(w) \/ ExitTest(w) \/ WaitPredicate(w)
           \/ Park(w) \/ WaitTimeout(w) \/ SpuriousWakeup(w)
    PROVE  Moves(w) \/ \E k : Takes(w, k)
<1>1. CASE PopLocal(w)
  BY <1>1 DEF PopLocal, Moves, Takes, TakesFrom, OffTask
<1>2. CASE PopGlobal(w)
  BY <1>2 DEF PopGlobal, Moves, Takes, TakesGlobal, OffTask
<1>3. CASE StealTask(w)
  BY <1>3 DEF StealTask, Moves, Takes, TakesFrom, OffTask
<1>4. CASE ExitTest(w) \/ WaitPredicate(w)
  BY <1>4 DEF ExitTest, WaitPredicate, Moves, OffTask
<1>5. CASE Park(w) \/ WaitTimeout(w) \/ SpuriousWakeup(w)
  BY <1>5 DEF Park, WaitTimeout, SpuriousWakeup, Moves, OffTask
<1> QED BY <1>1, <1>2, <1>3, <1>4, <1>5

\* What a client does apart from its submissions leaves the tasks alone.
ClientMoves(c) ==
    /\ cpc' \in [Clients -> {"submitting", "idle", "notifyAll", "joining", "returned"}]
    /\ stopping' \in BOOLEAN
    /\ pc' = pc \/ pc' = [w \in Workers |-> IF w \in Asleep THEN "predicate" ELSE pc[w]]
    /\ UNCHANGED <<queues, outstanding, task, todo, submit, record>>

LEMMA ClientSteps ==
    ASSUME Types, NEW c \in Clients, WaitUntilIdle(c) \/ Close(c)
    PROVE  ClientMoves(c)
<1>0. cpc \in [Clients -> {"submitting", "idle", "notifyAll", "joining", "returned"}]
  BY DEF Types
<1>1. stopping \in BOOLEAN
  BY Zenon DEF Types
<1>2. CASE WaitUntilIdle(c)
  <2>1. cpc' \in [Clients -> {"submitting", "idle", "notifyAll", "joining", "returned"}]
    BY <1>0, <1>2 DEF WaitUntilIdle, Advance
  <2>2. UNCHANGED <<queues, atomics, workers, todo, submit, record>>
    BY <1>2 DEF WaitUntilIdle
  <2> QED BY <1>1, <2>1, <2>2, Zenon DEF ClientMoves, atomics, workers
<1>3. CASE Shutdown(c)
  <2>1. cpc' \in [Clients -> {"submitting", "idle", "notifyAll", "joining", "returned"}]
    BY <1>0, <1>3 DEF Shutdown, Advance
  <2>2. stopping' = TRUE /\ UNCHANGED <<queues, outstanding, workers, todo, submit, record>>
    BY <1>3 DEF Shutdown
  <2> QED BY <2>1, <2>2, Zenon DEF ClientMoves, workers
<1>4. CASE ShutdownNotify(c)
  <2>1. cpc' \in [Clients -> {"submitting", "idle", "notifyAll", "joining", "returned"}]
    BY <1>0, <1>4 DEF ShutdownNotify, Advance
  <2>2. /\ pc' = [w \in Workers |-> IF w \in Asleep THEN "predicate" ELSE pc[w]]
        /\ UNCHANGED <<queues, atomics, task, todo, submit, record>>
    BY <1>4 DEF ShutdownNotify
  <2> QED BY <1>1, <2>1, <2>2, Zenon DEF ClientMoves, atomics
<1>5. CASE Join(c)
  <2>1. cpc' \in [Clients -> {"submitting", "idle", "notifyAll", "joining", "returned"}]
    BY <1>0, <1>5 DEF Join, Advance
  <2>2. UNCHANGED <<queues, atomics, workers, todo, submit, record>>
    BY <1>5 DEF Join
  <2> QED BY <1>1, <2>1, <2>2, Zenon DEF ClientMoves, atomics, workers
<1> QED BY <1>2, <1>3, <1>4, <1>5 DEF Close

LEMMA InitTypes == Init => Types
<1> SUFFICES ASSUME Init PROVE Types
  OBVIOUS
<1>1. todo \in [Threads -> Seq(Tasks)]
  <2>1. \A t \in Threads : (IF t \in Clients THEN Program[t] ELSE <<>>) \in Seq(Tasks)
    BY PoolAssumption, EmptySeq
  <2> QED BY <2>1 DEF Init
<1>2. globalQueue \in Seq(Tasks) /\ local \in [Workers -> Seq(Tasks)]
  BY EmptySeq DEF Init
<1>3. stopping \in BOOLEAN
  BY Zenon DEF Init
<1>4. /\ pc \in [Workers -> OffTask \cup {"run"}] /\ task \in [Workers -> Tasks \cup {NoTask}]
      /\ submit \in [Threads -> {"idle", "checked", "counted", "inserted"}]
      /\ cpc \in [Clients -> {"submitting", "idle", "notifyAll", "joining", "returned"}]
      /\ outstanding \in Int
  BY DEF Init, OffTask
<1>5. refused \subseteq Tasks /\ done \subseteq Tasks
  BY DEF Init
<1>6. \A w \in Workers : /\ pc[w] = "run" <=> task[w] # NoTask
                         /\ submit[w] # "idle" => pc[w] = "run"
                         /\ pc[w] # "run" => todo[w] = <<>>
  <2>1. ASSUME NEW w \in Workers
        PROVE  w \in Threads /\ w \notin Clients
    BY PoolAssumption DEF Threads
  <2> QED BY <2>1 DEF Init
<1>7. \A t \in Threads : submit[t] \in {"checked", "counted"} => todo[t] # <<>>
  BY DEF Init
<1> QED BY <1>1, <1>2, <1>3, <1>4, <1>5, <1>6, <1>7 DEF Types

LEMMA TypesStep == Types /\ [Next]_vars => Types'
<1> SUFFICES ASSUME Types, [Next]_vars PROVE Types'
  OBVIOUS
<1>0. NoTask \notin Tasks /\ Workers \subseteq Threads
  BY PoolAssumption DEF Threads
<1>1. stopping \in BOOLEAN
  BY Zenon DEF Types
<1>2. ASSUME NEW w \in Workers, Moves(w) PROVE Types'
  <2>1. PICK l \in OffTask : pc[w] \in OffTask /\ Goto(w, l)
    BY <1>2 DEF Moves
  <2>2. /\ pc' = [pc EXCEPT ![w] = l]
        /\ UNCHANGED <<globalQueue, local, stopping, outstanding, task, todo, submit,
                       cpc, refused, done>>
    BY <2>1 DEF Goto, queues, atomics, record
  <2>3. l # "run" /\ pc[w] # "run"
    BY <2>1 DEF OffTask
  <2>4. \A u \in Workers : /\ pc'[u] = "run" <=> task'[u] # NoTask
                           /\ submit'[u] # "idle" => pc'[u] = "run"
                           /\ pc'[u] # "run" => todo'[u] = <<>>
    BY <2>2, <2>3 DEF Types
  <2>5. pc' \in [Workers -> OffTask \cup {"run"}]
    BY <2>2 DEF Types
  <2>6. stopping' \in BOOLEAN
    BY <1>1, <2>2, Zenon
  <2> QED BY <2>2, <2>4, <2>5, <2>6 DEF Types
<1>3. ASSUME NEW w \in Workers, NEW k, Takes(w, k) PROVE Types'
  <2>1. k \in Tasks /\ local' \in [Workers -> Seq(Tasks)] /\ globalQueue' \in Seq(Tasks)
    <3>1. ASSUME NEW v \in Workers, TakesFrom(w, k, v)
          PROVE  k \in Tasks /\ local' \in [Workers -> Seq(Tasks)] /\ globalQueue' \in Seq(Tasks)
      <4>1. /\ Head(local[v]) \in Tasks /\ Tail(local[v]) \in Seq(Tasks)
            /\ Last(local[v]) \in Tasks /\ Front(local[v]) \in Seq(Tasks)
        BY <3>1, TakeFront, TakeBack DEF TakesFrom, Types
      <4> QED BY <3>1, <4>1 DEF TakesFrom, Types
    <3>2. CASE TakesGlobal(w, k)
      BY <3>2, TakeFront DEF TakesGlobal, Types
    <3> QED BY <1>3, <3>1, <3>2 DEF Takes
  <2>2. /\ pc' = [pc EXCEPT ![w] = "run"] /\ task' = [task EXCEPT ![w] = k]
        /\ todo' = [todo EXCEPT ![w] = Children[k]]
        /\ pc[w] \in OffTask
        /\ UNCHANGED <<stopping, outstanding, submit, cpc, refused, done>>
    BY <1>3 DEF Takes, RunNow, atomics, record
  <2>3. Children[k] \in Seq(Tasks)
    BY <2>1, PoolAssumption
  <2>4. /\ pc' \in [Workers -> OffTask \cup {"run"}]
        /\ task' \in [Workers -> Tasks \cup {NoTask}]
        /\ todo' \in [Threads -> Seq(Tasks)]
    BY <1>0, <2>1, <2>2, <2>3 DEF Types
  <2>5. pc[w] # "run" /\ submit[w] = "idle"
    BY <2>2 DEF OffTask, Types
  <2>6. \A u \in Workers : /\ pc'[u] = "run" <=> task'[u] # NoTask
                           /\ submit'[u] # "idle" => pc'[u] = "run"
                           /\ pc'[u] # "run" => todo'[u] = <<>>
    BY <1>0, <2>1, <2>2 DEF Types
  <2>7. \A t \in Threads : submit'[t] \in {"checked", "counted"} => todo'[t] # <<>>
    BY <1>0, <2>2, <2>5 DEF Types
  <2>8. stopping' \in BOOLEAN
    BY <1>1, <2>2, Zenon
  <2> QED BY <2>1, <2>2, <2>4, <2>6, <2>7, <2>8 DEF Types
<1>4. ASSUME NEW w \in Workers, EndTask(w) PROVE Types'
  <2>1. /\ outstanding' = outstanding - 1 /\ done' = done \cup {task[w]}
        /\ pc' = [pc EXCEPT ![w] = "popLocal"] /\ task' = [task EXCEPT ![w] = NoTask]
        /\ todo' = [todo EXCEPT ![w] = <<>>]
        /\ pc[w] = "run" /\ submit[w] = "idle"
        /\ UNCHANGED <<globalQueue, local, stopping, submit, cpc, refused>>
    BY <1>4 DEF EndTask, queues
  <2>2. task[w] \in Tasks
    BY <2>1 DEF Types
  <2>3. /\ pc' \in [Workers -> OffTask \cup {"run"}]
        /\ task' \in [Workers -> Tasks \cup {NoTask}]
        /\ todo' \in [Threads -> Seq(Tasks)]
        /\ outstanding' \in Int /\ done' \subseteq Tasks
    BY <1>0, <2>1, <2>2, EmptySeq DEF Types, OffTask
  <2>4. \A u \in Workers : /\ pc'[u] = "run" <=> task'[u] # NoTask
                           /\ submit'[u] # "idle" => pc'[u] = "run"
                           /\ pc'[u] # "run" => todo'[u] = <<>>
    BY <1>0, <2>1 DEF Types
  <2>5. \A t \in Threads : submit'[t] \in {"checked", "counted"} => todo'[t] # <<>>
    BY <1>0, <2>1 DEF Types
  <2>6. stopping' \in BOOLEAN
    BY <1>1, <2>1, Zenon
  <2> QED BY <2>1, <2>3, <2>4, <2>5, <2>6 DEF Types
<1>5. ASSUME NEW c \in Clients, ClientMoves(c) PROVE Types'
  <2>1. UNCHANGED <<globalQueue, local, outstanding, task, todo, submit, refused, done>>
    BY <1>5 DEF ClientMoves, queues, record
  <2>2. \A w \in Workers : /\ pc'[w] = "run" <=> pc[w] = "run"
                           /\ pc'[w] \in OffTask \cup {"run"}
    BY <1>5 DEF ClientMoves, Asleep, Types, OffTask
  <2>3. pc' \in [Workers -> OffTask \cup {"run"}]
    BY <1>5, <2>2 DEF ClientMoves, Types
  <2>4. \A w \in Workers : /\ pc'[w] = "run" <=> task'[w] # NoTask
                           /\ submit'[w] # "idle" => pc'[w] = "run"
                           /\ pc'[w] # "run" => todo'[w] = <<>>
    BY <2>1, <2>2 DEF Types
  <2>5. cpc' \in [Clients -> {"submitting", "idle", "notifyAll", "joining", "returned"}]
    BY <1>5 DEF ClientMoves
  <2>6. stopping' \in BOOLEAN
    BY <1>5, Zenon DEF ClientMoves
  <2> QED BY <2>1, <2>3, <2>4, <2>5, <2>6 DEF Types
<1>6. ASSUME NEW t \in Threads, SubmitCheck(t) PROVE Types'
  <2>1. /\ todo[t] # <<>> /\ submit[t] = "idle" /\ (t \in Workers => pc[t] = "run")
        /\ UNCHANGED <<globalQueue, local, stopping, outstanding, pc, task, cpc>>
    BY <1>6 DEF SubmitCheck, Submitting, queues, atomics, workers
  <2>2. Head(todo[t]) \in Tasks /\ Tail(todo[t]) \in Seq(Tasks)
    <3>1. todo[t] # <<>> /\ todo[t] \in Seq(Tasks)
      BY <2>1 DEF Types
    <3> QED BY <3>1, TakeFront
  <2>3. stopping' \in BOOLEAN
    BY <1>1, <2>1, Zenon
  <2>4. CASE stopping
    <3>1. /\ refused' = refused \cup {Head(todo[t])} /\ todo' = [todo EXCEPT ![t] = Tail(@)]
          /\ UNCHANGED <<submit, done>>
      BY <1>6, <2>4 DEF SubmitCheck
    <3>2. refused' \subseteq Tasks /\ todo' \in [Threads -> Seq(Tasks)]
      BY <2>2, <3>1 DEF Types
    <3>3. \A u \in Workers : pc'[u] # "run" => todo'[u] = <<>>
      BY <1>0, <2>1, <3>1 DEF Types
    <3>4. \A u \in Threads : submit'[u] \in {"checked", "counted"} => todo'[u] # <<>>
      BY <2>1, <3>1 DEF Types
    <3> QED BY <2>1, <2>3, <3>1, <3>2, <3>3, <3>4 DEF Types
  <2>5. CASE ~stopping
    <3>1. submit' = [submit EXCEPT ![t] = "checked"] /\ UNCHANGED <<todo, refused, done>>
      BY <1>6, <2>5 DEF SubmitCheck, record
    <3>2. submit' \in [Threads -> {"idle", "checked", "counted", "inserted"}]
      BY <3>1 DEF Types
    <3>3. \A u \in Workers : submit'[u] # "idle" => pc'[u] = "run"
      BY <2>1, <3>1 DEF Types
    <3>4. \A u \in Threads : submit'[u] \in {"checked", "counted"} => todo'[u] # <<>>
      BY <2>1, <3>1 DEF Types
    <3> QED BY <2>1, <2>3, <3>1, <3>2, <3>3, <3>4 DEF Types
  <2> QED BY <2>4, <2>5
<1>7. ASSUME NEW t \in Threads, SubmitCount(t) PROVE Types'
  <2>1. /\ submit[t] = "checked" /\ submit' = [submit EXCEPT ![t] = "counted"]
        /\ outstanding' = outstanding + 1
        /\ UNCHANGED <<globalQueue, local, stopping, pc, task, todo, cpc, refused, done>>
    BY <1>7 DEF SubmitCount, queues, workers, record
  <2>2. /\ submit' \in [Threads -> {"idle", "checked", "counted", "inserted"}]
        /\ outstanding' \in Int
    BY <2>1 DEF Types
  <2>3. \A u \in Workers : submit'[u] # "idle" => pc'[u] = "run"
    BY <1>0, <2>1 DEF Types
  <2>4. \A u \in Threads : submit'[u] \in {"checked", "counted"} => todo'[u] # <<>>
    BY <2>1 DEF Types
  <2>5. stopping' \in BOOLEAN
    BY <1>1, <2>1, Zenon
  <2> QED BY <2>1, <2>2, <2>3, <2>4, <2>5 DEF Types
<1>8. ASSUME NEW t \in Threads, SubmitInsert(t) PROVE Types'
  <2>1. /\ submit[t] = "counted" /\ Insert(t, Head(todo[t]))
        /\ todo' = [todo EXCEPT ![t] = Tail(@)] /\ submit' = [submit EXCEPT ![t] = "inserted"]
        /\ UNCHANGED <<stopping, outstanding, pc, task, cpc, refused, done>>
    BY <1>8 DEF SubmitInsert, atomics, workers, record
  <2>2. todo[t] # <<>> /\ todo[t] \in Seq(Tasks)
    BY <2>1 DEF Types
  <2>3. Head(todo[t]) \in Tasks /\ Tail(todo[t]) \in Seq(Tasks)
    BY <2>2, TakeFront
  <2>4. local' \in [Workers -> Seq(Tasks)] /\ globalQueue' \in Seq(Tasks)
    <3>1. CASE /\ t \in Workers /\ UNCHANGED globalQueue
               /\ local' = [local EXCEPT ![t] = <<Head(todo[t])>> \o @]
      <4>1. <<Head(todo[t])>> \o local[t] \in Seq(Tasks)
        BY <2>3, <3>1, PutFront DEF Types
      <4> QED BY <3>1, <4>1 DEF Types
    <3>2. CASE globalQueue' = Append(globalQueue, Head(todo[t])) /\ UNCHANGED local
      BY <2>3, <3>2, PutBack DEF Types
    <3> QED BY <2>1, <3>1, <3>2 DEF Insert
  <2>5. /\ submit' \in [Threads -> {"idle", "checked", "counted", "inserted"}]
        /\ todo' \in [Threads -> Seq(Tasks)]
    BY <2>1, <2>3 DEF Types
  <2>6. \A u \in Workers : /\ submit'[u] # "idle" => pc'[u] = "run"
                           /\ pc'[u] # "run" => todo'[u] = <<>>
    BY <1>0, <2>1 DEF Types
  <2>7. \A u \in Threads : submit'[u] \in {"checked", "counted"} => todo'[u] # <<>>
    BY <2>1 DEF Types
  <2>8. stopping' \in BOOLEAN
    BY <1>1, <2>1, Zenon
  <2> QED BY <2>1, <2>4, <2>5, <2>6, <2>7, <2>8 DEF Types
<1>9. ASSUME NEW t \in Threads, SubmitNotify(t) PROVE Types'
  <2>1. /\ submit[t] = "inserted" /\ submit' = [submit EXCEPT ![t] = "idle"]
        /\ UNCHANGED <<globalQueue, local, stopping, outstanding, task, todo, cpc, refused, done>>
    BY <1>9 DEF SubmitNotify, queues, atomics, record
  <2>2. \A u \in Workers : pc'[u] = "run" <=> pc[u] = "run"
    BY <1>9 DEF SubmitNotify, Asleep, Types
  <2>3. pc' \in [Workers -> OffTask \cup {"run"}]
    BY <1>9 DEF SubmitNotify, Asleep, Types, OffTask
  <2>4. submit' \in [Threads -> {"idle", "checked", "counted", "inserted"}]
    BY <2>1 DEF Types
  <2>5. \A u \in Workers : /\ pc'[u] = "run" <=> task'[u] # NoTask
                           /\ submit'[u] # "idle" => pc'[u] = "run"
                           /\ pc'[u] # "run" => todo'[u] = <<>>
    BY <1>0, <2>1, <2>2 DEF Types
  <2>6. \A u \in Threads : submit'[u] \in {"checked", "counted"} => todo'[u] # <<>>
    BY <2>1 DEF Types
  <2>7. stopping' \in BOOLEAN
    BY <1>1, <2>1, Zenon
  <2> QED BY <2>1, <2>3, <2>4, <2>5, <2>6, <2>7 DEF Types
<1>10. CASE UNCHANGED vars
  <2>1. UNCHANGED <<globalQueue, local, stopping, outstanding, pc, task, todo, submit,
                    cpc, refused, done>>
    BY <1>10 DEF vars, queues, atomics, workers, record
  <2>2. stopping' \in BOOLEAN
    BY <1>1, <2>1, Zenon
  <2> QED BY <2>1, <2>2 DEF Types
<1> QED BY <1>2, <1>3, <1>4, <1>5, <1>6, <1>7, <1>8, <1>9, <1>10, WorkerSteps, ClientSteps
        DEF Next, Submit, Work

-----------------------------------------------------------------------------
(* No task is at two places *)

\* The places of a task from before its submission to its end.
At(k, place, who) ==
    \/ place = "todo"   /\ who \in Threads /\ k \in ToSet(todo[who])
    \/ place = "local"  /\ who \in Workers /\ k \in ToSet(local[who])
    \/ place = "global" /\ who = "pool" /\ k \in ToSet(globalQueue)
    \/ place = "run"    /\ who \in Workers /\ task[who] = k
    \/ place = "ended"  /\ who = "pool" /\ k \in refused \cup done

NoRepeats == /\ IsInjective(globalQueue)
             /\ \A w \in Workers : IsInjective(local[w])
             /\ \A t \in Threads : IsInjective(todo[t])

OnePlace == \A k \in Tasks : \A a, u, b, v :
                At(k, a, u) /\ At(k, b, v) => a = b /\ u = v

\* The children of a task are nowhere until that task begins.
Begun(k) == k \in done \/ \E w \in Workers : task[w] = k

Unborn == \A p \in Tasks : ~Begun(p) =>
              \A k \in ToSet(Children[p]) : \A a, u : ~At(k, a, u)

PlaceInv == Types /\ NoRepeats /\ OnePlace /\ Unborn

\* What a step does to the places of one task.
Stays(k) == \A a, u : At(k, a, u)' => At(k, a, u)
GoesTo(k, b, v) == \A a, u : At(k, a, u)' => a = b /\ u = v
Somewhere(k) == \E a, u : At(k, a, u)

\* What a step does to all tasks: one may go to another place, and with the
\* first step of a task its children come up for submission.
AllStay == \A k \in Tasks : Stays(k)

OneGoes(k, b, v) == /\ Somewhere(k) /\ GoesTo(k, b, v)
                    /\ \A l \in Tasks \ {k} : Stays(l)

OneBegins(k, w) ==
    /\ Somewhere(k) /\ GoesTo(k, "run", w) /\ Begun(k)'
    /\ \A l \in ToSet(Children[k]) : GoesTo(l, "todo", w) /\ l # k
    /\ \A l \in Tasks : l # k /\ l \notin ToSet(Children[k]) => Stays(l)

BegunStays == \A p \in Tasks : Begun(p) => Begun(p)'

LEMMA EffectsKeepPlaces ==
    ASSUME OnePlace, Unborn, BegunStays,
           \/ AllStay
           \/ \E k \in Tasks : \E b, v : OneGoes(k, b, v)
           \/ \E k \in Tasks : \E w \in Workers : OneBegins(k, w)
    PROVE  OnePlace' /\ Unborn'
<1>0. \A p \in Tasks : ToSet(Children[p]) \subseteq Tasks
  BY PoolAssumption, LenProperties, ElementOfSeq DEF ToSet
<1>1. CASE AllStay
  <2>1. OnePlace'
    BY <1>1 DEF AllStay, Stays, OnePlace
  <2>2. Unborn'
    BY <1>0, <1>1 DEF AllStay, Stays, Unborn, BegunStays
  <2> QED BY <2>1, <2>2
<1>2. ASSUME NEW k \in Tasks, NEW b, NEW v, OneGoes(k, b, v) PROVE OnePlace' /\ Unborn'
  <2>1. OnePlace'
    BY <1>2 DEF OneGoes, GoesTo, Stays, OnePlace
  <2>2. ASSUME NEW p \in Tasks, ~Begun(p)', NEW l \in ToSet(Children[p]), NEW a, NEW u
        PROVE  ~At(l, a, u)'
    <3>1. l \in Tasks
      BY <2>2, PoolAssumption DEF ToSet
    <3>2. ~Somewhere(l)
      BY <2>2 DEF BegunStays, Unborn, Somewhere
    <3> QED BY <1>2, <3>1, <3>2 DEF OneGoes, Stays, Somewhere
  <2> QED BY <2>1, <2>2 DEF Unborn
<1>3. ASSUME NEW k \in Tasks, NEW w \in Workers, OneBegins(k, w) PROVE OnePlace' /\ Unborn'
  <2>1. OnePlace'
    BY <1>3 DEF OneBegins, GoesTo, Stays, OnePlace
  <2>2. ASSUME NEW p \in Tasks, ~Begun(p)', NEW l \in ToSet(Children[p]), NEW a, NEW u
        PROVE  ~At(l, a, u)'
    <3>1. l \in Tasks
      BY <2>2, PoolAssumption DEF ToSet
    <3>2. ~Somewhere(l)
      BY <2>2 DEF BegunStays, Unborn, Somewhere
    <3>3. p # k
      BY <1>3, <2>2 DEF OneBegins
    <3>4. l \notin ToSet(Children[k])
      BY <2>2, <3>3, SubmissionsAreDistinct
    <3> QED BY <1>3, <3>1, <3>2, <3>4 DEF OneBegins, Stays, Somewhere
  <2> QED BY <2>1, <2>2 DEF Unborn
<1> QED BY <1>1, <1>2, <1>3

QueuesLose(k) == /\ ToSet(globalQueue') = ToSet(globalQueue) \ {k}
                 /\ \A w \in Workers : ToSet(local'[w]) = ToSet(local[w]) \ {k}

\* A worker that takes a task takes it off one queue and puts its children
\* before itself.
LEMMA TakeEffect ==
    ASSUME PlaceInv, NEW w \in Workers, NEW k, Takes(w, k)
    PROVE  /\ k \in Tasks /\ OneBegins(k, w) /\ BegunStays /\ NoRepeats'
           /\ k \in ToSet(globalQueue) \/ \E v \in Workers : k \in ToSet(local[v])
           /\ QueuesLose(k)
<1> USE DEF PlaceInv, QueuesLose
<1>0. Workers \subseteq Threads /\ NoTask \notin Tasks
  BY PoolAssumption DEF Threads
<1>1. /\ pc[w] \in OffTask
      /\ task' = [task EXCEPT ![w] = k] /\ todo' = [todo EXCEPT ![w] = Children[k]]
      /\ UNCHANGED <<refused, done>>
  BY DEF Takes, RunNow, record
<1>2. task[w] = NoTask /\ todo[w] = <<>>
  BY <1>1 DEF Types, OffTask
<1> DEFINE TakenOff(x) ==
              /\ x \in Tasks /\ \E a, u : At(x, a, u) /\ a \in {"local", "global"}
              /\ IsInjective(globalQueue') /\ \A v \in Workers : IsInjective(local'[v])
              /\ x \in ToSet(globalQueue) \/ \E v \in Workers : x \in ToSet(local[v])
              /\ QueuesLose(x)
<1>3. TakenOff(k)
  <2>1. ASSUME NEW v \in Workers, TakesFrom(w, k, v) PROVE  TakenOff(k)
    <3>1. local[v] \in Seq(Tasks) /\ local[v] # <<>> /\ IsInjective(local[v])
      BY <2>1 DEF TakesFrom, Types, NoRepeats
    <3>2. /\ k \in Tasks /\ k \in ToSet(local[v])
          /\ IsInjective(local'[v]) /\ ToSet(local'[v]) = ToSet(local[v]) \ {k}
          /\ \A u \in Workers \ {v} : local'[u] = local[u]
          /\ globalQueue' = globalQueue
      <4>1. CASE k = Head(local[v]) /\ local' = [local EXCEPT ![v] = Tail(@)]
        BY <2>1, <3>1, <4>1, TakeFront DEF Types, TakesFrom
      <4>2. CASE k = Last(local[v]) /\ local' = [local EXCEPT ![v] = Front(@)]
        BY <2>1, <3>1, <4>2, TakeBack DEF Types, TakesFrom
      <4> QED BY <2>1, <4>1, <4>2 DEF TakesFrom
    <3>3. At(k, "local", v)
      BY <3>2 DEF At
    <3>4. k \notin ToSet(globalQueue) /\ \A u \in Workers \ {v} : k \notin ToSet(local[u])
      <4>1. \A a, u : At(k, a, u) => a = "local" /\ u = v
        BY <3>2, <3>3 DEF OnePlace
      <4>2. k \in ToSet(globalQueue) => At(k, "global", "pool")
        BY DEF At
      <4>3. \A u \in Workers : k \in ToSet(local[u]) => At(k, "local", u)
        BY DEF At
      <4> QED BY <4>1, <4>2, <4>3
    <3>5. IsInjective(globalQueue) /\ \A u \in Workers : IsInjective(local[u])
      BY DEF NoRepeats
    <3> QED BY <3>2, <3>3, <3>4, <3>5
  <2>2. CASE TakesGlobal(w, k)
    <3>1. globalQueue \in Seq(Tasks) /\ globalQueue # <<>> /\ IsInjective(globalQueue)
      BY <2>2 DEF TakesGlobal, Types, NoRepeats
    <3>2. /\ k \in Tasks /\ k \in ToSet(globalQueue)
          /\ IsInjective(globalQueue') /\ ToSet(globalQueue') = ToSet(globalQueue) \ {k}
          /\ local' = local
      BY <2>2, <3>1, TakeFront DEF TakesGlobal
    <3>3. At(k, "global", "pool")
      BY <3>2 DEF At
    <3>4. \A u \in Workers : k \notin ToSet(local[u])
      <4>1. \A u \in Workers : k \in ToSet(local[u]) => At(k, "local", u)
        BY DEF At
      <4> QED BY <3>2, <3>3, <4>1 DEF OnePlace
    <3> QED BY <3>2, <3>3, <3>4 DEF NoRepeats
  <2> QED BY <2>1, <2>2 DEF Takes
<1>4. PICK a, u : At(k, a, u) /\ a \in {"local", "global"}
  BY <1>3
<1>5. \A b, v : At(k, b, v) => b = a /\ v = u
  BY <1>3, <1>4 DEF OnePlace
<1>6. /\ k \notin refused \cup done /\ \A v \in Workers : task[v] # k
      /\ \A t \in Threads : k \notin ToSet(todo[t])
  <2>1. k \in refused \cup done => At(k, "ended", "pool")
    BY DEF At
  <2>2. \A v \in Workers : task[v] = k => At(k, "run", v)
    BY DEF At
  <2>3. \A t \in Threads : k \in ToSet(todo[t]) => At(k, "todo", t)
    BY DEF At
  <2> QED BY <1>4, <1>5, <2>1, <2>2, <2>3
<1>7. ~Begun(k) /\ \A l \in ToSet(Children[k]) : ~Somewhere(l) /\ l # k
  <2>1. ~Begun(k)
    BY <1>6 DEF Begun
  <2> QED BY <1>3, <1>4, <2>1 DEF Unborn, Somewhere
<1>8. /\ task'[w] = k /\ \A v \in Workers \ {w} : task'[v] = task[v]
      /\ todo'[w] = Children[k] /\ \A t \in Threads \ {w} : todo'[t] = todo[t]
  BY <1>0, <1>1 DEF Types
<1>9. GoesTo(k, "run", w)
  <2>1. k \notin ToSet(todo'[w])
    BY <1>7, <1>8
  <2> QED BY <1>1, <1>3, <1>6, <1>8, <2>1 DEF GoesTo, At
<1>10. ASSUME NEW l \in Tasks, l # k, NEW b, NEW v, At(l, b, v)', ~(b = "todo" /\ v = w)
       PROVE  At(l, b, v)
  BY <1>0, <1>1, <1>3, <1>8, <1>10 DEF At
<1>11. ASSUME NEW l \in ToSet(Children[k]) PROVE GoesTo(l, "todo", w) /\ l # k
  <2>1. l \in Tasks
    BY <1>3, PoolAssumption DEF ToSet
  <2> QED BY <1>7, <1>10, <2>1 DEF GoesTo, Somewhere
<1>12. ASSUME NEW l \in Tasks, l # k, l \notin ToSet(Children[k]) PROVE Stays(l)
  <2>1. ~At(l, "todo", w)'
    BY <1>8, <1>12 DEF At
  <2> QED BY <1>10, <1>12, <2>1 DEF Stays
<1>13. Begun(k)' /\ BegunStays
  <2>1. Begun(k)'
    BY <1>8 DEF Begun
  <2>2. ASSUME NEW p \in Tasks, Begun(p) PROVE Begun(p)'
    BY <1>0, <1>1, <1>2, <1>8, <2>2 DEF Begun
  <2> QED BY <2>1, <2>2 DEF BegunStays
<1>14. \A t \in Threads : IsInjective(todo'[t])
  BY <1>3, <1>8, SubmissionsAreDistinct DEF NoRepeats
<1>15. Somewhere(k)
  BY <1>4 DEF Somewhere
<1> QED BY <1>3, <1>9, <1>11, <1>12, <1>13, <1>14, <1>15 DEF OneBegins, NoRepeats

LEMMA GoesAlone ==
    ASSUME NEW k \in Tasks, NEW b, NEW v, NEW c, NEW x, At(k, c, x),
           \A l \in Tasks : \A a, u :
               At(l, a, u)' /\ ~(l = k /\ a = b /\ u = v) => At(l, a, u) /\ l # k
    PROVE  OneGoes(k, b, v)
<1>1. Somewhere(k)
  BY DEF Somewhere
<1>2. GoesTo(k, b, v)
  BY DEF GoesTo
<1>3. \A l \in Tasks \ {k} : Stays(l)
  BY DEF Stays
<1> QED BY <1>1, <1>2, <1>3 DEF OneGoes

\* A task that ends takes its unsubmitted children with it.
LEMMA EndEffect ==
    ASSUME PlaceInv, NEW w \in Workers, EndTask(w), NEW k, k = task[w]
    PROVE  /\ k \in Tasks /\ OneGoes(k, "ended", "pool")
           /\ BegunStays /\ NoRepeats'
<1> USE DEF PlaceInv
<1>0. Workers \subseteq Threads /\ NoTask \notin Tasks
  BY PoolAssumption DEF Threads
<1>1. /\ pc[w] = "run" /\ task' = [task EXCEPT ![w] = NoTask]
      /\ todo' = [todo EXCEPT ![w] = <<>>] /\ done' = done \cup {k}
      /\ UNCHANGED <<globalQueue, local, refused>>
  BY DEF EndTask, queues
<1>2. k \in Tasks /\ At(k, "run", w)
  BY <1>1 DEF Types, At
<1>3. \A a, u : At(k, a, u) => a = "run" /\ u = w
  BY <1>2 DEF OnePlace
<1>4. /\ task'[w] = NoTask /\ \A v \in Workers \ {w} : task'[v] = task[v]
      /\ todo'[w] = <<>> /\ \A t \in Threads \ {w} : todo'[t] = todo[t]
      /\ ToSet(todo'[w]) = {}
  BY <1>0, <1>1 DEF Types, ToSet
<1>5. ASSUME NEW l \in Tasks, NEW a, NEW u, At(l, a, u)', ~(l = k /\ a = "ended" /\ u = "pool")
      PROVE  At(l, a, u) /\ l # k
  <2>1. At(l, a, u) /\ ~(l = k /\ a = "run" /\ u = w)
    BY <1>0, <1>1, <1>2, <1>4, <1>5 DEF At
  <2> QED BY <1>3, <2>1
<1>6. OneGoes(k, "ended", "pool")
  BY <1>2, <1>5, GoesAlone
<1>7. BegunStays
  <2>1. ASSUME NEW p \in Tasks, Begun(p) PROVE Begun(p)'
    BY <1>1, <1>4, <2>1 DEF Begun
  <2> QED BY <2>1 DEF BegunStays
<1>8. IsInjective(<<>>)
  BY DEF IsInjective
<1>9. NoRepeats'
  BY <1>1, <1>4, <1>8 DEF NoRepeats
<1> QED BY <1>2, <1>6, <1>7, <1>9

\* The front of a program or body leaves it.
LEMMA FrontLeaves ==
    ASSUME PlaceInv, NEW t \in Threads, todo[t] # <<>>, NEW k, k = Head(todo[t]),
           todo' = [todo EXCEPT ![t] = Tail(@)]
    PROVE  /\ k \in Tasks /\ At(k, "todo", t)
           /\ \A a, u : At(k, a, u) => a = "todo" /\ u = t
           /\ \A u \in Threads : /\ IsInjective(todo'[u])
                                 /\ ToSet(todo'[u]) \subseteq ToSet(todo[u])
                                 /\ k \notin ToSet(todo'[u])
<1> USE DEF PlaceInv
<1>1. todo[t] \in Seq(Tasks) /\ IsInjective(todo[t])
  BY DEF Types, NoRepeats
<1>2. /\ k \in Tasks /\ k \in ToSet(todo[t])
      /\ IsInjective(Tail(todo[t])) /\ ToSet(Tail(todo[t])) = ToSet(todo[t]) \ {k}
  BY <1>1, TakeFront
<1>3. At(k, "todo", t)
  BY <1>2 DEF At
<1>4. \A a, u : At(k, a, u) => a = "todo" /\ u = t
  BY <1>2, <1>3 DEF OnePlace
<1>5. todo'[t] = Tail(todo[t]) /\ \A u \in Threads \ {t} : todo'[u] = todo[u]
  BY DEF Types
<1>6. \A u \in Threads \ {t} : k \notin ToSet(todo[u])
  BY <1>4 DEF At
<1>7. \A u \in Threads : IsInjective(todo[u])
  BY DEF NoRepeats
<1> QED BY <1>2, <1>3, <1>4, <1>5, <1>6, <1>7

LEMMA RefuseEffect ==
    ASSUME PlaceInv, NEW t \in Threads, SubmitCheck(t), stopping, NEW k, k = Head(todo[t])
    PROVE  /\ k \in Tasks /\ OneGoes(k, "ended", "pool")
           /\ BegunStays /\ NoRepeats'
<1>1. /\ todo[t] # <<>> /\ todo' = [todo EXCEPT ![t] = Tail(@)]
      /\ refused' = refused \cup {k}
      /\ UNCHANGED <<globalQueue, local, task, done>>
  BY DEF SubmitCheck, Submitting, queues, workers
<1>2. /\ k \in Tasks /\ At(k, "todo", t)
      /\ \A a, u : At(k, a, u) => a = "todo" /\ u = t
      /\ \A u \in Threads : /\ IsInjective(todo'[u])
                            /\ ToSet(todo'[u]) \subseteq ToSet(todo[u])
                            /\ k \notin ToSet(todo'[u])
  BY <1>1, FrontLeaves
<1>3. ASSUME NEW l \in Tasks, NEW a, NEW u, At(l, a, u)', ~(l = k /\ a = "ended" /\ u = "pool")
      PROVE  At(l, a, u) /\ l # k
  <2>1. At(l, a, u) /\ ~(l = k /\ a = "todo")
    BY <1>1, <1>2, <1>3 DEF At
  <2> QED BY <1>2, <2>1
<1>4. OneGoes(k, "ended", "pool")
  BY <1>2, <1>3, GoesAlone
<1>5. BegunStays
  BY <1>1 DEF BegunStays, Begun
<1>6. NoRepeats'
  BY <1>1, <1>2 DEF NoRepeats, PlaceInv
<1> QED BY <1>2, <1>4, <1>5, <1>6

LEMMA InsertEffect ==
    ASSUME PlaceInv, NEW t \in Threads, SubmitInsert(t), NEW k, k = Head(todo[t])
    PROVE  /\ k \in Tasks
           /\ OneGoes(k, "local", t) \/ OneGoes(k, "global", "pool")
           /\ BegunStays /\ NoRepeats'
<1>1. /\ submit[t] = "counted" /\ todo' = [todo EXCEPT ![t] = Tail(@)]
      /\ UNCHANGED <<task, refused, done>>
  BY DEF SubmitInsert, workers, record
<1>2. todo[t] # <<>>
  BY <1>1 DEF PlaceInv, Types
<1>3. /\ k \in Tasks /\ At(k, "todo", t)
      /\ \A a, u : At(k, a, u) => a = "todo" /\ u = t
      /\ \A u \in Threads : /\ IsInjective(todo'[u])
                            /\ ToSet(todo'[u]) \subseteq ToSet(todo[u])
                            /\ k \notin ToSet(todo'[u])
  BY <1>1, <1>2, FrontLeaves
<1>4. BegunStays
  BY <1>1 DEF BegunStays, Begun
<1>5. k \notin ToSet(globalQueue) /\ \A w \in Workers : k \notin ToSet(local[w])
  BY <1>3 DEF At
<1>6. CASE /\ t \in Workers /\ UNCHANGED globalQueue
           /\ local' = [local EXCEPT ![t] = <<k>> \o @]
  <2>1. local[t] \in Seq(Tasks) /\ IsInjective(local[t])
    BY <1>6 DEF PlaceInv, Types, NoRepeats
  <2>2. ToSet(<<k>> \o local[t]) = ToSet(local[t]) \cup {k} /\ IsInjective(<<k>> \o local[t])
    BY <1>3, <1>5, <1>6, <2>1, PutFront
  <2>3. local'[t] = <<k>> \o local[t] /\ \A w \in Workers \ {t} : local'[w] = local[w]
    BY <1>6 DEF PlaceInv, Types
  <2>4. ASSUME NEW l \in Tasks, NEW a, NEW u, At(l, a, u)', ~(l = k /\ a = "local" /\ u = t)
        PROVE  At(l, a, u) /\ l # k
    <3>1. At(l, a, u) /\ ~(l = k /\ a = "todo")
      BY <1>1, <1>3, <1>6, <2>2, <2>3, <2>4 DEF At
    <3> QED BY <1>3, <3>1
  <2>5. OneGoes(k, "local", t)
    BY <1>3, <2>4, GoesAlone
  <2>6. NoRepeats'
    BY <1>3, <1>6, <2>2, <2>3 DEF NoRepeats, PlaceInv
  <2> QED BY <1>3, <1>4, <2>5, <2>6
<1>7. CASE globalQueue' = Append(globalQueue, k) /\ UNCHANGED local
  <2>1. globalQueue \in Seq(Tasks) /\ IsInjective(globalQueue)
    BY DEF PlaceInv, Types, NoRepeats
  <2>2. ToSet(globalQueue') = ToSet(globalQueue) \cup {k} /\ IsInjective(globalQueue')
    BY <1>3, <1>5, <1>7, <2>1, PutBack
  <2>3. ASSUME NEW l \in Tasks, NEW a, NEW u, At(l, a, u)', ~(l = k /\ a = "global" /\ u = "pool")
        PROVE  At(l, a, u) /\ l # k
    <3>1. At(l, a, u) /\ ~(l = k /\ a = "todo")
      BY <1>1, <1>3, <1>7, <2>2, <2>3 DEF At
    <3> QED BY <1>3, <3>1
  <2>4. OneGoes(k, "global", "pool")
    BY <1>3, <2>3, GoesAlone
  <2>5. NoRepeats'
    BY <1>3, <1>7, <2>2 DEF NoRepeats, PlaceInv
  <2> QED BY <1>3, <1>4, <2>4, <2>5
<1> QED BY <1>6, <1>7 DEF SubmitInsert, Insert

\* The other steps move no task.
LEMMA StayEffect ==
    ASSUME PlaceInv, UNCHANGED <<globalQueue, local, task, todo, refused, done>>
    PROVE  AllStay /\ BegunStays /\ NoRepeats'
<1>1. AllStay
  BY DEF AllStay, Stays, At
<1>2. BegunStays
  BY DEF BegunStays, Begun
<1>3. NoRepeats'
  BY DEF PlaceInv, NoRepeats
<1> QED BY <1>1, <1>2, <1>3

LEMMA PlaceInvStep == PlaceInv /\ [Next]_vars => PlaceInv'
<1> SUFFICES ASSUME PlaceInv, [Next]_vars PROVE PlaceInv'
  OBVIOUS
<1>1. Types /\ Types' /\ OnePlace /\ Unborn
  BY TypesStep DEF PlaceInv
<1>2. ASSUME NEW w \in Workers, NEW k, Takes(w, k) PROVE PlaceInv'
  BY <1>1, <1>2, TakeEffect, EffectsKeepPlaces DEF PlaceInv
<1>3. ASSUME NEW w \in Workers, EndTask(w) PROVE PlaceInv'
  <2>1. PICK k : k = task[w]
    OBVIOUS
  <2> QED BY <1>1, <1>3, <2>1, EndEffect, EffectsKeepPlaces DEF PlaceInv
<1>4. ASSUME NEW t \in Threads, SubmitInsert(t) PROVE PlaceInv'
  <2>1. PICK k : k = Head(todo[t])
    OBVIOUS
  <2> QED BY <1>1, <1>4, <2>1, InsertEffect, EffectsKeepPlaces DEF PlaceInv
<1>5. ASSUME NEW t \in Threads, SubmitCheck(t), stopping PROVE PlaceInv'
  <2>1. PICK k : k = Head(todo[t])
    OBVIOUS
  <2> QED BY <1>1, <1>5, <2>1, RefuseEffect, EffectsKeepPlaces DEF PlaceInv
<1>6. ASSUME UNCHANGED <<globalQueue, local, task, todo, refused, done>> PROVE PlaceInv'
  BY <1>1, <1>6, StayEffect, EffectsKeepPlaces DEF PlaceInv
<1>7. ASSUME NEW t \in Threads, \/ SubmitCheck(t) /\ ~stopping
                                \/ SubmitCount(t) \/ SubmitNotify(t)
      PROVE  PlaceInv'
  <2>1. UNCHANGED <<globalQueue, local, task, todo, refused, done>>
    BY <1>7 DEF SubmitCheck, SubmitCount, SubmitNotify, queues, workers, record
  <2> QED BY <1>6, <2>1
<1>8. ASSUME NEW w \in Workers, Moves(w) PROVE PlaceInv'
  <2>1. UNCHANGED <<globalQueue, local, task, todo, refused, done>>
    BY <1>8 DEF Moves, Goto, queues, record
  <2> QED BY <1>6, <2>1
<1>9. ASSUME NEW c \in Clients, ClientMoves(c) PROVE PlaceInv'
  <2>1. UNCHANGED <<globalQueue, local, task, todo, refused, done>>
    BY <1>9 DEF ClientMoves, queues, record
  <2> QED BY <1>6, <2>1
<1>10. CASE UNCHANGED vars
  <2>1. UNCHANGED <<globalQueue, local, task, todo, refused, done>>
    BY <1>10 DEF vars, queues, workers, record
  <2> QED BY <1>6, <2>1
<1> QED BY <1>1, <1>2, <1>3, <1>4, <1>5, <1>7, <1>8, <1>9, <1>10, WorkerSteps, ClientSteps
        DEF Next, Submit, Work

LEMMA InitPlaces == Init => PlaceInv
<1> SUFFICES ASSUME Init PROVE PlaceInv
  OBVIOUS
<1>0. ToSet(<<>>) = {} /\ IsInjective(<<>>)
  BY DEF ToSet, IsInjective
<1>1. \A t \in Threads : todo[t] = IF t \in Clients THEN Program[t] ELSE <<>>
  BY DEF Init
<1>2. globalQueue = <<>> /\ \A w \in Workers : local[w] = <<>> /\ task[w] = NoTask
  BY DEF Init
<1>3. \A k \in Tasks : \A a, u : At(k, a, u) => /\ a = "todo" /\ u \in Clients
                                                /\ k \in ToSet(Program[u])
  BY <1>0, <1>1, <1>2, PoolAssumption DEF Init, At
<1>4. OnePlace
  BY <1>3, SubmissionsAreDistinct DEF OnePlace
<1>5. Unborn
  <2> SUFFICES ASSUME NEW p \in Tasks, NEW k \in ToSet(Children[p]), NEW a, NEW u, At(k, a, u)
               PROVE  FALSE
    BY DEF Unborn
  <2>1. k \in Tasks
    BY PoolAssumption DEF ToSet
  <2> QED BY <1>3, <2>1, SubmissionsAreDistinct
<1>6. NoRepeats
  BY <1>0, <1>1, <1>2, SubmissionsAreDistinct DEF NoRepeats
<1> QED BY <1>4, <1>5, <1>6, InitTypes DEF PlaceInv

LEMMA PlaceInvHolds == Spec => []PlaceInv
BY InitPlaces, PlaceInvStep, PTL DEF Spec

-----------------------------------------------------------------------------
(* The counter *)

\* The task is counted: its submission is past the increment and it has not
\* ended.
Held(k) == \/ \E t \in Threads : submit[t] = "counted" /\ Head(todo[t]) = k
           \/ \E w \in Workers : k \in ToSet(local[w])
           \/ k \in ToSet(globalQueue)
           \/ \E w \in Workers : task[w] = k

Pending == {k \in Tasks : Held(k)}

Counted == IsFiniteSet(Pending) /\ outstanding = Cardinality(Pending)

LEMMA HeldIsAt ==
    ASSUME PlaceInv, NEW k \in Tasks
    PROVE  /\ \A t \in Threads : submit[t] = "counted" /\ Head(todo[t]) = k => At(k, "todo", t)
           /\ \A w \in Workers : k \in ToSet(local[w]) => At(k, "local", w)
           /\ k \in ToSet(globalQueue) => At(k, "global", "pool")
           /\ \A w \in Workers : task[w] = k => At(k, "run", w)
           /\ k \in refused \cup done => ~Held(k)
<1>1. ASSUME NEW t \in Threads, submit[t] = "counted", Head(todo[t]) = k PROVE At(k, "todo", t)
  <2>1. todo[t] # <<>> /\ todo[t] \in Seq(Tasks)
    BY <1>1 DEF PlaceInv, Types
  <2> QED BY <1>1, <2>1, TakeFront DEF At
<1>2. /\ \A w \in Workers : k \in ToSet(local[w]) => At(k, "local", w)
      /\ k \in ToSet(globalQueue) => At(k, "global", "pool")
      /\ \A w \in Workers : task[w] = k => At(k, "run", w)
  BY DEF At
<1>3. ASSUME k \in refused \cup done PROVE ~Held(k)
  <2>1. At(k, "ended", "pool")
    BY <1>3 DEF At
  <2>2. \A a, u : At(k, a, u) => a = "ended"
    BY <2>1 DEF PlaceInv, OnePlace
  <2> QED BY <1>1, <1>2, <2>2 DEF Held
<1> QED BY <1>1, <1>2, <1>3

\* What a step does to the counter and to the tasks that are counted.
Unmoved == outstanding' = outstanding /\ \A l \in Tasks : Held(l)' <=> Held(l)

CountsUp(k) == /\ ~Held(k) /\ Held(k)' /\ outstanding' = outstanding + 1
               /\ \A l \in Tasks : l # k => (Held(l)' <=> Held(l))

CountsDown(k) == /\ Held(k) /\ ~Held(k)' /\ outstanding' = outstanding - 1
                 /\ k \in done'
                 /\ \A l \in Tasks : l # k => (Held(l)' <=> Held(l))

HeldEffect ==
    \/ Unmoved
    \/ \E k \in Tasks, t \in Threads : /\ CountsUp(k) /\ k \in ToSet(todo[t])
                                       /\ t \in Workers => task[t] \in Tasks
    \/ \E k \in Tasks : CountsDown(k)

\* The number of copies is what the code keeps of a task: one or none.
LEMMA CopiesOfTask ==
    ASSUME PlaceInv, NEW k \in Tasks
    PROVE  Copies(k) = IF Held(k) THEN 1 ELSE 0
<1>1. /\ \A t \in Holders(k) : At(k, "todo", t)
      /\ \A w \in Workers : k \in ToSet(local[w]) => At(k, "local", w)
      /\ k \in ToSet(globalQueue) => At(k, "global", "pool")
      /\ \A w \in Runners(k) : At(k, "run", w)
  BY HeldIsAt DEF Holders, Runners
<1>2. \A a, u, b, v : At(k, a, u) /\ At(k, b, v) => a = b /\ u = v
  BY DEF PlaceInv, OnePlace
<1>3. /\ (\A w \in Workers : k \notin ToSet(local[w])) => Places(k) = {}
      /\ k \notin ToSet(globalQueue) => Slots(k) = {}
  BY DEF Places, Slots, ToSet
<1>4. /\ Cardinality({}) = 0
      /\ \A x : Cardinality({x}) = 1
  BY FS_EmptySet, FS_Singleton
<1>5. CASE Holders(k) # {}
  <2>1. PICK t : t \in Holders(k)
    BY <1>5
  <2>2. Holders(k) = {t}
    BY <1>1, <1>2, <2>1
  <2>3. Runners(k) = {} /\ k \notin ToSet(globalQueue) /\ \A w \in Workers : k \notin ToSet(local[w])
    BY <1>1, <1>2, <2>1
  <2>4. Held(k)
    BY <2>1 DEF Held, Holders
  <2>5. /\ Cardinality(Holders(k)) = 1 /\ Cardinality(Runners(k)) = 0
        /\ Cardinality(Places(k)) = 0 /\ Cardinality(Slots(k)) = 0
    BY <1>3, <1>4, <2>2, <2>3
  <2> QED BY <2>4, <2>5 DEF Copies
<1>6. CASE Runners(k) # {}
  <2>1. PICK w : w \in Runners(k)
    BY <1>6
  <2>2. Runners(k) = {w}
    BY <1>1, <1>2, <2>1
  <2>3. Holders(k) = {} /\ k \notin ToSet(globalQueue) /\ \A v \in Workers : k \notin ToSet(local[v])
    BY <1>1, <1>2, <2>1
  <2>4. Held(k)
    BY <2>1 DEF Held, Runners
  <2> QED BY <1>3, <1>4, <2>2, <2>3, <2>4 DEF Copies
<1>7. CASE k \in ToSet(globalQueue)
  <2>1. Holders(k) = {} /\ Runners(k) = {} /\ \A w \in Workers : k \notin ToSet(local[w])
    BY <1>1, <1>2, <1>7
  <2>2. PICK i \in DOMAIN globalQueue : globalQueue[i] = k
    BY <1>7 DEF ToSet
  <2>3. Slots(k) = {i}
    BY <2>2 DEF Slots, PlaceInv, NoRepeats, IsInjective
  <2>4. Held(k)
    BY <1>7 DEF Held
  <2> QED BY <1>3, <1>4, <2>1, <2>3, <2>4 DEF Copies
<1>8. ASSUME NEW w \in Workers, k \in ToSet(local[w]) PROVE Copies(k) = IF Held(k) THEN 1 ELSE 0
  <2>1. /\ Holders(k) = {} /\ Runners(k) = {} /\ k \notin ToSet(globalQueue)
        /\ \A v \in Workers : k \in ToSet(local[v]) => v = w
    BY <1>1, <1>2, <1>8
  <2>2. PICK i \in DOMAIN local[w] : local[w][i] = k
    BY <1>8 DEF ToSet
  <2>3. {j \in DOMAIN local[w] : local[w][j] = k} = {i}
    BY <2>2 DEF PlaceInv, NoRepeats, IsInjective
  <2>4. \A v \in Workers \ {w} : {j \in DOMAIN local[v] : local[v][j] = k} = {}
    BY <2>1 DEF ToSet
  <2>5. Places(k) = {<<w, i>>}
    BY <2>3, <2>4 DEF Places
  <2>6. Held(k)
    BY <1>8 DEF Held
  <2>7. /\ Cardinality(Holders(k)) = 0 /\ Cardinality(Runners(k)) = 0
        /\ Cardinality(Places(k)) = 1 /\ Cardinality(Slots(k)) = 0
    BY <1>3, <1>4, <2>1, <2>5
  <2> QED BY <2>6, <2>7 DEF Copies
<1>9. CASE /\ Holders(k) = {} /\ Runners(k) = {} /\ k \notin ToSet(globalQueue)
           /\ \A w \in Workers : k \notin ToSet(local[w])
  <2>1. ~Held(k)
    BY <1>9 DEF Held, Holders, Runners
  <2> QED BY <1>3, <1>4, <1>9, <2>1 DEF Copies
<1> QED BY <1>5, <1>6, <1>7, <1>8, <1>9

LEMMA HeldStep == PlaceInv /\ [Next]_vars => HeldEffect
<1> SUFFICES ASSUME PlaceInv, [Next]_vars PROVE HeldEffect
  OBVIOUS
<1>0. Workers \subseteq Threads /\ NoTask \notin Tasks
  BY PoolAssumption DEF Threads
<1>1. ASSUME outstanding' = outstanding, \A k \in Tasks : Held(k)' <=> Held(k) PROVE HeldEffect
  BY <1>1 DEF HeldEffect, Unmoved
<1>2. ASSUME UNCHANGED <<globalQueue, local, outstanding, task, todo>>,
             \A t \in Threads : submit'[t] = "counted" <=> submit[t] = "counted"
      PROVE  HeldEffect
  <2>1. \A k \in Tasks : Held(k)' <=> Held(k)
    BY <1>2 DEF Held
  <2> QED BY <1>1, <1>2, <2>1
<1>3. ASSUME NEW w \in Workers, NEW k, Takes(w, k) PROVE HeldEffect
  <2>1. /\ k \in Tasks /\ QueuesLose(k)
        /\ k \in ToSet(globalQueue) \/ \E v \in Workers : k \in ToSet(local[v])
    BY <1>3, TakeEffect
  <2>2. /\ pc[w] \in OffTask
        /\ task' = [task EXCEPT ![w] = k] /\ todo' = [todo EXCEPT ![w] = Children[k]]
        /\ UNCHANGED <<submit, outstanding>>
    BY <1>3 DEF Takes, RunNow, atomics
  <2>3. submit[w] = "idle" /\ task[w] = NoTask
    BY <2>2 DEF PlaceInv, Types, OffTask
  <2>4. /\ task'[w] = k /\ \A v \in Workers \ {w} : task'[v] = task[v]
        /\ \A t \in Threads \ {w} : todo'[t] = todo[t]
    BY <1>0, <2>2 DEF PlaceInv, Types
  <2>5. Held(k)' /\ Held(k)
    BY <2>1, <2>4 DEF Held
  <2>6. ASSUME NEW l \in Tasks, l # k PROVE Held(l)' <=> Held(l)
    <3>1. (\E t \in Threads : submit[t] = "counted" /\ Head(todo[t]) = l)
          <=> (\E t \in Threads : submit'[t] = "counted" /\ Head(todo'[t]) = l)
      BY <2>2, <2>3, <2>4
    <3>2. (\E v \in Workers : task[v] = l) <=> (\E v \in Workers : task'[v] = l)
      BY <1>0, <2>3, <2>4, <2>6
    <3>3. /\ l \in ToSet(globalQueue') <=> l \in ToSet(globalQueue)
          /\ \A v \in Workers : l \in ToSet(local'[v]) <=> l \in ToSet(local[v])
      BY <2>1, <2>6 DEF QueuesLose
    <3> QED BY <3>1, <3>2, <3>3 DEF Held
  <2> QED BY <1>1, <2>2, <2>5, <2>6
<1>4. ASSUME NEW w \in Workers, EndTask(w) PROVE HeldEffect
  <2>0. PICK k : k = task[w]
    OBVIOUS
  <2>1. /\ pc[w] = "run" /\ submit[w] = "idle" /\ outstanding' = outstanding - 1
        /\ task' = [task EXCEPT ![w] = NoTask] /\ todo' = [todo EXCEPT ![w] = <<>>]
        /\ UNCHANGED <<globalQueue, local, submit>>
    BY <2>0, <1>4 DEF EndTask, queues
  <2>2. k \in Tasks /\ Held(k)
    BY <2>0, <2>1 DEF PlaceInv, Types, Held
  <2>3. /\ task'[w] = NoTask /\ \A v \in Workers \ {w} : task'[v] = task[v]
        /\ \A t \in Threads \ {w} : todo'[t] = todo[t]
    BY <1>0, <2>1 DEF PlaceInv, Types
  <2>4. NoTask # k
    BY <1>0, <2>2
  <2>5. At(k, "run", w) /\ \A a, u : At(k, a, u) => a = "run" /\ u = w
    BY <2>0, <2>2 DEF PlaceInv, OnePlace, At
  <2>6. /\ \A t \in Threads : ~(submit[t] = "counted" /\ Head(todo[t]) = k)
        /\ \A v \in Workers : k \notin ToSet(local[v]) /\ (task[v] = k => v = w)
        /\ k \notin ToSet(globalQueue)
    BY <2>2, <2>5, HeldIsAt
  <2>7. ~Held(k)'
    BY <2>1, <2>3, <2>4, <2>6 DEF Held
  <2>8. ASSUME NEW l \in Tasks, l # k PROVE Held(l)' <=> Held(l)
    <3>1. (\E t \in Threads : submit[t] = "counted" /\ Head(todo[t]) = l)
          <=> (\E t \in Threads : submit'[t] = "counted" /\ Head(todo'[t]) = l)
      BY <2>1, <2>3
    <3>2. (\E v \in Workers : task[v] = l) <=> (\E v \in Workers : task'[v] = l)
      BY <1>0, <2>0, <2>3, <2>8
    <3> QED BY <2>1, <3>1, <3>2 DEF Held
  <2>9. k \in done'
    BY <1>4, <2>0 DEF EndTask
  <2>10. CountsDown(k)
    BY <2>1, <2>2, <2>7, <2>8, <2>9 DEF CountsDown
  <2> QED BY <2>2, <2>10 DEF HeldEffect
<1>5. ASSUME NEW t \in Threads, SubmitCount(t) PROVE HeldEffect
  <2>0. PICK k : k = Head(todo[t])
    OBVIOUS
  <2>1. /\ submit[t] = "checked" /\ submit' = [submit EXCEPT ![t] = "counted"]
        /\ outstanding' = outstanding + 1
        /\ UNCHANGED <<globalQueue, local, task, todo>>
    BY <2>0, <1>5 DEF SubmitCount, queues, workers
  <2>2. todo[t] # <<>> /\ todo[t] \in Seq(Tasks)
    BY <2>1 DEF PlaceInv, Types
  <2>3. k \in Tasks /\ At(k, "todo", t)
    BY <2>0, <2>2, TakeFront DEF At
  <2>4. \A a, u : At(k, a, u) => a = "todo" /\ u = t
    BY <2>3 DEF PlaceInv, OnePlace
  <2>5. ~Held(k)
    BY <2>0, <2>1, <2>3, <2>4, HeldIsAt DEF Held
  <2>6. submit'[t] = "counted" /\ \A u \in Threads \ {t} : submit'[u] = submit[u]
    BY <2>1 DEF PlaceInv, Types
  <2>7. Held(k)'
    BY <2>0, <2>1, <2>6 DEF Held
  <2>8. ASSUME NEW l \in Tasks, l # k PROVE Held(l)' <=> Held(l)
    <3>1. (\E u \in Threads : submit[u] = "counted" /\ Head(todo[u]) = l)
          <=> (\E u \in Threads : submit'[u] = "counted" /\ Head(todo'[u]) = l)
      BY <2>0, <2>1, <2>6, <2>8
    <3> QED BY <2>1, <3>1 DEF Held
  <2>9. CountsUp(k)
    BY <2>1, <2>5, <2>7, <2>8 DEF CountsUp
  <2>10. k \in ToSet(todo[t]) /\ (t \in Workers => task[t] \in Tasks)
    BY <2>1, <2>3 DEF At, PlaceInv, Types
  <2> QED BY <2>3, <2>9, <2>10 DEF HeldEffect
<1>6. ASSUME NEW t \in Threads, SubmitInsert(t) PROVE HeldEffect
  <2>0. PICK k : k = Head(todo[t])
    OBVIOUS
  <2>1. /\ submit[t] = "counted" /\ Insert(t, k)
        /\ todo' = [todo EXCEPT ![t] = Tail(@)] /\ submit' = [submit EXCEPT ![t] = "inserted"]
        /\ UNCHANGED <<outstanding, task>>
    BY <2>0, <1>6 DEF SubmitInsert, atomics, workers
  <2>2. todo[t] # <<>> /\ todo[t] \in Seq(Tasks)
    BY <2>1 DEF PlaceInv, Types
  <2>3. k \in Tasks
    BY <2>0, <2>2, TakeFront
  <2>4. /\ submit'[t] = "inserted"
        /\ \A u \in Threads \ {t} : submit'[u] = submit[u] /\ todo'[u] = todo[u]
    BY <2>1 DEF PlaceInv, Types
  <2>5. ASSUME NEW l \in Tasks, l # k
        PROVE  /\ l \in ToSet(globalQueue') <=> l \in ToSet(globalQueue)
               /\ \A w \in Workers : l \in ToSet(local'[w]) <=> l \in ToSet(local[w])
    <3>1. CASE /\ t \in Workers /\ UNCHANGED globalQueue
               /\ local' = [local EXCEPT ![t] = <<k>> \o @]
      <4>1. ToSet(<<k>> \o local[t]) = ToSet(local[t]) \cup {k}
        BY <2>3, <3>1, PutFront DEF PlaceInv, Types
      <4>2. /\ local'[t] = <<k>> \o local[t]
            /\ \A w \in Workers \ {t} : local'[w] = local[w]
        BY <3>1 DEF PlaceInv, Types
      <4> QED BY <2>5, <3>1, <4>1, <4>2
    <3>2. CASE globalQueue' = Append(globalQueue, k) /\ UNCHANGED local
      <4>1. ToSet(globalQueue') = ToSet(globalQueue) \cup {k}
        BY <2>3, <3>2, PutBack DEF PlaceInv, Types
      <4> QED BY <2>5, <3>2, <4>1
    <3> QED BY <2>1, <3>1, <3>2 DEF Insert
  <2>6. Held(k)' /\ Held(k)
    <3>1. Held(k)
      BY <2>0, <2>1 DEF Held
    <3>2. k \in ToSet(globalQueue') \/ \E w \in Workers : k \in ToSet(local'[w])
      <4>1. CASE t \in Workers /\ local' = [local EXCEPT ![t] = <<k>> \o @]
        <5>1. k \in ToSet(<<k>> \o local[t])
          BY <2>3, <4>1, PutFront DEF PlaceInv, Types
        <5> QED BY <4>1, <5>1 DEF PlaceInv, Types
      <4>2. CASE globalQueue' = Append(globalQueue, k)
        BY <2>3, <4>2, PutBack DEF PlaceInv, Types
      <4> QED BY <2>1, <4>1, <4>2 DEF Insert
    <3> QED BY <3>1, <3>2 DEF Held
  <2>7. ASSUME NEW l \in Tasks, l # k PROVE Held(l)' <=> Held(l)
    <3>1. (\E u \in Threads : submit[u] = "counted" /\ Head(todo[u]) = l)
          <=> (\E u \in Threads : submit'[u] = "counted" /\ Head(todo'[u]) = l)
      BY <2>0, <2>1, <2>4, <2>7
    <3> QED BY <2>1, <2>5, <2>7, <3>1 DEF Held
  <2> QED BY <1>1, <2>1, <2>6, <2>7
<1>7. ASSUME NEW t \in Threads, SubmitCheck(t) PROVE HeldEffect
  <2>1. submit[t] = "idle" /\ UNCHANGED <<globalQueue, local, outstanding, task>>
    BY <1>7 DEF SubmitCheck, queues, atomics, workers
  <2>2. CASE stopping
    <3>1. todo' = [todo EXCEPT ![t] = Tail(@)] /\ submit' = submit
      BY <1>7, <2>2 DEF SubmitCheck
    <3>2. \A u \in Threads \ {t} : todo'[u] = todo[u]
      BY <3>1 DEF PlaceInv, Types
    <3>3. \A k \in Tasks : Held(k)' <=> Held(k)
      BY <2>1, <3>1, <3>2 DEF Held
    <3> QED BY <1>1, <2>1, <3>3
  <2>3. CASE ~stopping
    <3>1. submit' = [submit EXCEPT ![t] = "checked"] /\ todo' = todo
      BY <1>7, <2>3 DEF SubmitCheck
    <3>2. \A u \in Threads : submit'[u] = "counted" <=> submit[u] = "counted"
      BY <2>1, <3>1 DEF PlaceInv, Types
    <3> QED BY <1>2, <2>1, <3>1, <3>2
  <2> QED BY <2>2, <2>3
<1>8. ASSUME NEW t \in Threads, SubmitNotify(t) PROVE HeldEffect
  <2>1. /\ submit[t] = "inserted" /\ submit' = [submit EXCEPT ![t] = "idle"]
        /\ UNCHANGED <<globalQueue, local, outstanding, task, todo>>
    BY <1>8 DEF SubmitNotify, queues, atomics
  <2>2. \A u \in Threads : submit'[u] = "counted" <=> submit[u] = "counted"
    BY <2>1 DEF PlaceInv, Types
  <2> QED BY <1>2, <2>1, <2>2
<1>9. ASSUME NEW w \in Workers, Moves(w) PROVE HeldEffect
  BY <1>2, <1>9 DEF Moves, Goto, queues, atomics
<1>10. ASSUME NEW c \in Clients, ClientMoves(c) PROVE HeldEffect
  BY <1>2, <1>10 DEF ClientMoves, queues
<1>11. CASE UNCHANGED vars
  BY <1>2, <1>11 DEF vars, queues, atomics, workers
<1>12. Types
  BY DEF PlaceInv
<1> QED BY <1>3, <1>4, <1>5, <1>6, <1>7, <1>8, <1>9, <1>10, <1>11, <1>12, WorkerSteps, ClientSteps
        DEF Next, Submit, Work

LEMMA CountedStep == PlaceInv /\ Counted /\ [Next]_vars => Counted'
<1> SUFFICES ASSUME PlaceInv, Counted, [Next]_vars PROVE Counted'
  OBVIOUS
<1>1. CASE Unmoved
  <2>1. Pending' = Pending
    BY <1>1 DEF Unmoved, Pending
  <2> QED BY <1>1, <2>1 DEF Unmoved, Counted
<1>2. ASSUME NEW k \in Tasks, CountsUp(k) PROVE Counted'
  <2>1. Pending' = Pending \cup {k} /\ k \notin Pending
    BY <1>2 DEF CountsUp, Pending
  <2> QED BY <1>2, <2>1, FS_AddElement DEF CountsUp, Counted
<1>3. ASSUME NEW k \in Tasks, CountsDown(k) PROVE Counted'
  <2>1. Pending' = Pending \ {k} /\ k \in Pending
    BY <1>3 DEF CountsDown, Pending
  <2> QED BY <1>3, <2>1, FS_RemoveElement DEF CountsDown, Counted
<1>4. HeldEffect
  BY HeldStep
<1> QED BY <1>1, <1>2, <1>3, <1>4 DEF HeldEffect

LEMMA CountedHolds == Spec => []Counted
<1>1. Init => Counted
  <2> SUFFICES ASSUME Init PROVE Counted
    OBVIOUS
  <2>1. Pending = {}
    BY PoolAssumption DEF Init, Pending, Held, ToSet
  <2> QED BY <2>1, FS_EmptySet DEF Init, Counted
<1> QED BY <1>1, CountedStep, PlaceInvHolds, PTL DEF Spec

\* The pool's state stays in its types, and outstandingTasks_ is never
\* negative: no task is counted down that was not counted up.
THEOREM PoolTypeCorrect == Spec => []TypeOK
<1>1. Types /\ Counted => TypeOK
  <2> SUFFICES ASSUME Types, Counted PROVE TypeOK
    OBVIOUS
  <2>1. outstanding \in Nat
    BY FS_CardinalityType DEF Counted
  <2>2. OffTask \cup {"run"} = {"popLocal", "popGlobal", "steal", "run", "exitTest",
                                "predicate", "parking", "asleep", "exited"}
    BY DEF OffTask
  <2> QED BY <2>1, <2>2, Zenon DEF Types, TypeOK
<1>2. PlaceInv => Types
  BY DEF PlaceInv
<1> QED BY <1>1, <1>2, PlaceInvHolds, CountedHolds, PTL

\* Whatever the interleaving of owners, thieves and submissions: a task is at
\* most once in the pool, and never again after its end.
THEOREM TaskInOnePlace == Spec => []InOnePlace
<1>1. PlaceInv => InOnePlace
  <2> SUFFICES ASSUME PlaceInv, NEW k \in Tasks PROVE Copies(k) <= IF k \in done THEN 0 ELSE 1
    BY DEF InOnePlace
  <2>1. k \in done => ~Held(k)
    BY HeldIsAt
  <2>2. Copies(k) = IF Held(k) THEN 1 ELSE 0
    BY CopiesOfTask
  <2> QED BY <2>1, <2>2
<1> QED BY <1>1, PlaceInvHolds, PTL

\* outstandingTasks_ is exactly the number of tasks that are counted and have
\* not ended, although it changes outside every mutex.
THEOREM CounterIsExact == Spec => []CounterCounts
<1>1. PlaceInv /\ Counted => CounterCounts
  <2> SUFFICES ASSUME PlaceInv, Counted PROVE CounterCounts
    OBVIOUS
  <2>1. \A k \in Tasks : Copies(k) > 0 <=> Held(k)
    <3> SUFFICES ASSUME NEW k \in Tasks PROVE Copies(k) > 0 <=> Held(k)
      OBVIOUS
    <3>1. Copies(k) = IF Held(k) THEN 1 ELSE 0
      BY CopiesOfTask
    <3> QED BY <3>1
  <2>2. {k \in Tasks : Copies(k) > 0} = Pending
    BY <2>1 DEF Pending
  <2> QED BY <2>2 DEF CounterCounts, Counted
<1> QED BY <1>1, PlaceInvHolds, CountedHolds, PTL

-----------------------------------------------------------------------------
(* What waitUntilIdle() tells *)

\* A worker submits only children of the task it runs, a client only tasks of
\* its program; and a task of a program is unsubmitted, counted or over.
Origin == /\ \A w \in Workers, p \in Tasks :
                 task[w] = p => ToSet(todo[w]) \subseteq ToSet(Children[p])
          /\ \A c \in Clients : ToSet(todo[c]) \subseteq ToSet(Program[c])

Kept == \A c \in Clients : \A k \in ToSet(Program[c]) :
            k \in ToSet(todo[c]) \/ Held(k) \/ k \in refused \cup done

IdleTruth == \A c \in Clients : cpc[c] = "idle" =>
                 \A k \in ToSet(Program[c]) : /\ k \in refused \cup done
                                              /\ \A l \in ToSet(Children[k]) : ~Held(l)

IdleInv == Origin /\ Kept /\ IdleTruth

ListsAreTasks == /\ \A c \in Clients : ToSet(Program[c]) \subseteq Tasks
                 /\ \A k \in Tasks : ToSet(Children[k]) \subseteq Tasks

LEMMA ListsOfTasks == ListsAreTasks
BY PoolAssumption, LenProperties, ElementOfSeq DEF ListsAreTasks, ToSet

\* The list of a thread changes in three ways.
LEMMA TodoStep ==
    ASSUME PlaceInv, [Next]_vars, NEW t \in Threads
    PROVE  /\ refused \subseteq refused' /\ done \subseteq done'
           /\ \/ todo'[t] = todo[t] /\ (t \in Workers => task'[t] = task[t])
              \/ /\ t \in Workers /\ task'[t] \in Tasks
                 /\ todo'[t] = Children[task'[t]]
              \/ /\ t \in Workers /\ task'[t] = NoTask
              \/ /\ t \in Workers => task'[t] = task[t]
                 /\ \E k \in Tasks : /\ ToSet(todo'[t]) = ToSet(todo[t]) \ {k}
                                     /\ k \in refused' \/ Held(k)
<1> DEFINE Grows == refused \subseteq refused' /\ done \subseteq done'
           Same  == todo'[t] = todo[t] /\ (t \in Workers => task'[t] = task[t])
           Body  == t \in Workers /\ task'[t] \in Tasks /\ todo'[t] = Children[task'[t]]
           Free  == t \in Workers /\ task'[t] = NoTask
           Loses == /\ t \in Workers => task'[t] = task[t]
                    /\ \E k \in Tasks : /\ ToSet(todo'[t]) = ToSet(todo[t]) \ {k}
                                        /\ k \in refused' \/ Held(k)
<1> SUFFICES Grows /\ (Same \/ Body \/ Free \/ Loses)
  OBVIOUS
<1>0. Workers \subseteq Threads
  BY DEF Threads
<1>1. ASSUME UNCHANGED <<task, todo, refused, done>> PROVE Grows /\ Same
  BY <1>1
<1>2. ASSUME NEW w \in Workers, NEW k, Takes(w, k) PROVE Grows /\ (Same \/ Body)
  <2>1. k \in Tasks
    BY <1>2, TakeEffect
  <2>2. /\ task' = [task EXCEPT ![w] = k] /\ todo' = [todo EXCEPT ![w] = Children[k]]
        /\ UNCHANGED <<refused, done>>
    BY <1>2 DEF Takes, RunNow, record
  <2>3. CASE t = w
    BY <1>0, <2>1, <2>2, <2>3 DEF PlaceInv, Types
  <2>4. CASE t # w
    BY <2>2, <2>4 DEF PlaceInv, Types
  <2> QED BY <2>3, <2>4
<1>3. ASSUME NEW w \in Workers, EndTask(w) PROVE Grows /\ (Same \/ Free)
  <2>1. /\ task' = [task EXCEPT ![w] = NoTask] /\ todo' = [todo EXCEPT ![w] = <<>>]
        /\ done' = done \cup {task[w]} /\ refused' = refused
    BY <1>3 DEF EndTask
  <2>2. CASE t = w
    BY <2>1, <2>2 DEF PlaceInv, Types
  <2>3. CASE t # w
    BY <2>1, <2>3 DEF PlaceInv, Types
  <2> QED BY <2>2, <2>3
<1>4. ASSUME NEW u \in Threads, todo[u] # <<>>, todo' = [todo EXCEPT ![u] = Tail(@)],
             UNCHANGED task, Grows, Head(todo[u]) \in refused' \/ Held(Head(todo[u]))
      PROVE  Same \/ Loses
  <2>1. CASE t = u
    <3>1. todo[u] \in Seq(Tasks) /\ IsInjective(todo[u]) /\ todo'[u] = Tail(todo[u])
      BY <1>4 DEF PlaceInv, Types, NoRepeats
    <3>2. Head(todo[u]) \in Tasks /\ ToSet(todo'[u]) = ToSet(todo[u]) \ {Head(todo[u])}
      BY <1>4, <3>1, TakeFront
    <3> QED BY <1>4, <2>1, <3>2
  <2>2. CASE t # u
    BY <1>4, <2>2 DEF PlaceInv, Types
  <2> QED BY <2>1, <2>2
<1>5. ASSUME NEW u \in Threads, SubmitInsert(u) PROVE Grows /\ (Same \/ Loses)
  <2>1. /\ submit[u] = "counted" /\ todo' = [todo EXCEPT ![u] = Tail(@)]
        /\ UNCHANGED <<task, refused, done>>
    BY <1>5 DEF SubmitInsert, workers, record
  <2>2. todo[u] # <<>> /\ Held(Head(todo[u]))
    BY <2>1 DEF PlaceInv, Types, Held
  <2> QED BY <1>4, <2>1, <2>2
<1>6. ASSUME NEW u \in Threads, SubmitCheck(u), stopping PROVE Grows /\ (Same \/ Loses)
  <2>1. /\ todo[u] # <<>> /\ todo' = [todo EXCEPT ![u] = Tail(@)]
        /\ refused' = refused \cup {Head(todo[u])}
        /\ UNCHANGED <<task, done>>
    BY <1>6 DEF SubmitCheck, Submitting, workers
  <2> QED BY <1>4, <2>1
<1>7. ASSUME NEW u \in Threads, \/ SubmitCheck(u) /\ ~stopping
                                \/ SubmitCount(u) \/ SubmitNotify(u)
      PROVE  Grows /\ Same
  BY <1>1, <1>7 DEF SubmitCheck, SubmitCount, SubmitNotify, workers, record
<1>8. ASSUME NEW w \in Workers, Moves(w) PROVE Grows /\ Same
  BY <1>1, <1>8 DEF Moves, Goto, record
<1>9. ASSUME NEW c \in Clients, ClientMoves(c) PROVE Grows /\ Same
  BY <1>1, <1>9 DEF ClientMoves, record
<1>10. CASE UNCHANGED vars
  BY <1>1, <1>10 DEF vars, workers, record
<1>11. Types
  BY DEF PlaceInv
<1> HIDE DEF Grows, Same, Body, Free, Loses
<1> QED BY <1>2, <1>3, <1>5, <1>6, <1>7, <1>8, <1>9, <1>10, <1>11, WorkerSteps, ClientSteps
        DEF Next, Submit, Work

LEMMA OriginStep == PlaceInv /\ Origin /\ [Next]_vars => Origin'
<1> SUFFICES ASSUME PlaceInv, Origin, [Next]_vars PROVE Origin'
  OBVIOUS
<1>0. Workers \subseteq Threads /\ Clients \subseteq Threads /\ Workers \cap Clients = {}
      /\ NoTask \notin Tasks
  BY PoolAssumption DEF Threads
<1>1. ASSUME NEW w \in Workers, NEW p \in Tasks, task'[w] = p
      PROVE  ToSet(todo'[w]) \subseteq ToSet(Children[p])
  BY <1>0, <1>1, TodoStep DEF Origin
<1>2. ASSUME NEW c \in Clients PROVE ToSet(todo'[c]) \subseteq ToSet(Program[c])
  BY <1>0, TodoStep DEF Origin
<1> QED BY <1>1, <1>2 DEF Origin

LEMMA KeptStep == PlaceInv /\ Kept /\ [Next]_vars => Kept'
<1> SUFFICES ASSUME PlaceInv, Kept, [Next]_vars, NEW c \in Clients, NEW k \in ToSet(Program[c])
             PROVE  k \in ToSet(todo'[c]) \/ Held(k)' \/ k \in refused' \cup done'
  BY DEF Kept
<1>0. k \in Tasks /\ c \in Threads /\ c \notin Workers
  BY PoolAssumption, ListsOfTasks DEF ListsAreTasks, Threads
<1>1. CASE k \in refused \cup done
  BY <1>0, <1>1, TodoStep
<1>2. CASE Held(k)
  <2>1. HeldEffect
    BY HeldStep
  <2>2. Held(k)' \/ k \in done'
    BY <1>0, <1>2, <2>1 DEF HeldEffect, Unmoved, CountsUp, CountsDown
  <2> QED BY <2>2
<1>3. CASE k \in ToSet(todo[c])
  BY <1>0, <1>2, <1>3, TodoStep
<1> QED BY <1>1, <1>2, <1>3 DEF Kept

\* Nothing but a submission by a task that runs brings up a child.
LEMMA IdleStep == PlaceInv /\ Counted /\ IdleInv /\ [Next]_vars => IdleTruth'
<1> SUFFICES ASSUME PlaceInv, Counted, IdleInv, [Next]_vars,
                    NEW c \in Clients, cpc'[c] = "idle", NEW k \in ToSet(Program[c])
             PROVE  /\ k \in refused' \cup done'
                    /\ \A l \in ToSet(Children[k]) : ~Held(l)'
  BY DEF IdleTruth
<1>0. k \in Tasks /\ c \in Threads /\ c \notin Workers
  BY PoolAssumption, ListsOfTasks DEF ListsAreTasks, Threads
<1>1. cpc[c] = "idle" \/ WaitUntilIdle(c)
  <2>1. ASSUME NEW d \in Clients, Close(d) PROVE cpc[c] = "idle"
    BY <2>1 DEF Close, Shutdown, ShutdownNotify, Join, Advance, PlaceInv, Types
  <2>2. ASSUME NEW d \in Clients, WaitUntilIdle(d) PROVE cpc[c] = "idle" \/ WaitUntilIdle(c)
    <3>1. d # c => cpc'[c] = cpc[c]
      BY <2>2 DEF WaitUntilIdle, Advance, PlaceInv, Types
    <3> QED BY <2>2, <3>1
  <2>3. ASSUME NEW t \in Threads, Submit(t) PROVE cpc' = cpc
    BY <2>3 DEF Submit, SubmitCheck, SubmitCount, SubmitInsert, SubmitNotify
  <2>4. ASSUME NEW w \in Workers, EndTask(w) PROVE cpc' = cpc
    BY <2>4 DEF EndTask
  <2>5. ASSUME NEW w \in Workers, Moves(w) \/ \E l : Takes(w, l) PROVE cpc' = cpc
    BY <2>5 DEF Moves, Goto, Takes, RunNow
  <2>6. CASE UNCHANGED vars
    BY <2>6 DEF vars
  <2> QED BY <2>1, <2>2, <2>3, <2>4, <2>5, <2>6, WorkerSteps DEF Next, Work
<1>2. /\ k \in refused \cup done
      /\ \A l \in ToSet(Children[k]) : ~Held(l)
  <2>1. CASE cpc[c] = "idle"
    BY <2>1 DEF IdleInv, IdleTruth
  <2>2. CASE WaitUntilIdle(c)
    <3>1. todo[c] = <<>> /\ outstanding = 0
      BY <2>2 DEF WaitUntilIdle, Quiet
    <3>2. Pending = {}
      BY <3>1, FS_EmptySet DEF Counted
    <3>3. \A l \in Tasks : ~Held(l)
      BY <3>2 DEF Pending
    <3>4. k \notin ToSet(todo[c])
      BY <3>1 DEF ToSet
    <3> QED BY <1>0, <3>3, <3>4, ListsOfTasks DEF IdleInv, Kept, ListsAreTasks
  <2> QED BY <1>1, <2>1, <2>2
<1>3. k \in refused' \cup done'
  BY <1>0, <1>2, TodoStep
<1>4. ASSUME NEW l \in ToSet(Children[k]), Held(l)' PROVE FALSE
  <2>1. l \in Tasks /\ ~Held(l)
    BY <1>0, <1>2, <1>4, ListsOfTasks DEF ListsAreTasks
  <2>2. PICK t \in Threads : l \in ToSet(todo[t]) /\ (t \in Workers => task[t] \in Tasks)
    <3>1. HeldEffect
      BY HeldStep
    <3>2. ~Unmoved /\ \A j \in Tasks : ~CountsDown(j) /\ (CountsUp(j) => j = l)
      BY <1>4, <2>1 DEF Unmoved, CountsUp, CountsDown
    <3> QED BY <3>1, <3>2 DEF HeldEffect
  <2>3. CASE t \in Clients
    BY <1>0, <1>4, <2>2, <2>3, SubmissionsAreDistinct DEF IdleInv, Origin
  <2>4. CASE t \in Workers
    <3>1. l \in ToSet(Children[task[t]]) /\ task[t] \in Tasks
      BY <2>2, <2>4 DEF IdleInv, Origin
    <3>2. task[t] = k
      BY <1>0, <1>4, <3>1, SubmissionsAreDistinct
    <3>3. Held(k)
      BY <2>4, <3>2 DEF Held
    <3> QED BY <1>0, <1>2, <3>3, HeldIsAt
  <2> QED BY <2>2, <2>3, <2>4 DEF Threads
<1> QED BY <1>3, <1>4

\* When waitUntilIdle() returns, what its caller submitted has ended or was
\* refused, and no child of it is in the pool, then or later.
THEOREM IdleTellsTheTruth == Spec => []IdleMeansDone
<1>1. Init => IdleInv
  <2> SUFFICES ASSUME Init PROVE IdleInv
    OBVIOUS
  <2>1. \A t \in Clients : todo[t] = Program[t] /\ cpc[t] = "submitting"
    BY DEF Init, Threads
  <2>2. \A w \in Workers : task[w] = NoTask
    BY DEF Init
  <2> QED BY <2>1, <2>2, PoolAssumption DEF IdleInv, Origin, Kept, IdleTruth
<1>2. PlaceInv /\ Counted /\ IdleInv /\ [Next]_vars => IdleInv'
  BY OriginStep, KeptStep, IdleStep DEF IdleInv
<1>3. PlaceInv /\ IdleInv => IdleMeansDone
  <2> SUFFICES ASSUME PlaceInv, IdleTruth, NEW c \in Clients, cpc[c] = "idle",
                      NEW k \in ToSet(Program[c])
               PROVE  /\ k \in refused \cup done
                      /\ \A child \in ToSet(Children[k]) : Copies(child) = 0
    BY DEF IdleMeansDone, IdleInv
  <2>1. \A l \in ToSet(Children[k]) : l \in Tasks
    BY ListsOfTasks DEF ListsAreTasks
  <2>2. \A l \in Tasks : ~Held(l) => Copies(l) = 0
    BY CopiesOfTask
  <2> QED BY <2>1, <2>2 DEF IdleTruth
<1> QED BY <1>1, <1>2, <1>3, PlaceInvHolds, CountedHolds, PTL DEF Spec

-----------------------------------------------------------------------------
(* The status of a task *)

Runs(k) == \E w \in Workers : task[w] = k

StatusIsPlace ==
    \A k \in Tasks :
        Status(k) = IF k \in done THEN "done"
                    ELSE IF k \in refused THEN "refused"
                    ELSE IF Runs(k) THEN "running"
                    ELSE IF Held(k) THEN "accepted" ELSE "new"

\* A task that was refused never ran.
PoolInv == PlaceInv /\ refused \cap done = {}

LEMMA StatusOfTask == PoolInv => StatusIsPlace
<1> SUFFICES ASSUME PoolInv, NEW k \in Tasks
             PROVE  Status(k) = IF k \in done THEN "done"
                                ELSE IF k \in refused THEN "refused"
                                ELSE IF Runs(k) THEN "running"
                                ELSE IF Held(k) THEN "accepted" ELSE "new"
  BY DEF StatusIsPlace
<1>1. Copies(k) > 0 <=> Held(k)
  <2>1. Copies(k) = IF Held(k) THEN 1 ELSE 0
    BY CopiesOfTask DEF PoolInv
  <2> QED BY <2>1
<1>2. Runners(k) # {} <=> Runs(k)
  BY DEF Runners, Runs
<1>3. ASSUME k \in refused \cup done PROVE ~Runs(k)
  <2>1. ~Held(k)
    BY <1>3, HeldIsAt DEF PoolInv
  <2> QED BY <2>1 DEF Held, Runs
<1>4. CASE k \in refused \cup done
  BY <1>2, <1>3, <1>4 DEF Status, PoolInv
<1>5. CASE k \notin done /\ k \notin refused /\ Runs(k)
  BY <1>2, <1>5 DEF Status
<1>6. CASE k \notin done /\ k \notin refused /\ ~Runs(k)
  BY <1>1, <1>2, <1>6 DEF Status
<1> QED BY <1>4, <1>5, <1>6

LEMMA StatusOfTaskNext == PoolInv' => StatusIsPlace'
BY StatusOfTask, PTL

Same == \A l \in Tasks : Status(l)' = Status(l)

Goes(k, from, to) == /\ Status(k) = from /\ Status(k)' = to
                     /\ \A l \in Tasks : l # k => Status(l)' = Status(l)

LEMMA SameStatus ==
    ASSUME PoolInv, PoolInv', UNCHANGED <<task, refused, done>>, Unmoved
    PROVE  Same
<1>1. StatusIsPlace /\ StatusIsPlace'
  BY StatusOfTask, StatusOfTaskNext
<1> QED BY <1>1 DEF StatusIsPlace, Unmoved, Runs, Same

\* A step that does not change the counter counts nothing up or down.
LEMMA CounterTells ==
    ASSUME PlaceInv, [Next]_vars
    PROVE  /\ outstanding' = outstanding => Unmoved
           /\ outstanding' = outstanding + 1 => \E k \in Tasks, t \in Threads :
                                                    CountsUp(k) /\ k \in ToSet(todo[t])
           /\ outstanding' = outstanding - 1 => \E k \in Tasks : CountsDown(k)
<1>1. HeldEffect
  BY HeldStep
<1>2. outstanding \in Int
  BY DEF PlaceInv, Types
<1>3. \A k : /\ CountsUp(k) => outstanding' = outstanding + 1
             /\ CountsDown(k) => outstanding' = outstanding - 1
  BY DEF CountsUp, CountsDown
<1>4. Unmoved => outstanding' = outstanding
  BY DEF Unmoved
<1> QED BY <1>1, <1>2, <1>3, <1>4 DEF HeldEffect

LEMMA TakeStarts ==
    ASSUME PoolInv, PoolInv', [Next]_vars, NEW w \in Workers, NEW k, Takes(w, k)
    PROVE  k \in Tasks /\ Goes(k, "accepted", "running")
<1> USE DEF PoolInv
<1>0. NoTask \notin Tasks
  BY PoolAssumption
<1>1. StatusIsPlace /\ StatusIsPlace'
  BY StatusOfTask, StatusOfTaskNext
<1>2. /\ k \in Tasks
      /\ k \in ToSet(globalQueue) \/ \E v \in Workers : k \in ToSet(local[v])
  BY TakeEffect
<1>3. /\ pc[w] \in OffTask /\ task' = [task EXCEPT ![w] = k]
      /\ UNCHANGED <<outstanding, refused, done>>
  BY DEF Takes, RunNow, atomics, record
<1>4. task[w] = NoTask /\ task'[w] = k /\ \A v \in Workers \ {w} : task'[v] = task[v]
  BY <1>3 DEF PlaceInv, Types, OffTask
<1>5. Unmoved
  BY <1>3, CounterTells
<1>6. Held(k) /\ ~Runs(k) /\ k \notin refused \cup done
  <2>1. Held(k)
    BY <1>2 DEF Held
  <2>2. ~Runs(k)
    <3>1. \A v \in Workers : task[v] = k => At(k, "run", v)
      BY DEF At
    <3>2. k \in ToSet(globalQueue) => At(k, "global", "pool")
      BY DEF At
    <3>3. \A v \in Workers : k \in ToSet(local[v]) => At(k, "local", v)
      BY DEF At
    <3> QED BY <1>2, <3>1, <3>2, <3>3 DEF PlaceInv, OnePlace, Runs
  <2> QED BY <1>2, <2>1, <2>2, HeldIsAt
<1>7. Runs(k)' /\ \A l \in Tasks : l # k => (Runs(l)' <=> Runs(l))
  BY <1>0, <1>4 DEF Runs
<1>8. Status(k) = "accepted" /\ Status(k)' = "running"
  BY <1>1, <1>2, <1>3, <1>6, <1>7 DEF StatusIsPlace
<1>9. \A l \in Tasks : l # k => Status(l)' = Status(l)
  BY <1>1, <1>3, <1>5, <1>7 DEF StatusIsPlace, Unmoved
<1> QED BY <1>2, <1>8, <1>9 DEF Goes

LEMMA EndFinishes ==
    ASSUME PoolInv, PoolInv', [Next]_vars, NEW w \in Workers, EndTask(w)
    PROVE  \E k \in Tasks : Goes(k, "running", "done")
<1> USE DEF PoolInv
<1>0. PICK k : k = task[w]
  OBVIOUS
<1>1. StatusIsPlace /\ StatusIsPlace' /\ NoTask \notin Tasks
  BY StatusOfTask, StatusOfTaskNext, PoolAssumption
<1>2. /\ pc[w] = "run" /\ outstanding' = outstanding - 1 /\ refused' = refused
      /\ done' = done \cup {k} /\ task' = [task EXCEPT ![w] = NoTask]
  BY <1>0 DEF EndTask
<1>3. k \in Tasks /\ Runs(k) /\ Held(k)
  BY <1>0, <1>2 DEF PlaceInv, Types, Held, Runs
<1>4. k \notin refused \cup done
  BY <1>3, HeldIsAt
<1>5. PICK j \in Tasks : CountsDown(j)
  BY <1>2, CounterTells
<1>6. j = k
  <2>1. j \notin done
    BY <1>5, HeldIsAt DEF CountsDown
  <2> QED BY <1>2, <1>5, <2>1 DEF CountsDown
<1>7. \A l \in Tasks : l # k => (Runs(l)' <=> Runs(l))
  <2>1. task'[w] = NoTask /\ \A v \in Workers \ {w} : task'[v] = task[v]
    BY <1>2 DEF PlaceInv, Types
  <2> QED BY <1>0, <1>1, <2>1 DEF Runs
<1>8. Status(k) = "running" /\ Status(k)' = "done"
  BY <1>1, <1>2, <1>3, <1>4 DEF StatusIsPlace
<1>9. \A l \in Tasks : l # k => Status(l)' = Status(l)
  BY <1>1, <1>2, <1>5, <1>6, <1>7 DEF StatusIsPlace, CountsDown
<1> QED BY <1>3, <1>8, <1>9 DEF Goes

LEMMA CountAccepts ==
    ASSUME PoolInv, PoolInv', [Next]_vars, NEW t \in Threads, SubmitCount(t)
    PROVE  \E k \in Tasks : Goes(k, "new", "accepted")
<1> USE DEF PoolInv
<1>1. StatusIsPlace /\ StatusIsPlace'
  BY StatusOfTask, StatusOfTaskNext
<1>2. outstanding' = outstanding + 1 /\ UNCHANGED <<task, refused, done>>
  BY DEF SubmitCount, workers, record
<1>3. PICK k \in Tasks, u \in Threads : CountsUp(k) /\ k \in ToSet(todo[u])
  BY <1>2, CounterTells
<1>4. At(k, "todo", u)
  BY <1>3 DEF At
<1>5. ~Runs(k) /\ k \notin refused \cup done
  <2>1. \A v \in Workers : task[v] = k => At(k, "run", v)
    BY DEF At
  <2>2. k \in refused \cup done => At(k, "ended", "pool")
    BY DEF At
  <2> QED BY <1>3, <1>4, <2>1, <2>2 DEF PlaceInv, OnePlace, Runs
<1>6. \A l \in Tasks : Runs(l)' <=> Runs(l)
  BY <1>2 DEF Runs
<1>7. Status(k) = "new" /\ Status(k)' = "accepted"
  BY <1>1, <1>2, <1>3, <1>5, <1>6 DEF StatusIsPlace, CountsUp
<1>8. \A l \in Tasks : l # k => Status(l)' = Status(l)
  BY <1>1, <1>2, <1>3, <1>6 DEF StatusIsPlace, CountsUp
<1> QED BY <1>3, <1>7, <1>8 DEF Goes

LEMMA CheckRefuses ==
    ASSUME PoolInv, PoolInv', [Next]_vars, NEW t \in Threads, SubmitCheck(t), stopping
    PROVE  \E k \in Tasks : Goes(k, "new", "refused")
<1> USE DEF PoolInv
<1>0. PICK k : k = Head(todo[t])
  OBVIOUS
<1>1. StatusIsPlace /\ StatusIsPlace'
  BY StatusOfTask, StatusOfTaskNext
<1>2. /\ submit[t] = "idle" /\ todo[t] # <<>> /\ todo' = [todo EXCEPT ![t] = Tail(@)]
      /\ refused' = refused \cup {k} /\ k = Head(todo[t])
      /\ UNCHANGED <<outstanding, task, done>>
  BY <1>0 DEF SubmitCheck, Submitting, atomics, workers
<1>3. /\ k \in Tasks /\ At(k, "todo", t)
      /\ \A a, u : At(k, a, u) => a = "todo" /\ u = t
  BY <1>0, <1>2, FrontLeaves
<1>4. ~Held(k)
  BY <1>2, <1>3, HeldIsAt DEF Held
<1>5. ~Runs(k) /\ k \notin refused \cup done
  <2>1. \A v \in Workers : task[v] = k => At(k, "run", v)
    BY DEF At
  <2>2. k \in refused \cup done => At(k, "ended", "pool")
    BY DEF At
  <2> QED BY <1>3, <2>1, <2>2 DEF Runs
<1>6. Unmoved /\ \A l \in Tasks : Runs(l)' <=> Runs(l)
  BY <1>2, CounterTells DEF Runs
<1>7. Status(k) = "new" /\ Status(k)' = "refused"
  BY <1>1, <1>2, <1>3, <1>4, <1>5 DEF StatusIsPlace
<1>8. \A l \in Tasks : l # k => Status(l)' = Status(l)
  BY <1>1, <1>2, <1>6 DEF StatusIsPlace, Unmoved
<1> QED BY <1>3, <1>7, <1>8 DEF Goes

LEMMA PoolInvStep == PoolInv /\ [Next]_vars => PoolInv'
<1> SUFFICES ASSUME PoolInv, [Next]_vars PROVE refused' \cap done' = {}
  BY PlaceInvStep DEF PoolInv
<1>1. ASSUME NEW w \in Workers, EndTask(w) PROVE refused' \cap done' = {}
  <2>1. PICK k : k = task[w]
    OBVIOUS
  <2>2. pc[w] = "run" /\ done' = done \cup {k} /\ refused' = refused
    BY <1>1, <2>1 DEF EndTask
  <2>3. k \in Tasks /\ Held(k)
    BY <2>1, <2>2 DEF PoolInv, PlaceInv, Types, Held
  <2>4. k \notin refused
    BY <2>3, HeldIsAt DEF PoolInv
  <2> QED BY <2>2, <2>4 DEF PoolInv
<1>2. ASSUME NEW t \in Threads, SubmitCheck(t), stopping PROVE refused' \cap done' = {}
  <2>1. PICK k : k = Head(todo[t])
    OBVIOUS
  <2>2. /\ todo[t] # <<>> /\ todo' = [todo EXCEPT ![t] = Tail(@)]
        /\ refused' = refused \cup {k} /\ done' = done /\ k = Head(todo[t])
    BY <1>2, <2>1 DEF SubmitCheck, Submitting
  <2>3. \A a, u : At(k, a, u) => a = "todo"
    BY <2>2, FrontLeaves DEF PoolInv
  <2>4. k \notin done
    BY <2>3 DEF At
  <2> QED BY <2>2, <2>4 DEF PoolInv
<1>3. ASSUME UNCHANGED record PROVE refused' \cap done' = {}
  BY <1>3 DEF record, PoolInv
<1>4. ASSUME NEW t \in Threads, Submit(t) PROVE UNCHANGED record \/ (SubmitCheck(t) /\ stopping)
  BY <1>4 DEF Submit, SubmitCheck, SubmitCount, SubmitInsert, SubmitNotify, record
<1>5. ASSUME NEW w \in Workers, Moves(w) \/ \E k : Takes(w, k) PROVE UNCHANGED record
  BY <1>5 DEF Moves, Goto, Takes, RunNow
<1>6. ASSUME NEW c \in Clients, ClientMoves(c) PROVE UNCHANGED record
  BY <1>6 DEF ClientMoves
<1>7. CASE UNCHANGED vars
  BY <1>3, <1>7 DEF vars
<1>8. Types
  BY DEF PoolInv, PlaceInv
<1> QED BY <1>1, <1>2, <1>3, <1>4, <1>5, <1>6, <1>7, <1>8, WorkerSteps, ClientSteps
        DEF Next, Work

-----------------------------------------------------------------------------
(* The end of the pool *)

\* No worker ends or comes back, but by the test at the end of the loop.
NobodyExits == \A w \in Workers : pc'[w] = "exited" <=> pc[w] = "exited"

LastTest == stopping /\ outstanding = 0 /\ \E w \in Workers : ExitTest(w)

LEMMA ExitStep == Types /\ [Next]_vars => NobodyExits \/ LastTest
<1> SUFFICES ASSUME Types, [Next]_vars PROVE NobodyExits \/ LastTest
  OBVIOUS
<1>0. pc \in [Workers -> OffTask \cup {"run"}]
  BY DEF Types
<1>1. ASSUME NEW w \in Workers, NEW l, pc[w] # "exited", l # "exited",
             pc' = [pc EXCEPT ![w] = l]
      PROVE  NobodyExits
  BY <1>0, <1>1 DEF NobodyExits
<1>2. ASSUME UNCHANGED pc PROVE NobodyExits
  BY <1>2 DEF NobodyExits
<1>3. ASSUME NEW w \in Workers, PopLocal(w) \/ PopGlobal(w) \/ StealTask(w) PROVE NobodyExits
  <2>1. CASE PopLocal(w)
    BY <1>1, <2>1 DEF PopLocal, RunNow, Goto
  <2>2. CASE PopGlobal(w)
    BY <1>1, <2>2 DEF PopGlobal, RunNow, Goto
  <2>3. CASE StealTask(w)
    BY <1>1, <2>3 DEF StealTask, RunNow, Goto
  <2> QED BY <1>3, <2>1, <2>2, <2>3
<1>4. ASSUME NEW w \in Workers, EndTask(w) PROVE NobodyExits
  BY <1>1, <1>4 DEF EndTask
<1>5. ASSUME NEW w \in Workers, ExitTest(w) PROVE NobodyExits \/ LastTest
  <2>1. CASE stopping /\ outstanding = 0
    BY <1>5, <2>1 DEF LastTest
  <2>2. CASE ~(stopping /\ outstanding = 0)
    BY <1>1, <1>5, <2>2 DEF ExitTest, Goto
  <2> QED BY <2>1, <2>2
<1>6. ASSUME NEW w \in Workers, WaitPredicate(w) PROVE NobodyExits
  <2>1. CASE stopping \/ outstanding > 0
    BY <1>1, <1>6, <2>1 DEF WaitPredicate, Goto
  <2>2. CASE ~(stopping \/ outstanding > 0)
    BY <1>1, <1>6, <2>2 DEF WaitPredicate, Goto
  <2> QED BY <2>1, <2>2
<1>7. ASSUME NEW w \in Workers, Park(w) \/ WaitTimeout(w) \/ SpuriousWakeup(w)
      PROVE  NobodyExits
  BY <1>1, <1>7 DEF Park, WaitTimeout, SpuriousWakeup, Goto
<1>8. ASSUME NEW t \in Threads, Submit(t) PROVE NobodyExits
  <2>1. CASE SubmitCheck(t) \/ SubmitCount(t) \/ SubmitInsert(t)
    BY <1>2, <2>1 DEF SubmitCheck, SubmitCount, SubmitInsert, workers
  <2>2. CASE SubmitNotify(t)
    BY <1>1, <1>2, <2>2 DEF SubmitNotify, Asleep
  <2> QED BY <1>8, <2>1, <2>2 DEF Submit
<1>9. ASSUME NEW c \in Clients, WaitUntilIdle(c) \/ Close(c) PROVE NobodyExits
  <2>1. CASE ShutdownNotify(c)
    BY <2>1 DEF ShutdownNotify, Asleep, NobodyExits
  <2>2. CASE WaitUntilIdle(c) \/ Shutdown(c) \/ Join(c)
    BY <1>2, <2>2 DEF WaitUntilIdle, Shutdown, Join, workers
  <2> QED BY <1>9, <2>1, <2>2 DEF Close
<1>10. CASE UNCHANGED vars
  BY <1>2, <1>10 DEF vars, workers
<1> QED BY <1>3, <1>4, <1>5, <1>6, <1>7, <1>8, <1>9, <1>10 DEF Next, Work

\* A worker ends only when the pool is stopping, and then, if the clients let
\* each other finish, no client is inside submit() or will be.
ShutInv == /\ \A w \in Workers : pc[w] = "exited" => stopping
           /\ stopping => \A c \in Clients : Quiet(c)

LEMMA ShutStep == ~LateSubmits /\ PoolInv /\ ShutInv /\ [Next]_vars => ShutInv'
<1> SUFFICES ASSUME ~LateSubmits, PoolInv, ShutInv, [Next]_vars PROVE ShutInv'
  OBVIOUS
<1>0. Types /\ Workers \cap Clients = {}
  BY PoolAssumption DEF PoolInv, PlaceInv
<1>1. stopping' = stopping \/ \E d \in Clients : Shutdown(d)
  <2>1. \A c \in Clients : WaitUntilIdle(c) \/ ShutdownNotify(c) \/ Join(c)
                          => stopping' = stopping
    BY DEF WaitUntilIdle, ShutdownNotify, Join, atomics
  <2>2. \A t \in Threads : Submit(t) => stopping' = stopping
    BY DEF Submit, SubmitCheck, SubmitCount, SubmitInsert, SubmitNotify, atomics
  <2>3. \A w \in Workers : EndTask(w) \/ Moves(w) \/ (\E k : Takes(w, k)) => stopping' = stopping
    BY DEF EndTask, Moves, Goto, Takes, RunNow, atomics
  <2>4. UNCHANGED vars => stopping' = stopping
    BY DEF vars, atomics
  <2> QED BY <2>1, <2>2, <2>3, <2>4, WorkerSteps DEF Next, Work, Close
<1>2. ASSUME NEW w \in Workers, pc'[w] = "exited" PROVE stopping'
  <2>1. stopping => stopping'
    BY <1>1 DEF Shutdown
  <2> QED BY <1>0, <1>2, <2>1, ExitStep DEF NobodyExits, LastTest, ShutInv
<1>3. ASSUME stopping', NEW c \in Clients PROVE Quiet(c)'
  <2>1. CASE \E d \in Clients : Shutdown(d)
    BY <2>1 DEF Shutdown, Quiet
  <2>2. CASE stopping' = stopping
    <3>1. c \in Threads /\ \A t \in Threads : t # c => t \in Threads \ {c}
      BY DEF Threads
    <3>2. Quiet(c)
      BY <1>3, <2>2 DEF ShutInv
    <3>3. ASSUME NEW t \in Threads, Submit(t) PROVE Quiet(c)'
      <4>1. t # c
        BY <1>0, <3>2, <3>3 DEF Quiet, Submit, SubmitCheck, SubmitCount, SubmitInsert,
                                SubmitNotify, Submitting
      <4>2. todo'[c] = todo[c] /\ submit'[c] = submit[c]
        <5>1. \/ UNCHANGED <<todo, submit>>
              \/ /\ \E l : submit' = [submit EXCEPT ![t] = l]
                 /\ todo' = todo \/ todo' = [todo EXCEPT ![t] = Tail(@)]
              \/ submit' = submit /\ todo' = [todo EXCEPT ![t] = Tail(@)]
          BY <3>3 DEF Submit, SubmitCheck, SubmitCount, SubmitInsert, SubmitNotify
        <5> QED BY <1>0, <3>1, <4>1, <5>1 DEF Types
      <4> QED BY <3>2, <4>2 DEF Quiet
    <3>4. ASSUME NEW w \in Workers, EndTask(w) \/ Moves(w) \/ \E k : Takes(w, k)
          PROVE  Quiet(c)'
      <4>1. todo'[c] = todo[c] /\ submit' = submit
        <5>1. /\ submit' = submit
              /\ todo' = todo \/ \E l : todo' = [todo EXCEPT ![w] = l]
          BY <3>4 DEF EndTask, Moves, Goto, Takes, RunNow
        <5>2. w # c
          BY <1>0
        <5> QED BY <1>0, <3>1, <5>1, <5>2 DEF Types
      <4> QED BY <3>2, <4>1 DEF Quiet
    <3>5. ASSUME NEW d \in Clients, ClientMoves(d) PROVE Quiet(c)'
      BY <3>2, <3>5 DEF ClientMoves, Quiet
    <3>6. CASE UNCHANGED vars
      BY <3>2, <3>6 DEF vars, Quiet
    <3> QED BY <1>0, <3>3, <3>4, <3>5, <3>6, WorkerSteps, ClientSteps DEF Next, Work
  <2> QED BY <1>1, <2>1, <2>2
<1> QED BY <1>2, <1>3 DEF ShutInv

-----------------------------------------------------------------------------
(* The refinement *)

LEMMA ExitedWhenStopping == ShutInv /\ Exited => stopping
BY PoolAssumption DEF ShutInv, Exited

\* Who counts a task keeps the pool from being joined.
LEMMA CounterIsInside ==
    ASSUME PoolInv, ShutInv, NEW t \in Threads, SubmitCount(t)
    PROVE  ~Exited
<1>1. submit[t] = "checked"
  BY DEF SubmitCount
<1>2. CASE t \in Workers
  BY <1>1, <1>2 DEF PoolInv, PlaceInv, Types, Exited
<1>3. CASE t \in Clients
  BY <1>1, <1>3, ExitedWhenStopping DEF ShutInv, Quiet
<1> QED BY <1>2, <1>3 DEF Threads

LEMMA TaskGoes ==
    ASSUME NEW k \in Tasks, NEW s, NEW r, Goes(k, r, s), UNCHANGED stopping, Exited' = Exited
    PROVE  Status(k) = r /\ Pool!Becomes(k, s)
<1>1. [l \in Tasks |-> Status(l)]' = [[l \in Tasks |-> Status(l)] EXCEPT ![k] = s]
  BY DEF Goes
<1> QED BY <1>1 DEF Goes, Pool!Becomes

LEMMA NothingGoes ==
    ASSUME Same, UNCHANGED stopping, Exited' = Exited
    PROVE  UNCHANGED Pool!vars
BY DEF Same, Pool!vars

LEMMA PoolStep == ~LateSubmits /\ PoolInv /\ Counted /\ ShutInv /\ [Next]_vars
                      => [Pool!Next]_(Pool!vars)
<1> SUFFICES ASSUME ~LateSubmits, PoolInv, Counted, ShutInv, [Next]_vars
             PROVE  Pool!Next \/ UNCHANGED Pool!vars
  OBVIOUS
<1>0. PoolInv' /\ Types /\ PlaceInv
  BY PoolInvStep DEF PoolInv, PlaceInv
<1>1. NobodyExits => Exited' = Exited
  BY DEF NobodyExits, Exited
<1>2. ASSUME NEW w \in Workers, ExitTest(w) PROVE Pool!Next \/ UNCHANGED Pool!vars
  <2>1. UNCHANGED <<outstanding, task, refused, done, stopping>>
    BY <1>2 DEF ExitTest, Goto, atomics, record
  <2>2. Same
    BY <1>0, <2>1, CounterTells, SameStatus
  <2>3. CASE NobodyExits
    BY <1>1, <2>1, <2>2, <2>3, NothingGoes
  <2>4. CASE LastTest /\ ~NobodyExits
    <3>1. Pending = {}
      BY <2>4, FS_EmptySet DEF LastTest, Counted
    <3>2. StatusIsPlace
      BY StatusOfTask
    <3>3. \A k \in Tasks : Status(k) \notin {"accepted", "running"}
      BY <3>1, <3>2 DEF StatusIsPlace, Pending, Held, Runs
    <3>4. ~Exited
      BY <1>2 DEF ExitTest, Exited
    <3>5. CASE Exited'
      BY <2>1, <2>2, <2>4, <3>3, <3>4, <3>5 DEF Same, LastTest, Pool!Join, Pool!Next
    <3>6. CASE ~Exited'
      <4>1. Exited' = Exited
        BY <3>4, <3>6 DEF Exited
      <4> QED BY <2>1, <2>2, <4>1, NothingGoes
    <3> QED BY <3>5, <3>6
  <2> QED BY <1>0, <2>3, <2>4, ExitStep
<1>3. ASSUME ~\E w \in Workers : ExitTest(w) PROVE Exited' = Exited
  BY <1>0, <1>1, <1>3, ExitStep DEF LastTest
<1>4. ASSUME NEW w \in Workers, NEW k, Takes(w, k), ~\E v \in Workers : ExitTest(v)
      PROVE  Pool!Next
  <2>1. stopping' = stopping
    BY <1>4 DEF Takes, RunNow, atomics
  <2>2. k \in Tasks /\ Goes(k, "accepted", "running")
    BY <1>0, <1>4, TakeStarts
  <2> QED BY <1>3, <1>4, <2>1, <2>2, TaskGoes DEF Pool!Start, Pool!Next
<1>5. ASSUME NEW w \in Workers, EndTask(w), ~\E v \in Workers : ExitTest(v)
      PROVE  Pool!Next
  <2>1. stopping' = stopping
    BY <1>5 DEF EndTask
  <2>2. PICK k \in Tasks : Goes(k, "running", "done")
    BY <1>0, <1>5, EndFinishes
  <2> QED BY <1>3, <1>5, <2>1, <2>2, TaskGoes DEF Pool!Finish, Pool!Next
<1>6. ASSUME NEW t \in Threads, SubmitCount(t), ~\E v \in Workers : ExitTest(v)
      PROVE  Pool!Next
  <2>1. stopping' = stopping
    BY <1>6 DEF SubmitCount
  <2>2. PICK k \in Tasks : Goes(k, "new", "accepted")
    BY <1>0, <1>6, CountAccepts
  <2>3. ~Exited
    BY <1>6, CounterIsInside
  <2> QED BY <1>3, <1>6, <2>1, <2>2, <2>3, TaskGoes DEF Pool!Accept, Pool!Next
<1>7. ASSUME NEW t \in Threads, SubmitCheck(t), stopping, ~\E v \in Workers : ExitTest(v)
      PROVE  Pool!Next
  <2>1. stopping' = stopping
    BY <1>7 DEF SubmitCheck, atomics
  <2>2. PICK k \in Tasks : Goes(k, "new", "refused")
    BY <1>0, <1>7, CheckRefuses
  <2> QED BY <1>3, <1>7, <2>1, <2>2, TaskGoes DEF Pool!Refuse, Pool!Next
<1>8. ASSUME UNCHANGED <<outstanding, task, refused, done, stopping>>,
             ~\E v \in Workers : ExitTest(v)
      PROVE  UNCHANGED Pool!vars
  <2>1. Same
    BY <1>0, <1>8, CounterTells, SameStatus
  <2> QED BY <1>3, <1>8, <2>1, NothingGoes
<1>9. ASSUME NEW t \in Threads, \/ SubmitCheck(t) /\ ~stopping
                                \/ SubmitInsert(t) \/ SubmitNotify(t)
      PROVE  UNCHANGED <<outstanding, task, refused, done, stopping>>
  BY <1>9 DEF SubmitCheck, SubmitInsert, SubmitNotify, atomics, workers, record
<1>10. ASSUME NEW w \in Workers, Moves(w)
       PROVE  UNCHANGED <<outstanding, task, refused, done, stopping>>
  BY <1>10 DEF Moves, Goto, atomics, record
<1>11. ASSUME NEW c \in Clients, WaitUntilIdle(c) \/ ShutdownNotify(c) \/ Join(c)
       PROVE  UNCHANGED <<outstanding, task, refused, done, stopping>>
  BY <1>11 DEF WaitUntilIdle, ShutdownNotify, Join, atomics, workers, record
<1>12. ASSUME NEW c \in Clients, Shutdown(c), ~\E v \in Workers : ExitTest(v) PROVE Pool!Next
  <2>1. stopping' /\ UNCHANGED <<outstanding, task, refused, done>>
    BY <1>12 DEF Shutdown, workers, record
  <2>2. stopping' = TRUE
    BY <1>12 DEF Shutdown
  <2>3. Same
    BY <1>0, <2>1, CounterTells, SameStatus
  <2> QED BY <1>3, <1>12, <2>2, <2>3 DEF Same, Pool!Close, Pool!Next
<1>13. CASE UNCHANGED vars
  <2>1. UNCHANGED <<outstanding, task, refused, done, stopping, pc>>
    BY <1>13 DEF vars, atomics, workers, record
  <2>2. Same
    BY <1>0, <2>1, CounterTells, SameStatus
  <2> QED BY <2>1, <2>2, NothingGoes DEF Exited
<1> QED BY <1>2, <1>4, <1>5, <1>6, <1>7, <1>8, <1>9, <1>10, <1>11, <1>12, <1>13, WorkerSteps
        DEF Next, Submit, Work, Close

\* "drain ..., wake all workers, join workers": the pool accepts or refuses
\* each task, runs what it has accepted once, and is joined when all of that
\* has ended, for any number of workers, clients and tasks.
THEOREM PoolIsTaskPool == ASSUME ~LateSubmits PROVE Spec => Pool!Safety
<1>1. Init => PoolInv /\ ShutInv
  BY InitPlaces DEF Init, PoolInv, ShutInv
<1>2. Init => Pool!Init
  <2> SUFFICES ASSUME Init PROVE Pool!Init
    OBVIOUS
  <2>1. PoolInv
    BY <1>1
  <2>2. \A k \in Tasks : ~Held(k) /\ ~Runs(k)
    BY PoolAssumption DEF Init, Held, Runs, ToSet
  <2>3. \A k \in Tasks : Status(k) = "new"
    BY <2>1, <2>2, StatusOfTask DEF Init, StatusIsPlace
  <2>4. ~Exited
    BY PoolAssumption DEF Init, Exited
  <2> QED BY <2>3, <2>4 DEF Init, Pool!Init
<1>3. PoolInv /\ ShutInv /\ [Next]_vars => PoolInv' /\ ShutInv'
  BY PoolInvStep, ShutStep
<1>4. PoolInv /\ Counted /\ ShutInv /\ [Next]_vars => [Pool!Next]_(Pool!vars)
  BY PoolStep
<1> QED BY <1>1, <1>2, <1>3, <1>4, CountedHolds, PTL DEF Spec, Pool!Safety

=============================================================================
