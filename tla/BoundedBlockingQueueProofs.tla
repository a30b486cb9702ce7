---------------------- MODULE BoundedBlockingQueueProofs ----------------------
(***************************************************************************)
(* Proofs about the bounded blocking queue, for every set of threads, every *)
(* assignment of methods to them and every capacity; and, from "The demos" *)
(* on, about the demo functions on a queue of any capacity: nothing is     *)
(* lost or handed out twice, items come in order, the printed numbers are  *)
(* right, and no demo hangs.                                               *)
(***************************************************************************)
EXTENDS QueueDemos, FiniteSetTheorems, SequenceTheorems, TLAPS

-----------------------------------------------------------------------------
(* Type correctness *)

\* Each method keeps the types, whoever calls it.
LEMMA TypeStep == TypeOK /\ [Next]_vars => TypeOK'
<1> SUFFICES ASSUME TypeOK, [Next]_vars PROVE TypeOK'
  OBVIOUS
<1> USE DEF TypeOK, Locations, PushLocations
<1>1. ASSUME NEW t \in Threads, NEW v \in Values, InsertOrRefuse(t, v)
      PROVE  TypeOK'
  <2>1. Append(queue, v) \in Seq(Values)
    BY AppendProperties
  <2> QED BY <1>1, <2>1 DEF InsertOrRefuse, Decide
<1>2. ASSUME NEW t \in Threads, NEW v \in Values, NEW b \in {"pushBlocked", "pushForBlocked"},
             PushSection(t, v, b)
      PROVE  TypeOK'
  BY <1>1, <1>2 DEF PushSection, Block
<1>3. ASSUME NEW t \in Threads, Decide(t, "idle", NoValue, FALSE), UNCHANGED <<queue, closed>>
      PROVE  TypeOK'
  BY <1>3 DEF Decide
<1>4. ASSUME NEW t \in Threads, PopSection(t)
      PROVE  TypeOK'
  <2>1. queue # <<>> => Head(queue) \in Values /\ Tail(queue) \in Seq(Values)
    BY HeadTailProperties
  <2> QED BY <1>4, <2>1 DEF PopSection, Decide, Block
<1>5. ASSUME NEW t \in Threads, NEW W \in SUBSET (WaitingNotFull \cup WaitingNotEmpty),
             pc[t] \in {"notifyNotEmpty", "notifyNotFull"}, NotifyOne(t, W)
      PROVE  TypeOK'
  BY <1>5 DEF NotifyOne, Woken, WaitingNotFull, WaitingNotEmpty
<1>6. ASSUME NEW t \in Threads, NEW W \in SUBSET (WaitingNotFull \cup WaitingNotEmpty),
             NEW next \in {"closeNotFull", "idle"},
             pc[t] \in {"closeNotEmpty", "closeNotFull"}, NotifyAll(t, W, next)
      PROVE  TypeOK'
  BY <1>6 DEF NotifyAll, Woken, WaitingNotFull, WaitingNotEmpty
<1>7. ASSUME NEW t \in Threads, Call(t) PROVE TypeOK'
  BY <1>1, <1>2, <1>3, <1>4, <1>7 DEF Call, Push, TryPush, PushFor, Pop, Close
<1>8. ASSUME NEW t \in Threads, Continue(t) PROVE TypeOK'
  <2>1. CASE PushResume(t) \/ PushForResume(t) \/ PushForLastTry(t) \/ PopResume(t)
    BY <2>1, <1>1, <1>2, <1>3, <1>4 DEF PushResume, PushForResume, PushForLastTry, PopResume
  <2>2. CASE PushNotify(t) \/ PopNotify(t)
    BY <2>2, <1>5 DEF PushNotify, PopNotify
  <2>3. CASE CloseNotifyNotEmpty(t) \/ CloseNotifyNotFull(t)
    BY <2>3, <1>6 DEF CloseNotifyNotEmpty, CloseNotifyNotFull
  <2> QED BY <1>8, <2>1, <2>2, <2>3 DEF Continue
<1>9. ASSUME NEW t \in Threads, PushForExpire(t) \/ SpuriousWakeup(t) PROVE TypeOK'
  BY <1>9 DEF PushForExpire, SpuriousWakeup, Woken, WaitingNotFull, WaitingNotEmpty
<1>10. CASE UNCHANGED vars
  BY <1>10 DEF vars
<1> QED BY <1>7, <1>8, <1>9, <1>10 DEF Next

\* What every method of the queue keeps: the queue holds values, each thread
\* is at one of the locations, and a waiting push holds on to its item.
THEOREM TypeCorrect == Spec => []TypeOK
<1>1. Init => TypeOK
  BY EmptySeq DEF Init, TypeOK, Locations, PushLocations
<1> QED BY <1>1, TypeStep, PTL DEF Spec

-----------------------------------------------------------------------------
(* Capacity *)

\* A step of the queue never makes it longer than its capacity allows.
THEOREM CapacityHolds == Spec => []CapacityRespected
<1>1. Init => CapacityRespected
  BY CapacityAssumption, EmptySeq DEF Init, CapacityRespected
<1>2. TypeOK /\ CapacityRespected /\ [Next]_vars => CapacityRespected'
  <2> SUFFICES ASSUME TypeOK, CapacityRespected, [Next]_vars PROVE CapacityRespected'
    OBVIOUS
  <2>1. Len(queue) \in Nat /\ Capacity \in Nat
    BY LenProperties, CapacityAssumption DEF TypeOK
  <2>2. ASSUME NEW t \in Threads, NEW v \in Values, InsertOrRefuse(t, v)
        PROVE  Len(queue') <= Capacity
    <3>1. Len(Append(queue, v)) = Len(queue) + 1
      BY AppendProperties DEF TypeOK
    <3>2. queue' = queue \/ (queue' = Append(queue, v) /\ Len(queue) < Capacity)
      BY <2>2 DEF InsertOrRefuse, Room
    <3> QED BY <2>1, <3>1, <3>2 DEF CapacityRespected
  <2>3. ASSUME NEW t \in Threads, PopSection(t)
        PROVE  Len(queue') <= Capacity
    <3>1. queue # <<>> => Len(Tail(queue)) = Len(queue) - 1
      BY HeadTailProperties DEF TypeOK
    <3>2. queue' = queue \/ (queue # <<>> /\ queue' = Tail(queue))
      BY <2>3 DEF PopSection, Block
    <3> QED BY <2>1, <3>1, <3>2 DEF CapacityRespected
  <2>4. ASSUME NEW t \in Threads, Call(t) PROVE Len(queue') <= Capacity
    BY <2>2, <2>3, <2>4
       DEF Call, Push, TryPush, PushFor, Pop, Close, PushSection, Block, CapacityRespected
  <2>5. ASSUME NEW t \in Threads, Continue(t) PROVE Len(queue') <= Capacity
    BY <2>2, <2>3, <2>5
       DEF Continue, PushResume, PushForResume, PushForLastTry, PopResume, PushNotify,
           PopNotify, CloseNotifyNotEmpty, CloseNotifyNotFull, NotifyOne, NotifyAll,
           PushSection, Block, CapacityRespected, TypeOK, PushLocations
  <2>6. ASSUME NEW t \in Threads, PushForExpire(t) \/ SpuriousWakeup(t)
        PROVE  Len(queue') <= Capacity
    BY <2>6 DEF PushForExpire, SpuriousWakeup, CapacityRespected
  <2>7. CASE UNCHANGED vars
    BY <2>7 DEF vars, CapacityRespected
  <2> QED BY <2>4, <2>5, <2>6, <2>7 DEF Next, CapacityRespected
<1> QED BY <1>1, <1>2, TypeCorrect, PTL DEF Spec

-----------------------------------------------------------------------------
(* Lost wakeups *)

\* The number of threads at the locations L.
Count(f, L) == Cardinality({u \in Threads : f[u] \in L})

\* When one thread changes its location, the number of threads at the
\* locations L changes by what that thread leaves and enters.
LEMMA MoveOne ==
    ASSUME NEW L, NEW D, NEW f \in [Threads -> D], NEW t \in Threads, NEW l
    PROVE  /\ Count(f, L) \in Nat
           /\ Count([f EXCEPT ![t] = l], L) \in Nat
           /\ f[t] \notin L /\ l \in L => Count([f EXCEPT ![t] = l], L) = Count(f, L) + 1
           /\ f[t] \in L /\ l \notin L => Count([f EXCEPT ![t] = l], L) = Count(f, L) - 1
           /\ (f[t] \in L <=> l \in L) => Count([f EXCEPT ![t] = l], L) = Count(f, L)
<1> DEFINE before == {u \in Threads : f[u] \in L}
           after  == {u \in Threads : [f EXCEPT ![t] = l][u] \in L}
<1>1. IsFiniteSet(before) /\ IsFiniteSet(after)
  BY ThreadsAssumption, FS_Subset
<1>2. Cardinality(before) \in Nat /\ Cardinality(after) \in Nat
  BY <1>1, FS_CardinalityType
<1>3. ASSUME f[t] \notin L, l \in L PROVE Cardinality(after) = Cardinality(before) + 1
  <2>1. after = before \cup {t} /\ t \notin before
    BY <1>3
  <2> QED BY <2>1, <1>1, FS_AddElement
<1>4. ASSUME f[t] \in L, l \notin L PROVE Cardinality(after) = Cardinality(before) - 1
  <2>1. after = before \ {t} /\ t \in before
    BY <1>4
  <2> QED BY <2>1, <1>1, FS_RemoveElement
<1>5. ASSUME f[t] \in L <=> l \in L PROVE Cardinality(after) = Cardinality(before)
  <2>1. after = before
    BY <1>5
  <2> QED BY <2>1
<1> QED BY <1>2, <1>3, <1>4, <1>5 DEF Count

\* While a thread is at one of the locations W, there are at least d threads
\* at the locations S: signals for the demand d.
Covered(f, W, S, d) ==
    (\E u \in Threads : f[u] \in W) => d <= Count(f, S)

In(l, S) == IF l \in S THEN 1 ELSE 0

\* A thread that moves keeps the demand covered if it does not start to wait
\* and the demand changes by no more than the signals do.
LEMMA MoveKeepsCovered ==
    ASSUME NEW W, NEW S, NEW D, NEW f \in [Threads -> D], NEW t \in Threads, NEW l,
           NEW d \in Int, NEW e \in Int,
           Covered(f, W, S, d),
           e <= 0 \/ (l \notin W /\ e + In(f[t], S) <= d + In(l, S))
    PROVE  Covered([f EXCEPT ![t] = l], W, S, e)
<1> DEFINE g == [f EXCEPT ![t] = l]
           m == Count(f, S)
           n == Count(g, S)
<1>1. /\ m \in Nat /\ n \in Nat
      /\ f[t] \notin S /\ l \in S => n = m + 1
      /\ f[t] \in S /\ l \notin S => n = m - 1
      /\ (f[t] \in S <=> l \in S) => n = m
  BY MoveOne
<1>2. CASE e <= 0
  <2>1. e <= n
    BY <1>1, <1>2
  <2> QED BY <2>1 DEF Covered
<1>3. CASE l \notin W /\ e + In(f[t], S) <= d + In(l, S)
  <2> SUFFICES ASSUME NEW u \in Threads, g[u] \in W PROVE e <= n
    BY DEF Covered
  <2>1. f[u] \in W
    BY <1>3
  <2>2. d <= m
    BY <2>1 DEF Covered
  <2> HIDE DEF m, n
  <2> QED BY <1>1, <1>3, <2>2 DEF In
<1> QED BY <1>2, <1>3

NotFullWait == {"pushBlocked", "pushForBlocked"}
NotFullSignal == {"notifyNotFull", "pushAwake", "pushForAwake", "pushForExpired"}
NotEmptyWait == {"popBlocked"}
NotEmptySignal == {"notifyNotEmpty", "popAwake"}

SlotCover == Covered(pc, NotFullWait, NotFullSignal, Capacity - Len(queue))
ItemCover == Covered(pc, NotEmptyWait, NotEmptySignal, Len(queue))

\* The signal invariants of the queue are covers: of the free slots by those
\* who signal or will use them, of the items likewise.
LEMMA CoverMeaning == /\ SlotsSignalled <=> (~closed => SlotCover)
                      /\ ItemsSignalled <=> (~closed => ItemCover)
<1>1. WaitingNotFull # {} <=> \E u \in Threads : pc[u] \in NotFullWait
  BY DEF WaitingNotFull, NotFullWait
<1>2. WaitingNotEmpty # {} <=> \E u \in Threads : pc[u] \in NotEmptyWait
  BY DEF WaitingNotEmpty, NotEmptyWait
<1>3. SlotSignals = {u \in Threads : pc[u] \in NotFullSignal}
  BY DEF SlotSignals, NotFullSignal
<1>4. ItemSignals = {u \in Threads : pc[u] \in NotEmptySignal}
  BY DEF ItemSignals, NotEmptySignal
<1>5. SlotsSignalled <=> (~closed => SlotCover)
  BY <1>1, <1>3 DEF SlotsSignalled, SlotCover, Covered, Count
<1>6. ItemsSignalled <=> (~closed => ItemCover)
  BY <1>2, <1>4 DEF ItemsSignalled, ItemCover, Covered, Count
<1> QED BY <1>5, <1>6

\* What one thread's move does to the two covers of the queue.
LEMMA QueueMove ==
    ASSUME TypeOK, SlotCover, ItemCover, Len(queue') \in Nat,
           NEW t \in Threads, NEW l, pc' = [pc EXCEPT ![t] = l]
    PROVE  /\ \/ Capacity <= Len(queue')
              \/ /\ l \notin NotFullWait
                 /\ Len(queue) + In(pc[t], NotFullSignal) <= Len(queue') + In(l, NotFullSignal)
              => SlotCover'
           /\ \/ Len(queue') = 0
              \/ /\ l \notin NotEmptyWait
                 /\ Len(queue') + In(pc[t], NotEmptySignal) <= Len(queue) + In(l, NotEmptySignal)
              => ItemCover'
<1>1. Len(queue) \in Nat /\ Capacity \in Nat
  BY LenProperties, CapacityAssumption DEF TypeOK
<1>2. pc \in [Threads -> Locations]
  BY DEF TypeOK
<1>3. In(pc[t], NotFullSignal) \in {0, 1} /\ In(l, NotFullSignal) \in {0, 1}
  BY DEF In
<1>4. ASSUME \/ Capacity <= Len(queue')
             \/ /\ l \notin NotFullWait
                /\ Len(queue) + In(pc[t], NotFullSignal) <= Len(queue') + In(l, NotFullSignal)
      PROVE  SlotCover'
  <2> DEFINE d == Capacity - Len(queue)
             e == Capacity - Len(queue')
  <2>1. d \in Int /\ e \in Int
    BY <1>1
  <2>2. e <= 0 \/ (l \notin NotFullWait /\ e + In(pc[t], NotFullSignal) <= d + In(l, NotFullSignal))
    BY <1>1, <1>3, <1>4
  <2>3. Covered(pc, NotFullWait, NotFullSignal, d)
    BY DEF SlotCover
  <2> HIDE DEF d, e
  <2>4. Covered([pc EXCEPT ![t] = l], NotFullWait, NotFullSignal, e)
    BY <1>2, <2>1, <2>2, <2>3, MoveKeepsCovered
  <2> QED BY <2>4 DEF SlotCover, e
<1>5. ASSUME \/ Len(queue') = 0
             \/ /\ l \notin NotEmptyWait
                /\ Len(queue') + In(pc[t], NotEmptySignal) <= Len(queue) + In(l, NotEmptySignal)
      PROVE  ItemCover'
  <2> DEFINE d == Len(queue)
             e == Len(queue')
  <2>1. d \in Int /\ e \in Int
    BY <1>1
  <2>2. e <= 0 \/ (l \notin NotEmptyWait /\ e + In(pc[t], NotEmptySignal) <= d + In(l, NotEmptySignal))
    BY <1>5
  <2>3. Covered(pc, NotEmptyWait, NotEmptySignal, d)
    BY DEF ItemCover
  <2> HIDE DEF d, e
  <2>4. Covered([pc EXCEPT ![t] = l], NotEmptyWait, NotEmptySignal, e)
    BY <1>2, <2>1, <2>2, <2>3, MoveKeepsCovered
  <2> QED BY <2>4 DEF ItemCover, e
<1> QED BY <1>4, <1>5

\* A notification that t hands to the waiter w replaces t's signal by w's.
LEMMA HandOverKeepsCovered ==
    ASSUME NEW W, NEW S, NEW D, NEW f \in [Threads -> D], NEW d \in Int,
           NEW t \in Threads, NEW w \in Threads, t # w,
           NEW l \in D \ W, NEW k \in D \ W,
           Covered(f, W, S, d),
           f[w] \notin S, f[t] \in S => k \in S
    PROVE  Covered([f EXCEPT ![t] = l, ![w] = k], W, S, d)
<1> DEFINE g == [f EXCEPT ![w] = k]
           c == d + In(k, S)
<1>1. In(f[w], S) = 0 /\ In(k, S) \in {0, 1} /\ In(f[t], S) <= In(k, S) /\ In(l, S) \in {0, 1}
  BY DEF In
<1>2. c \in Int /\ c + In(f[w], S) <= d + In(k, S)
  BY <1>1
<1>3. d + In(f[t], S) <= c + In(l, S)
  BY <1>1 DEF In
<1> HIDE DEF c
<1>4. Covered(g, W, S, c)
  BY <1>2, MoveKeepsCovered
<1>5. g \in [Threads -> D] /\ g[t] = f[t]
  OBVIOUS
<1> HIDE DEF g
<1>6. Covered([g EXCEPT ![t] = l], W, S, d)
  BY <1>2, <1>3, <1>4, <1>5, MoveKeepsCovered
<1>7. [g EXCEPT ![t] = l] = [f EXCEPT ![t] = l, ![w] = k]
  BY DEF g
<1> QED BY <1>6, <1>7

\* pop's and push's notify_one, with and without a waiter to release.
LEMMA NotifyOneCovers ==
    ASSUME TypeOK, SlotCover, ItemCover, NEW t \in Threads,
           \/ pc[t] = "notifyNotEmpty" /\ NotifyOne(t, WaitingNotEmpty)
           \/ pc[t] = "notifyNotFull" /\ NotifyOne(t, WaitingNotFull)
    PROVE  SlotCover' /\ ItemCover'
<1> USE DEF NotFullWait, NotFullSignal, NotEmptyWait, NotEmptySignal
<1>1. Len(queue) \in Nat /\ Capacity \in Nat /\ queue' = queue
  BY LenProperties, CapacityAssumption DEF TypeOK, NotifyOne
<1>2. ASSUME NEW w \in WaitingNotEmpty \cup WaitingNotFull,
             pc[t] = "notifyNotEmpty" => w \in WaitingNotEmpty,
             pc[t] = "notifyNotFull" => w \in WaitingNotFull,
             pc' = [pc EXCEPT ![t] = "idle", ![w] = Woken(pc[w])]
      PROVE  SlotCover' /\ ItemCover'
  <2>1. /\ w \in Threads /\ t # w /\ "idle" \in Locations /\ Woken(pc[w]) \in Locations
        /\ pc \in [Threads -> Locations]
    BY <1>2 DEF WaitingNotEmpty, WaitingNotFull, Woken, TypeOK, Locations, PushLocations
  <2>2. Covered(pc', NotFullWait, NotFullSignal, Capacity - Len(queue))
    <3>1. /\ Woken(pc[w]) \notin NotFullWait /\ pc[w] \notin NotFullSignal
          /\ pc[t] \in NotFullSignal => Woken(pc[w]) \in NotFullSignal
      BY <1>2 DEF WaitingNotEmpty, WaitingNotFull, Woken
    <3>2. Capacity - Len(queue) \in Int /\ "idle" \notin NotFullWait
      BY <1>1
    <3> HIDE DEF NotFullWait, NotFullSignal
    <3> QED BY <1>2, <2>1, <3>1, <3>2, HandOverKeepsCovered DEF SlotCover
  <2>3. Covered(pc', NotEmptyWait, NotEmptySignal, Len(queue))
    <3>1. /\ Woken(pc[w]) \notin NotEmptyWait /\ pc[w] \notin NotEmptySignal
          /\ pc[t] \in NotEmptySignal => Woken(pc[w]) \in NotEmptySignal
      BY <1>2 DEF WaitingNotEmpty, WaitingNotFull, Woken
    <3>2. Len(queue) \in Int /\ "idle" \notin NotEmptyWait
      BY <1>1
    <3> HIDE DEF NotEmptyWait, NotEmptySignal
    <3> QED BY <1>2, <2>1, <3>1, <3>2, HandOverKeepsCovered DEF ItemCover
  <2> QED BY <1>1, <2>2, <2>3 DEF SlotCover, ItemCover
<1>3. ASSUME pc' = [pc EXCEPT ![t] = "idle"],
             pc[t] = "notifyNotEmpty" => WaitingNotEmpty = {},
             pc[t] = "notifyNotFull" => WaitingNotFull = {}
      PROVE  SlotCover' /\ ItemCover'
  <2>0. /\ Len(queue') = Len(queue) /\ Len(queue') \in Nat
        /\ "idle" \notin NotFullWait /\ "idle" \notin NotEmptyWait
        /\ pc[t] = "notifyNotEmpty" =>
              Len(queue) + In(pc[t], NotFullSignal) <= Len(queue') + In("idle", NotFullSignal)
        /\ pc[t] = "notifyNotFull" =>
              Len(queue') + In(pc[t], NotEmptySignal) <= Len(queue) + In("idle", NotEmptySignal)
    BY <1>1 DEF In
  <2>1. pc[t] = "notifyNotEmpty" => SlotCover'
    <3> HIDE DEF NotFullWait, NotFullSignal, NotEmptyWait, NotEmptySignal
    <3> QED BY <1>1, <1>3, <2>0, QueueMove
  <2>2. pc[t] = "notifyNotFull" => ItemCover'
    <3> HIDE DEF NotFullWait, NotFullSignal, NotEmptyWait, NotEmptySignal
    <3> QED BY <1>1, <1>3, <2>0, QueueMove
  <2>3. pc[t] = "notifyNotEmpty" => ItemCover'
    BY <1>3 DEF WaitingNotEmpty, ItemCover, Covered, TypeOK
  <2>4. pc[t] = "notifyNotFull" => SlotCover'
    BY <1>3 DEF WaitingNotFull, SlotCover, Covered, TypeOK
  <2> QED BY <2>1, <2>2, <2>3, <2>4
<1> QED BY <1>2, <1>3 DEF NotifyOne

\* The notify_all calls of close: one condition variable loses its waiters,
\* the other keeps its waiters and its signals.
LEMMA NotifyAllCovers ==
    ASSUME TypeOK, SlotCover, ItemCover, NEW t \in Threads,
           CloseNotifyNotEmpty(t) \/ CloseNotifyNotFull(t)
    PROVE  SlotCover' /\ ItemCover'
<1> USE DEF NotFullWait, NotFullSignal, NotEmptyWait, NotEmptySignal
<1>1. queue' = queue
  BY DEF CloseNotifyNotEmpty, CloseNotifyNotFull, NotifyAll
<1>2. CASE CloseNotifyNotEmpty(t)
  <2>1. \A u \in Threads : /\ pc'[u] \notin NotEmptyWait
                           /\ pc'[u] \in NotFullWait <=> pc[u] \in NotFullWait
                           /\ pc'[u] \in NotFullSignal <=> pc[u] \in NotFullSignal
    BY <1>2 DEF CloseNotifyNotEmpty, NotifyAll, WaitingNotEmpty, Woken
  <2> HIDE DEF NotFullWait, NotFullSignal, NotEmptyWait, NotEmptySignal
  <2>2. {u \in Threads : pc'[u] \in NotFullSignal} = {u \in Threads : pc[u] \in NotFullSignal}
    BY <2>1
  <2>3. ItemCover'
    BY <2>1 DEF ItemCover, Covered
  <2>4. SlotCover'
    BY <1>1, <2>1, <2>2 DEF SlotCover, Covered, Count
  <2> QED BY <2>3, <2>4
<1>3. CASE CloseNotifyNotFull(t)
  <2>1. \A u \in Threads : /\ pc'[u] \notin NotFullWait
                           /\ pc'[u] \in NotEmptyWait <=> pc[u] \in NotEmptyWait
                           /\ pc'[u] \in NotEmptySignal <=> pc[u] \in NotEmptySignal
    BY <1>3 DEF CloseNotifyNotFull, NotifyAll, WaitingNotFull, Woken
  <2> HIDE DEF NotFullWait, NotFullSignal, NotEmptyWait, NotEmptySignal
  <2>2. {u \in Threads : pc'[u] \in NotEmptySignal} = {u \in Threads : pc[u] \in NotEmptySignal}
    BY <2>1
  <2>3. SlotCover'
    BY <2>1 DEF SlotCover, Covered
  <2>4. ItemCover'
    BY <1>1, <2>1, <2>2 DEF ItemCover, Covered, Count
  <2> QED BY <2>3, <2>4
<1> QED BY <1>2, <1>3

\* Where a thread is when it enters or resumes a critical section.
PushEntry == {"idle", "pushAwake", "pushForAwake", "pushForExpired"}
PopEntry == {"idle", "popAwake"}

\* A push's critical section.
LEMMA PushCovers ==
    ASSUME TypeOK, SlotCover, ItemCover, ~closed, NEW t \in Threads, pc[t] \in PushEntry,
           \/ \E v \in Values : InsertOrRefuse(t, v)
           \/ \E b \in NotFullWait, c \in Values : ~Room /\ Block(t, b, c)
           \/ ~Room /\ Decide(t, "idle", NoValue, FALSE) /\ UNCHANGED queue
    PROVE  SlotCover' /\ ItemCover'
<1> USE DEF NotFullWait, NotFullSignal, NotEmptyWait, NotEmptySignal
<1>1. Len(queue) \in Nat /\ Capacity \in Nat
  BY LenProperties, CapacityAssumption DEF TypeOK
<1>2. ASSUME NEW v \in Values, InsertOrRefuse(t, v)
      PROVE  SlotCover' /\ ItemCover'
  <2>1. pc' = [pc EXCEPT ![t] = "notifyNotEmpty"] /\ queue' = Append(queue, v)
    BY <1>2 DEF InsertOrRefuse, Decide
  <2>2. Len(queue') = Len(queue) + 1
    BY <2>1, AppendProperties DEF TypeOK
  <2>3. /\ Len(queue') \in Nat
        /\ "notifyNotEmpty" \notin NotFullWait /\ "notifyNotEmpty" \notin NotEmptyWait
        /\ Len(queue) + In(pc[t], NotFullSignal) <= Len(queue') + In("notifyNotEmpty", NotFullSignal)
        /\ Len(queue') + In(pc[t], NotEmptySignal) <= Len(queue) + In("notifyNotEmpty", NotEmptySignal)
    BY <1>1, <2>2 DEF In, PushEntry
  <2> HIDE DEF NotFullWait, NotFullSignal, NotEmptyWait, NotEmptySignal
  <2> QED BY <2>1, <2>3, QueueMove
<1>3. ASSUME ~Room, UNCHANGED queue, NEW b \in NotFullWait \cup {"idle"},
             pc' = [pc EXCEPT ![t] = b]
      PROVE  SlotCover' /\ ItemCover'
  <2>1. /\ Len(queue') \in Nat /\ Capacity <= Len(queue')
        /\ b \notin NotEmptyWait
        /\ Len(queue') + In(pc[t], NotEmptySignal) <= Len(queue) + In(b, NotEmptySignal)
    BY <1>1, <1>3 DEF In, PushEntry, Room
  <2> HIDE DEF NotFullWait, NotFullSignal, NotEmptyWait, NotEmptySignal
  <2> QED BY <1>3, <2>1, QueueMove
<1> QED BY <1>2, <1>3 DEF Block, Decide

\* pop's critical section.
LEMMA PopCovers ==
    ASSUME TypeOK, SlotCover, ItemCover, ~closed, NEW t \in Threads, pc[t] \in PopEntry,
           PopSection(t)
    PROVE  SlotCover' /\ ItemCover'
<1> USE DEF NotFullWait, NotFullSignal, NotEmptyWait, NotEmptySignal
<1>1. Len(queue) \in Nat /\ Capacity \in Nat
  BY LenProperties, CapacityAssumption DEF TypeOK
<1>2. CASE queue # <<>>
  <2>1. pc' = [pc EXCEPT ![t] = "notifyNotFull"] /\ queue' = Tail(queue)
    BY <1>2 DEF PopSection, Decide
  <2>2. Len(queue') = Len(queue) - 1 /\ Len(queue') \in Nat
    <3>1. Len(Tail(queue)) = Len(queue) - 1 /\ Tail(queue) \in Seq(Values)
      BY <1>2, HeadTailProperties DEF TypeOK
    <3>2. Len(Tail(queue)) \in Nat
      BY <3>1, LenProperties
    <3> QED BY <2>1, <3>1, <3>2
  <2>3. /\ "notifyNotFull" \notin NotFullWait /\ "notifyNotFull" \notin NotEmptyWait
        /\ Len(queue) + In(pc[t], NotFullSignal) <= Len(queue') + In("notifyNotFull", NotFullSignal)
        /\ Len(queue') + In(pc[t], NotEmptySignal) <= Len(queue) + In("notifyNotFull", NotEmptySignal)
    BY <1>1, <2>2 DEF In, PopEntry
  <2> HIDE DEF NotFullWait, NotFullSignal, NotEmptyWait, NotEmptySignal
  <2> QED BY <2>1, <2>2, <2>3, QueueMove
<1>3. CASE queue = <<>>
  <2>1. pc' = [pc EXCEPT ![t] = "popBlocked"] /\ queue' = queue
    BY <1>3 DEF PopSection, Block
  <2>2. /\ Len(queue') = 0 /\ Len(queue') \in Nat
        /\ "popBlocked" \notin NotFullWait
        /\ Len(queue) + In(pc[t], NotFullSignal) <= Len(queue') + In("popBlocked", NotFullSignal)
    BY <1>1, <1>3, <2>1, EmptySeq DEF In, PopEntry
  <2> HIDE DEF NotFullWait, NotFullSignal, NotEmptyWait, NotEmptySignal
  <2> QED BY <2>1, <2>2, QueueMove
<1> QED BY <1>2, <1>3

\* A deadline that passes, and a spurious wakeup.
LEMMA WakeCovers ==
    ASSUME TypeOK, SlotCover, ItemCover, NEW t \in Threads,
           PushForExpire(t) \/ SpuriousWakeup(t)
    PROVE  SlotCover' /\ ItemCover'
<1> USE DEF NotFullWait, NotFullSignal, NotEmptyWait, NotEmptySignal
<1>1. Len(queue) \in Nat /\ queue' = queue
  BY LenProperties DEF TypeOK, PushForExpire, SpuriousWakeup
<1>2. PICK l : /\ pc' = [pc EXCEPT ![t] = l]
               /\ \/ pc[t] \in {"pushForBlocked", "pushForAwake"} /\ l = "pushForExpired"
                  \/ pc[t] = "pushBlocked" /\ l = "pushAwake"
                  \/ pc[t] = "pushForBlocked" /\ l = "pushForAwake"
                  \/ pc[t] = "popBlocked" /\ l = "popAwake"
  BY DEF PushForExpire, SpuriousWakeup, Woken, WaitingNotFull, WaitingNotEmpty
<1>3. /\ Len(queue') \in Nat
      /\ l \notin NotFullWait /\ l \notin NotEmptyWait
      /\ Len(queue) + In(pc[t], NotFullSignal) <= Len(queue') + In(l, NotFullSignal)
      /\ Len(queue') + In(pc[t], NotEmptySignal) <= Len(queue) + In(l, NotEmptySignal)
  BY <1>1, <1>2 DEF In
<1> HIDE DEF NotFullWait, NotFullSignal, NotEmptyWait, NotEmptySignal
<1> QED BY <1>2, <1>3, QueueMove

\* The covers of an open queue are inductive relative to the types.
LEMMA SignalsStep ==
    ASSUME TypeOK, SlotsSignalled, ItemsSignalled, [Next]_vars
    PROVE  SlotsSignalled' /\ ItemsSignalled'
<1>1. SUFFICES ASSUME ~closed' PROVE SlotCover' /\ ItemCover'
  BY CoverMeaning, PTL
<1>2. CASE UNCHANGED vars
  <2>1. SlotCover /\ ItemCover
    BY <1>1, <1>2, CoverMeaning DEF vars
  <2> QED BY <1>2, <2>1 DEF vars, SlotCover, ItemCover
<1>3. ASSUME NEW t \in Threads,
             Call(t) \/ Continue(t) \/ PushForExpire(t) \/ SpuriousWakeup(t)
      PROVE  SlotCover' /\ ItemCover'
  <2>1. ~closed /\ SlotCover /\ ItemCover
    <3>1. ~closed
      BY <1>1, <1>3 DEF Call, Continue, Push, TryPush, PushFor, Pop, Close, PushResume,
           PushForResume, PushForLastTry, PopResume, PushNotify, PopNotify, CloseNotifyNotEmpty,
           CloseNotifyNotFull, NotifyOne, NotifyAll, PushSection, PopSection, InsertOrRefuse,
           Block, PushForExpire, SpuriousWakeup
    <3> QED BY <3>1, CoverMeaning
  <2>2. CASE \E v \in Values : Push(t, v) \/ TryPush(t, v) \/ PushFor(t, v)
    BY <2>1, <2>2, PushCovers
       DEF Push, TryPush, PushFor, PushSection, PushEntry, NotFullWait
  <2>3. CASE PushResume(t) \/ PushForResume(t) \/ PushForLastTry(t)
    <3>1. value[t] \in Values /\ pc[t] \in PushEntry
      BY <2>3 DEF TypeOK, PushLocations, PushEntry, PushResume, PushForResume, PushForLastTry
    <3> QED BY <2>1, <2>3, <3>1, PushCovers
            DEF PushResume, PushForResume, PushForLastTry, PushSection, NotFullWait
  <2>4. CASE Pop(t) \/ PopResume(t)
    BY <2>1, <2>4, PopCovers DEF Pop, PopResume, PopEntry
  <2>5. CASE Close(t)
    BY <2>5, <1>1 DEF Close
  <2>6. CASE PushNotify(t) \/ PopNotify(t)
    BY <2>1, <2>6, NotifyOneCovers DEF PushNotify, PopNotify
  <2>7. CASE CloseNotifyNotEmpty(t) \/ CloseNotifyNotFull(t)
    BY <2>1, <2>7, NotifyAllCovers
  <2>8. CASE PushForExpire(t) \/ SpuriousWakeup(t)
    BY <2>1, <2>8, WakeCovers
  <2> QED BY <1>3, <2>2, <2>3, <2>4, <2>5, <2>6, <2>7, <2>8 DEF Call, Continue
<1> QED BY <1>2, <1>3 DEF Next

\* Whoever waits at a closed queue is ahead of a notify_all.
LEMMA CloseStep ==
    ASSUME TypeOK, CloseSignalled, [Next]_vars
    PROVE  CloseSignalled'
<1> USE DEF CloseSignalled, WaitingNotEmpty, WaitingNotFull
<1>1. CASE UNCHANGED vars
  BY <1>1 DEF vars
<1>2. ASSUME NEW t \in Threads, pc[t] \notin {"closeNotEmpty", "closeNotFull"},
             closed' = closed,
             NEW l, pc' = [pc EXCEPT ![t] = l],
             closed => l \notin {"popBlocked", "pushBlocked", "pushForBlocked"}
      PROVE  CloseSignalled'
  BY <1>2 DEF TypeOK
<1>3. ASSUME NEW t \in Threads, pc[t] \in {"notifyNotEmpty", "notifyNotFull"},
             NEW W \in SUBSET (WaitingNotEmpty \cup WaitingNotFull), NotifyOne(t, W)
      PROVE  CloseSignalled'
  <2>1. closed' = closed
    BY <1>3 DEF NotifyOne
  <2>2. \A u \in Threads : /\ pc'[u] \in {"popBlocked", "pushBlocked", "pushForBlocked"}
                               => pc'[u] = pc[u]
                           /\ pc[u] \in {"closeNotEmpty", "closeNotFull"} => pc'[u] = pc[u]
    BY <1>3 DEF NotifyOne, Woken, TypeOK
  <2> QED BY <2>1, <2>2
<1>4. ASSUME NEW t \in Threads, Call(t) \/ Continue(t) \/ PushForExpire(t) \/ SpuriousWakeup(t)
      PROVE  CloseSignalled'
  <2>1. CASE Close(t)
    BY <1>4, <2>1 DEF Close, TypeOK
  <2>2. CASE CloseNotifyNotEmpty(t)
    BY <2>2 DEF CloseNotifyNotEmpty, NotifyAll, Woken, TypeOK
  <2>3. CASE CloseNotifyNotFull(t)
    BY <2>3 DEF CloseNotifyNotFull, NotifyAll, Woken, TypeOK
  <2>4. CASE PushNotify(t) \/ PopNotify(t)
    BY <2>4, <1>3 DEF PushNotify, PopNotify
  <2>5. CASE PushForExpire(t) \/ SpuriousWakeup(t)
    BY <2>5, <1>2 DEF PushForExpire, SpuriousWakeup, Woken
  <2>6. CASE \/ \E v \in Values : Push(t, v) \/ TryPush(t, v) \/ PushFor(t, v)
             \/ PushResume(t) \/ PushForResume(t) \/ PushForLastTry(t)
    BY <2>6, <1>2 DEF Push, TryPush, PushFor, PushResume, PushForResume, PushForLastTry,
                      PushSection, InsertOrRefuse, Block, Decide
  <2>7. CASE Pop(t) \/ PopResume(t)
    BY <2>7, <1>2 DEF Pop, PopResume, PopSection, Block, Decide
  <2> QED BY <1>4, <2>1, <2>2, <2>3, <2>4, <2>5, <2>6, <2>7 DEF Call, Continue
<1> QED BY <1>1, <1>4 DEF Next

\* The covers and the close invariant together are inductive, relative to the
\* types.
LEMMA WakeupStep == /\ Init => NoLostWakeup
                    /\ TypeOK /\ NoLostWakeup /\ [Next]_vars => NoLostWakeup'
<1>1. Init => NoLostWakeup
  <2> SUFFICES ASSUME Init PROVE NoLostWakeup
    OBVIOUS
  <2>1. WaitingNotFull = {} /\ WaitingNotEmpty = {}
    BY DEF Init, WaitingNotFull, WaitingNotEmpty
  <2> QED BY <2>1 DEF NoLostWakeup, SlotsSignalled, ItemsSignalled, CloseSignalled
<1>2. TypeOK /\ NoLostWakeup /\ [Next]_vars => NoLostWakeup'
  BY SignalsStep, CloseStep DEF NoLostWakeup
<1> QED BY <1>1, <1>2

\* No wakeup is lost: each free slot and each item has a signal of its own while
\* somebody waits for one, and a waiter at a closed queue is about to be woken.
THEOREM WakeupsHold == Spec => []NoLostWakeup
BY WakeupStep, TypeCorrect, PTL DEF Spec

-----------------------------------------------------------------------------
(* Closing *)

\* After close the flag stays up and the queue only loses items at its front.
THEOREM ClosingHolds == Spec => ClosedOnlyDrains
<1>1. ASSUME closed, [Next]_vars
      PROVE  closed' /\ (queue' = queue \/ (queue # <<>> /\ queue' = Tail(queue)))
  <2>1. ASSUME NEW t \in Threads, Call(t)
        PROVE  closed' /\ (queue' = queue \/ (queue # <<>> /\ queue' = Tail(queue)))
    BY <1>1, <2>1 DEF Call, Push, TryPush, PushFor, Pop, Close, PushSection, PopSection,
         InsertOrRefuse, Block
  <2>2. ASSUME NEW t \in Threads, Continue(t)
        PROVE  closed' /\ (queue' = queue \/ (queue # <<>> /\ queue' = Tail(queue)))
    BY <1>1, <2>2 DEF Continue, PushResume, PushForResume, PushForLastTry, PopResume,
         PushNotify, PopNotify, CloseNotifyNotEmpty, CloseNotifyNotFull, NotifyOne, NotifyAll,
         PushSection, PopSection, InsertOrRefuse, Block
  <2>3. ASSUME NEW t \in Threads, PushForExpire(t) \/ SpuriousWakeup(t)
        PROVE  closed' /\ queue' = queue
    BY <1>1, <2>3 DEF PushForExpire, SpuriousWakeup
  <2> QED BY <1>1, <2>1, <2>2, <2>3 DEF Next, vars
<1> QED BY <1>1, PTL DEF Spec, ClosedOnlyDrains

-----------------------------------------------------------------------------
(* Implementation of the channel *)

\* The channel's phases, as the refinement mapping gives them.
Phases == [u \in Threads |-> Phase(pc[u])]

\* When one thread moves in the code, one thread's phase changes.
LEMMA PhaseMove ==
    ASSUME TypeOK, NEW t \in Threads, NEW l, pc' = [pc EXCEPT ![t] = l]
    PROVE  Phases' = [Phases EXCEPT ![t] = Phase(l)]
BY DEF Phases, TypeOK

\* What the refinement mapping says of each location in the methods.
LEMMA PhaseValues ==
    /\ Phase("idle") = "idle"
    /\ Phase("pushBlocked") = "pushing" /\ Phase("pushAwake") = "pushing"
    /\ Phase("pushForBlocked") = "pushingFor" /\ Phase("pushForAwake") = "pushingFor"
    /\ Phase("pushForExpired") = "lastTry"
    /\ Phase("popBlocked") = "popping" /\ Phase("popAwake") = "popping"
    /\ Phase("notifyNotEmpty") = "answered" /\ Phase("notifyNotFull") = "answered"
    /\ Phase("closeNotEmpty") = "answered" /\ Phase("closeNotFull") = "answered"
BY DEF Phase

\* A decided call is the channel's Enter.
LEMMA DecideEnters ==
    ASSUME TypeOK, NEW t \in Threads, NEW l, NEW c, NEW a, Decide(t, l, c, a)
    PROVE  Channel!Enter(t, Phase(l), c, a)
<1>1. Phases' = [Phases EXCEPT ![t] = Phase(l)]
  BY PhaseMove DEF Decide
<1> QED BY <1>1 DEF Decide, Channel!Enter, Phases

\* A wait that begins is the channel's Wait.
LEMMA BlockWaits ==
    ASSUME TypeOK, NEW t \in Threads, NEW l, NEW c, Block(t, l, c)
    PROVE  Channel!Wait(t, Phase(l), c)
<1>1. Phases' = [Phases EXCEPT ![t] = Phase(l)]
  BY PhaseMove DEF Block
<1>2. result' = [result EXCEPT ![t] = result[t]]
  BY DEF Block, TypeOK
<1> QED BY <1>1, <1>2 DEF Block, Channel!Wait, Channel!Enter, Phases

\* A wait that is resumed after a wakeup in vain is not seen.
LEMMA BlockAgain ==
    ASSUME TypeOK, NEW t \in Threads, NEW l, Block(t, l, value[t]), Phase(l) = Phase(pc[t])
    PROVE  UNCHANGED Channel!vars
<1>1. Phases' = Phases
  <2>1. Phases' = [Phases EXCEPT ![t] = Phase(l)]
    BY PhaseMove DEF Block
  <2> QED BY <2>1 DEF Phases
<1>2. value' = value
  BY DEF Block, TypeOK
<1> QED BY <1>1, <1>2 DEF Block, Channel!vars, Phases

\* The tail of push and pushFor, after the wait, is the channel's Accept.
LEMMA InsertOrRefuseAccepts ==
    ASSUME TypeOK, NEW t \in Threads, NEW v, InsertOrRefuse(t, v)
    PROVE  Channel!Accept(t, v)
<1>1. CASE closed
  BY <1>1, DecideEnters, PhaseValues DEF InsertOrRefuse, Channel!Accept
<1>2. CASE ~closed
  BY <1>2, DecideEnters, PhaseValues DEF InsertOrRefuse, Channel!Accept, Room
<1> QED BY <1>1, <1>2

\* tryPush and pushFor at a full queue are the channel's Fail.
LEMMA FullFails ==
    ASSUME TypeOK, CapacityRespected, NEW t \in Threads, ~closed, ~Room,
           Decide(t, "idle", NoValue, FALSE), UNCHANGED <<queue, closed>>
    PROVE  Channel!Fail(t)
<1>1. Len(queue) = Capacity
  BY LenProperties, CapacityAssumption DEF TypeOK, CapacityRespected, Room
<1>2. Channel!Enter(t, "idle", NoValue, FALSE)
  BY DecideEnters, PhaseValues
<1> QED BY <1>1, <1>2 DEF Channel!Fail

\* The critical section of pop that does not wait is the channel's Take.
LEMMA PopSectionTakes ==
    ASSUME TypeOK, NEW t \in Threads, PopSection(t), queue # <<>> \/ closed
    PROVE  Channel!Take(t)
<1>1. CASE queue # <<>>
  BY <1>1, DecideEnters, PhaseValues DEF PopSection, Channel!Take
<1>2. CASE queue = <<>>
  BY <1>2, DecideEnters, PhaseValues DEF PopSection, Channel!Take
<1> QED BY <1>1, <1>2

\* The last step of a call is the channel's Return.
LEMMA ReturnReturns ==
    ASSUME TypeOK, NEW t \in Threads, Phases[t] = "answered",
           Phases' = [Phases EXCEPT ![t] = "idle"],
           value' = [value EXCEPT ![t] = NoValue], UNCHANGED <<queue, closed, result>>
    PROVE  Channel!Return(t)
<1>1. result' = [result EXCEPT ![t] = result[t]]
  BY DEF TypeOK
<1> QED BY <1>1 DEF Channel!Return, Channel!Enter, Phases

\* The first critical section of each method is the channel's Call.
LEMMA CallsAreCalls ==
    ASSUME TypeOK, CapacityRespected, NEW t \in Threads, Call(t)
    PROVE  Channel!Call(t)
<1>1. pc[t] = "idle" /\ Phases[t] = "idle"
  BY PhaseValues DEF Call, Push, TryPush, PushFor, Pop, Close, Phases
<1>2. ~closed /\ ~Room => Len(queue) = Capacity
  BY LenProperties, CapacityAssumption DEF TypeOK, CapacityRespected, Room
<1>3. ASSUME NEW v \in Values, Push(t, v) PROVE Channel!Call(t)
  BY <1>1, <1>2, <1>3, InsertOrRefuseAccepts, BlockWaits, PhaseValues
     DEF Push, PushSection, Channel!Call, Phases
<1>4. ASSUME NEW v \in Values, TryPush(t, v) PROVE Channel!Call(t)
  BY <1>1, <1>4, InsertOrRefuseAccepts, FullFails DEF TryPush, Channel!Call, Phases
<1>5. ASSUME NEW v \in Values, PushFor(t, v) PROVE Channel!Call(t)
  BY <1>1, <1>2, <1>5, InsertOrRefuseAccepts, BlockWaits, PhaseValues
     DEF PushFor, PushSection, Channel!Call, Phases
<1>6. CASE Pop(t)
  <2>1. CASE queue # <<>> \/ closed
    BY <1>1, <1>6, <2>1, PopSectionTakes DEF Pop, Channel!Call, Phases
  <2>2. CASE queue = <<>> /\ ~closed
    BY <1>1, <1>6, <2>2, BlockWaits, PhaseValues DEF Pop, PopSection, Channel!Call, Phases
  <2> QED BY <2>1, <2>2
<1>7. CASE Close(t)
  <2>1. Phases' \in {[Phases EXCEPT ![t] = "answered"], Phases}
    <3>1. CASE closed
      BY <1>7, <1>1, <3>1 DEF Close, Phases, TypeOK
    <3>2. CASE ~closed
      <4>1. pc' = [pc EXCEPT ![t] = "closeNotEmpty"]
        BY <1>7, <3>2 DEF Close
      <4>2. Phases' = [Phases EXCEPT ![t] = Phase("closeNotEmpty")]
        BY <4>1, PhaseMove
      <4> QED BY <4>2, PhaseValues
    <3> QED BY <3>1, <3>2
  <2> QED BY <1>1, <1>7, <2>1 DEF Close, Channel!Call, Phases
<1> QED BY <1>3, <1>4, <1>5, <1>6, <1>7 DEF Call

\* What a running call does is a completion, a return, or not seen at all.
LEMMA ContinuationsComplete ==
    ASSUME TypeOK, CapacityRespected, NEW t \in Threads, Continue(t)
    PROVE  Channel!CompletePush(t) \/ Channel!CompletePop(t) \/ Channel!Return(t)
             \/ UNCHANGED Channel!vars
<1>1. CASE PushResume(t)
  BY <1>1, InsertOrRefuseAccepts, BlockAgain, PhaseValues
     DEF PushResume, PushSection, Channel!CompletePush, Phases
<1>2. CASE PushForResume(t)
  BY <1>2, InsertOrRefuseAccepts, BlockAgain, PhaseValues
     DEF PushForResume, PushSection, Channel!CompletePush, Phases
<1>3. CASE PushForLastTry(t)
  BY <1>3, InsertOrRefuseAccepts, FullFails, PhaseValues
     DEF PushForLastTry, Channel!CompletePush, Phases
<1>4. CASE PopResume(t)
  <2>1. CASE queue # <<>> \/ closed
    BY <1>4, <2>1, PopSectionTakes, PhaseValues DEF PopResume, Channel!CompletePop, Phases
  <2>2. CASE queue = <<>> /\ ~closed
    <3>1. value[t] = NoValue /\ Phase("popBlocked") = Phase(pc[t])
      BY <1>4, PhaseValues DEF PopResume, TypeOK, PushLocations
    <3> QED BY <1>4, <2>2, <3>1, BlockAgain DEF PopResume, PopSection
  <2> QED BY <2>1, <2>2
<1>5. CASE PushNotify(t) \/ PopNotify(t)
  <2>1. Phases[t] = "answered" /\ Phases' = [Phases EXCEPT ![t] = "idle"]
    <3>1. PICK w \in Threads : /\ pc'[t] = "idle"
                               /\ w # t => Phase(pc'[w]) = Phase(pc[w])
                               /\ \A u \in Threads \ {t, w} : pc'[u] = pc[u]
      BY <1>5, PhaseValues DEF PushNotify, PopNotify, NotifyOne, WaitingNotFull,
                              WaitingNotEmpty, Woken, TypeOK
    <3>2. Phases[t] = "answered"
      BY <1>5, PhaseValues DEF PushNotify, PopNotify, Phases
    <3>3. Phase(pc'[t]) = "idle"
      BY <3>1, PhaseValues
    <3>4. \A u \in Threads \ {t} : Phase(pc'[u]) = Phase(pc[u])
      BY <3>1
    <3>5. Phases' = [u \in Threads |-> IF u = t THEN "idle" ELSE Phases[u]]
      BY <3>3, <3>4 DEF Phases
    <3> QED BY <3>2, <3>5 DEF Phases
  <2> QED BY <1>5, <2>1, ReturnReturns DEF PushNotify, PopNotify, NotifyOne
<1>6. CASE CloseNotifyNotEmpty(t)
  <2>1. Phases' = Phases
    BY <1>6, PhaseValues DEF CloseNotifyNotEmpty, NotifyAll, WaitingNotEmpty, Woken, Phases, TypeOK
  <2> QED BY <1>6, <2>1 DEF CloseNotifyNotEmpty, NotifyAll, Channel!vars, Phases
<1>7. CASE CloseNotifyNotFull(t)
  <2>1. Phases' = [Phases EXCEPT ![t] = "idle"] /\ Phases[t] = "answered"
    BY <1>7, PhaseValues DEF CloseNotifyNotFull, NotifyAll, WaitingNotFull, Woken, Phases, TypeOK
  <2>2. value' = [value EXCEPT ![t] = NoValue]
    BY <1>7 DEF CloseNotifyNotFull, NotifyAll, TypeOK, PushLocations
  <2> QED BY <1>7, <2>1, <2>2, ReturnReturns DEF CloseNotifyNotFull, NotifyAll
<1> QED BY <1>1, <1>2, <1>3, <1>4, <1>5, <1>6, <1>7 DEF Continue

\* A waiter that is released is not seen; a deadline that passes is.
LEMMA WakingIsHidden ==
    ASSUME TypeOK, NEW t \in Threads, PushForExpire(t) \/ SpuriousWakeup(t)
    PROVE  Channel!Expire(t) \/ UNCHANGED Channel!vars
<1>1. CASE PushForExpire(t)
  <2>1. Phases' = [Phases EXCEPT ![t] = "lastTry"]
    <3>1. Phases' = [Phases EXCEPT ![t] = Phase("pushForExpired")]
      BY <1>1, PhaseMove DEF PushForExpire
    <3> QED BY <3>1, PhaseValues
  <2>2. Phases[t] = "pushingFor"
    BY <1>1, PhaseValues DEF PushForExpire, Phases
  <2> QED BY <1>1, <2>1, <2>2 DEF PushForExpire, Channel!Expire, Phases
<1>2. CASE SpuriousWakeup(t)
  <2>1. Phases' = Phases
    BY <1>2, PhaseValues DEF SpuriousWakeup, Woken, WaitingNotFull, WaitingNotEmpty, Phases, TypeOK
  <2> QED BY <1>2, <2>1 DEF SpuriousWakeup, Channel!vars, Phases
<1> QED BY <1>1, <1>2

\* Everything the queue does, with its mutex, waiters and notifications, is
\* something the bounded channel may do.
THEOREM QueueIsChannel == Spec => Channel!Safety
<1>1. Init => Channel!Init
  BY PhaseValues DEF Init, Channel!Init
<1>2. TypeOK /\ CapacityRespected /\ [Next]_vars => [Channel!Next]_Channel!vars
  <2> SUFFICES ASSUME TypeOK, CapacityRespected, [Next]_vars
               PROVE  Channel!Next \/ UNCHANGED Channel!vars
    OBVIOUS
  <2>1. CASE Next
    BY <2>1, CallsAreCalls, ContinuationsComplete, WakingIsHidden DEF Next, Channel!Next
  <2>2. CASE UNCHANGED vars
    BY <2>2 DEF vars, Channel!vars
  <2> QED BY <2>1, <2>2
<1> QED BY <1>1, <1>2, TypeCorrect, CapacityHolds, PTL DEF Spec, Channel!Safety

-----------------------------------------------------------------------------
(* The demos.  What they have in common: one thread pushes the items 1, 2, *)
(* ... and then closes the queue.                                          *)

Pushes == {"push", "tryPush", "pushFor"}
Pops == {"pop", "drain"}

Producer(d) == IF d = "basicProducerConsumer" THEN Worker1 ELSE Main

\* How many items the producer of demo d pushes, how many the demo is written
\* to have accepted.
Offered(d) == IF d = "closeWakesWaiters" THEN 0
              ELSE IF d = "gracefulDrain" THEN Capacity ELSE Capacity + 1
Admitted(d) == IF d \in {"tryPush", "timedPush"} THEN Capacity ELSE Offered(d)

\* Nobody but the producer runs in these demos.
Alone == {"tryPush", "timedPush", "gracefulDrain"}

Steps == [method : Methods \cup {"drain"}, item : Values \cup {NoValue}]

DemoScript(d) ==
    LET p == Producer(d) IN
    /\ Demos[d] \in [Threads -> Seq(Steps)]
    /\ Len(Demos[d][p]) >= Offered(d) + 1
    /\ \A i \in DOMAIN Demos[d][p] :
          IF i <= Offered(d) THEN Demos[d][p][i].method \in Pushes /\ Demos[d][p][i].item = i
          ELSE Demos[d][p][i].method = IF i = Offered(d) + 1 THEN "close" ELSE "drain"
    /\ \A t \in Threads \ {p} : \A i \in DOMAIN Demos[d][t] : Demos[d][t][i].method \in Pops
    /\ d \in Alone => \A t \in Threads \ {p} : Demos[d][t] = <<>>
    /\ d \notin Alone => Len(Demos[d][p]) = Offered(d) + 1
    /\ d \notin {"tryPush", "timedPush"} =>
          \A i \in 1 .. Offered(d) : Demos[d][p][i].method = "push"
    /\ d \in {"tryPush", "timedPush"} =>
          /\ \A i \in 1 .. Capacity : Demos[d][p][i].method # "pushFor"
          /\ Demos[d][p][Capacity + 1].method # "push"
    /\ d # "closeWakesWaiters" =>
          \E t \in Threads : Len(Demos[d][t]) > 0 /\ Demos[d][t][Len(Demos[d][t])].method = "drain"

-----------------------------------------------------------------------------
(* The inductive invariant                                                 *)

\* How many steps of its script a thread has done.
Done(t) == Len(Demos[demo][t]) - Len(script[t])

ScriptInv ==
    /\ DemoThreads
    /\ demo \in DOMAIN Demos
    /\ script \in [Threads -> Seq(Steps)]
    /\ \A t \in Threads : /\ Len(script[t]) <= Len(Demos[demo][t])
                          /\ \A i \in DOMAIN script[t] : script[t][i] = Demos[demo][t][i + Done(t)]

\* A thread at location l of a call is in the method its script s says, with
\* the item it says, and about to return true where it notifies.
InCall(l, carried, returned, s) ==
    /\ s # <<>>
    /\ l \in PushLocations => carried = Head(s).item
    /\ l \in PushLocations \cup {"notifyNotEmpty"} => Head(s).method \in Pushes
    /\ l \in {"pushForBlocked", "pushForAwake", "pushForExpired"} => Head(s).method = "pushFor"
    /\ l \in {"pushBlocked", "pushAwake"} => Head(s).method = "push"
    /\ l \in {"popBlocked", "popAwake", "notifyNotFull"} => Head(s).method \in Pops
    /\ l \in {"closeNotEmpty", "closeNotFull"} => Head(s).method = "close"
    /\ l \in {"notifyNotEmpty", "notifyNotFull"} => returned

CallInv == \A t \in Threads : pc[t] # "idle" => InCall(pc[t], value[t], result[t], script[t])

\* The items that have got into the queue, in their order, are 1 .. Ahead, as
\* far as none was refused.
Inserted == pc[Producer(demo)] = "notifyNotEmpty"
Ahead == Done(Producer(demo)) + IF Inserted THEN 1 ELSE 0

\* What each thread has taken off the queue.
hands == [t \in Threads |-> IF pc[t] = "notifyNotFull" THEN Append(taken[t], value[t]) ELSE taken[t]]

ItemInv ==
    /\ taken \in [Threads -> Seq(Values)]
    /\ \A i, j \in DOMAIN queue : i < j => queue[i] < queue[j]
    /\ \A t \in Threads : \A i, j \in DOMAIN hands[t] : i < j => hands[t][i] < hands[t][j]
    /\ \A t, u \in Threads : \A i \in DOMAIN hands[t], j \in DOMAIN hands[u] :
          hands[t][i] = hands[u][j] => t = u /\ i = j
    /\ \A t \in Threads : \A i \in DOMAIN hands[t], j \in DOMAIN queue : hands[t][i] < queue[j]
    /\ \A i \in DOMAIN queue : queue[i] <= Ahead
    /\ \A t \in Threads : \A i \in DOMAIN hands[t] : hands[t][i] <= Ahead

\* What was accepted is in the queue or with a thread, and the other way round.
Has(s, v) == \E i \in DOMAIN s : s[i] = v
Placed(v) == Has(queue, v) \/ \E t \in Threads : Has(hands[t], v)

AcceptInv ==
    /\ accepted \in Seq(Values)
    /\ \A i \in DOMAIN accepted : Placed(accepted[i])
    /\ Inserted => Placed(Ahead)
    /\ \A v \in Values : Placed(v) => Has(accepted, v) \/ (Inserted /\ v = Ahead)

\* Who notifies for close has set the flag, and it is set when close has returned.
CloseInv ==
    /\ \A t \in Threads : pc[t] \in {"closeNotEmpty", "closeNotFull"} => closed
    /\ Done(Producer(demo)) > Offered(demo) => closed

\* The queue is closed behind the last push; a demo ends with a drain.
DrainInv ==
    /\ closed => Done(Producer(demo)) >= Offered(demo)
    /\ \/ \E t \in Threads : \E i \in DOMAIN script[t] : script[t][i].method = "drain"
       \/ queue = <<>> /\ (closed \/ demo = "closeWakesWaiters")

\* How many items were accepted; where the producer is alone nobody takes any
\* until the last push has returned.
Least(a, b) == IF a <= b THEN a ELSE b
CountInv ==
    /\ Len(accepted) = Least(Done(Producer(demo)), Admitted(demo))
    /\ Inserted => Done(Producer(demo)) < Admitted(demo)
    /\ demo \in Alone /\ Done(Producer(demo)) <= Offered(demo) => Len(queue) = Least(Ahead, Capacity)

DemoInv == /\ TypeOK /\ ScriptInv /\ CallInv
           /\ ItemInv /\ AcceptInv
           /\ CloseInv /\ DrainInv /\ CountInv

-----------------------------------------------------------------------------
(* The scripts                                                             *)

LEMMA RepeatIs ==
    ASSUME DemoThreads, NEW m \in Pushes, NEW n \in Nat, n <= Capacity + 1
    PROVE  /\ Repeat(m, n) \in Seq(Steps) /\ Len(Repeat(m, n)) = n
           /\ \A i \in 1 .. n : Repeat(m, n)[i].method = m /\ Repeat(m, n)[i].item = i
<1>1. \A i \in 1 .. n : Step(m, i) \in Steps /\ Step(m, i).method = m /\ Step(m, i).item = i
  BY CapacityAssumption DEF DemoThreads, Step, Steps, Pushes, Methods
<1> QED BY <1>1 DEF Repeat

LEMMA DoIs ==
    ASSUME NEW m \in Methods \cup {"drain"}
    PROVE  Do(m) \in Seq(Steps) /\ Len(Do(m)) = 1 /\ Do(m)[1].method = m
<1>1. Step(m, NoValue) \in Steps /\ Step(m, NoValue).method = m
  BY DEF Step, Steps
<1> QED BY <1>1 DEF Do

LEMMA OneMore ==
    ASSUME NEW s \in Seq(Steps), NEW x \in Steps
    PROVE  /\ s \o <<x>> \in Seq(Steps) /\ Len(s \o <<x>>) = Len(s) + 1
           /\ \A i \in 1 .. Len(s) : (s \o <<x>>)[i] = s[i]
           /\ (s \o <<x>>)[Len(s) + 1] = x
OBVIOUS

\* The script s is the pushes r, then close, then perhaps a drain.
Drains(r) == (r \o Do("close")) \o Do("drain")
Closes(r, s) == s = r \o Do("close") \/ s = Drains(r)

ClosesAt(r, s) ==
    /\ s \in Seq(Steps) /\ Len(s) >= Len(r) + 1
    /\ \A i \in 1 .. Len(r) : s[i] = r[i]
    /\ \A i \in DOMAIN s : i > Len(r) => s[i].method = IF i = Len(r) + 1 THEN "close" ELSE "drain"
    /\ s = Drains(r) => Len(s) = Len(r) + 2
    /\ s = r \o Do("close") => Len(s) = Len(r) + 1

LEMMA ProducerScript ==
    ASSUME NEW r \in Seq(Steps), NEW s, Closes(r, s)
    PROVE  ClosesAt(r, s)
<1> USE DEF Closes, ClosesAt, Drains
<1>1. PICK c, d \in Steps : /\ c.method = "close" /\ Do("close") = <<c>>
                            /\ d.method = "drain" /\ Do("drain") = <<d>>
  BY DEF Do, Step, Steps, Methods
<1>2. PICK a : a = r \o <<c>>
  OBVIOUS
<1>3. /\ a \in Seq(Steps) /\ Len(a) = Len(r) + 1 /\ a[Len(r) + 1] = c
      /\ \A i \in 1 .. Len(r) : a[i] = r[i]
  BY <1>2, OneMore
<1>4. PICK b : b = a \o <<d>>
  OBVIOUS
<1>5. /\ b \in Seq(Steps) /\ Len(b) = Len(a) + 1 /\ b[Len(a) + 1] = d
      /\ \A i \in 1 .. Len(a) : b[i] = a[i]
  BY <1>3, <1>4, OneMore
<1>6. a = r \o Do("close") /\ b = (r \o Do("close")) \o Do("drain")
  BY <1>1, <1>2, <1>4
<1>7. Len(r) \in Nat
  OBVIOUS
<1>8. CASE s = a
  BY <1>1, <1>3, <1>5, <1>6, <1>7, <1>8
<1>9. CASE s = b
  BY <1>1, <1>3, <1>5, <1>6, <1>7, <1>9
<1> QED BY <1>6, <1>8, <1>9

\* The steps of the producer, one by one: k pushes, a close and a drain.
ProducerSteps(s, k) ==
    \A i \in DOMAIN s :
        IF i <= k THEN s[i].method \in Pushes /\ s[i].item = i
        ELSE s[i].method = IF i = k + 1 THEN "close" ELSE "drain"

LEMMA ScriptSteps ==
    ASSUME NEW r \in Seq(Steps), NEW s, ClosesAt(r, s),
           \A i \in 1 .. Len(r) : r[i].method \in Pushes /\ r[i].item = i
    PROVE  ProducerSteps(s, Len(r))
<1>1. Len(r) \in Nat /\ DOMAIN s = 1 .. Len(s) /\ Len(s) \in Nat
  BY DEF ClosesAt
<1>2. ASSUME NEW i \in DOMAIN s, i <= Len(r) PROVE s[i].method \in Pushes /\ s[i].item = i
  <2>1. i \in 1 .. Len(r)
    BY <1>1, <1>2
  <2>2. s[i] = r[i]
    BY <2>1 DEF ClosesAt
  <2> QED BY <2>1, <2>2
<1>3. ASSUME NEW i \in DOMAIN s, ~(i <= Len(r)) PROVE s[i].method = IF i = Len(r) + 1 THEN "close" ELSE "drain"
  <2>1. i > Len(r)
    BY <1>1, <1>3
  <2> QED BY <2>1 DEF ClosesAt
<1> QED BY <1>2, <1>3 DEF ProducerSteps

\* What a demo's script promises, from the scripts of its three threads.
LEMMA ScriptsOf ==
    ASSUME NEW d, NEW p \in Threads, p = Producer(d), NEW r \in Seq(Steps), Len(r) = Offered(d),
           \A i \in 1 .. Offered(d) : r[i].method \in Pushes /\ r[i].item = i,
           NEW s, Closes(r, s),
           DOMAIN Demos[d] = Threads, Demos[d] = [t \in Threads |-> Demos[d][t]], Demos[d][p] = s,
           \A t \in Threads \ {p} : Demos[d][t] = <<>> \/ Demos[d][t] = Do("pop") \/ Demos[d][t] = Do("drain"),
           d \in Alone => \A t \in Threads \ {p} : Demos[d][t] = <<>>,
           d \notin Alone => s = r \o Do("close"),
           d \notin {"tryPush", "timedPush"} => \A i \in 1 .. Offered(d) : r[i].method = "push",
           d \in {"tryPush", "timedPush"} => /\ \A i \in 1 .. Capacity : r[i].method # "pushFor"
                                             /\ r[Capacity + 1].method # "push",
           \/ d = "closeWakesWaiters" \/ s = Drains(r)
           \/ \E t \in Threads \ {p} : Demos[d][t] = Do("drain")
    PROVE  DemoScript(d)
<1>1. ClosesAt(r, s) /\ Len(r) \in Nat
  BY ProducerScript
<1>2. \A t \in Threads \ {p} : /\ Demos[d][t] \in Seq(Steps)
                               /\ \A i \in DOMAIN Demos[d][t] : Demos[d][t][i].method \in Pops
  <2>1. PICK q, x : q = Do("pop") /\ x = Do("drain")
    OBVIOUS
  <2>2. /\ q \in Seq(Steps) /\ Len(q) = 1 /\ q[1].method \in Pops
        /\ x \in Seq(Steps) /\ Len(x) = 1 /\ x[1].method \in Pops
    BY <2>1, DoIs DEF Pops, Methods
  <2>3. ASSUME NEW t \in Threads \ {p}
        PROVE  Demos[d][t] \in Seq(Steps) /\ \A i \in DOMAIN Demos[d][t] : Demos[d][t][i].method \in Pops
    <3>1. Demos[d][t] = <<>> \/ Demos[d][t] = q \/ Demos[d][t] = x
      BY <2>1
    <3>2. CASE Demos[d][t] = <<>>
      <4>1. <<>> \in Seq(Steps) /\ DOMAIN <<>> = {}
        OBVIOUS
      <4> QED BY <3>2, <4>1
    <3>3. CASE Demos[d][t] = q
      BY <2>2, <3>3
    <3>4. CASE Demos[d][t] = x
      BY <2>2, <3>4
    <3> QED BY <3>1, <3>2, <3>3, <3>4
  <2> QED BY <2>3
<1>3. Demos[d] \in [Threads -> Seq(Steps)]
  BY <1>1, <1>2 DEF ClosesAt
<1>4. \A i \in DOMAIN Demos[d][p] :
         IF i <= Offered(d) THEN Demos[d][p][i].method \in Pushes /\ Demos[d][p][i].item = i
         ELSE Demos[d][p][i].method = IF i = Offered(d) + 1 THEN "close" ELSE "drain"
  <2>1. DOMAIN s = 1 .. Len(s) /\ s = Demos[d][p] /\ Offered(d) = Len(r)
    BY <1>1 DEF ClosesAt
  <2>2. \A i \in 1 .. Len(r) : r[i].method \in Pushes /\ r[i].item = i
    BY <2>1
  <2>3. ProducerSteps(s, Len(r))
    BY <1>1, <2>2, ScriptSteps
  <2>4. ProducerSteps(Demos[d][p], Offered(d))
    BY <2>1, <2>3
  <2> QED BY <2>4 DEF ProducerSteps
<1>5. /\ d \notin {"tryPush", "timedPush"} => \A i \in 1 .. Offered(d) : s[i].method = "push"
      /\ d \in {"tryPush", "timedPush"} =>
            /\ \A i \in 1 .. Capacity : s[i].method # "pushFor"
            /\ s[Capacity + 1].method # "push"
  <2>1. d \in {"tryPush", "timedPush"} => Offered(d) = Capacity + 1
    BY DEF Offered
  <2>2. \A i \in 1 .. Offered(d) : s[i] = r[i]
    BY <1>1 DEF ClosesAt
  <2>3. \A i \in 1 .. Capacity + 1 : i \in 1 .. Capacity \/ i = Capacity + 1
    BY CapacityAssumption
  <2>4. Capacity + 1 \in 1 .. Capacity + 1 /\ \A i \in 1 .. Capacity : i \in 1 .. Capacity + 1
    BY CapacityAssumption
  <2> QED BY <2>1, <2>2, <2>3, <2>4
<1>6. d # "closeWakesWaiters" =>
         \E t \in Threads : Len(Demos[d][t]) > 0 /\ Demos[d][t][Len(Demos[d][t])].method = "drain"
  <2>1. CASE s = Drains(r)
    BY <1>1, <2>1 DEF ClosesAt
  <2>2. CASE \E t \in Threads \ {p} : Demos[d][t] = Do("drain")
    <3>1. Len(Do("drain")) = 1 /\ Do("drain")[1].method = "drain"
      BY DoIs
    <3> QED BY <2>2, <3>1
  <2> QED BY <2>1, <2>2
<1> QED BY <1>1, <1>2, <1>3, <1>4, <1>5, <1>6, CapacityAssumption DEF DemoScript, ClosesAt

LEMMA DemoScripts == DemoThreads => \A d \in DOMAIN Demos : DemoScript(d)
<1> SUFFICES ASSUME DemoThreads PROVE \A d \in DOMAIN Demos : DemoScript(d)
  OBVIOUS
<1> USE CapacityAssumption DEF DemoThreads
<1>1. DOMAIN Demos = {"basicProducerConsumer", "multipleWorkers", "tryPush", "timedPush",
                      "closeWakesWaiters", "gracefulDrain"}
  BY DEF Demos
<1>2. /\ \A n \in Nat : n <= Capacity + 1 => Repeat("push", n) \in Seq(Steps) /\ Len(Repeat("push", n)) = n
      /\ \A n \in Nat : n <= Capacity + 1 => \A i \in 1 .. n :
            Repeat("push", n)[i].method = "push" /\ Repeat("push", n)[i].item = i
  <2> HIDE DEF DemoThreads
  <2>1. ASSUME NEW n \in Nat, n <= Capacity + 1
        PROVE  /\ Repeat("push", n) \in Seq(Steps) /\ Len(Repeat("push", n)) = n
               /\ \A i \in 1 .. n :
                     Repeat("push", n)[i].method = "push" /\ Repeat("push", n)[i].item = i
    <3> DEFINE m == "push"
    <3>1. m \in Pushes
      BY DEF Pushes
    <3> HIDE DEF m
    <3>2. /\ Repeat(m, n) \in Seq(Steps) /\ Len(Repeat(m, n)) = n
          /\ \A i \in 1 .. n : Repeat(m, n)[i].method = m /\ Repeat(m, n)[i].item = i
      BY <2>1, <3>1, RepeatIs
    <3> QED BY <3>2 DEF m
  <2> QED BY <2>1
<1>3. DemoScript("basicProducerConsumer")
  <2>1. PICK d, r, s : /\ d = "basicProducerConsumer" /\ r = Repeat("push", Capacity + 1)
                       /\ s = r \o Do("close")
    OBVIOUS
  <2>2. Demos[d] = Script(<<>>, s, Do("drain"))
    BY <2>1 DEF Demos, basicProducerConsumerDemo
  <2>3. /\ DOMAIN Demos[d] = Threads /\ Demos[d] = [t \in Threads |-> Demos[d][t]]
        /\ Demos[d][Main] = <<>> /\ Demos[d][Worker1] = s /\ Demos[d][Worker2] = Do("drain")
    BY <2>2 DEF Script
  <2>4. /\ Producer(d) = Worker1 /\ Offered(d) = Capacity + 1
        /\ d \notin Alone /\ d \notin {"tryPush", "timedPush"}
    BY <2>1 DEF Producer, Offered, Alone
  <2>5. /\ r \in Seq(Steps) /\ Len(r) = Offered(d)
        /\ \A i \in 1 .. Offered(d) : r[i].method \in Pushes /\ r[i].item = i /\ r[i].method = "push"
    BY <1>2, <2>1, <2>4 DEF Pushes
  <2>6. Closes(r, s)
    BY <2>1 DEF Closes
  <2>7. DemoScript(d)
    <3>1. PICK p \in Threads : p = Producer(d) /\ Demos[d][p] = s
      BY <2>3, <2>4
    <3>2. \A t \in Threads \ {p} : Demos[d][t] = <<>> \/ Demos[d][t] = Do("pop") \/ Demos[d][t] = Do("drain")
      BY <2>3, <2>4, <3>1
    <3>3. /\ d \in Alone => \A t \in Threads \ {p} : Demos[d][t] = <<>>
          /\ d \notin Alone => s = r \o Do("close")
      BY <2>1, <2>3, <2>4, <3>1
    <3>4. \/ d = "closeWakesWaiters" \/ s = Drains(r)
          \/ \E t \in Threads \ {p} : Demos[d][t] = Do("drain")
      BY <2>1, <2>3, <2>4, <3>1
    <3> QED BY <2>3, <2>4, <2>5, <2>6, <3>1, <3>2, <3>3, <3>4, ScriptsOf
  <2> QED BY <2>1, <2>7
<1>4. DemoScript("multipleWorkers")
  <2>1. PICK d, r, s : /\ d = "multipleWorkers" /\ r = Repeat("push", Capacity + 1)
                       /\ s = r \o Do("close")
    OBVIOUS
  <2>2. Demos[d] = Script(s, Do("drain"), Do("drain"))
    BY <2>1 DEF Demos, multipleWorkersDemo
  <2>3. /\ DOMAIN Demos[d] = Threads /\ Demos[d] = [t \in Threads |-> Demos[d][t]]
        /\ Demos[d][Main] = s /\ Demos[d][Worker1] = Do("drain") /\ Demos[d][Worker2] = Do("drain")
    BY <2>2 DEF Script
  <2>4. /\ Producer(d) = Main /\ Offered(d) = Capacity + 1
        /\ d \notin Alone /\ d \notin {"tryPush", "timedPush"}
    BY <2>1 DEF Producer, Offered, Alone
  <2>5. /\ r \in Seq(Steps) /\ Len(r) = Offered(d)
        /\ \A i \in 1 .. Offered(d) : r[i].method \in Pushes /\ r[i].item = i /\ r[i].method = "push"
    BY <1>2, <2>1, <2>4 DEF Pushes
  <2>6. Closes(r, s)
    BY <2>1 DEF Closes
  <2>7. DemoScript(d)
    <3>1. PICK p \in Threads : p = Producer(d) /\ Demos[d][p] = s
      BY <2>3, <2>4
    <3>2. \A t \in Threads \ {p} : Demos[d][t] = <<>> \/ Demos[d][t] = Do("pop") \/ Demos[d][t] = Do("drain")
      BY <2>3, <2>4, <3>1
    <3>3. /\ d \in Alone => \A t \in Threads \ {p} : Demos[d][t] = <<>>
          /\ d \notin Alone => s = r \o Do("close")
      BY <2>1, <2>3, <2>4, <3>1
    <3>4. \/ d = "closeWakesWaiters" \/ s = Drains(r)
          \/ \E t \in Threads \ {p} : Demos[d][t] = Do("drain")
      BY <2>1, <2>3, <2>4, <3>1
    <3> QED BY <2>3, <2>4, <2>5, <2>6, <3>1, <3>2, <3>3, <3>4, ScriptsOf
  <2> QED BY <2>1, <2>7
<1>5. DemoScript("gracefulDrain")
  <2>1. PICK d, r, s : /\ d = "gracefulDrain" /\ r = Repeat("push", Capacity)
                       /\ s = Drains(r)
    OBVIOUS
  <2>2. Demos[d] = Script(s, <<>>, <<>>)
    BY <2>1 DEF Demos, gracefulDrainDemo, Drains
  <2>3. /\ DOMAIN Demos[d] = Threads /\ Demos[d] = [t \in Threads |-> Demos[d][t]]
        /\ Demos[d][Main] = s /\ Demos[d][Worker1] = <<>> /\ Demos[d][Worker2] = <<>>
    BY <2>2 DEF Script
  <2>4. /\ Producer(d) = Main /\ Offered(d) = Capacity
        /\ d \in Alone /\ d \notin {"tryPush", "timedPush"}
    BY <2>1 DEF Producer, Offered, Alone
  <2>5. /\ r \in Seq(Steps) /\ Len(r) = Offered(d)
        /\ \A i \in 1 .. Offered(d) : r[i].method \in Pushes /\ r[i].item = i /\ r[i].method = "push"
    BY <1>2, <2>1, <2>4 DEF Pushes
  <2>6. Closes(r, s)
    BY <2>1 DEF Closes
  <2>7. DemoScript(d)
    <3>1. PICK p \in Threads : p = Producer(d) /\ Demos[d][p] = s
      BY <2>3, <2>4
    <3>2. \A t \in Threads \ {p} : Demos[d][t] = <<>> \/ Demos[d][t] = Do("pop") \/ Demos[d][t] = Do("drain")
      BY <2>3, <2>4, <3>1
    <3>3. /\ d \in Alone => \A t \in Threads \ {p} : Demos[d][t] = <<>>
          /\ d \notin Alone => s = r \o Do("close")
      BY <2>1, <2>3, <2>4, <3>1
    <3>4. \/ d = "closeWakesWaiters" \/ s = Drains(r)
          \/ \E t \in Threads \ {p} : Demos[d][t] = Do("drain")
      BY <2>1, <2>3, <2>4, <3>1
    <3> QED BY <2>3, <2>4, <2>5, <2>6, <3>1, <3>2, <3>3, <3>4, ScriptsOf
  <2> QED BY <2>1, <2>7
<1>6. DemoScript("tryPush")
  <2>1. PICK d, r, s : /\ d = "tryPush" /\ r = Repeat("tryPush", Capacity + 1)
                       /\ s = Drains(r)
    OBVIOUS
  <2>2. Demos[d] = Script(s, <<>>, <<>>)
    BY <2>1 DEF Demos, tryPushDemo, Drains
  <2>3. /\ DOMAIN Demos[d] = Threads /\ Demos[d] = [t \in Threads |-> Demos[d][t]]
        /\ Demos[d][Main] = s /\ Demos[d][Worker1] = <<>> /\ Demos[d][Worker2] = <<>>
    BY <2>2 DEF Script
  <2>4. /\ Producer(d) = Main /\ Offered(d) = Capacity + 1
        /\ d \in Alone /\ d \in {"tryPush", "timedPush"}
    BY <2>1 DEF Producer, Offered, Alone
  <2>5. /\ r \in Seq(Steps) /\ Len(r) = Offered(d)
        /\ \A i \in 1 .. Offered(d) : r[i].method \in Pushes /\ r[i].item = i
        /\ \A i \in 1 .. Capacity : r[i].method # "pushFor"
        /\ r[Capacity + 1].method # "push"
    <3>1. /\ r \in Seq(Steps) /\ Len(r) = Capacity + 1
          /\ \A i \in 1 .. Capacity + 1 : r[i].method = "tryPush" /\ r[i].item = i
      BY <2>1, RepeatIs DEF Pushes
    <3> QED BY <2>4, <3>1 DEF Pushes
  <2>6. Closes(r, s)
    BY <2>1 DEF Closes
  <2>7. DemoScript(d)
    <3>1. PICK p \in Threads : p = Producer(d) /\ Demos[d][p] = s
      BY <2>3, <2>4
    <3>2. \A t \in Threads \ {p} : Demos[d][t] = <<>> \/ Demos[d][t] = Do("pop") \/ Demos[d][t] = Do("drain")
      BY <2>3, <2>4, <3>1
    <3>3. /\ d \in Alone => \A t \in Threads \ {p} : Demos[d][t] = <<>>
          /\ d \notin Alone => s = r \o Do("close")
      BY <2>1, <2>3, <2>4, <3>1
    <3>4. \/ d = "closeWakesWaiters" \/ s = Drains(r)
          \/ \E t \in Threads \ {p} : Demos[d][t] = Do("drain")
      BY <2>1, <2>3, <2>4, <3>1
    <3> QED BY <2>3, <2>4, <2>5, <2>6, <3>1, <3>2, <3>3, <3>4, ScriptsOf
  <2> QED BY <2>1, <2>7
<1>7. DemoScript("timedPush")
  <2>1. PICK d, r, s : /\ d = "timedPush" /\ r = Repeat("push", Capacity) \o <<Step("pushFor", Capacity + 1)>>
                       /\ s = Drains(r)
    OBVIOUS
  <2>2. Demos[d] = Script(s, <<>>, <<>>)
    BY <2>1 DEF Demos, timedPushDemo, Drains
  <2>3. /\ DOMAIN Demos[d] = Threads /\ Demos[d] = [t \in Threads |-> Demos[d][t]]
        /\ Demos[d][Main] = s /\ Demos[d][Worker1] = <<>> /\ Demos[d][Worker2] = <<>>
    BY <2>2 DEF Script
  <2>4. /\ Producer(d) = Main /\ Offered(d) = Capacity + 1
        /\ d \in Alone /\ d \in {"tryPush", "timedPush"}
    BY <2>1 DEF Producer, Offered, Alone
  <2>5. /\ r \in Seq(Steps) /\ Len(r) = Offered(d)
        /\ \A i \in 1 .. Offered(d) : r[i].method \in Pushes /\ r[i].item = i
        /\ \A i \in 1 .. Capacity : r[i].method # "pushFor"
        /\ r[Capacity + 1].method # "push"
    <3>1. PICK x \in Steps : x = Step("pushFor", Capacity + 1) /\ x.method = "pushFor" /\ x.item = Capacity + 1
      <4>1. Capacity + 1 \in Values
        OBVIOUS
      <4>2. PICK v \in Values : v = Capacity + 1
        BY <4>1
      <4>3. /\ Step("pushFor", v) \in Steps
            /\ Step("pushFor", v).method = "pushFor" /\ Step("pushFor", v).item = v
        <5> HIDE DEF DemoThreads
        <5> QED BY DEF Step, Steps, Methods
      <4> QED BY <4>2, <4>3
    <3>2. PICK a : a = Repeat("push", Capacity)
      OBVIOUS
    <3>3. /\ a \in Seq(Steps) /\ Len(a) = Capacity
          /\ \A i \in 1 .. Capacity : a[i].method = "push" /\ a[i].item = i
      BY <1>2, <3>2
    <3>4. /\ r \in Seq(Steps) /\ Len(r) = Capacity + 1 /\ r[Capacity + 1] = x
          /\ \A i \in 1 .. Capacity : r[i] = a[i]
      BY <2>1, <3>1, <3>2, <3>3, OneMore
    <3> QED BY <2>4, <3>1, <3>3, <3>4 DEF Pushes
  <2>6. Closes(r, s)
    BY <2>1 DEF Closes
  <2>7. DemoScript(d)
    <3>1. PICK p \in Threads : p = Producer(d) /\ Demos[d][p] = s
      BY <2>3, <2>4
    <3>2. \A t \in Threads \ {p} : Demos[d][t] = <<>> \/ Demos[d][t] = Do("pop") \/ Demos[d][t] = Do("drain")
      BY <2>3, <2>4, <3>1
    <3>3. /\ d \in Alone => \A t \in Threads \ {p} : Demos[d][t] = <<>>
          /\ d \notin Alone => s = r \o Do("close")
      BY <2>1, <2>3, <2>4, <3>1
    <3>4. \/ d = "closeWakesWaiters" \/ s = Drains(r)
          \/ \E t \in Threads \ {p} : Demos[d][t] = Do("drain")
      BY <2>1, <2>3, <2>4, <3>1
    <3> QED BY <2>3, <2>4, <2>5, <2>6, <3>1, <3>2, <3>3, <3>4, ScriptsOf
  <2> QED BY <2>1, <2>7
<1>8. DemoScript("closeWakesWaiters")
  <2>1. PICK d, r, s : /\ d = "closeWakesWaiters" /\ r = <<>>
                       /\ s = r \o Do("close")
    OBVIOUS
  <2>2. Demos[d] = Script(s, Do("pop"), <<>>)
    BY <2>1 DEF Demos, closeWakesWaitersDemo
  <2>3. /\ DOMAIN Demos[d] = Threads /\ Demos[d] = [t \in Threads |-> Demos[d][t]]
        /\ Demos[d][Main] = s /\ Demos[d][Worker1] = Do("pop") /\ Demos[d][Worker2] = <<>>
    BY <2>2 DEF Script
  <2>4. /\ Producer(d) = Main /\ Offered(d) = 0
        /\ d \notin Alone /\ d \notin {"tryPush", "timedPush"} /\ d = "closeWakesWaiters"
    BY <2>1 DEF Producer, Offered, Alone
  <2>5. /\ r \in Seq(Steps) /\ Len(r) = Offered(d)
        /\ \A i \in 1 .. Offered(d) : r[i].method \in Pushes /\ r[i].item = i /\ r[i].method = "push"
    BY <2>1, <2>4
  <2>6. Closes(r, s)
    BY <2>1 DEF Closes
  <2>7. DemoScript(d)
    <3>1. PICK p \in Threads : p = Producer(d) /\ Demos[d][p] = s
      BY <2>3, <2>4
    <3>2. \A t \in Threads \ {p} : Demos[d][t] = <<>> \/ Demos[d][t] = Do("pop") \/ Demos[d][t] = Do("drain")
      BY <2>3, <2>4, <3>1
    <3>3. /\ d \in Alone => \A t \in Threads \ {p} : Demos[d][t] = <<>>
          /\ d \notin Alone => s = r \o Do("close")
      BY <2>1, <2>3, <2>4, <3>1
    <3>4. \/ d = "closeWakesWaiters" \/ s = Drains(r)
          \/ \E t \in Threads \ {p} : Demos[d][t] = Do("drain")
      BY <2>1, <2>3, <2>4, <3>1
    <3>5. /\ \A i \in 1 .. Offered(d) : r[i].method \in Pushes /\ r[i].item = i
          /\ \A i \in 1 .. Offered(d) : r[i].method = "push"
          /\ d \notin {"tryPush", "timedPush"}
      BY <2>4, <2>5
    <3>6. p = Producer(d) /\ Demos[d][p] = s /\ r \in Seq(Steps) /\ Len(r) = Offered(d)
      BY <2>5, <3>1
    <3> QED BY <2>3, <2>6, <3>2, <3>3, <3>4, <3>5, <3>6, ScriptsOf
  <2> QED BY <2>1, <2>7
<1> QED BY <1>1, <1>3, <1>4, <1>5, <1>6, <1>7, <1>8

\* The step a thread is at tells how far the producer is.
AtStep(t, x, p, k) ==
    /\ x.method \in Methods \cup {"drain"}
    /\ x.method \in Pushes => t = p /\ k < Offered(demo) /\ x.item = k + 1 /\ x.item \in Values
    /\ x.method = "close" => t = p /\ k = Offered(demo)
    /\ t = p /\ x.method \in Pops => k > Offered(demo)
    /\ demo \in Alone => t = p
    /\ x.method = "push" /\ demo \in {"tryPush", "timedPush"} => k < Capacity
    /\ x.method \in {"tryPush", "pushFor"} => demo \in {"tryPush", "timedPush"}
    /\ x.method = "pushFor" => k = Capacity

LEMMA NowIs ==
    ASSUME ScriptInv, NEW t \in Threads, script[t] # <<>>
    PROVE  AtStep(t, Now(t), Producer(demo), Done(Producer(demo)))
<1> DEFINE D == Demos[demo]
<1>1. DemoScript(demo) /\ Producer(demo) \in Threads
  BY DemoScripts DEF DemoThreads, ScriptInv, Producer
<1>2. PICK p \in Threads : p = Producer(demo)
  BY <1>1
<1>3. /\ D \in [Threads -> Seq(Steps)] /\ D[t] \in Seq(Steps) /\ script[t] \in Seq(Steps)
      /\ Len(script[t]) <= Len(D[t]) /\ Len(script[t]) >= 1
      /\ \A i \in DOMAIN script[t] : script[t][i] = D[t][i + Done(t)]
  BY <1>1 DEF ScriptInv, DemoScript
<1>4. PICK k : k = Done(t)
  OBVIOUS
<1>5. PICK x \in Steps : x = Now(t) /\ k + 1 \in 1 .. Len(D[t]) /\ k \in Nat /\ x = D[t][k + 1]
  <2>1. k \in Nat /\ k + 1 \in 1 .. Len(D[t]) /\ 1 \in 1 .. Len(script[t]) /\ 1 + k = k + 1
    <3>1. PICK m, n \in Nat : m = Len(D[t]) /\ n = Len(script[t])
      BY <1>3, LenProperties
    <3>2. k = m - n /\ n <= m /\ n >= 1
      BY <1>3, <1>4, <3>1 DEF Done
    <3>3. k \in Nat /\ k + 1 >= 1 /\ k + 1 <= m /\ k + 1 \in Nat /\ 1 + k = k + 1
      BY <3>2
    <3>4. k + 1 \in 1 .. Len(D[t])
      BY <3>1, <3>3
    <3>5. 1 \in 1 .. Len(script[t])
      BY <3>1, <3>2
    <3> QED BY <3>3, <3>4, <3>5
  <2>2. Now(t) = script[t][1] /\ script[t][1] = D[t][1 + k]
    BY <1>3, <1>4, <2>1 DEF Now
  <2>3. D[t][k + 1] \in Steps
    BY <1>3, <2>1
  <2> QED BY <2>1, <2>2, <2>3
<1>6. x.method \in Methods \cup {"drain"}
  BY DEF Steps
<1>7. CASE t # p
  <2>1. x.method \in Pops
    BY <1>1, <1>2, <1>5, <1>7 DEF DemoScript
  <2>2. demo \notin Alone
    <3>1. D[t] # <<>>
      BY <1>5
    <3> QED BY <1>1, <1>2, <1>7, <3>1 DEF DemoScript
  <2> QED BY <1>2, <1>5, <1>6, <1>7, <2>1, <2>2 DEF AtStep, Pops, Pushes
<1>8. CASE t = p
  <2>1. Offered(demo) \in Nat /\ Offered(demo) <= Capacity + 1
    BY CapacityAssumption DEF Offered
  <2>2. IF k + 1 <= Offered(demo) THEN x.method \in Pushes /\ x.item = k + 1
        ELSE x.method = IF k + 1 = Offered(demo) + 1 THEN "close" ELSE "drain"
    BY <1>1, <1>2, <1>5, <1>8 DEF DemoScript
  <2>3. CASE k + 1 <= Offered(demo)
    <3>1. x.method \in Pushes /\ x.item = k + 1 /\ x.item \in Values /\ k < Offered(demo)
      BY <1>5, <2>1, <2>2, <2>3, CapacityAssumption DEF ScriptInv, DemoThreads
    <3>2. demo \notin {"tryPush", "timedPush"} => x.method = "push"
      BY <1>1, <1>2, <1>5, <1>8, <2>1, <2>3 DEF DemoScript
    <3>3. demo \in {"tryPush", "timedPush"} =>
             /\ k + 1 <= Capacity => x.method # "pushFor"
             /\ k + 1 = Capacity + 1 => x.method # "push"
      BY <1>1, <1>2, <1>5, <1>8, <2>1, <2>3 DEF DemoScript
    <3>4. k + 1 <= Capacity \/ k + 1 = Capacity + 1
      BY <1>5, <2>1, <2>3, CapacityAssumption
    <3> QED BY <1>2, <1>4, <1>5, <1>6, <1>8, <3>1, <3>2, <3>3, <3>4, CapacityAssumption DEF AtStep, Pops, Pushes
  <2>4. CASE ~(k + 1 <= Offered(demo))
    BY <1>2, <1>4, <1>5, <1>6, <1>8, <2>1, <2>2, <2>4 DEF AtStep, Pops, Pushes
  <2> QED BY <2>3, <2>4
<1> QED BY <1>7, <1>8

-----------------------------------------------------------------------------
(* What a step of a demo does                                              *)

\* A thread that does not run may be released from a wait.
Others(t) == \A u \in Threads \ {t} :
    /\ value'[u] = value[u] /\ result'[u] = result[u]
    /\ \/ pc'[u] = pc[u]
       \/ pc[u] = "pushBlocked" /\ pc'[u] = "pushAwake"
       \/ pc[u] = "pushForBlocked" /\ pc'[u] = "pushForAwake"
       \/ pc[u] = "popBlocked" /\ pc'[u] = "popAwake"

Stays == UNCHANGED <<script, accepted, taken>>
Ends(t) == script' = [script EXCEPT ![t] = Tail(@)]

ForLocations == {"pushForBlocked", "pushForAwake", "pushForExpired"}

AtPush(t) == Now(t).method \in Pushes /\ pc[t] \in PushLocations \cup {"idle"}
AtPop(t) == Now(t).method \in Pops /\ pc[t] \in {"idle", "popBlocked", "popAwake"}

PushWaits(t) == /\ AtPush(t) /\ Stays /\ UNCHANGED <<queue, closed>>
                /\ pc'[t] \in PushLocations /\ value'[t] = Now(t).item
                /\ pc'[t] \in ForLocations => Now(t).method = "pushFor"
                /\ pc'[t] \notin ForLocations => Now(t).method = "push"
Inserts(t) == /\ AtPush(t) /\ Stays /\ ~closed /\ Room
              /\ queue' = Append(queue, Now(t).item) /\ UNCHANGED closed
              /\ pc'[t] = "notifyNotEmpty" /\ result'[t]
Refuses(t) == /\ AtPush(t)
              /\ closed \/ (~Room /\ Now(t).method # "push")
              /\ UNCHANGED <<queue, closed, accepted, taken>>
              /\ Ends(t) /\ pc'[t] = "idle"
PushReturns(t) == /\ pc[t] = "notifyNotEmpty" /\ UNCHANGED <<queue, closed, taken>>
                  /\ Ends(t) /\ pc'[t] = "idle"
                  /\ accepted' = Append(accepted, Now(t).item)
PopWaits(t) == /\ AtPop(t) /\ Stays /\ UNCHANGED <<queue, closed>>
               /\ pc'[t] \in {"popBlocked", "popAwake"}
Takes(t) == /\ AtPop(t) /\ Stays /\ queue # <<>> /\ queue' = Tail(queue) /\ UNCHANGED closed
            /\ pc'[t] = "notifyNotFull" /\ value'[t] = Head(queue) /\ result'[t]
PopFails(t) == /\ AtPop(t) /\ queue = <<>> /\ closed
               /\ UNCHANGED <<queue, closed, accepted, taken>>
               /\ Ends(t) /\ pc'[t] = "idle"
PopReturns(t) == /\ pc[t] = "notifyNotFull" /\ UNCHANGED <<queue, closed, accepted>>
                 /\ IF Now(t).method = "drain" THEN UNCHANGED script ELSE Ends(t)
                 /\ taken' = [taken EXCEPT ![t] = Append(@, value[t])] /\ pc'[t] = "idle"
ClosesQueue(t) == /\ Now(t).method = "close" /\ pc[t] \in {"idle", "closeNotEmpty", "closeNotFull"}
                  /\ closed \/ pc[t] = "idle" => closed'
                  /\ UNCHANGED <<queue, accepted, taken>>
                  /\ \/ pc'[t] \in {"closeNotEmpty", "closeNotFull"} /\ UNCHANGED script
                     \/ pc'[t] = "idle" /\ Ends(t)

Does(t) == \/ PushWaits(t) \/ Inserts(t) \/ Refuses(t) \/ PushReturns(t)
           \/ PopWaits(t) \/ Takes(t) \/ PopFails(t) \/ PopReturns(t) \/ ClosesQueue(t)

LEMMA PushSectionDoes ==
    ASSUME TypeOK, NEW t \in Threads, script[t] # <<>>, AtPush(t), NEW v, v = Now(t).item,
           Advance(t), Observe(t),
           \/ Now(t).method = "push" /\ PushSection(t, v, "pushBlocked")
           \/ Now(t).method = "pushFor" /\ PushSection(t, v, "pushForBlocked")
           \/ InsertOrRefuse(t, v)
           \/ Now(t).method # "push" /\ ~Room /\ Decide(t, "idle", NoValue, FALSE) /\ UNCHANGED <<queue, closed>>
    PROVE  Others(t) /\ (PushWaits(t) \/ Inserts(t) \/ Refuses(t))
<1>1. CASE InsertOrRefuse(t, v)
  BY <1>1 DEF InsertOrRefuse, Decide, AtPush, Advance, Observe, Others, Inserts, Refuses, Stays, Ends, TypeOK,
              Pushes, Pops, Locations, PushLocations
<1>2. CASE Now(t).method # "push" /\ ~Room /\ Decide(t, "idle", NoValue, FALSE) /\ UNCHANGED <<queue, closed>>
  BY <1>2 DEF Decide, AtPush, Advance, Observe, Others, Refuses, Ends, TypeOK, Pushes, Pops
<1>3. ASSUME NEW b \in {"pushBlocked", "pushForBlocked"}, Block(t, b, v),
             Now(t).method = IF b = "pushForBlocked" THEN "pushFor" ELSE "push"
      PROVE  Others(t) /\ PushWaits(t)
  BY <1>3 DEF Block, AtPush, Advance, Observe, Others, PushWaits, Stays, TypeOK, PushLocations, ForLocations
<1> QED BY <1>1, <1>2, <1>3 DEF PushSection

LEMMA PopSectionDoes ==
    ASSUME TypeOK, NEW t \in Threads, script[t] # <<>>, AtPop(t), Advance(t), Observe(t), PopSection(t)
    PROVE  Others(t) /\ (PopWaits(t) \/ Takes(t) \/ PopFails(t))
<1>1. CASE queue # <<>> /\ queue' = Tail(queue) /\ Decide(t, "notifyNotFull", Head(queue), TRUE)
  BY <1>1 DEF PopSection, Decide, AtPop, Advance, Observe, Others, Takes, Stays, TypeOK, Pushes, Pops
<1>2. CASE queue = <<>> /\ closed /\ Decide(t, "idle", NoValue, FALSE) /\ UNCHANGED queue
  BY <1>2 DEF PopSection, Decide, AtPop, Advance, Observe, Others, PopFails, Ends, TypeOK, Pushes, Pops
<1>3. CASE queue = <<>> /\ ~closed /\ Block(t, "popBlocked", NoValue)
  BY <1>3 DEF PopSection, Block, AtPop, Advance, Observe, Others, PopWaits, Stays, TypeOK, Pushes, Pops
<1> QED BY <1>1, <1>2, <1>3 DEF PopSection

LEMMA StepDoes ==
    ASSUME TypeOK, ScriptInv, CallInv, NEW t \in Threads, Run(t) \/ Wake(t)
    PROVE  Others(t) /\ Does(t) /\ demo' = demo /\ script[t] # <<>>
<1>1. demo' = demo
  BY DEF Run, Wake
<1>2. CASE Run(t) /\ Begin(t)
  <2>1. script[t] # <<>> /\ Advance(t) /\ Observe(t)
    BY <1>2 DEF Run, Begin
  <2>2. CASE Now(t).method \in Pushes
    <3>1. /\ AtPush(t)
          /\ \/ Now(t).method = "push" /\ PushSection(t, Now(t).item, "pushBlocked")
             \/ Now(t).method = "pushFor" /\ PushSection(t, Now(t).item, "pushForBlocked")
             \/ InsertOrRefuse(t, Now(t).item)
             \/ /\ Now(t).method # "push" /\ ~Room /\ Decide(t, "idle", NoValue, FALSE)
                /\ UNCHANGED <<queue, closed>>
      BY <1>2, <2>2 DEF Begin, Push, TryPush, PushFor, Pushes, AtPush
    <3> QED BY <1>1, <2>1, <3>1, PushSectionDoes DEF Does
  <2>3. CASE Now(t).method \in Pops
    <3>1. AtPop(t) /\ PopSection(t)
      BY <1>2, <2>3 DEF Begin, Pop, Pops, AtPop
    <3> QED BY <1>1, <2>1, <3>1, PopSectionDoes DEF Does
  <2>4. CASE Now(t).method = "close"
    BY <1>1, <1>2, <2>1, <2>4 DEF Begin, Close, Advance, Observe, Others, Ends, ClosesQueue, Does, TypeOK
  <2>5. Now(t).method \in Methods \cup {"drain"}
    BY <2>1, NowIs DEF AtStep
  <2> QED BY <2>2, <2>3, <2>4, <2>5 DEF Methods, Pushes, Pops
<1>3. CASE Run(t) /\ Continue(t)
  <2>1. Advance(t) /\ Observe(t)
    BY <1>3 DEF Run
  <2>2. CASE PushResume(t) \/ PushForResume(t) \/ PushForLastTry(t)
    <3>1. /\ AtPush(t) /\ script[t] # <<>>
          /\ \/ Now(t).method = "push" /\ PushSection(t, Now(t).item, "pushBlocked")
             \/ Now(t).method = "pushFor" /\ PushSection(t, Now(t).item, "pushForBlocked")
             \/ InsertOrRefuse(t, Now(t).item)
             \/ /\ Now(t).method # "push" /\ ~Room /\ Decide(t, "idle", NoValue, FALSE)
                /\ UNCHANGED <<queue, closed>>
      BY <2>2 DEF PushResume, PushForResume, PushForLastTry, CallInv, InCall, Now, AtPush, PushLocations
    <3> QED BY <1>1, <2>1, <3>1, PushSectionDoes DEF Does
  <2>3. CASE PopResume(t)
    <3>1. script[t] # <<>> /\ AtPop(t) /\ PopSection(t)
      BY <2>3 DEF PopResume, CallInv, InCall, Now, AtPop, PushLocations
    <3> QED BY <1>1, <2>1, <3>1, PopSectionDoes DEF Does
  <2>4. CASE PushNotify(t)
    <3>1. script[t] # <<>> /\ Now(t).method \in Pushes /\ result[t] /\ pc[t] = "notifyNotEmpty"
      BY <2>4 DEF PushNotify, CallInv, InCall, Now, PushLocations
    <3>2. pc'[t] = "idle" /\ result' = result /\ Others(t)
      BY <2>4, <3>1 DEF PushNotify, NotifyOne, WaitingNotEmpty, Woken, Others, TypeOK
    <3> QED BY <1>1, <2>1, <2>4, <3>1, <3>2
            DEF PushNotify, NotifyOne, Advance, Observe, PushReturns, Ends, Does, Pushes, Pops
  <2>5. CASE PopNotify(t)
    <3>1. script[t] # <<>> /\ Now(t).method \in Pops /\ result[t] /\ pc[t] = "notifyNotFull"
      BY <2>5 DEF PopNotify, CallInv, InCall, Now, PushLocations
    <3>2. pc'[t] = "idle" /\ result' = result /\ Others(t)
      BY <2>5, <3>1 DEF PopNotify, NotifyOne, WaitingNotFull, Woken, Others, TypeOK
    <3> QED BY <1>1, <2>1, <2>5, <3>1, <3>2
            DEF PopNotify, NotifyOne, Advance, Observe, PopReturns, Ends, Does, Pushes, Pops
  <2>6. CASE CloseNotifyNotEmpty(t) \/ CloseNotifyNotFull(t)
    <3>1. script[t] # <<>> /\ Now(t).method = "close" /\ pc[t] \in {"closeNotEmpty", "closeNotFull"}
      BY <2>6 DEF CloseNotifyNotEmpty, CloseNotifyNotFull, CallInv, InCall, Now, PushLocations
    <3>2. Others(t) /\ UNCHANGED <<queue, closed, value, result>> /\ pc'[t] \in {"closeNotFull", "idle"}
      BY <2>6, <3>1 DEF CloseNotifyNotEmpty, CloseNotifyNotFull, NotifyAll, WaitingNotEmpty, WaitingNotFull,
                        Woken, Others, TypeOK
    <3> QED BY <1>1, <2>1, <3>1, <3>2 DEF Advance, Observe, ClosesQueue, Ends, Does, Pushes, Pops
  <2> QED BY <1>3, <2>2, <2>3, <2>4, <2>5, <2>6 DEF Continue
<1>4. CASE Wake(t)
  <2>1. Stays /\ UNCHANGED <<queue, closed, value, result>> /\ Others(t)
    BY <1>4 DEF Wake, PushForExpire, SpuriousWakeup, Stays, Others, TypeOK
  <2>2. CASE PushForExpire(t) \/ t \in WaitingNotFull
    <3>1. pc[t] \in PushLocations /\ pc'[t] \in PushLocations
          /\ (pc'[t] \in ForLocations <=> pc[t] \in ForLocations)
      BY <1>4, <2>2 DEF Wake, PushForExpire, SpuriousWakeup, WaitingNotFull, Woken, PushLocations, ForLocations, TypeOK
    <3> QED BY <1>1, <2>1, <3>1 DEF CallInv, InCall, Now, PushWaits, AtPush, Does, PushLocations, ForLocations
  <2>3. CASE SpuriousWakeup(t) /\ t \in WaitingNotEmpty
    <3>1. pc[t] = "popBlocked" /\ pc'[t] = "popAwake"
      BY <2>3 DEF SpuriousWakeup, WaitingNotEmpty, Woken, TypeOK
    <3> QED BY <1>1, <2>1, <3>1 DEF CallInv, InCall, Now, PopWaits, AtPop, Does, PushLocations
  <2> QED BY <1>4, <2>2, <2>3 DEF Wake, SpuriousWakeup
<1> QED BY <1>2, <1>3, <1>4 DEF Run

-----------------------------------------------------------------------------
(* Scripts and calls                                                       *)

LEMMA DoneType ==
    ASSUME ScriptInv, NEW t \in Threads
    PROVE  Done(t) \in Nat /\ Producer(demo) \in Threads
<1>1. DemoScript(demo)
  BY DemoScripts DEF ScriptInv
<1>2. Demos[demo][t] \in Seq(Steps) /\ script[t] \in Seq(Steps) /\ Len(script[t]) <= Len(Demos[demo][t])
  BY <1>1 DEF ScriptInv, DemoScript
<1>3. PICK m, n \in Nat : m = Len(Demos[demo][t]) /\ n = Len(script[t])
  BY <1>2, LenProperties
<1>4. Done(t) = m - n /\ n <= m
  BY <1>2, <1>3 DEF Done
<1> QED BY <1>3, <1>4 DEF ScriptInv, DemoThreads, Producer

LEMMA ScriptStep ==
    ASSUME ScriptInv, NEW t \in Threads, script[t] # <<>>, demo' = demo, UNCHANGED script \/ Ends(t)
    PROVE  /\ ScriptInv'
           /\ \A u \in Threads : Done(u)' = IF u = t /\ ~UNCHANGED script THEN Done(u) + 1 ELSE Done(u)
<1>1. CASE UNCHANGED script
  BY <1>1 DEF ScriptInv, Done
<1>2. CASE Ends(t) /\ ~UNCHANGED script
  <2>1. PICK s, r : s = script[t] /\ r = Tail(script[t])
    OBVIOUS
  <2>2. /\ s \in Seq(Steps) /\ r \in Seq(Steps) /\ Len(s) \in Nat /\ Len(s) >= 1 /\ Len(r) = Len(s) - 1
        /\ \A i \in 1 .. Len(r) : i + 1 \in 1 .. Len(s) /\ r[i] = s[i + 1]
    BY <2>1 DEF ScriptInv
  <2>3. script' = [script EXCEPT ![t] = r] /\ script \in [Threads -> Seq(Steps)]
    BY <1>2, <2>1 DEF Ends, ScriptInv
  <2>4. PICK m \in Nat, k \in Nat : m = Len(Demos[demo][t]) /\ k = Done(t) /\ k = m - Len(s)
    <3>1. DemoScript(demo)
      BY DemoScripts DEF ScriptInv
    <3>2. Len(Demos[demo][t]) \in Nat
      BY <3>1, LenProperties DEF DemoScript
    <3> QED BY <2>1, <3>2, DoneType DEF Done
  <2>5. Done(t)' = k + 1
    <3>1. Done(t)' = m - Len(r)
      BY <2>3, <2>4 DEF Done
    <3> QED BY <2>2, <2>4, <3>1
  <2>6. \A u \in Threads \ {t} : script'[u] = script[u] /\ Done(u)' = Done(u)
    BY <2>3 DEF Done
  <2>7. \A i \in 1 .. Len(r) : r[i] = Demos[demo][t][i + (k + 1)]
    <3>1. PICK f : f = Demos[demo][t]
      OBVIOUS
    <3>2. \A i \in DOMAIN s : s[i] = f[i + k]
      BY <2>1, <2>4, <3>1 DEF ScriptInv
    <3>3. DOMAIN s = 1 .. Len(s)
      BY <2>2
    <3>4. \A i \in Nat : (i + 1) + k = i + (k + 1)
      OBVIOUS
    <3>5. \A i \in 1 .. Len(r) : i \in Nat /\ i + 1 \in DOMAIN s /\ r[i] = s[i + 1]
      BY <2>2, <3>3
    <3> QED BY <3>1, <3>2, <3>4, <3>5
  <2>8. script'[t] = r /\ Len(r) <= m
    BY <2>2, <2>3, <2>4
  <2>9. script' \in [Threads -> Seq(Steps)]
    BY <2>2, <2>3
  <2>10. ASSUME NEW u \in Threads
         PROVE  /\ Len(script'[u]) <= Len(Demos[demo'][u])
                /\ \A i \in DOMAIN script'[u] : script'[u][i] = Demos[demo'][u][i + Done(u)']
    <3>1. CASE u = t
      <4>1. DOMAIN r = 1 .. Len(r)
        BY <2>2
      <4> QED BY <2>4, <2>5, <2>7, <2>8, <3>1, <4>1
    <3>2. CASE u # t
      BY <2>6, <3>2 DEF ScriptInv
    <3> QED BY <3>1, <3>2
  <2>11. ScriptInv'
    BY <2>9, <2>10 DEF ScriptInv
  <2> QED BY <1>2, <2>4, <2>5, <2>6, <2>11
<1> QED BY <1>1, <1>2

LEMMA CallStep ==
    ASSUME TypeOK, ScriptInv, CallInv, NEW t \in Threads, Others(t), Does(t), script[t] # <<>>
    PROVE  CallInv'
<1>1. UNCHANGED script \/ (Ends(t) /\ pc'[t] = "idle")
  <2>1. CASE PushWaits(t) \/ Inserts(t) \/ PopWaits(t) \/ Takes(t)
    BY <2>1 DEF PushWaits, Inserts, PopWaits, Takes, Stays
  <2>2. CASE Refuses(t) \/ PushReturns(t) \/ PopFails(t)
    BY <2>2 DEF Refuses, PushReturns, PopFails
  <2>3. CASE PopReturns(t) \/ ClosesQueue(t)
    BY <2>3 DEF PopReturns, ClosesQueue
  <2> QED BY <2>1, <2>2, <2>3 DEF Does
<1>2. script \in [Threads -> Seq(Steps)]
  BY DEF ScriptInv
<1>3. ASSUME NEW u \in Threads, u # t, pc'[u] # "idle"
      PROVE  InCall(pc'[u], value'[u], result'[u], script'[u])
  <2>1. script'[u] = script[u] /\ value'[u] = value[u] /\ result'[u] = result[u]
    BY <1>1, <1>2, <1>3 DEF Ends, Others
  <2>2. /\ InCall(pc[u], value[u], result[u], script[u])
        /\ \/ pc'[u] = pc[u]
           \/ pc[u] = "pushBlocked" /\ pc'[u] = "pushAwake"
           \/ pc[u] = "pushForBlocked" /\ pc'[u] = "pushForAwake"
           \/ pc[u] = "popBlocked" /\ pc'[u] = "popAwake"
    BY <1>3 DEF CallInv, Others
  <2> QED BY <2>1, <2>2 DEF InCall, PushLocations
<1>4. ASSUME pc'[t] # "idle"
      PROVE  InCall(pc'[t], value'[t], result'[t], script'[t])
  <2>1. script'[t] = script[t]
    BY <1>1, <1>4
  <2>2. CASE PushWaits(t) \/ Inserts(t)
    BY <2>1, <2>2 DEF PushWaits, Inserts, AtPush, InCall, Now, PushLocations, ForLocations
  <2>3. CASE PopWaits(t) \/ Takes(t)
    BY <2>1, <2>3 DEF PopWaits, Takes, AtPop, InCall, Now, PushLocations
  <2>4. CASE ClosesQueue(t)
    BY <1>4, <2>1, <2>4 DEF ClosesQueue, InCall, Now, PushLocations
  <2> QED BY <1>4, <2>2, <2>3, <2>4 DEF Does, Refuses, PushReturns, PopFails, PopReturns
<1> QED BY <1>3, <1>4 DEF CallInv

-----------------------------------------------------------------------------
(* The items                                                               *)

\* What a step does to the items: the next one gets into the queue, a thread
\* takes the oldest one, the push of the next one returns, or nothing.
Enters == /\ ~Inserted /\ Inserted' /\ ~closed /\ Room
          /\ Ahead' = Ahead + 1 /\ Ahead' \in Values /\ Ahead < Offered(demo)
          /\ queue' = Append(queue, Ahead') /\ hands' = hands /\ accepted' = accepted
Leaves(t) == /\ queue # <<>> /\ queue' = Tail(queue)
             /\ hands' = [hands EXCEPT ![t] = Append(@, Head(queue))]
             /\ Inserted' = Inserted /\ Ahead' = Ahead /\ accepted' = accepted
Answered == /\ Inserted /\ ~Inserted' /\ Ahead' = Ahead /\ Ahead \in Values
            /\ queue' = queue /\ hands' = hands /\ accepted' = Append(accepted, Ahead)
Nothing == /\ Inserted' = Inserted /\ Ahead' \in {Ahead, Ahead + 1} /\ (Inserted => Ahead' = Ahead)
           /\ queue' = queue /\ hands' = hands /\ accepted' = accepted

ItemMoves(t) == Enters \/ Leaves(t) \/ Answered \/ Nothing

\* Hands change when a pop has taken an item, and at no other step.
LEMMA HandsStep ==
    ASSUME TypeOK, ScriptInv, ItemInv, NEW t \in Threads, Others(t), Does(t)
    PROVE  hands' = IF Takes(t) THEN [hands EXCEPT ![t] = Append(@, Head(queue))] ELSE hands
<1>1. /\ pc \in [Threads -> Locations] /\ value \in [Threads -> Values \cup {NoValue}]
      /\ taken \in [Threads -> Seq(Values)]
  BY DEF TypeOK, ItemInv
<1>2. hands' = [u \in Threads |-> IF pc'[u] = "notifyNotFull" THEN Append(taken'[u], value'[u]) ELSE taken'[u]]
  BY DEF hands
<1>3. \A u \in Threads \ {t} : (pc'[u] = "notifyNotFull" <=> pc[u] = "notifyNotFull") /\ value'[u] = value[u]
  BY DEF Others
<1>4. CASE Takes(t)
  <2>1. /\ pc[t] # "notifyNotFull" /\ pc'[t] = "notifyNotFull" /\ value'[t] = Head(queue) /\ taken' = taken
    BY <1>4 DEF Takes, AtPop, Stays
  <2> QED BY <1>2, <1>3, <1>4, <2>1 DEF hands
<1>5. CASE PopReturns(t)
  <2>1. /\ pc[t] = "notifyNotFull" /\ pc'[t] = "idle" /\ ~Takes(t)
        /\ taken' = [taken EXCEPT ![t] = Append(@, value[t])]
    BY <1>5 DEF PopReturns, Takes, AtPop
  <2> QED BY <1>1, <1>2, <1>3, <2>1 DEF hands
<1>6. CASE ~Takes(t) /\ ~PopReturns(t)
  <2>1. taken' = taken /\ pc[t] # "notifyNotFull" /\ pc'[t] # "notifyNotFull"
    BY <1>6 DEF Does, PushWaits, Inserts, Refuses, PushReturns, PopWaits, PopFails, ClosesQueue, AtPush, AtPop,
                Stays, PushLocations
  <2> QED BY <1>2, <1>3, <1>6, <2>1 DEF hands
<1> QED BY <1>4, <1>5, <1>6

LEMMA ItemsMove ==
    ASSUME TypeOK, ScriptInv, CallInv, ItemInv, NEW t \in Threads, Others(t), Does(t), script[t] # <<>>, demo' = demo
    PROVE  ItemMoves(t)
<1>1. PICK p \in Threads, k \in Nat : p = Producer(demo) /\ k = Done(p)
  BY DoneType
<1>2. AtStep(t, Now(t), p, k)
  BY <1>1, NowIs
<1>3. UNCHANGED script \/ Ends(t)
  BY DEF Does, PushWaits, Inserts, Refuses, PushReturns, PopWaits, Takes, PopFails, PopReturns, ClosesQueue, Stays
<1>4. Done(p)' = IF p = t /\ ~UNCHANGED script THEN k + 1 ELSE k
  BY <1>1, <1>3, ScriptStep
<1>5. PICK j : j = Done(p)' /\ j \in {k, k + 1} /\ (UNCHANGED script \/ p # t => j = k)
  BY <1>4
<1>6. /\ Inserted <=> pc[p] = "notifyNotEmpty"
      /\ Inserted' <=> pc'[p] = "notifyNotEmpty"
      /\ Ahead = k + IF Inserted THEN 1 ELSE 0
      /\ Ahead' = j + IF Inserted' THEN 1 ELSE 0
      /\ Inserted \in BOOLEAN /\ Inserted' \in BOOLEAN
  BY <1>1, <1>5 DEF Inserted, Ahead
<1>7. t # p => (Inserted' <=> Inserted)
  BY <1>6 DEF Others
<1>8. hands' = IF Takes(t) THEN [hands EXCEPT ![t] = Append(@, Head(queue))] ELSE hands
  BY HandsStep
<1>9. CASE Inserts(t)
  <2>1. /\ t = p /\ k < Offered(demo) /\ Now(t).item = k + 1 /\ Now(t).item \in Values
        /\ ~Inserted /\ Inserted' /\ j = k /\ ~Takes(t)
    BY <1>2, <1>5, <1>6, <1>9 DEF Inserts, AtPush, AtStep, Stays, PushLocations, Takes
  <2> QED BY <1>6, <1>8, <1>9, <2>1 DEF Inserts, Stays, Enters, ItemMoves
<1>10. CASE Takes(t)
  <2>1. j = k /\ (Inserted' <=> Inserted)
    BY <1>5, <1>6, <1>7, <1>10 DEF Takes, AtPop, Stays
  <2> QED BY <1>6, <1>8, <1>10, <2>1 DEF Takes, Stays, Leaves, ItemMoves
<1>11. CASE PushReturns(t)
  <2>1. Now(t).method \in Pushes
    BY <1>11 DEF PushReturns, CallInv, InCall, Now
  <2>2. t = p /\ Now(t).item = k + 1 /\ Now(t).item \in Values
    BY <1>2, <2>1 DEF AtStep
  <2>3. Inserted /\ ~Inserted'
    BY <1>6, <1>11, <2>2 DEF PushReturns
  <2>4. j = k + 1 /\ ~Takes(t)
    <3>1. script' # script
      BY <1>11 DEF PushReturns, Ends, ScriptInv
    <3> QED BY <1>4, <1>5, <1>11, <2>2, <3>1 DEF Takes, AtPop, PushReturns
  <2> QED BY <1>6, <1>8, <1>11, <2>2, <2>3, <2>4 DEF PushReturns, Answered, ItemMoves
<1>12. CASE ~Inserts(t) /\ ~Takes(t) /\ ~PushReturns(t)
  <2>1. /\ queue' = queue /\ accepted' = accepted
        /\ pc[t] # "notifyNotEmpty" /\ pc'[t] # "notifyNotEmpty"
    BY <1>12 DEF Does, PushWaits, Refuses, PopWaits, PopFails, PopReturns, ClosesQueue, AtPush, AtPop,
                 Stays, PushLocations
  <2>2. Inserted' = Inserted /\ (Inserted => t # p)
    BY <1>6, <1>7, <2>1
  <2> QED BY <1>5, <1>6, <1>8, <1>12, <2>1, <2>2 DEF Nothing, ItemMoves
<1> QED BY <1>9, <1>10, <1>11, <1>12

LEMMA AppendIs ==
    ASSUME NEW V, NEW s \in Seq(V), NEW b \in V, NEW r, r = Append(s, b)
    PROVE  /\ r \in Seq(V) /\ Len(s) \in Nat /\ DOMAIN s = 1 .. Len(s) /\ DOMAIN r = 1 .. Len(s) + 1
           /\ r[Len(s) + 1] = b /\ Len(s) + 1 \in DOMAIN r
           /\ \A i \in DOMAIN s : r[i] = s[i] /\ i \in DOMAIN r /\ i < Len(s) + 1
           /\ \A i \in DOMAIN r : i \in DOMAIN s \/ i = Len(s) + 1
OBVIOUS

LEMMA TailIs ==
    ASSUME NEW V, NEW s \in Seq(V), s # <<>>, NEW r, r = Tail(s)
    PROVE  /\ r \in Seq(V) /\ Len(r) \in Nat /\ DOMAIN r = 1 .. Len(r) /\ DOMAIN s = 1 .. Len(r) + 1
           /\ Head(s) \in V /\ Head(s) = s[1] /\ 1 \in DOMAIN s
           /\ \A i \in DOMAIN r : r[i] = s[i + 1] /\ i + 1 \in DOMAIN s /\ 1 < i + 1 /\ i \in Nat
           /\ \A i \in DOMAIN s : i = 1 \/ \E j \in DOMAIN r : i = j + 1
<1>1. /\ r \in Seq(V) /\ Len(r) \in Nat /\ DOMAIN r = 1 .. Len(r) /\ DOMAIN s = 1 .. Len(r) + 1
      /\ Head(s) \in V /\ Head(s) = s[1] /\ 1 \in DOMAIN s
      /\ \A i \in DOMAIN r : r[i] = s[i + 1] /\ i + 1 \in DOMAIN s /\ 1 < i + 1 /\ i \in Nat
  OBVIOUS
<1>2. ASSUME NEW i \in DOMAIN s, i # 1 PROVE i - 1 \in DOMAIN r /\ i = (i - 1) + 1
  BY <1>1, <1>2
<1> QED BY <1>1, <1>2

\* What is in a sequence that was appended to, or taken from.
LEMMA AppendHas ==
    ASSUME NEW V, NEW s \in Seq(V), NEW b \in V, NEW v
    PROVE  Has(Append(s, b), v) <=> (v = b \/ Has(s, v))
<1>1. PICK r : r = Append(s, b)
  OBVIOUS
<1>2. Has(r, v) <=> (v = b \/ Has(s, v))
  BY <1>1, AppendIs DEF Has
<1> QED BY <1>1, <1>2

LEMMA TailHas ==
    ASSUME NEW V, NEW s \in Seq(V), s # <<>>, NEW v
    PROVE  Has(s, v) <=> (v = Head(s) \/ Has(Tail(s), v))
<1>0. PICK r : r = Tail(s)
  OBVIOUS
<1>1. /\ Head(s) = s[1] /\ 1 \in DOMAIN s /\ DOMAIN r = 1 .. Len(r) /\ DOMAIN s = 1 .. Len(r) + 1
      /\ Len(r) \in Nat /\ \A i \in DOMAIN r : r[i] = s[i + 1] /\ i + 1 \in DOMAIN s
  BY <1>0
<1>2. Has(s, v) => v = Head(s) \/ Has(r, v)
  <2> SUFFICES ASSUME NEW i \in DOMAIN s, s[i] = v, i # 1 PROVE Has(r, v)
    BY <1>1 DEF Has
  <2>1. i - 1 \in DOMAIN r /\ i = (i - 1) + 1
    BY <1>1
  <2>2. r[i - 1] = v
    BY <1>1, <2>1
  <2> QED BY <2>1, <2>2 DEF Has
<1>3. v = Head(s) \/ Has(r, v) => Has(s, v)
  BY <1>1 DEF Has
<1> QED BY <1>0, <1>2, <1>3

LEMMA HandsType ==
    ASSUME TypeOK, ScriptInv, ItemInv
    PROVE  /\ hands \in [Threads -> Seq(Values)] /\ queue \in Seq(Values) /\ Ahead \in Nat
           /\ \A v \in Values : v \in Int
<1>1. \A t \in Threads : pc[t] = "notifyNotFull" => value[t] \in Values
  BY DEF TypeOK
<1>2. hands \in [Threads -> Seq(Values)]
  BY <1>1 DEF hands, ItemInv
<1>3. Ahead \in Nat
  <2>1. PICK p \in Threads : p = Producer(demo)
    BY DEF ScriptInv, DemoThreads, Producer
  <2>2. PICK k \in Nat : k = Done(p)
    BY DoneType
  <2> QED BY <2>1, <2>2 DEF Ahead
<1> QED BY <1>2, <1>3, CapacityAssumption DEF TypeOK, ScriptInv, DemoThreads

LEMMA TakenStep ==
    ASSUME TypeOK, ItemInv, NEW t \in Threads, Does(t)
    PROVE  taken' \in [Threads -> Seq(Values)]
<1>1. taken \in [Threads -> Seq(Values)] /\ (pc[t] = "notifyNotFull" => value[t] \in Values)
  BY DEF TypeOK, ItemInv
<1>2. CASE PopReturns(t)
  BY <1>1, <1>2 DEF PopReturns
<1>3. CASE ~PopReturns(t)
  BY <1>1, <1>3 DEF Does, PushWaits, Inserts, Refuses, PushReturns, PopWaits, Takes, PopFails, ClosesQueue, Stays
<1> QED BY <1>2, <1>3

LEMMA ItemStep ==
    ASSUME TypeOK, ScriptInv, ItemInv, NEW t \in Threads, Does(t), ItemMoves(t)
    PROVE  ItemInv'
<1>1. taken' \in [Threads -> Seq(Values)]
  BY TakenStep
<1>2. PICK q, h, a : q = queue /\ h = hands /\ a = Ahead
  OBVIOUS
<1>3. /\ h \in [Threads -> Seq(Values)] /\ q \in Seq(Values) /\ a \in Nat
      /\ \A v \in Values : v \in Int
  BY <1>2, HandsType
<1>4. /\ \A i, j \in DOMAIN q : i < j => q[i] < q[j]
      /\ \A u \in Threads : \A i, j \in DOMAIN h[u] : i < j => h[u][i] < h[u][j]
      /\ \A u, w \in Threads : \A i \in DOMAIN h[u], j \in DOMAIN h[w] :
            h[u][i] = h[w][j] => u = w /\ i = j
      /\ \A u \in Threads : \A i \in DOMAIN h[u], j \in DOMAIN q : h[u][i] < q[j]
      /\ \A i \in DOMAIN q : q[i] <= a
      /\ \A u \in Threads : \A i \in DOMAIN h[u] : h[u][i] <= a
  BY <1>2 DEF ItemInv
<1>5. CASE Enters
  <2>1. PICK b \in Values : b = a + 1 /\ Ahead' = b /\ queue' = Append(q, b) /\ hands' = h
    BY <1>2, <1>5 DEF Enters
  <2>2. PICK r : r = Append(q, b)
    OBVIOUS
  <2>3. /\ r \in Seq(Values) /\ queue' = r /\ Len(q) \in Nat
        /\ DOMAIN q = 1 .. Len(q) /\ DOMAIN r = 1 .. Len(q) + 1 /\ r[Len(q) + 1] = b
        /\ \A i \in DOMAIN q : r[i] = q[i] /\ r[i] < b /\ i < Len(q) + 1 /\ q[i] \in Int
        /\ \A i \in DOMAIN r : i \in DOMAIN q \/ i = Len(q) + 1
    <3>1. /\ r \in Seq(Values) /\ Len(q) \in Nat /\ DOMAIN q = 1 .. Len(q) /\ DOMAIN r = 1 .. Len(q) + 1
          /\ r[Len(q) + 1] = b /\ \A i \in DOMAIN q : r[i] = q[i] /\ i < Len(q) + 1
          /\ \A i \in DOMAIN r : i \in DOMAIN q \/ i = Len(q) + 1
      BY <1>3, <2>2, AppendIs
    <3>2. \A i \in DOMAIN q : q[i] \in Int /\ q[i] <= a
      BY <1>3, <1>4
    <3> QED BY <1>3, <2>1, <2>2, <3>1, <3>2
  <2>4. \A u \in Threads : \A i \in DOMAIN h[u] : h[u][i] < b /\ h[u][i] <= b
    <3>1. \A u \in Threads : \A i \in DOMAIN h[u] : h[u][i] \in Int /\ h[u][i] <= a
      BY <1>3, <1>4
    <3> QED BY <1>3, <2>1, <3>1
  <2>5. \A i, j \in DOMAIN r : i < j => r[i] < r[j]
    BY <1>4, <2>3
  <2>6. \A i \in DOMAIN r : r[i] <= b
    BY <1>3, <2>1, <2>3
  <2>7. \A u \in Threads : \A i \in DOMAIN h[u], j \in DOMAIN r : h[u][i] < r[j]
    BY <1>4, <2>3, <2>4
  <2> QED BY <1>1, <1>4, <2>1, <2>3, <2>4, <2>5, <2>6, <2>7 DEF ItemInv
<1>6. CASE Leaves(t)
  <2>1. PICK b, r, g : /\ b = Head(q) /\ r = Tail(q) /\ q # <<>> /\ b \in Values
                       /\ g = [h EXCEPT ![t] = Append(@, b)]
                       /\ queue' = r /\ hands' = g /\ Ahead' = a
    <3>1. q # <<>> /\ Head(q) \in Values
      BY <1>2, <1>3, <1>6 DEF Leaves
    <3> QED BY <1>2, <1>6, <3>1 DEF Leaves
  <2>2. /\ Len(r) \in Nat /\ DOMAIN r = 1 .. Len(r) /\ DOMAIN q = 1 .. Len(r) + 1 /\ b = q[1] /\ 1 \in DOMAIN q
        /\ \A i \in DOMAIN r : r[i] = q[i + 1] /\ i + 1 \in DOMAIN q /\ 1 < i + 1 /\ i \in Nat
    BY <1>3, <2>1, TailIs
  <2>3. /\ b <= a
        /\ \A i \in DOMAIN r : b < r[i] /\ r[i] <= a
        /\ \A u \in Threads : \A i \in DOMAIN h[u] : h[u][i] < b /\ h[u][i] \in Int
    <3>1. b <= a /\ \A i \in DOMAIN r : b < r[i] /\ r[i] <= a
      BY <1>4, <2>2
    <3>2. \A u \in Threads : \A i \in DOMAIN h[u] : h[u][i] < b
      BY <1>4, <2>2
    <3>3. \A u \in Threads : \A i \in DOMAIN h[u] : h[u][i] \in Int
      BY <1>3
    <3> QED BY <3>1, <3>2, <3>3
  <2>4. PICK n \in Nat : n = Len(h[t]) + 1
    BY <1>3
  <2>5. /\ \A u \in Threads \ {t} : g[u] = h[u]
        /\ DOMAIN h[t] = 1 .. n - 1 /\ DOMAIN g[t] = 1 .. n /\ g[t][n] = b
        /\ \A i \in DOMAIN h[t] : g[t][i] = h[t][i]
        /\ \A i \in DOMAIN g[t] : i \in DOMAIN h[t] \/ i = n
    BY <1>3, <2>1, <2>4
  <2>6. \A i, j \in DOMAIN r : i < j => r[i] < r[j]
    BY <1>4, <2>2
  <2>7. \A u \in Threads : \A i \in DOMAIN g[u] :
           \/ i \in DOMAIN h[u] /\ g[u][i] = h[u][i]
           \/ u = t /\ i = n /\ g[u][i] = b
    BY <2>5
  <2>8. \A u \in Threads : \A i, j \in DOMAIN g[u] : i < j => g[u][i] < g[u][j]
    <3>1. \A u \in Threads \ {t} : \A i, j \in DOMAIN g[u] : i < j => g[u][i] < g[u][j]
      BY <1>4, <2>5
    <3>2. \A i, j \in DOMAIN g[t] : i < j => g[t][i] < g[t][j]
      BY <1>4, <2>3, <2>4, <2>5
    <3> QED BY <3>1, <3>2
  <2>9. \A u, w \in Threads : \A i \in DOMAIN g[u], j \in DOMAIN g[w] : g[u][i] = g[w][j] => u = w /\ i = j
    <3> SUFFICES ASSUME NEW u \in Threads, NEW w \in Threads, NEW i \in DOMAIN g[u], NEW j \in DOMAIN g[w],
                        g[u][i] = g[w][j]
                 PROVE  u = w /\ i = j
      OBVIOUS
    <3>1. b \in Int
      BY <1>3, <2>1
    <3>2. CASE i \in DOMAIN h[u] /\ g[u][i] = h[u][i]
      <4>1. ~(w = t /\ j = n /\ g[w][j] = b)
        <5>1. h[u][i] < b /\ h[u][i] \in Int
          BY <2>3, <3>2
        <5> QED BY <3>1, <3>2, <5>1
      <4>2. j \in DOMAIN h[w] /\ g[w][j] = h[w][j]
        BY <2>7, <4>1
      <4>3. h[u][i] = h[w][j] /\ i \in DOMAIN h[u]
        BY <3>2, <4>2
      <4> QED BY <1>4, <4>2, <4>3
    <3>3. CASE u = t /\ i = n /\ g[u][i] = b
      <4>1. w = t /\ j = n
        BY <2>3, <2>7, <3>1, <3>3
      <4> QED BY <3>3, <4>1
    <3> QED BY <2>7, <3>2, <3>3
  <2>10. \A u \in Threads : \A i \in DOMAIN g[u] : g[u][i] <= a /\ \A j \in DOMAIN r : g[u][i] < r[j]
    BY <1>4, <2>2, <2>3, <2>7
  <2>11. \A i \in DOMAIN r : r[i] <= a
    BY <2>3
  <2> HIDE DEF ItemInv
  <2>12. PICK c, d : c = queue' /\ d = hands' /\ c = r /\ d = g /\ Ahead' = a
    BY <2>1
  <2> QED BY <1>1, <2>6, <2>8, <2>9, <2>10, <2>11, <2>12 DEF ItemInv
<1>7. CASE Answered \/ Nothing
  <2>1. queue' = q /\ hands' = h /\ Ahead' \in {a, a + 1}
    BY <1>2, <1>7 DEF Answered, Nothing
  <2>2. /\ \A i \in DOMAIN q : q[i] <= Ahead'
        /\ \A u \in Threads : \A i \in DOMAIN h[u] : h[u][i] <= Ahead'
    BY <1>3, <1>4, <2>1
  <2> QED BY <1>1, <1>4, <2>1, <2>2 DEF ItemInv
<1> QED BY <1>5, <1>6, <1>7 DEF ItemMoves

LEMMA PlacedStep ==
    ASSUME TypeOK, ScriptInv, ItemInv, NEW t \in Threads, ItemMoves(t), NEW v
    PROVE  Placed(v)' <=> Placed(v) \/ (Enters /\ v = Ahead')
<1>1. PICK q, h : q = queue /\ h = hands
  OBVIOUS
<1>2. h \in [Threads -> Seq(Values)] /\ q \in Seq(Values)
  BY <1>1, HandsType
<1>3. CASE Enters
  <2>1. PICK b, r : b = Ahead' /\ b \in Values /\ queue' = r /\ r = Append(q, b) /\ hands' = h
    BY <1>1, <1>3 DEF Enters
  <2>2. Has(Append(q, b), v) <=> (v = b \/ Has(q, v))
    BY <1>2, <2>1, AppendHas
  <2> QED BY <1>1, <1>3, <2>1, <2>2 DEF Placed
<1>4. CASE Leaves(t)
  <2>1. PICK b, r, g : /\ b = Head(q) /\ r = Tail(q) /\ q # <<>> /\ g = [h EXCEPT ![t] = Append(@, b)]
                       /\ queue' = r /\ hands' = g
    BY <1>1, <1>4 DEF Leaves
  <2>2. Has(q, v) <=> (v = Head(q) \/ Has(Tail(q), v))
    BY <1>2, <2>1, TailHas
  <2>3. Has(g[t], v) <=> (v = b \/ Has(h[t], v))
    <3>0. Head(q) \in Values
      BY <1>2, <2>1
    <3>1. PICK x, y : x = h[t] /\ y = g[t] /\ x \in Seq(Values) /\ y = Append(x, b) /\ b \in Values
      BY <1>2, <2>1, <3>0
    <3>2. Has(Append(x, b), v) <=> (v = b \/ Has(x, v))
      BY <3>1, AppendHas
    <3> QED BY <3>1, <3>2
  <2>4. \A u \in Threads \ {t} : g[u] = h[u]
    BY <2>1
  <2>5. ~Enters
    BY <1>4 DEF Leaves, Enters
  <2> QED BY <1>1, <2>1, <2>2, <2>3, <2>4, <2>5 DEF Placed
<1>5. CASE Answered \/ Nothing
  BY <1>5 DEF Answered, Nothing, Enters, Placed
<1> QED BY <1>3, <1>4, <1>5 DEF ItemMoves

LEMMA AcceptStep ==
    ASSUME TypeOK, ScriptInv, ItemInv, AcceptInv, NEW t \in Threads, ItemMoves(t)
    PROVE  AcceptInv'
<1>1. \A v : Placed(v)' <=> Placed(v) \/ (Enters /\ v = Ahead')
  BY PlacedStep
<1>2. PICK s : s = accepted
  OBVIOUS
<1>3. /\ s \in Seq(Values) /\ \A i \in DOMAIN s : Placed(s[i])
      /\ Inserted => Placed(Ahead)
      /\ \A v \in Values : Placed(v) => Has(s, v) \/ (Inserted /\ v = Ahead)
  BY <1>2 DEF AcceptInv
<1>4. CASE Enters
  BY <1>1, <1>2, <1>3, <1>4 DEF Enters, AcceptInv
<1>5. CASE Leaves(t) \/ Nothing
  BY <1>1, <1>2, <1>3, <1>5 DEF Leaves, Nothing, Enters, AcceptInv
<1>6. CASE Answered
  <2>1. PICK b, r : b \in Values /\ b = Ahead /\ r = Append(s, b) /\ accepted' = r /\ Inserted /\ ~Inserted' /\ Ahead' = b
    BY <1>2, <1>6 DEF Answered
  <2>2. r \in Seq(Values) /\ \A v : Has(r, v) <=> (v = b \/ Has(s, v))
    <3>1. \A v : Has(Append(s, b), v) <=> (v = b \/ Has(s, v))
      BY <1>3, <2>1, AppendHas
    <3> QED BY <1>3, <2>1, <3>1
  <2>3. \A v : Placed(v) => Placed(v)'
    BY <1>1
  <2> QED BY <1>1, <1>3, <1>6, <2>1, <2>2, <2>3 DEF AcceptInv, Enters
<1> QED BY <1>4, <1>5, <1>6 DEF ItemMoves

-----------------------------------------------------------------------------
(* How far a demo is                                                       *)

\* What the producer has done, before and after a step.
LEMMA ProducerStep ==
    ASSUME ScriptInv, NEW t \in Threads, Does(t), script[t] # <<>>, demo' = demo
    PROVE  \E p \in Threads, k \in Nat, j \in Nat :
              /\ p = Producer(demo) /\ k = Done(Producer(demo)) /\ j = Done(Producer(demo))'
              /\ j = IF p = t /\ ~UNCHANGED script THEN k + 1 ELSE k
              /\ AtStep(t, Now(t), p, k)
              /\ Offered(demo) \in Nat /\ Admitted(demo) \in Nat
<1>1. PICK p \in Threads, k \in Nat : p = Producer(demo) /\ k = Done(p)
  BY DoneType
<1>2. UNCHANGED script \/ Ends(t)
  BY DEF Does, PushWaits, Inserts, Refuses, PushReturns, PopWaits, Takes, PopFails, PopReturns, ClosesQueue, Stays
<1>3. Done(p)' = IF p = t /\ ~UNCHANGED script THEN k + 1 ELSE k
  BY <1>1, <1>2, ScriptStep
<1>4. Done(Producer(demo))' = Done(p)'
  BY <1>1 DEF Done
<1>5. AtStep(t, Now(t), p, k)
  BY <1>1, NowIs
<1>6. Offered(demo) \in Nat /\ Admitted(demo) \in Nat
  BY CapacityAssumption DEF Offered, Admitted
<1> QED BY <1>1, <1>3, <1>4, <1>5, <1>6

LEMMA ClosedStep ==
    ASSUME TypeOK, ScriptInv, CallInv, CloseInv, NEW t \in Threads, Others(t), Does(t), script[t] # <<>>, demo' = demo
    PROVE  CloseInv'
<1>1. PICK p \in Threads, k \in Nat, j \in Nat :
              /\ p = Producer(demo) /\ k = Done(Producer(demo)) /\ j = Done(Producer(demo))'
              /\ j = IF p = t /\ ~UNCHANGED script THEN k + 1 ELSE k
              /\ AtStep(t, Now(t), p, k)
              /\ Offered(demo) \in Nat /\ Admitted(demo) \in Nat
  BY ProducerStep
<1>2. closed => closed'
  BY DEF Does, PushWaits, Inserts, Refuses, PushReturns, PopWaits, Takes, PopFails, PopReturns, ClosesQueue
<1>3. ClosesQueue(t) => closed'
  BY DEF ClosesQueue, CloseInv
<1>4. ASSUME NEW u \in Threads, pc'[u] \in {"closeNotEmpty", "closeNotFull"} PROVE closed'
  <2>1. CASE u # t
    BY <1>2, <1>4, <2>1 DEF Others, CloseInv
  <2>2. CASE u = t
    BY <1>3, <1>4, <2>2 DEF Does, PushWaits, Inserts, Refuses, PushReturns, PopWaits, Takes, PopFails, PopReturns,
                            PushLocations
  <2> QED BY <2>1, <2>2
<1>5. ASSUME j > Offered(demo) PROVE closed'
  <2>1. CASE k > Offered(demo)
    BY <1>1, <1>2, <2>1 DEF CloseInv
  <2>2. CASE ~(k > Offered(demo))
    <3>1. p = t /\ ~UNCHANGED script /\ k = Offered(demo)
      BY <1>1, <1>5, <2>2
    <3>2. Now(t).method = "close"
      <4>1. Now(t).method \notin Pushes /\ Now(t).method \notin Pops
        BY <1>1, <3>1 DEF AtStep
      <4> QED BY <1>1, <4>1 DEF AtStep, Methods, Pushes, Pops
    <3>3. Now(t).method \notin Pushes /\ Now(t).method \notin Pops
      BY <3>2 DEF Pushes, Pops
    <3>4. ClosesQueue(t)
      BY <3>3 DEF Does, PushWaits, Inserts, Refuses, PushReturns, PopWaits, Takes, PopFails, PopReturns, AtPush, AtPop,
                  CallInv, InCall, Now
    <3> QED BY <1>3, <3>4
  <2> QED BY <2>1, <2>2
<1>6. Offered(demo)' = Offered(demo)
  BY DEF Offered
<1> QED BY <1>1, <1>4, <1>5, <1>6 DEF CloseInv

DrainLeft == \E t \in Threads : \E i \in DOMAIN script[t] : script[t][i].method = "drain"

LEMMA DrainStep ==
    ASSUME TypeOK, ScriptInv, CallInv, DrainInv, NEW t \in Threads, Does(t), script[t] # <<>>, demo' = demo
    PROVE  DrainInv'
<1>1. PICK p \in Threads, k \in Nat, j \in Nat :
              /\ p = Producer(demo) /\ k = Done(Producer(demo)) /\ j = Done(Producer(demo))'
              /\ j = IF p = t /\ ~UNCHANGED script THEN k + 1 ELSE k
              /\ AtStep(t, Now(t), p, k)
              /\ Offered(demo) \in Nat /\ Admitted(demo) \in Nat
  BY ProducerStep
<1>2. closed' => j >= Offered(demo)
  <2>1. CASE ClosesQueue(t)
    <3>1. k = Offered(demo) /\ t = p
      BY <1>1, <2>1 DEF ClosesQueue, AtStep
    <3> QED BY <1>1, <3>1
  <2>2. CASE ~ClosesQueue(t)
    <3>1. closed' = closed
      BY <2>2 DEF Does, PushWaits, Inserts, Refuses, PushReturns, PopWaits, Takes, PopFails, PopReturns
    <3>2. j >= k
      BY <1>1
    <3> QED BY <1>1, <3>1, <3>2 DEF DrainInv
  <2> QED BY <2>1, <2>2
<1>3. closed => closed'
  BY DEF Does, PushWaits, Inserts, Refuses, PushReturns, PopWaits, Takes, PopFails, PopReturns, ClosesQueue
<1>4. script \in [Threads -> Seq(Steps)]
  BY DEF ScriptInv
<1>5. ASSUME DrainLeft PROVE DrainLeft' \/ (queue' = <<>> /\ closed')
  <2>1. PICK u, i : u \in Threads /\ i \in DOMAIN script[u] /\ script[u][i].method = "drain"
    BY <1>5 DEF DrainLeft
  <2>2. CASE UNCHANGED script
    BY <2>1, <2>2 DEF DrainLeft
  <2>3. CASE Ends(t) /\ (u # t \/ Now(t).method # "drain")
    <3>1. CASE u # t
      <4>1. script'[u] = script[u]
        BY <1>4, <2>3, <3>1 DEF Ends
      <4> QED BY <2>1, <4>1 DEF DrainLeft
    <3>2. CASE u = t /\ Now(t).method # "drain"
      <4>1. i # 1
        BY <1>4, <2>1, <3>2 DEF Now
      <4>2. PICK s, r : s = script[t] /\ r = Tail(s)
        OBVIOUS
      <4>3. /\ script'[t] = r /\ s \in Seq(Steps) /\ i \in DOMAIN s /\ s[i].method = "drain"
        BY <1>4, <2>1, <2>3, <3>2, <4>2 DEF Ends
      <4>4. i - 1 \in DOMAIN r /\ r[i - 1] = s[i]
        BY <4>1, <4>2, <4>3
      <4> QED BY <4>3, <4>4 DEF DrainLeft
    <3> QED BY <2>3, <3>1, <3>2
  <2>4. CASE PopFails(t)
    BY <2>4 DEF PopFails
  <2>5. Now(t).method = "drain" => UNCHANGED script \/ PopFails(t)
    <3>1. "drain" \notin Pushes
      BY DEF Pushes
    <3>2. CASE PushReturns(t)
      BY <3>1, <3>2 DEF PushReturns, CallInv, InCall, Now
    <3>3. CASE Refuses(t)
      BY <3>1, <3>3 DEF Refuses, AtPush
    <3> QED BY <3>2, <3>3 DEF Does, PushWaits, Inserts, PopWaits, Takes, PopReturns, ClosesQueue, Stays
  <2>6. UNCHANGED script \/ Ends(t)
    BY DEF Does, PushWaits, Inserts, Refuses, PushReturns, PopWaits, Takes, PopFails, PopReturns, ClosesQueue, Stays
  <2> QED BY <2>2, <2>3, <2>4, <2>5, <2>6
<1>6. ASSUME queue = <<>>, closed \/ demo = "closeWakesWaiters"
      PROVE  queue' = <<>> /\ (closed' \/ demo' = "closeWakesWaiters")
  <2>1. ~Inserts(t)
    <3>1. SUFFICES ASSUME Inserts(t), demo = "closeWakesWaiters" PROVE FALSE
      BY <1>6 DEF Inserts
    <3>2. Offered(demo) = 0
      BY <3>1 DEF Offered
    <3>3. k < Offered(demo)
      BY <1>1, <3>1 DEF Inserts, AtPush, AtStep
    <3> QED BY <1>1, <3>2, <3>3
  <2>2. queue' = queue
    BY <1>6, <2>1 DEF Does, PushWaits, Refuses, PushReturns, PopWaits, Takes, PopFails, PopReturns, ClosesQueue
  <2> QED BY <1>3, <1>6, <2>2
<1> QED BY <1>1, <1>2, <1>5, <1>6 DEF DrainInv, DrainLeft

LEMMA CountStep ==
    ASSUME TypeOK, ScriptInv, CallInv, ItemInv, DrainInv, CountInv, AcceptInv,
           NEW t \in Threads, Others(t), Does(t), script[t] # <<>>, demo' = demo, ItemMoves(t)
    PROVE  CountInv'
<1>1. PICK p \in Threads, k \in Nat, j \in Nat :
              /\ p = Producer(demo) /\ k = Done(Producer(demo)) /\ j = Done(Producer(demo))'
              /\ j = IF p = t /\ ~UNCHANGED script THEN k + 1 ELSE k
              /\ AtStep(t, Now(t), p, k)
              /\ Offered(demo) \in Nat /\ Admitted(demo) \in Nat
  BY ProducerStep
<1>2. PICK m, l, n, o : m = Admitted(demo) /\ l = Len(accepted) /\ n = Len(queue) /\ o = Offered(demo)
  OBVIOUS
<1>3. /\ m \in Nat /\ l \in Nat /\ n \in Nat /\ o \in Nat /\ m <= o
      /\ queue \in Seq(Values) /\ accepted \in Seq(Values)
      /\ Capacity \in Nat \ {0} /\ (demo \in {"tryPush", "timedPush"} => m = Capacity /\ o = Capacity + 1)
      /\ demo \notin {"tryPush", "timedPush"} => m = o
      /\ demo \in {"tryPush", "timedPush"} => demo \in Alone
  BY <1>1, <1>2, CapacityAssumption DEF Admitted, Offered, TypeOK, AcceptInv, Alone
<1>4. /\ Ahead = k + (IF Inserted THEN 1 ELSE 0) /\ Ahead' = j + (IF Inserted' THEN 1 ELSE 0)
      /\ l = Least(k, m)
      /\ Inserted => k < m
      /\ demo \in Alone /\ k <= o => n = Least(Ahead, Capacity)
  BY <1>1, <1>2 DEF Ahead, CountInv
<1>5. Admitted(demo)' = m /\ Offered(demo)' = o /\ demo' = demo
  BY <1>2 DEF Admitted, Offered
<1>6. SUFFICES /\ Len(accepted') = Least(j, m)
               /\ Inserted' => j < m
               /\ demo \in Alone /\ j <= o => Len(queue') = Least(Ahead', Capacity)
  BY <1>1, <1>5 DEF CountInv, Alone
<1>7. /\ (pc[p] = "notifyNotEmpty") <=> Inserted
      /\ (pc'[p] = "notifyNotEmpty") <=> Inserted'
      /\ t # p => (Inserted' <=> Inserted)
  BY <1>1 DEF Inserted, Others
<1>8. CASE Inserts(t)
  <2>1. t = p /\ k < o /\ j = k /\ accepted' = accepted /\ Len(queue') = n + 1 /\ n < Capacity
    BY <1>1, <1>2, <1>3, <1>8 DEF Inserts, AtPush, AtStep, Stays, Room
  <2>2. ~Inserted /\ Inserted'
    BY <1>7, <1>8, <2>1 DEF Inserts, AtPush, PushLocations
  <2>3. k < m
    BY <1>3, <1>4, <2>1, <2>2 DEF Least
  <2>4. Ahead = k /\ Ahead' = k + 1
    BY <1>1, <1>4, <2>1, <2>2
  <2>5. Len(accepted') = Least(j, m)
    BY <1>2, <1>4, <2>1
  <2>6. ASSUME demo \in Alone, j <= o
        PROVE  Len(queue') = Least(k + 1, Capacity)
    <3>1. n = Least(k, Capacity)
      BY <1>4, <2>1, <2>4, <2>6
    <3> QED BY <1>1, <1>3, <2>1, <3>1 DEF Least
  <2> QED BY <2>1, <2>3, <2>4, <2>5, <2>6
<1>9. CASE Takes(t)
  <2>1. j = k /\ accepted' = accepted
    BY <1>1, <1>9 DEF Takes, Stays
  <2>2. Inserted' <=> Inserted
    BY <1>7, <1>9 DEF Takes, AtPop
  <2>3. demo \in Alone => k > o
    <3>1. demo \in Alone => t = p
      BY <1>1 DEF AtStep
    <3>2. t = p => k > o
      BY <1>1, <1>2, <1>9 DEF AtStep, Takes, AtPop
    <3> QED BY <1>3, <3>1, <3>2
  <2>4. Len(accepted') = Least(j, m)
    BY <1>2, <1>4, <2>1
  <2>5. Inserted' => j < m
    BY <1>4, <2>1, <2>2
  <2>6. ASSUME demo \in Alone, j <= o PROVE FALSE
    BY <1>1, <1>3, <2>1, <2>3, <2>6
  <2> QED BY <2>4, <2>5, <2>6
<1>10. CASE PushReturns(t)
  <2>1. Now(t).method \in Pushes
    BY <1>10 DEF PushReturns, CallInv, InCall, Now
  <2>2. t = p /\ Inserted /\ ~Inserted'
    BY <1>1, <1>7, <1>10, <2>1 DEF PushReturns, AtStep
  <2>3. script' # script
    BY <1>10 DEF PushReturns, Ends, ScriptInv
  <2>4. j = k + 1 /\ queue' = queue /\ Len(accepted') = l + 1
    BY <1>1, <1>2, <1>3, <1>10, <2>2, <2>3 DEF PushReturns
  <2> QED BY <1>2, <1>3, <1>4, <2>2, <2>4 DEF Least
<1>11. CASE Refuses(t)
  <2>1. t = p /\ k < o
    BY <1>1, <1>2, <1>11 DEF Refuses, AtPush, AtStep
  <2>2. ~closed
    BY <1>1, <1>2, <1>3, <2>1 DEF DrainInv
  <2>3. n >= Capacity /\ Now(t).method \in {"tryPush", "pushFor"}
    BY <1>2, <1>3, <1>11, <2>2 DEF Refuses, AtPush, Room, Pushes
  <2>4. demo \in {"tryPush", "timedPush"}
    BY <1>1, <2>3 DEF AtStep
  <2>5. ~Inserted /\ ~Inserted'
    BY <1>7, <1>11, <2>1 DEF Refuses, AtPush, PushLocations
  <2>6. script' # script
    BY <1>11 DEF Refuses, Ends, ScriptInv
  <2>7. j = k + 1 /\ accepted' = accepted
    BY <1>1, <1>11, <2>1, <2>6 DEF Refuses
  <2>8. k = Capacity
    BY <1>3, <1>4, <2>1, <2>3, <2>4, <2>5 DEF Least
  <2>9. m = Capacity /\ l = Capacity
    BY <1>3, <1>4, <2>4, <2>8 DEF Least
  <2>10. Len(accepted') = Least(j, m)
    BY <1>2, <1>3, <2>7, <2>8, <2>9 DEF Least
  <2>11. Len(queue') = Least(j, Capacity)
    <3>1. queue' = queue
      BY <1>11 DEF Refuses
    <3>2. n = Least(Ahead, Capacity) /\ Ahead = k
      BY <1>1, <1>3, <1>4, <2>1, <2>4, <2>5
    <3>3. n = Capacity
      BY <1>3, <2>8, <3>2 DEF Least
    <3> QED BY <1>2, <1>3, <2>7, <2>8, <3>1, <3>3 DEF Least
  <2>12. Ahead' = j
    BY <1>1, <1>4, <2>5
  <2> QED BY <2>5, <2>10, <2>11, <2>12
<1>12. CASE PushWaits(t) \/ PopWaits(t) \/ PopFails(t) \/ PopReturns(t) \/ ClosesQueue(t)
  <2>1. queue' = queue /\ accepted' = accepted /\ pc[t] # "notifyNotEmpty" /\ pc'[t] # "notifyNotEmpty"
    BY <1>12 DEF PushWaits, PopWaits, PopFails, PopReturns, ClosesQueue, AtPush, AtPop, Stays, PushLocations
  <2>2. (Inserted' <=> Inserted) /\ (Inserted => t # p)
    BY <1>7, <2>1
  <2>3. j = k \/ (j = k + 1 /\ t = p /\ k >= o)
    <3>1. CASE PushWaits(t) \/ PopWaits(t)
      BY <1>1, <3>1 DEF PushWaits, PopWaits, Stays
    <3>2. CASE PopFails(t) \/ PopReturns(t)
      <4>1. Now(t).method \in Pops
        BY <3>2 DEF PopFails, AtPop, PopReturns, CallInv, InCall, Now, PushLocations
      <4>2. t = p => k > o
        BY <1>1, <1>2, <4>1 DEF AtStep
      <4> QED BY <1>1, <1>3, <4>2
    <3>3. CASE ClosesQueue(t)
      <4>1. t = p /\ k = o
        BY <1>1, <1>2, <3>3 DEF ClosesQueue, AtStep
      <4> QED BY <1>1, <1>3, <4>1
    <3> QED BY <1>12, <3>1, <3>2, <3>3
  <2>4. CASE j = k
    BY <1>2, <1>3, <1>4, <2>1, <2>2, <2>4
  <2>5. CASE j = k + 1 /\ t = p /\ k >= o
    <3>1. ~Inserted /\ ~Inserted'
      BY <2>2, <2>5
    <3>2. l = m /\ Len(accepted') = l
      <4>1. m <= k
        BY <1>1, <1>3, <2>5
      <4>2. Least(k, m) = m
        BY <1>1, <1>3, <4>1 DEF Least
      <4> QED BY <1>2, <1>4, <2>1, <4>2
    <3>3. Least(j, m) = m
      BY <1>1, <1>3, <2>5 DEF Least
    <3>4. ASSUME demo \in Alone PROVE ~(j <= o)
      BY <1>1, <1>3, <2>5, <3>4
    <3> QED BY <3>1, <3>2, <3>3, <3>4
  <2> QED BY <2>3, <2>4, <2>5
<1> QED BY <1>8, <1>9, <1>10, <1>11, <1>12 DEF Does

-----------------------------------------------------------------------------
(* The invariant holds in every demo                                       *)

LEMMA DemoInvInitially == DemoThreads /\ DemoInit => DemoInv
<1> SUFFICES ASSUME DemoThreads, DemoInit PROVE DemoInv
  OBVIOUS
<1>1. DemoScript(demo) /\ Producer(demo) \in Threads
  BY DemoScripts DEF DemoThreads, DemoInit, Producer
<1>2. PICK p \in Threads : p = Producer(demo)
  BY <1>1
<1>3. /\ script = Demos[demo] /\ demo \in DOMAIN Demos /\ accepted = <<>> /\ queue = <<>> /\ closed = FALSE
      /\ taken = [t \in Threads |-> <<>>] /\ pc = [t \in Threads |-> "idle"]
      /\ Offered(demo) \in Nat /\ Admitted(demo) \in Nat
  BY CapacityAssumption DEF DemoInit, Init, Offered, Admitted
<1>4. TypeOK
  BY EmptySeq DEF DemoInit, Init, TypeOK, Locations, PushLocations
<1>5. script \in [Threads -> Seq(Steps)]
  BY <1>1, <1>3 DEF DemoScript
<1>6. \A t \in Threads : Done(t) = 0
  BY <1>3, <1>5 DEF Done
<1>7. ScriptInv
  <2>1. ASSUME NEW t \in Threads
        PROVE  Len(script[t]) <= Len(Demos[demo][t])
    BY <1>3, <1>5
  <2>2. ASSUME NEW t \in Threads, NEW i \in DOMAIN script[t]
        PROVE  script[t][i] = Demos[demo][t][i + Done(t)]
    <3>1. i + 0 = i
      BY <1>5
    <3> QED BY <1>3, <1>6, <3>1
  <2> QED BY <1>3, <1>5, <2>1, <2>2 DEF ScriptInv
<1>8. CallInv
  BY <1>3 DEF CallInv
<1>9. hands = [t \in Threads |-> <<>>] /\ ~Inserted /\ Ahead = 0
  BY <1>2, <1>3, <1>6 DEF hands, Inserted, Ahead
<1>10. DOMAIN <<>> = {} /\ <<>> \in Seq(Values) /\ Len(<<>>) = 0
  BY EmptySeq
<1>11. ItemInv
  BY <1>3, <1>9, <1>10 DEF ItemInv
<1>12. \A v : ~Placed(v)
  BY <1>3, <1>9, <1>10 DEF Placed, Has
<1>13. AcceptInv
  BY <1>3, <1>9, <1>10, <1>12 DEF AcceptInv
<1>14. CloseInv
  BY <1>2, <1>3, <1>6 DEF CloseInv
<1>15. DrainInv
  <2>1. CASE demo = "closeWakesWaiters"
    BY <1>3, <2>1 DEF DrainInv
  <2>2. CASE demo # "closeWakesWaiters"
    <3>1. PICK t \in Threads : Len(script[t]) > 0 /\ script[t][Len(script[t])].method = "drain"
      BY <1>1, <1>3, <2>2 DEF DemoScript
    <3>2. Len(script[t]) \in DOMAIN script[t]
      BY <1>5, <3>1
    <3> QED BY <1>3, <3>1, <3>2 DEF DrainInv
  <2> QED BY <2>1, <2>2
<1>16. CountInv
  <2>1. Least(0, Admitted(demo)) = 0 /\ Least(0, Capacity) = 0
    BY <1>3, CapacityAssumption DEF Least
  <2> QED BY <1>2, <1>3, <1>6, <1>9, <1>10, <2>1 DEF CountInv
<1> QED BY <1>4, <1>7, <1>8, <1>11, <1>13, <1>14, <1>15, <1>16 DEF DemoInv

\* A demo does nothing to the queue but what its methods do.
LEMMA DemoStepIsNext ==
    ASSUME ScriptInv, NEW t \in Threads, Run(t) \/ Wake(t)
    PROVE  Next
<1>1. CASE Run(t) /\ Begin(t)
  <2>1. AtStep(t, Now(t), Producer(demo), Done(Producer(demo)))
    BY <1>1, NowIs DEF Begin
  <2>2. Now(t).method \in Pushes => Now(t).item \in Values
    BY <2>1 DEF AtStep
  <2>3. Now(t).method \in {"push", "tryPush", "pushFor", "pop", "drain", "close"}
    BY <2>1 DEF AtStep, Methods
  <2>4. CASE Now(t).method \in Pushes
    BY <1>1, <2>2, <2>4 DEF Begin, Call, Pushes, Next
  <2>5. CASE Now(t).method \in {"pop", "drain", "close"}
    BY <1>1, <2>5 DEF Begin, Call, Next
  <2> QED BY <2>3, <2>4, <2>5 DEF Pushes
<1>2. CASE Run(t) /\ Continue(t)
  BY <1>2 DEF Next
<1>3. CASE Wake(t)
  BY <1>3 DEF Wake, Next
<1> QED BY <1>1, <1>2, <1>3 DEF Run

LEMMA DemoInvKept == DemoInv /\ [DemoNext]_demoVars => DemoInv'
<1> SUFFICES ASSUME DemoInv, [DemoNext]_demoVars PROVE DemoInv'
  OBVIOUS
<1> USE DEF DemoInv
<1>1. ASSUME NEW t \in Threads, Run(t) \/ Wake(t) PROVE DemoInv'
  <2>1. Others(t) /\ Does(t) /\ demo' = demo /\ script[t] # <<>>
    BY <1>1, StepDoes
  <2>2. TypeOK'
    BY <1>1, DemoStepIsNext, TypeStep
  <2>3. UNCHANGED script \/ Ends(t)
    BY <2>1 DEF Does, PushWaits, Inserts, Refuses, PushReturns, PopWaits, Takes, PopFails, PopReturns, ClosesQueue, Stays
  <2>4. ScriptInv'
    BY <2>1, <2>3, ScriptStep
  <2>5. CallInv'
    BY <2>1, CallStep
  <2>6. ItemMoves(t)
    BY <2>1, ItemsMove
  <2>7. ItemInv'
    BY <2>1, <2>6, ItemStep
  <2>8. AcceptInv'
    BY <2>6, AcceptStep
  <2>9. DrainInv'
    BY <2>1, DrainStep
  <2>10. CountInv'
    BY <2>1, <2>6, CountStep
  <2>11. CloseInv'
    BY <2>1, ClosedStep
  <2> QED BY <2>2, <2>4, <2>5, <2>7, <2>8, <2>9, <2>10, <2>11
<1>2. CASE UNCHANGED demoVars
  <2>1. UNCHANGED <<queue, closed, pc, value, result, demo, script, accepted, taken>>
    BY <1>2 DEF demoVars, vars
  <2>2. TypeOK'
    BY <2>1 DEF TypeOK
  <2>3. ScriptInv'
    BY <2>1 DEF ScriptInv, Done
  <2>4. CallInv'
    BY <2>1 DEF CallInv
  <2>5. hands' = hands /\ Inserted' = Inserted /\ Ahead' = Ahead /\ Done(Producer(demo))' = Done(Producer(demo))
    BY <2>1 DEF hands, Inserted, Ahead, Done
  <2>6. ItemInv'
    BY <2>1, <2>5 DEF ItemInv
  <2>7. \A v : Placed(v)' <=> Placed(v)
    BY <2>1, <2>5 DEF Placed
  <2>8. AcceptInv'
    BY <2>1, <2>5, <2>7 DEF AcceptInv
  <2>9. DrainInv'
    BY <2>1, <2>5 DEF DrainInv
  <2>10. CountInv'
    BY <2>1, <2>5 DEF CountInv
  <2>11. CloseInv'
    BY <2>1, <2>5 DEF CloseInv
  <2> QED BY <2>2, <2>3, <2>4, <2>6, <2>8, <2>9, <2>10, <2>11
<1> QED BY <1>1, <1>2 DEF DemoNext

\* Every demo keeps the invariant: its scripts, calls, items and counts agree.
THEOREM DemosKeepTheirInvariant == DemoThreads /\ DemoSpec => []DemoInv
BY DemoInvInitially, DemoInvKept, PTL DEF DemoSpec

-----------------------------------------------------------------------------
(* What a reader of the demos relies on                                    *)

LEMMA AtMostOne ==
    ASSUME NEW S, \A x, y \in S : x = y
    PROVE  Cardinality(S) = IF S = {} THEN 0 ELSE 1
<1>1. CASE S = {}
  BY <1>1, FS_EmptySet
<1>2. CASE S # {}
  <2>1. PICK x : S = {x}
    BY <1>2
  <2> QED BY <1>2, <2>1, FS_Singleton
<1> QED BY <1>1, <1>2

\* What the hands of a thread hold: what it was given, and what its pop carries.
LEMMA HandsAre ==
    ASSUME TypeOK, ScriptInv, ItemInv, NEW t \in Threads
    PROVE  /\ taken[t] \in Seq(Values) /\ DOMAIN taken[t] \subseteq DOMAIN hands[t]
           /\ \A i \in DOMAIN taken[t] : hands[t][i] = taken[t][i]
           /\ \A v : Has(hands[t], v) <=> Has(taken[t], v) \/ (pc[t] = "notifyNotFull" /\ value[t] = v)
           /\ pc[t] = "notifyNotFull" =>
                 /\ Len(taken[t]) + 1 \in DOMAIN hands[t] /\ hands[t][Len(taken[t]) + 1] = value[t]
                 /\ Len(taken[t]) + 1 \notin DOMAIN taken[t]
<1>1. taken[t] \in Seq(Values)
  BY DEF ItemInv
<1>2. CASE pc[t] # "notifyNotFull"
  BY <1>1, <1>2 DEF hands
<1>3. CASE pc[t] = "notifyNotFull"
  <2>1. PICK s, b : s = taken[t] /\ b = value[t] /\ s \in Seq(Values) /\ b \in Values /\ hands[t] = Append(s, b)
    BY <1>1, <1>3 DEF hands, TypeOK
  <2>2. \A v : Has(Append(s, b), v) <=> (v = b \/ Has(s, v))
    BY <2>1, AppendHas
  <2>3. /\ DOMAIN s = 1 .. Len(s) /\ DOMAIN Append(s, b) = 1 .. Len(s) + 1 /\ Len(s) \in Nat
        /\ Append(s, b)[Len(s) + 1] = b /\ \A i \in DOMAIN s : Append(s, b)[i] = s[i]
    BY <2>1
  <2> QED BY <1>3, <2>1, <2>2, <2>3
<1> QED BY <1>2, <1>3

\* FIFO as the consumers see it, with any number of items: a thread never gets
\* an item before one with a smaller number.
THEOREM TakenInOrderHolds == DemoThreads /\ DemoSpec => []TakenInOrder
<1>1. DemoInv => TakenInOrder
  <2> SUFFICES ASSUME DemoInv PROVE TakenInOrder
    OBVIOUS
  <2>1. ASSUME NEW t \in Threads, NEW i \in DOMAIN taken[t], NEW j \in DOMAIN taken[t], i < j
        PROVE  taken[t][i] < taken[t][j]
    <3>1. i \in DOMAIN hands[t] /\ j \in DOMAIN hands[t] /\ hands[t][i] = taken[t][i] /\ hands[t][j] = taken[t][j]
      BY HandsAre DEF DemoInv
    <3> QED BY <2>1, <3>1 DEF DemoInv, ItemInv
  <2> QED BY <2>1 DEF TakenInOrder
<1> QED BY <1>1, DemosKeepTheirInvariant, PTL

\* Nothing is lost and nothing is handed out twice, however the pushes and the
\* two workers' pops interleave: each item is in one place at most, and an item
\* whose push returned true is in exactly one.
THEOREM ExactlyOnceHolds == DemoThreads /\ DemoSpec => []ExactlyOnce
<1>1. DemoInv => ExactlyOnce
  <2> SUFFICES ASSUME DemoInv, NEW v \in Values
               PROVE  CopiesOf(v) <= 1 /\ (v \in ToSet(accepted) => CopiesOf(v) = 1)
    BY DEF ExactlyOnce
  <2> DEFINE Q == {i \in DOMAIN queue : queue[i] = v}
             C == {t \in Threads : pc[t] = "notifyNotFull" /\ value[t] = v}
             D == {d \in Delivered : taken[d[1]][d[2]] = v}
  <2>1. /\ queue \in Seq(Values) /\ \A x \in Values : x \in Int
        /\ \A t, u \in Threads : \A i \in DOMAIN hands[t], j \in DOMAIN hands[u] :
              hands[t][i] = hands[u][j] => t = u /\ i = j
        /\ \A t \in Threads : \A i \in DOMAIN hands[t], j \in DOMAIN queue : hands[t][i] < queue[j]
        /\ \A i, j \in DOMAIN queue : i < j => queue[i] < queue[j]
    BY HandsType DEF DemoInv, ItemInv
  <2>2. \A x, y \in Q : x = y
    BY <2>1
  <2>3. ASSUME NEW t \in Threads, pc[t] = "notifyNotFull", value[t] = v
        PROVE  \E i \in DOMAIN hands[t] : i \notin DOMAIN taken[t] /\ hands[t][i] = v
    BY <2>3, HandsAre DEF DemoInv
  <2>4. \A x, y \in C : x = y
    BY <2>1, <2>3
  <2>5. ASSUME NEW d \in D
        PROVE  \E t \in Threads : \E i \in DOMAIN taken[t] :
                  d = <<t, i>> /\ i \in DOMAIN hands[t] /\ hands[t][i] = v
    <3>1. PICK t, i : t \in Threads /\ i \in DOMAIN taken[t] /\ d = <<t, i>>
      BY DEF Delivered
    <3>2. taken[t][i] = v
      BY <3>1
    <3> QED BY <3>1, <3>2, HandsAre DEF DemoInv
  <2>6. \A x, y \in D : x = y
    BY <2>1, <2>5
  <2>7. C = {} \/ D = {}
    BY <2>1, <2>3, <2>5
  <2>8. Q # {} => C = {} /\ D = {}
    <3>1. ASSUME NEW j \in Q, NEW t \in Threads, NEW i \in DOMAIN hands[t], hands[t][i] = v PROVE FALSE
      <4>1. hands[t][i] < queue[j] /\ queue[j] = v
        BY <2>1
      <4> QED BY <2>1, <3>1, <4>1
    <3> QED BY <2>3, <2>5, <3>1
  <2>9. PICK q, c, d \in {0, 1} :
            /\ q = Cardinality(Q) /\ c = Cardinality(C) /\ d = Cardinality(D)
            /\ q = IF Q = {} THEN 0 ELSE 1
            /\ c = IF C = {} THEN 0 ELSE 1
            /\ d = IF D = {} THEN 0 ELSE 1
    BY <2>2, <2>4, <2>6, AtMostOne
  <2>10. CopiesOf(v) = q + c + d
    BY <2>9 DEF CopiesOf
  <2>11. v \in ToSet(accepted) => Placed(v)
    BY DEF ToSet, DemoInv, AcceptInv
  <2>12. Placed(v) => Q # {} \/ C # {} \/ D # {}
    <3>1. CASE Has(queue, v)
      BY <3>1 DEF Has
    <3>2. ASSUME NEW t \in Threads, Has(hands[t], v) PROVE C # {} \/ D # {}
      <4>1. Has(taken[t], v) \/ t \in C
        BY <3>2, HandsAre DEF DemoInv
      <4>2. ASSUME NEW i \in DOMAIN taken[t], taken[t][i] = v PROVE <<t, i>> \in D
        BY <4>2 DEF Delivered
      <4> QED BY <4>1, <4>2 DEF Has
    <3> QED BY <3>1, <3>2 DEF Placed
  <2> HIDE DEF Q, C, D
  <2> QED BY <2>7, <2>8, <2>9, <2>10, <2>11, <2>12
<1> QED BY <1>1, DemosKeepTheirInvariant, PTL

\* When every thread has been joined, the queue is empty, what was accepted is
\* what was popped, and as many items were accepted as the demo prints.
THEOREM DrainedAsPrintedHolds == DemoThreads /\ DemoSpec => []DrainedAsPrinted
<1>1. DemoInv => DrainedAsPrinted
  <2> SUFFICES ASSUME DemoInv, Finished PROVE
        /\ queue = <<>>
        /\ ToSet(accepted) = {taken[d[1]][d[2]] : d \in Delivered}
        /\ Len(accepted) = CASE demo = "closeWakesWaiters" -> 0
                             [] demo \in {"tryPush", "timedPush", "gracefulDrain"} -> Capacity
                             [] OTHER -> Capacity + 1
    BY DEF DrainedAsPrinted
  <2>1. \A t \in Threads : script[t] = <<>> /\ pc[t] = "idle"
    BY DEF Finished, DemoInv, CallInv, InCall
  <2>2. queue = <<>>
    <3>1. DOMAIN <<>> = {}
      OBVIOUS
    <3> QED BY <2>1, <3>1 DEF DemoInv, DrainInv
  <2>3. hands = taken /\ ~Inserted
    <3>1. Producer(demo) \in Threads
      BY DEF DemoInv, ScriptInv, DemoThreads, Producer
    <3>2. taken = [t \in Threads |-> taken[t]]
      BY DEF DemoInv, ItemInv
    <3> QED BY <2>1, <3>1, <3>2 DEF hands, Inserted
  <2>4. \A v \in Values : Has(accepted, v) <=> \E t \in Threads : Has(taken[t], v)
    <3>1. \A v : ~Has(queue, v)
      BY <2>2, EmptySeq DEF Has
    <3> QED BY <2>3, <3>1 DEF DemoInv, AcceptInv, Placed, Has
  <2>5. ToSet(accepted) = {taken[d[1]][d[2]] : d \in Delivered}
    <3>1. ToSet(accepted) \subseteq Values /\ \A t \in Threads : \A i \in DOMAIN taken[t] : taken[t][i] \in Values
      BY DEF ToSet, DemoInv, AcceptInv, ItemInv
    <3>2. \A v : v \in ToSet(accepted) <=> Has(accepted, v)
      BY DEF ToSet, Has
    <3>3. \A v : v \in {taken[d[1]][d[2]] : d \in Delivered} <=> \E t \in Threads : Has(taken[t], v)
      <4>1. ASSUME NEW d \in Delivered PROVE \E t \in Threads : Has(taken[t], taken[d[1]][d[2]])
        BY DEF Delivered, Has
      <4>2. ASSUME NEW t \in Threads, NEW i \in DOMAIN taken[t]
            PROVE  \E d \in Delivered : taken[d[1]][d[2]] = taken[t][i]
        <5>1. <<t, i>> \in Delivered
          BY DEF Delivered
        <5> QED BY <5>1
      <4> QED BY <4>1, <4>2 DEF Has
    <3> QED BY <2>4, <3>1, <3>2, <3>3 DEF Has
  <2>6. PICK p \in Threads, k \in Nat : p = Producer(demo) /\ k = Done(p)
    <3>1. PICK p \in Threads : p = Producer(demo)
      BY DEF DemoInv, ScriptInv, DemoThreads, Producer
    <3>2. Done(p) \in Nat
      BY DoneType DEF DemoInv
    <3> QED BY <3>1, <3>2
  <2>7. DemoScript(demo)
    BY DemoScripts DEF DemoInv, ScriptInv
  <2>8. Offered(demo) \in Nat /\ Admitted(demo) \in Nat /\ Admitted(demo) <= Offered(demo)
    BY CapacityAssumption DEF Offered, Admitted
  <2>9. k >= Offered(demo)
    <3>1. k = Len(Demos[demo][p]) - 0
      <4>1. script[p] = <<>> /\ Len(<<>>) = 0
        BY <2>1
      <4> QED BY <2>6, <4>1 DEF Done
    <3>2. Len(Demos[demo][p]) \in Nat /\ Len(Demos[demo][p]) >= Offered(demo) + 1
      BY <2>6, <2>7 DEF DemoScript
    <3> QED BY <2>8, <3>1, <3>2
  <2>10. Len(accepted) = Admitted(demo)
    BY <2>6, <2>8, <2>9 DEF DemoInv, CountInv, Least
  <2> QED BY <2>2, <2>5, <2>10 DEF Admitted, Offered
<1> QED BY <1>1, DemosKeepTheirInvariant, PTL

-----------------------------------------------------------------------------
(* No demo hangs                                                           *)

\* A demo uses the queue by its methods alone, so that what is proved of the
\* queue for any program holds for the demos.
THEOREM DemosAreQueueRuns == DemoThreads /\ DemoSpec => Init /\ [][Next]_vars
<1>1. DemoInv /\ [DemoNext]_demoVars => [Next]_vars
  <2> SUFFICES ASSUME DemoInv, [DemoNext]_demoVars PROVE [Next]_vars
    OBVIOUS
  <2>1. ASSUME NEW t \in Threads, Run(t) \/ Wake(t) PROVE Next
    BY <2>1, DemoStepIsNext DEF DemoInv
  <2>2. CASE UNCHANGED demoVars
    BY <2>2 DEF demoVars
  <2> QED BY <2>1, <2>2 DEF DemoNext, demoVars
<1>2. DemoInit => Init
  BY DEF DemoInit
<1> QED BY <1>1, <1>2, DemosKeepTheirInvariant, PTL DEF DemoSpec

\* While a demo is not over, some thread has something to do and is in no wait
\* that only another thread can end (a pushFor ends its own).
NobodyHangs == Finished \/ \E t \in Threads : script[t] # <<>> /\ pc[t] \notin {"pushBlocked", "popBlocked"}

\* Every thread that still has something to do sleeps.
AllAsleep == \A t \in Threads : script[t] # <<>> => pc[t] \in {"pushBlocked", "popBlocked"}

LEMMA AsleepSeeNoSignal ==
    ASSUME DemoInv, NoLostWakeup, AllAsleep, ~Finished
    PROVE  /\ ~closed
           /\ WaitingNotFull # {} => Capacity <= Len(queue)
           /\ WaitingNotEmpty # {} => Len(queue) <= 0
<1>1. \A t \in Threads : pc[t] \in {"idle", "pushBlocked", "popBlocked"}
  BY DEF AllAsleep, DemoInv, CallInv, InCall
<1>2. SlotSignals = {} /\ ItemSignals = {}
  BY <1>1 DEF SlotSignals, ItemSignals
<1>3. WaitingNotFull # {} \/ WaitingNotEmpty # {}
  BY DEF Finished, AllAsleep, WaitingNotFull, WaitingNotEmpty
<1>4. ~closed
  BY <1>1, <1>3 DEF NoLostWakeup, CloseSignalled
<1>5. Len(queue) \in Nat /\ Capacity \in Nat
  BY CapacityAssumption DEF DemoInv, TypeOK
<1> QED BY <1>2, <1>4, <1>5, FS_EmptySet DEF NoLostWakeup, SlotsSignalled, ItemsSignalled

\* If all slept, the producer would sleep in a push at a full queue. Alone, he
\* meets no full queue in a push; otherwise a drain is left in some script, and
\* who is to run it would sleep at a queue that is not empty.
LEMMA NotAllAsleep ==
    ASSUME DemoInv, NoLostWakeup, AllAsleep, ~Finished
    PROVE  FALSE
<1> USE DEF DemoInv
<1>1. PICK p \in Threads, k \in Nat, o \in Nat : p = Producer(demo) /\ k = Done(p) /\ o = Offered(demo)
  <2>1. PICK p \in Threads : p = Producer(demo)
    BY DEF DemoInv, ScriptInv, DemoThreads, Producer
  <2>2. Done(p) \in Nat /\ Offered(demo) \in Nat
    BY DoneType, CapacityAssumption DEF Offered
  <2> QED BY <2>1, <2>2
<1>2. DemoScript(demo) /\ Capacity \in Nat \ {0} /\ Len(queue) \in Nat
  BY DemoScripts, CapacityAssumption DEF ScriptInv, TypeOK
<1>3. ~(k > o)
  BY <1>1, AsleepSeeNoSignal DEF CloseInv
<1>4. script[p] # <<>>
  <2>1. SUFFICES ASSUME script[p] = <<>> PROVE FALSE
    OBVIOUS
  <2>2. Len(<<>>) = 0
    OBVIOUS
  <2>3. k = Len(Demos[demo][p]) - 0
    BY <1>1, <2>1, <2>2 DEF Done
  <2>4. Len(Demos[demo][p]) \in Nat /\ Len(Demos[demo][p]) >= o + 1
    BY <1>1, <1>2 DEF DemoScript
  <2> QED BY <1>1, <1>3, <2>3, <2>4
<1>5. AtStep(p, Now(p), p, k)
  BY <1>1, <1>4, NowIs
<1>6. pc[p] = "pushBlocked" /\ Now(p).method = "push" /\ k < o
  <2>1. CASE pc[p] = "popBlocked"
    <3>1. Now(p).method \in Pops
      BY <2>1 DEF CallInv, InCall, Now
    <3> QED BY <1>1, <1>3, <1>5, <3>1 DEF AtStep
  <2>2. CASE pc[p] = "pushBlocked"
    <3>1. Now(p).method = "push"
      BY <2>2 DEF CallInv, InCall, Now
    <3> QED BY <1>1, <1>5, <2>2, <3>1 DEF AtStep, Pushes
  <2> QED BY <1>4, <2>1, <2>2 DEF AllAsleep
<1>7. Capacity <= Len(queue) /\ WaitingNotEmpty = {}
  <2>1. WaitingNotFull # {}
    BY <1>6 DEF WaitingNotFull
  <2>2. Capacity <= Len(queue)
    BY <2>1, AsleepSeeNoSignal
  <2>3. ~(Len(queue) <= 0)
    BY <1>2, <2>2
  <2> QED BY <2>2, <2>3, AsleepSeeNoSignal
<1>8. CASE demo \in Alone
  <2>1. ~Inserted /\ Ahead = k
    BY <1>1, <1>6 DEF Inserted, Ahead
  <2>2. Len(queue) = Least(k, Capacity)
    BY <1>1, <1>6, <1>8, <2>1 DEF CountInv
  <2>3. k < Capacity
    <3>1. CASE demo \in {"tryPush", "timedPush"}
      BY <1>5, <1>6, <3>1 DEF AtStep
    <3>2. CASE demo = "gracefulDrain"
      BY <1>1, <1>6, <3>2 DEF Offered
    <3> QED BY <1>8, <3>1, <3>2 DEF Alone
  <2> QED BY <1>1, <1>2, <1>7, <2>2, <2>3 DEF Least
<1>9. CASE demo \notin Alone
  <2>1. queue # <<>>
    BY <1>2, <1>7, EmptySeq
  <2>2. PICK u, i : u \in Threads /\ i \in DOMAIN script[u] /\ script[u][i].method = "drain"
    BY <2>1 DEF DrainInv
  <2>3. script[u] \in Seq(Steps) /\ script[u] # <<>>
    BY <2>2, EmptySeq DEF ScriptInv
  <2>4. pc[u] = "pushBlocked"
    BY <1>7, <2>2, <2>3 DEF AllAsleep, WaitingNotEmpty
  <2>5. u = p
    <3>1. Now(u).method \in Pushes
      BY <2>2, <2>4 DEF CallInv, InCall, Now, PushLocations
    <3>2. AtStep(u, Now(u), p, k)
      BY <1>1, <2>2, <2>3, NowIs
    <3> QED BY <3>1, <3>2 DEF AtStep
  <2>6. PICK f, m, n : f = Demos[demo][p] /\ m = Len(f) /\ n = Len(script[p])
    OBVIOUS
  <2>7. f \in Seq(Steps) /\ m = o + 1 /\ n \in Nat /\ i \in 1 .. n /\ k = m - n /\ f[i + k] = script[p][i]
    <3>1. f \in Seq(Steps) /\ m = o + 1
      BY <1>1, <1>2, <1>9, <2>6 DEF DemoScript
    <3>2. n \in Nat /\ i \in 1 .. n
      BY <2>2, <2>3, <2>5, <2>6
    <3>3. k = m - n
      BY <1>1, <2>6 DEF Done
    <3>4. f[i + k] = script[p][i]
      BY <1>1, <2>2, <2>5, <2>6 DEF ScriptInv
    <3> QED BY <3>1, <3>2, <3>3, <3>4
  <2>8. i + k \in 1 .. m /\ i + k <= o + 1
    BY <1>1, <2>7
  <2>9. f[i + k].method # "drain"
    <3>1. \A l \in DOMAIN f : IF l <= o THEN f[l].method \in Pushes
                              ELSE f[l].method = IF l = o + 1 THEN "close" ELSE "drain"
      BY <1>1, <1>2, <2>6 DEF DemoScript
    <3>2. DOMAIN f = 1 .. m
      <4>1. f \in Seq(Steps) /\ m = Len(f)
        BY <2>6, <2>7
      <4> QED BY <4>1
    <3>3. PICK l : l = i + k /\ l \in DOMAIN f /\ l <= o + 1 /\ l \in Int
      BY <2>8, <3>2
    <3>4. l <= o => f[l].method # "drain"
      BY <3>1, <3>3 DEF Pushes
    <3>5. ~(l <= o) => l = o + 1
      BY <1>1, <3>3
    <3> QED BY <3>1, <3>3, <3>4, <3>5
  <2> QED BY <2>2, <2>5, <2>7, <2>9
<1> QED BY <1>8, <1>9

\* No demo deadlocks, whatever the capacity: from every state that is not the
\* end some thread can go on.
THEOREM DemosDoNotHang == DemoThreads /\ DemoSpec => []NobodyHangs
<1>1. DemoInv /\ NoLostWakeup => NobodyHangs
  BY NotAllAsleep DEF NobodyHangs, AllAsleep
<1>2. DemoInv => TypeOK
  BY DEF DemoInv
<1> QED BY <1>1, <1>2, DemosAreQueueRuns, DemosKeepTheirInvariant, WakeupStep, PTL

=============================================================================
