---------------------------- MODULE SyncDemosProofs ----------------------------
(***************************************************************************)
(* Proofs about the demos whose loops go on for as long as the program     *)
(* says, for every number of rounds: no data race, no lost increment, no   *)
(* overdrawn account and no deadlock.  The other demos are as long as they *)
(* are and have finitely many behaviours, which TLC goes through.          *)
(*                                                                         *)
(* Each demo has an invariant of the same shape: main has not started its  *)
(* threads; or they run, each at a numbered operation of its loop, and     *)
(* what is in the variables follows from the numbers; or they have been    *)
(* joined and only main is left.                                           *)
(***************************************************************************)
EXTENDS SyncDemos, FiniteSetTheorems, TLAPS

-----------------------------------------------------------------------------
(* Lists of operations *)

\* The operations of p from number j on.
From(p, j) == [i \in 1 .. Len(p) - j |-> p[i + j]]

\* What From gives: the head and the tail of what is left.
LEMMA FromIs ==
    ASSUME NEW S, NEW p \in Seq(S), NEW j \in 0 .. Len(p)
    PROVE  /\ From(p, j) \in Seq(S)
           /\ Len(From(p, j)) = Len(p) - j
           /\ From(p, j) = <<>> <=> j = Len(p)
           /\ j < Len(p) => /\ Head(From(p, j)) = p[j + 1]
                            /\ Tail(From(p, j)) = From(p, j + 1)
           /\ From(p, 0) = p
           /\ <<>> \o From(p, j) = From(p, j)
<1>1. From(p, j) \in Seq(S) /\ Len(From(p, j)) = Len(p) - j
  BY DEF From
<1>2. From(p, j) = <<>> <=> j = Len(p)
  <2>1. \A s \in Seq(S) : s = <<>> <=> Len(s) = 0
    OBVIOUS
  <2> QED
    BY <1>1, <2>1
<1>3. ASSUME j < Len(p)
      PROVE  Head(From(p, j)) = p[j + 1] /\ Tail(From(p, j)) = From(p, j + 1)
  <2>1. Head(From(p, j)) = p[j + 1]
    BY <1>1, <1>3 DEF From
  <2>2. /\ Tail(From(p, j)) \in Seq(S)
        /\ Len(Tail(From(p, j))) = Len(p) - (j + 1)
        /\ \A i \in 1 .. Len(p) - (j + 1) : Tail(From(p, j))[i] = From(p, j)[i + 1]
    BY <1>1, <1>3
  <2>3. \A i \in 1 .. Len(p) - (j + 1) : From(p, j)[i + 1] = p[i + (j + 1)]
    BY <1>3 DEF From
  <2>4. /\ From(p, j + 1) \in Seq(S)
        /\ Len(From(p, j + 1)) = Len(p) - (j + 1)
        /\ \A i \in 1 .. Len(p) - (j + 1) : From(p, j + 1)[i] = p[i + (j + 1)]
    BY <1>3 DEF From
  <2>5. Tail(From(p, j)) = From(p, j + 1)
    <3> DEFINE n == Len(p) - (j + 1)
               r == Tail(From(p, j))
               s == From(p, j + 1)
    <3>1. r \in Seq(S) /\ s \in Seq(S) /\ Len(r) = n /\ Len(s) = n
      BY <2>2, <2>4
    <3>2. \A i \in 1 .. n : r[i] = s[i]
      BY <2>2, <2>3, <2>4
    <3> HIDE DEF n, r, s
    <3>3. r = s
      BY <3>1, <3>2
    <3> QED
      BY <3>3 DEF r, s
  <2> QED
    BY <2>1, <2>5
<1>4. From(p, 0) = p
  BY DEF From
<1>5. <<>> \o From(p, j) = From(p, j)
  BY <1>1
<1> QED
  BY <1>1, <1>2, <1>3, <1>4, <1>5

\* The j-th operation of a repeated list.
LEMMA TimesIs ==
    ASSUME NEW S, NEW ops \in Seq(S), Len(ops) > 0, NEW n \in Nat
    PROVE  /\ Times(n, ops) \in Seq(S)
           /\ Len(Times(n, ops)) = n * Len(ops)
           /\ \A j \in 0 .. n * Len(ops) - 1 :
                 Times(n, ops)[j + 1] = ops[(j % Len(ops)) + 1]
<1> DEFINE l == Len(ops)
<1>1. l \in Nat /\ l > 0 /\ n * l \in Nat
  OBVIOUS
<1>2. \A j \in Nat : (j % l) + 1 \in 1 .. l
  <2> HIDE DEF l
  <2> QED
    BY <1>1
<1>3. Times(n, ops) = [i \in 1 .. n * l |-> ops[((i - 1) % l) + 1]]
  BY DEF Times
<1>4. \A i \in 1 .. n * l : ops[((i - 1) % l) + 1] \in S
  BY <1>1, <1>2
<1>5. Times(n, ops) \in Seq(S) /\ Len(Times(n, ops)) = n * l
  <2> HIDE DEF l
  <2> QED
    BY <1>1, <1>3, <1>4
<1>6. \A j \in 0 .. n * l - 1 : Times(n, ops)[j + 1] = ops[(j % l) + 1]
  <2> HIDE DEF l
  <2> QED
    BY <1>1, <1>3
<1> QED
  BY <1>5, <1>6

\* A thread that is at operation j of loops of three has made (j + 1) \div 3 of
\* the second kind.
LEMMA Thirds ==
    ASSUME NEW j \in Nat
    PROVE  /\ (j + 1) \div 3 \in Nat
           /\ j % 3 \in {0, 1, 2}
           /\ j % 3 = 0 => (j + 1) % 3 = 1 /\ ((j + 1) + 1) \div 3 = (j + 1) \div 3
           /\ j % 3 = 1 => (j + 1) % 3 = 2 /\ ((j + 1) + 1) \div 3 = ((j + 1) \div 3) + 1
           /\ j % 3 = 2 => (j + 1) % 3 = 0 /\ ((j + 1) + 1) \div 3 = (j + 1) \div 3
OBVIOUS

\* The same of loops of five, for the second and the third kind.
LEMMA Fifths ==
    ASSUME NEW j \in Nat
    PROVE  /\ (j + 3) \div 5 \in Nat /\ (j + 2) \div 5 \in Nat
           /\ j % 5 \in {0, 1, 2, 3, 4}
           /\ j % 5 = 0 => /\ (j + 1) % 5 = 1
                           /\ ((j + 1) + 3) \div 5 = (j + 3) \div 5
                           /\ ((j + 1) + 2) \div 5 = (j + 2) \div 5
           /\ j % 5 = 1 => /\ (j + 1) % 5 = 2
                           /\ ((j + 1) + 3) \div 5 = ((j + 3) \div 5) + 1
                           /\ ((j + 1) + 2) \div 5 = (j + 2) \div 5
           /\ j % 5 = 2 => /\ (j + 1) % 5 = 3
                           /\ ((j + 1) + 3) \div 5 = (j + 3) \div 5
                           /\ ((j + 1) + 2) \div 5 = ((j + 2) \div 5) + 1
           /\ j % 5 = 3 => /\ (j + 1) % 5 = 4
                           /\ ((j + 1) + 3) \div 5 = (j + 3) \div 5
                           /\ ((j + 1) + 2) \div 5 = (j + 2) \div 5
           /\ j % 5 = 4 => /\ (j + 1) % 5 = 0
                           /\ ((j + 1) + 3) \div 5 = (j + 3) \div 5
                           /\ ((j + 1) + 2) \div 5 = (j + 2) \div 5
OBVIOUS

\* A critical section of one operation, as a list of three.
LEMMA ListOf3 ==
    ASSUME NEW a, NEW b, NEW c
    PROVE  /\ <<a, b, c>> \in Seq({a, b, c}) /\ Len(<<a, b, c>>) = 3
           /\ <<a, b, c>>[1] = a /\ <<a, b, c>>[2] = b /\ <<a, b, c>>[3] = c
           /\ <<a>> \o <<b>> \o <<c>> = <<a, b, c>>
<1> DEFINE S == {a, b, c}
           r == <<a, b, c>>
           s == <<a>> \o <<b>> \o <<c>>
<1>1. r \in Seq(S) /\ Len(r) = 3 /\ r[1] = a /\ r[2] = b /\ r[3] = c
  OBVIOUS
<1>2. s \in Seq(S) /\ Len(s) = 3 /\ s[1] = a /\ s[2] = b /\ s[3] = c
  <2>1. a \in S /\ b \in S /\ c \in S
    OBVIOUS
  <2> HIDE DEF S
  <2> QED
    BY <2>1
<1> HIDE DEF S, r, s
<1>3. s = r
  BY <1>1, <1>2
<1> QED
  BY <1>1, <1>3 DEF S, r, s

\* A critical section of two operations under two mutexes, as a list of five.
LEMMA ListOf5 ==
    ASSUME NEW a, NEW b, NEW c, NEW d, NEW e
    PROVE  /\ <<a, b, c, d, e>> \in Seq({a, b, c, d, e}) /\ Len(<<a, b, c, d, e>>) = 5
           /\ <<a, b, c, d, e>>[1] = a /\ <<a, b, c, d, e>>[2] = b
           /\ <<a, b, c, d, e>>[3] = c /\ <<a, b, c, d, e>>[4] = d
           /\ <<a, b, c, d, e>>[5] = e
           /\ <<a>> \o <<b, c>> \o <<d, e>> = <<a, b, c, d, e>>
<1> DEFINE S == {a, b, c, d, e}
           r == <<a, b, c, d, e>>
           s == <<a>> \o <<b, c>> \o <<d, e>>
<1>1. /\ r \in Seq(S) /\ Len(r) = 5
      /\ r[1] = a /\ r[2] = b /\ r[3] = c /\ r[4] = d /\ r[5] = e
  OBVIOUS
<1>2. /\ s \in Seq(S) /\ Len(s) = 5
      /\ s[1] = a /\ s[2] = b /\ s[3] = c /\ s[4] = d /\ s[5] = e
  <2>1. a \in S /\ b \in S /\ c \in S /\ d \in S /\ e \in S
    OBVIOUS
  <2> HIDE DEF S
  <2> QED
    BY <2>1
<1> HIDE DEF S, r, s
<1>3. s = r
  BY <1>1, <1>2
<1> QED
  BY <1>1, <1>3 DEF S, r, s

\* An operation in front of a list.
LEMMA ConsIs ==
    ASSUME NEW S, NEW o, NEW rest \in Seq(S)
    PROVE  /\ <<o>> \o rest # <<>>
           /\ Head(<<o>> \o rest) = o
           /\ Tail(<<o>> \o rest) = rest
<1> DEFINE R == S \cup {o}
           s == <<o>> \o rest
<1>1. rest \in Seq(R) /\ <<o>> \in Seq(R) /\ o \in R
  OBVIOUS
<1> HIDE DEF R
<1>2. s \in Seq(R) /\ Len(s) = Len(rest) + 1 /\ s[1] = o /\ \A i \in 1 .. Len(rest) : s[i + 1] = rest[i]
  BY <1>1
<1> HIDE DEF s
<1>3. Tail(s) \in Seq(R) /\ Len(Tail(s)) = Len(rest) /\ \A i \in 1 .. Len(rest) : Tail(s)[i] = rest[i]
  BY <1>2
<1>4. Tail(s) = rest
  BY <1>1, <1>3
<1>5. s # <<>> /\ Head(s) = o
  BY <1>2
<1> QED
  BY <1>4, <1>5 DEF s

-----------------------------------------------------------------------------
(* The operation that a step executes *)

\* An awake thread executes the first of its operations, whichever action it is.
LEMMA OperationOfStep ==
    ASSUME NEW t \in Threads, asleep[t] = Awake, LibraryStep(t) \/ UnforcedStep(t)
    PROVE  /\ code[t] # <<>>
           /\ Now(t).op = "if" => Branch(t)
           /\ Now(t).op = "return" => Leave(t)
           /\ Now(t).op = "note" => Output(t)
           /\ Now(t).op = "start" => StartThreads(t)
           /\ Now(t).op = "join" => JoinThreads(t)
           /\ Now(t).op = "read" => ReadVariable(t)
           /\ Now(t).op = "assign" => AssignVariable(t)
           /\ Now(t).op = "lock" => LockMutex(t)
           /\ Now(t).op = "unlock" => UnlockMutex(t)
           /\ Now(t).op = "trySecond" => LockSecond(t)
           /\ Now(t).op = "load" => LoadAtomic(t)
           /\ Now(t).op = "fetchAdd" => AddAtomic(t)
           /\ Now(t).op = "cas" => Exchange(t)
           /\ Now(t).op = "exchangeWhile" => ExchangeAgain(t)
           /\ Now(t).op = "requestStop" => RequestTheStop(t)
           /\ Now(t).op = "ifStop" => TestStop(t)
           /\ Now(t).op = "lockBoth" => LockFirst(t)
<1>1. code[t] # <<>>
  BY DEF LibraryStep, UnforcedStep, At, TimeOut, WakeSpuriously,
         Branch, Loop, Leave, Output, StartThreads, JoinThreads, ReadVariable,
         AssignVariable, FindKey, TakeFront, LockMutex, UnlockMutex, LockSecond,
         AcquirePermit, ChangeCount, AwaitZero, Arrive, OpenPhase, Depart, LoadAtomic,
         StoreAtomic, AddAtomic, Spin, Exchange, ExchangeAgain, SleepOnAtomic,
         TestOrSleep, NotifySleeper, NotifySleepers, EnterOnce, FinishOnce, AbandonOnce,
         FulfilPromise, BreakPromise, GetOutcome, WaitForOutcome, RequestTheStop,
         EndCallback, LeaveStopLoop, TestStop, ConstructCallback, RemoveCallback,
         LockSharedMutex, LockFirst, FailFirst, FailToLockShared
<1>2. ~TimeOut(t) /\ ~WakeSpuriously(t)
  BY DEF TimeOut, WakeSpuriously
<1>3. /\ Branch(t) => Now(t).op = "if"
      /\ Loop(t) => Now(t).op = "forever"
      /\ Leave(t) => Now(t).op = "return"
      /\ Output(t) => Now(t).op = "note"
      /\ StartThreads(t) => Now(t).op = "start"
      /\ JoinThreads(t) => Now(t).op = "join"
      /\ ReadVariable(t) => Now(t).op = "read"
      /\ AssignVariable(t) => Now(t).op = "assign"
      /\ FindKey(t) => Now(t).op = "find"
      /\ TakeFront(t) => Now(t).op = "take"
      /\ LockMutex(t) => Now(t).op = "lock"
      /\ UnlockMutex(t) => Now(t).op = "unlock"
      /\ LockSecond(t) => Now(t).op = "trySecond"
      /\ AcquirePermit(t) => Now(t).op = "acquire"
      /\ ChangeCount(t) => Now(t).op = "change"
      /\ AwaitZero(t) => Now(t).op = "await"
      /\ Arrive(t) => Now(t).op = "arrive"
      /\ OpenPhase(t) => Now(t).op = "open"
      /\ Depart(t) => Now(t).op = "depart"
      /\ LoadAtomic(t) => Now(t).op = "load"
      /\ StoreAtomic(t) => Now(t).op = "store"
      /\ AddAtomic(t) => Now(t).op = "fetchAdd"
      /\ Spin(t) => Now(t).op = "spin"
      /\ Exchange(t) => Now(t).op = "cas"
      /\ ExchangeAgain(t) => Now(t).op = "exchangeWhile"
      /\ SleepOnAtomic(t) => Now(t).op = "atomicWait"
      /\ TestOrSleep(t) => Now(t).op = "wait"
      /\ NotifySleeper(t) => Now(t).op = "notifyOne"
      /\ NotifySleepers(t) => Now(t).op = "notifyAll"
      /\ EnterOnce(t) => Now(t).op = "callOnce"
      /\ FinishOnce(t) => Now(t).op = "onceDone"
      /\ AbandonOnce(t) => Now(t).op = "throwInOnce"
      /\ FulfilPromise(t) => Now(t).op = "fulfil"
      /\ BreakPromise(t) => Now(t).op = "destroyPromise"
      /\ GetOutcome(t) => Now(t).op = "get"
      /\ WaitForOutcome(t) => Now(t).op = "waitReady"
      /\ RequestTheStop(t) => Now(t).op = "requestStop"
      /\ EndCallback(t) => Now(t).op = "callbackDone"
      /\ LeaveStopLoop(t) => Now(t).op = "awaitStop"
      /\ TestStop(t) => Now(t).op = "ifStop"
      /\ ConstructCallback(t) => Now(t).op = "register"
      /\ RemoveCallback(t) => Now(t).op = "deregister"
      /\ LockSharedMutex(t) => Now(t).op \in {"lockShared", "tryLockShared"}
      /\ LockFirst(t) => Now(t).op \in {"lockBoth", "tryLockBoth"}
      /\ FailFirst(t) => Now(t).op \in {"tryLockBoth"}
      /\ FailToLockShared(t) => Now(t).op \in {"tryLockShared"}
  BY DEF At, Branch, Loop, Leave, Output, StartThreads, JoinThreads, ReadVariable,
         AssignVariable, FindKey, TakeFront, LockMutex, UnlockMutex, LockSecond,
         AcquirePermit, ChangeCount, AwaitZero, Arrive, OpenPhase, Depart, LoadAtomic,
         StoreAtomic, AddAtomic, Spin, Exchange, ExchangeAgain, SleepOnAtomic,
         TestOrSleep, NotifySleeper, NotifySleepers, EnterOnce, FinishOnce, AbandonOnce,
         FulfilPromise, BreakPromise, GetOutcome, WaitForOutcome, RequestTheStop,
         EndCallback, LeaveStopLoop, TestStop, ConstructCallback, RemoveCallback,
         LockSharedMutex, LockFirst, FailFirst, FailToLockShared
<1> QED
  BY <1>1, <1>2, <1>3 DEF LibraryStep, UnforcedStep

-----------------------------------------------------------------------------
(* Happens-before *)

\* The accesses of main and the two threads it starts.
Accesses(objects) == {Main, A, B} \X objects \X {"read", "write"}

\* What hb ranges over while no race has been seen.
Ordering(objects) == [known : [Threads -> SUBSET Accesses(objects)],
                      shown : [objects -> SUBSET Accesses(objects)],
                      races : {{}}]

\* Access a has been made: its own thread knows it.
Made(h, a) == a \in h.known[a[1]]

\* No race so far, and nobody knows of an access that has not been made.
Ordered(h, objects) ==
    /\ h \in Ordering(objects)
    /\ \A a \in Accesses(objects), u \in Threads : a \in h.known[u] => Made(h, a)
    /\ \A a \in Accesses(objects), o \in objects : a \in h.shown[o] => Made(h, a)

\* All accesses to x that have been made are in S.
Within(h, objects, x, S) == \A a \in Accesses(objects) : a[2] = x /\ Made(h, a) => a \in S

\* h and g agree on all accesses but those to x.
SameBut(g, h, objects, x) ==
    \A a \in Accesses(objects) : a[2] # x =>
        /\ Made(g, a) <=> Made(h, a)
        /\ \A u \in Threads : a \in g.known[u] <=> a \in h.known[u]
        /\ \A o \in objects : a \in g.shown[o] <=> a \in h.shown[o]

\* At first no access has been made.
LEMMA BeforeIs ==
    ASSUME NEW objects
    PROVE  /\ Ordered(Before(objects), objects)
           /\ \A a \in Accesses(objects) : ~Made(Before(objects), a)
<1>1. \A a \in Accesses(objects) : a[1] \in Threads
  BY DEF Accesses, Threads
<1> QED
  BY <1>1 DEF Before, Ordered, Ordering, Made

\* Thread t learns of the accesses in S.
Learns(h, t, S) == [h EXCEPT !.known[t] = @ \cup S]

\* A thread may learn of any accesses that have been made.
LEMMA LearnIs ==
    ASSUME NEW objects, NEW h, Ordered(h, objects), NEW t \in Threads,
           NEW S \in SUBSET Accesses(objects), \A a \in S : Made(h, a),
           NEW g, g = Learns(h, t, S)
    PROVE  /\ Ordered(g, objects)
           /\ g.known[t] = h.known[t] \cup S
           /\ \A u \in Threads : u # t => g.known[u] = h.known[u]
           /\ g.shown = h.shown
           /\ \A a \in Accesses(objects) : Made(g, a) <=> Made(h, a)
<1>1. \A a \in Accesses(objects) : a[1] \in Threads
  BY DEF Accesses, Threads
<1>2. g \in Ordering(objects)
  BY DEF Learns, Ordered, Ordering
<1>3. /\ g.known[t] = h.known[t] \cup S
      /\ \A u \in Threads : u # t => g.known[u] = h.known[u]
      /\ g.shown = h.shown
  BY DEF Learns, Ordered, Ordering
<1>4. \A a \in Accesses(objects) : Made(g, a) <=> Made(h, a)
  BY <1>1, <1>3 DEF Made
<1>5. \A a \in Accesses(objects), u \in Threads : a \in g.known[u] => Made(g, a)
  BY <1>3, <1>4 DEF Ordered
<1>6. \A a \in Accesses(objects), o \in objects : a \in g.shown[o] => Made(g, a)
  BY <1>3, <1>4 DEF Ordered
<1> QED
  BY <1>2, <1>3, <1>4, <1>5, <1>6 DEF Ordered

\* What a thread learns when it synchronises with o.
LEMMA SeesIs ==
    ASSUME NEW objects, NEW h, Ordered(h, objects), NEW t \in Threads, NEW o \in objects,
           NEW g, g = Sees(h, t, o)
    PROVE  /\ Ordered(g, objects)
           /\ g.known[t] = h.known[t] \cup h.shown[o]
           /\ \A u \in Threads : u # t => g.known[u] = h.known[u]
           /\ g.shown = h.shown
           /\ \A a \in Accesses(objects) : Made(g, a) <=> Made(h, a)
<1> DEFINE S == h.shown[o]
<1>1. S \in SUBSET Accesses(objects) /\ \A a \in S : Made(h, a)
  BY DEF Ordered, Ordering
<1>2. g = Learns(h, t, S)
  BY DEF Sees, Learns
<1> HIDE DEF S
<1>3. /\ Ordered(g, objects)
      /\ g.known[t] = h.known[t] \cup S
      /\ \A u \in Threads : u # t => g.known[u] = h.known[u]
      /\ g.shown = h.shown
      /\ \A a \in Accesses(objects) : Made(g, a) <=> Made(h, a)
  BY <1>1, <1>2, LearnIs
<1> QED
  BY <1>3 DEF S

\* What a thread leaves at o for those who synchronise with it later.
LEMMA ShowsIs ==
    ASSUME NEW objects, NEW h, Ordered(h, objects), NEW t \in Threads, NEW o \in objects,
           NEW g, g = Shows(h, t, o)
    PROVE  /\ Ordered(g, objects)
           /\ g.shown[o] = h.shown[o] \cup h.known[t]
           /\ \A p \in objects : p # o => g.shown[p] = h.shown[p]
           /\ g.known = h.known
           /\ \A a \in Accesses(objects) : Made(g, a) <=> Made(h, a)
<1>1. g \in Ordering(objects)
  BY DEF Ordered, Ordering, Shows
<1>2. /\ g.shown[o] = h.shown[o] \cup h.known[t]
      /\ \A p \in objects : p # o => g.shown[p] = h.shown[p]
      /\ g.known = h.known
  BY DEF Ordered, Ordering, Shows
<1>3. \A a \in Accesses(objects) : Made(g, a) <=> Made(h, a)
  BY <1>2 DEF Made
<1>4. \A a \in Accesses(objects), u \in Threads : a \in g.known[u] => Made(g, a)
  BY <1>2, <1>3 DEF Ordered
<1>5. \A a \in Accesses(objects), p \in objects : a \in g.shown[p] => Made(g, a)
  BY <1>2, <1>3 DEF Ordered
<1> QED
  BY <1>1, <1>2, <1>3, <1>4, <1>5 DEF Ordered

\* A thread that knows of all accesses to x can access x without a race, and
\* knows of all accesses to x afterwards; nothing changes for other variables.
LEMMA AccessIs ==
    ASSUME NEW objects, NEW h, Ordered(h, objects), NEW t \in {Main, A, B},
           NEW x \in objects, NEW kind \in {"read", "write"}, Within(h, objects, x, h.known[t]),
           NEW pairs, pairs = {<<x, kind>>}, NEW g, g = Access(h, t, pairs)
    PROVE  /\ Ordered(g, objects)
           /\ Within(g, objects, x, g.known[t])
           /\ SameBut(g, h, objects, x)
<1> DEFINE new == {<<t, p[1], p[2]>> : p \in {<<x, kind>>}}
           b == <<t, x, kind>>
<1>1. t \in Threads /\ \A a \in Accesses(objects) : a[1] \in Threads
  BY DEF Accesses, Threads
<1>2. new = {b} /\ b \in Accesses(objects) /\ b[1] = t /\ b[2] = x
  BY DEF Accesses, Threads
<1>3. g.races = {}
  <2> DEFINE hidden == (UNION {h.known[u] : u \in Threads}) \ h.known[t]
  <2>1. \A a \in hidden : a[2] # x
    <3>1. SUFFICES ASSUME NEW a \in hidden, a[2] = x
                   PROVE  FALSE
      OBVIOUS
    <3>2. PICK u \in Threads : a \in h.known[u]
      OBVIOUS
    <3>3. a \in Accesses(objects)
      BY <3>2 DEF Ordered, Ordering
    <3>4. a \in h.known[t]
      BY <3>1, <3>2, <3>3 DEF Ordered, Within
    <3> QED
      BY <3>4
  <2>2. h.races = {}
    BY DEF Ordered, Ordering
  <2>3. g.races = h.races \cup {p[1] : p \in {q \in {<<x, kind>>} :
                      \E a \in hidden : a[2] = q[1] /\ "write" \in {a[3], q[2]}}}
    BY DEF Access
  <2> HIDE DEF hidden
  <2>4. {q \in {<<x, kind>>} : \E a \in hidden : a[2] = q[1] /\ "write" \in {a[3], q[2]}} = {}
    <3>1. \A q \in {<<x, kind>>} : q[1] = x
      OBVIOUS
    <3> QED
      BY <2>1, <3>1
  <2> QED
    BY <2>2, <2>3, <2>4
<1>4. /\ g.known = [u \in Threads |-> IF u = t THEN h.known[u] \cup new ELSE h.known[u] \ new]
      /\ g.shown = [o \in objects |-> h.shown[o] \ new]
      /\ g = [known |-> g.known, shown |-> g.shown, races |-> g.races]
  <2>1. DOMAIN h.shown = objects
    BY DEF Ordered, Ordering
  <2> QED
    BY <2>1 DEF Access
<1> HIDE DEF new, b
<1>5. /\ g.known[t] = h.known[t] \cup {b}
      /\ \A u \in Threads : u # t => g.known[u] = h.known[u] \ {b}
      /\ \A o \in objects : g.shown[o] = h.shown[o] \ {b}
  BY <1>1, <1>2, <1>4
<1>6. g \in Ordering(objects)
  <2>1. h.known \in [Threads -> SUBSET Accesses(objects)] /\ h.shown \in [objects -> SUBSET Accesses(objects)]
    BY DEF Ordered, Ordering
  <2>2. g.known \in [Threads -> SUBSET Accesses(objects)] /\ g.shown \in [objects -> SUBSET Accesses(objects)]
    <3>1. new \subseteq Accesses(objects)
      BY <1>2
    <3>2. \A u \in Threads : (IF u = t THEN h.known[u] \cup new ELSE h.known[u] \ new) \subseteq Accesses(objects)
      BY <2>1, <3>1
    <3>3. \A o \in objects : (h.shown[o] \ new) \subseteq Accesses(objects)
      BY <2>1
    <3>4. g.known \in [Threads -> SUBSET Accesses(objects)]
      BY <1>4, <3>2
    <3>5. g.shown \in [objects -> SUBSET Accesses(objects)]
      BY <1>4, <3>3
    <3> QED
      BY <3>4, <3>5
  <2>3. [known |-> g.known, shown |-> g.shown, races |-> g.races] \in Ordering(objects)
    BY <1>3, <2>2 DEF Ordering
  <2> QED
    BY <1>4, <2>3
<1>7. \A a \in Accesses(objects) : a # b => (Made(g, a) <=> Made(h, a))
  <2> SUFFICES ASSUME NEW a \in Accesses(objects), a # b
               PROVE  a \in g.known[a[1]] <=> a \in h.known[a[1]]
    BY DEF Made
  <2>1. ASSUME NEW u \in Threads
        PROVE  a \in g.known[u] <=> a \in h.known[u]
    <3>1. CASE u = t
      BY <1>5, <3>1
    <3>2. CASE u # t
      BY <1>5, <3>2
    <3> QED
      BY <3>1, <3>2
  <2> QED
    BY <1>1, <2>1
<1>8. Made(g, b)
  <2>1. b \in g.known[t]
    BY <1>5
  <2> QED
    BY <1>2, <2>1 DEF Made
<1>9. \A a \in Accesses(objects), u \in Threads : a \in g.known[u] => Made(g, a)
  BY <1>5, <1>7, <1>8 DEF Ordered
<1>10. \A a \in Accesses(objects), o \in objects : a \in g.shown[o] => Made(g, a)
  BY <1>5, <1>7, <1>8 DEF Ordered
<1>11. Within(g, objects, x, g.known[t])
  BY <1>5, <1>7 DEF Within
<1>12. \A a \in Accesses(objects) : a[2] # x => a # b
  BY <1>2
<1>13. \A a \in Accesses(objects) : a[2] # x =>
                 /\ Made(g, a) <=> Made(h, a)
                 /\ \A u \in Threads : a \in g.known[u] <=> a \in h.known[u]
                 /\ \A o \in objects : a \in g.shown[o] <=> a \in h.shown[o]
  BY <1>5, <1>7, <1>12
<1> QED
  BY <1>6, <1>9, <1>10, <1>11, <1>13 DEF Ordered, SameBut

\* AccessIs for a write.
LEMMA WritesIs ==
    ASSUME NEW objects, NEW h, Ordered(h, objects), NEW t \in {Main, A, B}, NEW x \in objects,
           Within(h, objects, x, h.known[t]), NEW g, g = Writes(h, t, x)
    PROVE  /\ Ordered(g, objects)
           /\ Within(g, objects, x, g.known[t])
           /\ SameBut(g, h, objects, x)
<1> DEFINE pairs == {<<x, "write">>}
           kind  == "write"
<1>1. g = Access(h, t, pairs) /\ kind \in {"read", "write"}
  BY DEF Writes
<1>2. pairs = {<<x, kind>>}
  OBVIOUS
<1> HIDE DEF pairs, kind
<1> QED
  BY <1>1, <1>2, AccessIs

\* AccessIs for a read.
LEMMA ReadsIs ==
    ASSUME NEW objects, NEW h, Ordered(h, objects), NEW t \in {Main, A, B}, NEW x \in objects,
           Within(h, objects, x, h.known[t]),
           NEW variables, variables = {x}, NEW g, g = Reads(h, t, variables)
    PROVE  /\ Ordered(g, objects)
           /\ Within(g, objects, x, g.known[t])
           /\ SameBut(g, h, objects, x)
<1> DEFINE pairs == {<<y, "read">> : y \in variables}
           kind  == "read"
<1>1. g = Access(h, t, pairs) /\ kind \in {"read", "write"}
  BY DEF Reads
<1>2. pairs = {<<x, kind>>}
  OBVIOUS
<1> HIDE DEF pairs, kind
<1> QED
  BY <1>1, <1>2, AccessIs

\* Mutex m guards x: whoever holds m knows of all accesses to x, and while
\* nobody does, whoever locks it will.
Guarded(h, objects, x, m, holders) ==
    /\ holders = {} => Within(h, objects, x, h.shown[m])
    /\ \A t \in holders : Within(h, objects, x, h.known[t])

\* A thread that locks m, or another mutex, keeps x guarded by m.
LEMMA GuardLocked ==
    ASSUME NEW objects, NEW h, Ordered(h, objects), NEW t \in Threads,
           NEW o \in objects, NEW g, g = Sees(h, t, o),
           NEW x, NEW m, NEW holders \in SUBSET Threads, Guarded(h, objects, x, m, holders)
    PROVE  /\ holders # {} \/ o # m => Guarded(g, objects, x, m, holders)
           /\ holders = {} /\ o = m => Guarded(g, objects, x, m, {t})
<1>1. /\ g.known[t] = h.known[t] \cup h.shown[o]
      /\ \A u \in Threads : u # t => g.known[u] = h.known[u]
      /\ g.shown = h.shown
      /\ \A a \in Accesses(objects) : Made(g, a) <=> Made(h, a)
  BY SeesIs
<1>2. ASSUME holders # {} \/ o # m
      PROVE  Guarded(g, objects, x, m, holders)
  <2>1. holders = {} => Within(g, objects, x, g.shown[m])
    BY <1>1 DEF Guarded, Within
  <2>2. ASSUME NEW u \in holders
        PROVE  Within(g, objects, x, g.known[u])
    <3>1. CASE u = t
      BY <1>1, <3>1 DEF Guarded, Within
    <3>2. CASE u # t
      BY <1>1, <3>2 DEF Guarded, Within
    <3> QED
      BY <3>1, <3>2
  <2> QED
    BY <2>1, <2>2 DEF Guarded
<1>3. ASSUME holders = {}, o = m
      PROVE  Guarded(g, objects, x, m, {t})
  BY <1>1, <1>3 DEF Guarded, Within
<1> QED
  BY <1>2, <1>3

\* So does one that unlocks a mutex.
LEMMA GuardUnlocked ==
    ASSUME NEW objects, NEW h, Ordered(h, objects), NEW t \in Threads,
           NEW o \in objects, NEW g, g = Shows(h, t, o),
           NEW x, NEW m \in objects, NEW holders \in SUBSET Threads, Guarded(h, objects, x, m, holders)
    PROVE  /\ o # m => Guarded(g, objects, x, m, holders)
           /\ holders = {t} /\ o = m => Guarded(g, objects, x, m, {})
<1>1. /\ g.shown[o] = h.shown[o] \cup h.known[t]
      /\ \A p \in objects : p # o => g.shown[p] = h.shown[p]
      /\ g.known = h.known
      /\ \A a \in Accesses(objects) : Made(g, a) <=> Made(h, a)
  BY ShowsIs
<1>2. ASSUME o # m
      PROVE  Guarded(g, objects, x, m, holders)
  BY <1>1, <1>2 DEF Guarded, Within
<1>3. ASSUME holders = {t}, o = m
      PROVE  Guarded(g, objects, x, m, {})
  BY <1>1, <1>3 DEF Guarded, Within
<1> QED
  BY <1>2, <1>3

\* So does one that accesses x, or something else, while it holds m.
LEMMA GuardWritten ==
    ASSUME NEW objects, NEW h, Ordered(h, objects), NEW t \in {Main, A, B},
           NEW y \in objects, NEW g, g = Writes(h, t, y), NEW m,
           Guarded(h, objects, y, m, {t}),
           NEW x, Guarded(h, objects, x, m, {t})
    PROVE  Ordered(g, objects) /\ Guarded(g, objects, x, m, {t})
<1>1. /\ Ordered(g, objects) /\ Within(g, objects, y, g.known[t]) /\ SameBut(g, h, objects, y)
  BY WritesIs DEF Guarded
<1>2. CASE x = y
  BY <1>1, <1>2 DEF Guarded
<1>3. CASE x # y
  BY <1>1, <1>3 DEF Guarded, Within, SameBut, Threads
<1> QED
  BY <1>1, <1>2, <1>3

-----------------------------------------------------------------------------
(* The operations of the library *)

\* Five threads in a set of five are five different ones.
LEMMA ThreadsDiffer ==
    /\ Main \notin {A, B, C, D} /\ A \notin {B, C, D} /\ B \notin {C, D} /\ C # D
    /\ \A t \in Threads : t \in {Main, A, B, C, D}
<1>1. /\ IsFiniteSet({D}) /\ Cardinality({D}) = 1
  BY FS_Singleton
<1> DEFINE S2 == {C, D}
           S3 == {B, C, D}
           S4 == {A, B, C, D}
<1>2. S2 = {D} \cup {C} /\ S3 = S2 \cup {B} /\ S4 = S3 \cup {A} /\ Threads = S4 \cup {Main}
  BY DEF Threads
<1> HIDE DEF S2, S3, S4
<1>3. /\ IsFiniteSet(S2) /\ Cardinality(S2) = IF C \in {D} THEN 1 ELSE 2
  BY <1>1, <1>2, FS_AddElement
<1>4. /\ IsFiniteSet(S3) /\ Cardinality(S3) = IF B \in S2 THEN Cardinality(S2) ELSE Cardinality(S2) + 1
  BY <1>2, <1>3, FS_AddElement
<1>5. /\ IsFiniteSet(S4) /\ Cardinality(S4) = IF A \in S3 THEN Cardinality(S3) ELSE Cardinality(S3) + 1
  BY <1>2, <1>4, FS_AddElement
<1>6. Cardinality(Threads) = IF Main \in S4 THEN Cardinality(S4) ELSE Cardinality(S4) + 1
  BY <1>2, <1>5, FS_AddElement
<1>7. C \notin {D} /\ B \notin S2 /\ A \notin S3 /\ Main \notin S4
  BY <1>3, <1>4, <1>5, <1>6, ThreadsAssumption
<1> QED
  BY <1>7 DEF S2, S3, S4, Threads

\* What a step of thread t does to the lists of operations.
Continues(t, rest) ==
    /\ DOMAIN code' = Threads
    /\ code'[t] = rest
    /\ \A u \in Threads : u # t => code'[u] = code[u]

\* What a step does to the objects.
Sets(x, v) ==
    /\ DOMAIN mem' = DOMAIN mem
    /\ mem'[x] = v
    /\ \A y \in DOMAIN mem : y # x => mem'[y] = mem[y]

\* Goto, in these terms.
LEMMA GotoIs ==
    ASSUME DOMAIN code = Threads, NEW t \in Threads, NEW rest, Goto(t, rest)
    PROVE  Continues(t, rest)
BY DEF Goto, Continues

\* Becomes, in these terms.
LEMMA BecomesIs ==
    ASSUME NEW x \in DOMAIN mem, NEW v, Becomes(x, v)
    PROVE  Sets(x, v)
BY DEF Becomes, Sets

\* Locking a mutex that takes no readers.
LEMMA LockIs ==
    ASSUME DOMAIN code = Threads, NEW t \in Threads, LockMutex(t),
           NEW m \in DOMAIN mem, Now(t) = Lock(m)
    PROVE  /\ mem[m] = {}
           /\ Sets(m, {t})
           /\ hb' = Sees(hb, t, m)
           /\ Continues(t, <<>> \o Tail(code[t]))
           /\ asleep' = asleep
<1>1. Now(t).obj = m /\ Now(t).readers = {}
  BY DEF Lock, LockWith
<1>2. {m} \cup {} = {m} /\ UNION {hb.shown[n] : n \in {m}} = hb.shown[m]
  OBVIOUS
<1>3. /\ mem[m] = {}
      /\ Becomes(m, {t})
      /\ hb' = [hb EXCEPT !.known[t] = @ \cup UNION {hb.shown[n] : n \in {m}}]
      /\ Goto(t, <<>> \o Tail(code[t]))
      /\ asleep' = asleep
  BY <1>1, <1>2 DEF LockMutex, Proceed, Instead
<1>4. hb' = Sees(hb, t, m)
  BY <1>2, <1>3 DEF Sees
<1> QED
  BY <1>3, <1>4, GotoIs, BecomesIs

\* What std::lock does next when it has the first mutex.
Tries(a, b) == TrySecond(a, b, <<>>, <<LockBoth(b, a)>>)

\* std::lock takes the mutex it asks for first.
LEMMA LockFirstIs ==
    ASSUME DOMAIN code = Threads, NEW t \in Threads, LockFirst(t),
           NEW a \in DOMAIN mem, NEW b, Now(t) = LockBoth(a, b)
    PROVE  /\ mem[a] = {}
           /\ Sets(a, {t})
           /\ hb' = Sees(hb, t, a)
           /\ Continues(t, <<Tries(a, b)>> \o Tail(code[t]))
           /\ asleep' = asleep
<1>1. Now(t).op = "lockBoth" /\ Now(t).first = a /\ Now(t).second = b
  BY DEF LockBoth
<1>2. /\ mem[a] = {} /\ Becomes(a, {t}) /\ hb' = Sees(hb, t, a)
      /\ Goto(t, <<Tries(a, b)>> \o Tail(code[t]))
      /\ asleep' = asleep
  BY <1>1 DEF LockFirst, Instead, Tries
<1> QED
  BY <1>2, GotoIs, BecomesIs

\* Then it takes the second, or gives the first back and waits for the second.
LEMMA LockSecondIs ==
    ASSUME DOMAIN code = Threads, NEW t \in Threads, LockSecond(t),
           NEW a \in DOMAIN mem, NEW b \in DOMAIN mem,
           Now(t) = Tries(a, b)
    PROVE  /\ \/ /\ mem[b] = {}
                 /\ Sets(b, {t})
                 /\ hb' = Sees(hb, t, b)
                 /\ Continues(t, <<>> \o Tail(code[t]))
              \/ /\ Sets(a, {})
                 /\ hb' = Shows(hb, t, a)
                 /\ Continues(t, <<LockBoth(b, a)>> \o Tail(code[t]))
           /\ asleep' = asleep
<1>1. /\ Now(t).first = a /\ Now(t).second = b
      /\ Now(t).yes = <<>> /\ Now(t).no = <<LockBoth(b, a)>>
  BY DEF Tries, TrySecond
<1>2. /\ \/ /\ mem[b] = {} /\ Becomes(b, {t}) /\ hb' = Sees(hb, t, b)
            /\ Goto(t, <<>> \o Tail(code[t]))
         \/ /\ Becomes(a, {}) /\ hb' = Shows(hb, t, a)
            /\ Goto(t, <<LockBoth(b, a)>> \o Tail(code[t]))
      /\ asleep' = asleep
  BY <1>1 DEF LockSecond, Instead
<1> QED
  BY <1>2, GotoIs, BecomesIs

\* Unlocking a mutex.
LEMMA UnlockIs ==
    ASSUME DOMAIN code = Threads, NEW t \in Threads, UnlockMutex(t),
           NEW m \in DOMAIN mem, Now(t) = Unlock(m)
    PROVE  /\ Sets(m, mem[m] \ {t})
           /\ hb' = Shows(hb, t, m)
           /\ Continues(t, <<>> \o Tail(code[t]))
           /\ asleep' = asleep
<1>1. Now(t).obj = m
  BY DEF Unlock
<1>2. Becomes(m, mem[m] \ {t}) /\ Goto(t, <<>> \o Tail(code[t]))
  BY <1>1 DEF UnlockMutex, Proceed, Instead
<1> QED
  BY <1>1, <1>2, GotoIs, BecomesIs DEF UnlockMutex

\* An increment of an ordinary variable.
LEMMA AddIs ==
    ASSUME DOMAIN code = Threads, NEW t \in Threads, AssignVariable(t),
           NEW x \in DOMAIN mem, NEW d, Now(t) = Add(x, d)
    PROVE  /\ Sets(x, mem[x] + d)
           /\ hb' = Writes(hb, t, x)
           /\ Continues(t, <<>> \o Tail(code[t]))
           /\ asleep' = asleep
<1>1. Now(t).var = x /\ Now(t).how = "plus" /\ Now(t).arg = d
  BY DEF Add, Assign
<1>2. NewValue(x, "plus", d) = mem[x] + d
  BY DEF NewValue
<1>3. {<<x, "write">>} \cup {} = {<<x, "write">>}
  OBVIOUS
<1>4. /\ Becomes(x, mem[x] + d)
      /\ hb' = Access(hb, t, {<<x, "write">>})
      /\ Goto(t, <<>> \o Tail(code[t]))
      /\ asleep' = asleep
  BY <1>1, <1>2, <1>3 DEF AssignVariable, Proceed, Instead
<1> QED
  BY <1>4, GotoIs, BecomesIs DEF Writes

\* A read of an ordinary variable.
LEMMA ReadIs ==
    ASSUME DOMAIN code = Threads, NEW t \in Threads, ReadVariable(t), NEW x, Now(t) = Read(x)
    PROVE  /\ hb' = Reads(hb, t, {x})
           /\ Continues(t, <<>> \o Tail(code[t]))
           /\ mem' = mem /\ asleep' = asleep
<1>1. Now(t).var = x
  BY DEF Read
<1>2. Goto(t, <<>> \o Tail(code[t]))
  BY DEF ReadVariable, Proceed, Instead
<1> QED
  BY <1>1, <1>2, GotoIs DEF ReadVariable

\* Main starts threads A and B.
LEMMA StartIs ==
    ASSUME DOMAIN code = Threads, StartThreads(Main), NEW new, DOMAIN new = {A, B},
           Now(Main) = Start(new)
    PROVE  /\ DOMAIN code' = Threads
           /\ code'[Main] = Tail(code[Main]) /\ code'[A] = new[A] /\ code'[B] = new[B]
           /\ code'[C] = code[C] /\ code'[D] = code[D]
           /\ hb' = [hb EXCEPT !.known = [u \in Threads |->
                        IF u \in {A, B} THEN @[u] \cup @[Main] ELSE @[u]]]
           /\ mem' = mem /\ asleep' = asleep
<1>2. Now(Main).programs = new
  BY DEF Start
<1>3. /\ code' = [u \in Threads |-> IF u = Main THEN Tail(code[Main])
                                    ELSE IF u \in {A, B} THEN new[u] ELSE code[u]]
      /\ hb' = [hb EXCEPT !.known = [u \in Threads |->
                        IF u \in {A, B} THEN @[u] \cup @[Main] ELSE @[u]]]
      /\ mem' = mem /\ asleep' = asleep
  BY <1>2 DEF StartThreads
<1> QED
  BY <1>3, ThreadsDiffer DEF Threads

\* Main joins threads A and B.
LEMMA JoinIs ==
    ASSUME DOMAIN code = Threads, JoinThreads(Main), Now(Main) = Join({A, B})
    PROVE  /\ code[A] = <<>> /\ code[B] = <<>>
           /\ hb' = [hb EXCEPT !.known[Main] = @ \cup (hb.known[A] \cup hb.known[B])]
           /\ Continues(Main, <<>> \o Tail(code[Main]))
           /\ mem' = mem /\ asleep' = asleep
<1>1. Now(Main).who = {A, B}
  BY DEF Join
<1>2. UNION {hb.known[u] : u \in {A, B}} = hb.known[A] \cup hb.known[B]
  OBVIOUS
<1>3. Goto(Main, <<>> \o Tail(code[Main]))
  BY DEF JoinThreads, Proceed, Instead
<1>4. hb' = [hb EXCEPT !.known[Main] = @ \cup UNION {hb.known[u] : u \in {A, B}}]
  BY <1>1 DEF JoinThreads
<1> QED
  BY <1>1, <1>2, <1>3, <1>4, GotoIs DEF JoinThreads, Threads

\* No thread waits for a notification.
AllAwake == asleep = [t \in Threads |-> Awake]

\* Only main has begun.
OnlyMain(main) == code = [t \in Threads |-> IF t = Main THEN main ELSE <<>>]

\* The first step of a demo: main starts its threads.
LEMMA FirstStep ==
    ASSUME NEW main, OnlyMain(main), NEW new, DOMAIN new = {A, B}, Head(main) = Start(new),
           NEW objects, hb = Before(objects), AllAwake,
           NEW t \in Threads, LibraryStep(t) \/ UnforcedStep(t)
    PROVE  /\ DOMAIN code' = Threads
           /\ code'[Main] = Tail(main) /\ code'[A] = new[A] /\ code'[B] = new[B]
           /\ code'[C] = <<>> /\ code'[D] = <<>>
           /\ hb' = hb /\ mem' = mem /\ asleep' = asleep
<1>1. DOMAIN code = Threads /\ code[Main] = main /\ code[C] = <<>> /\ code[D] = <<>>
  BY ThreadsDiffer DEF OnlyMain, Threads
<1>2. asleep[t] = Awake
  BY DEF AllAwake
<1>3. code[t] # <<>>
  BY <1>2, OperationOfStep
<1>4. t = Main
  BY <1>3 DEF OnlyMain
<1>5. Now(Main) = Start(new) /\ Now(Main).op = "start"
  BY <1>1 DEF Now, Start
<1>6. StartThreads(Main)
  BY <1>2, <1>4, <1>5, OperationOfStep
<1>7. hb' = hb
  <2>1. hb' = [hb EXCEPT !.known = [u \in Threads |->
                        IF u \in {A, B} THEN @[u] \cup @[Main] ELSE @[u]]]
    BY <1>1, <1>5, <1>6, StartIs
  <2> DEFINE K == [u \in Threads |-> IF u \in {A, B} THEN hb.known[u] \cup hb.known[Main]
                                      ELSE hb.known[u]]
  <2>2. hb' = [hb EXCEPT !.known = K]
    BY <2>1
  <2>3. hb.known = [u \in Threads |-> {}] /\ Main \in Threads
    BY DEF Before, Threads
  <2>4. K = hb.known
    BY <2>3
  <2> HIDE DEF K
  <2> QED
    BY <2>2, <2>4 DEF Before
<1> QED
  BY <1>1, <1>5, <1>6, <1>7, StartIs

\* After the join main knows of all accesses.
LEMMA JoinStep ==
    ASSUME DOMAIN code = Threads, code[Main] # <<>>, Head(code[Main]) = Join({A, B}),
           NEW objects, Ordered(hb, objects), AllAwake,
           LibraryStep(Main) \/ UnforcedStep(Main)
    PROVE  /\ code[A] = <<>> /\ code[B] = <<>>
           /\ Continues(Main, <<>> \o Tail(code[Main]))
           /\ mem' = mem /\ asleep' = asleep
           /\ Ordered(hb', objects)
           /\ \A x : Within(hb', objects, x, hb'.known[Main])
<1>1. asleep[Main] = Awake /\ Main \in Threads
  BY DEF AllAwake, Threads
<1>2. Now(Main) = Join({A, B}) /\ Now(Main).op = "join"
  BY DEF Now, Join
<1>3. JoinThreads(Main)
  BY <1>1, <1>2, OperationOfStep
<1>4. /\ code[A] = <<>> /\ code[B] = <<>>
      /\ hb' = [hb EXCEPT !.known[Main] = @ \cup (hb.known[A] \cup hb.known[B])]
      /\ Continues(Main, <<>> \o Tail(code[Main]))
      /\ mem' = mem /\ asleep' = asleep
  BY <1>2, <1>3, JoinIs
<1> DEFINE S == hb.known[A] \cup hb.known[B]
<1>5. S \in SUBSET Accesses(objects) /\ \A a \in S : Made(hb, a)
  <2>1. /\ hb.known[A] \in SUBSET Accesses(objects) /\ hb.known[B] \in SUBSET Accesses(objects)
        /\ A \in Threads /\ B \in Threads
    BY DEF Ordered, Ordering, Threads
  <2> QED
    BY <2>1 DEF Ordered
<1>6. hb' = Learns(hb, Main, S)
  BY <1>4 DEF Learns
<1> HIDE DEF S
<1>7. /\ Ordered(hb', objects)
      /\ hb'.known[Main] = hb.known[Main] \cup S
      /\ \A a \in Accesses(objects) : Made(hb', a) <=> Made(hb, a)
  BY <1>1, <1>5, <1>6, LearnIs
<1>8. ASSUME NEW x
      PROVE  Within(hb', objects, x, hb'.known[Main])
  <2>1. SUFFICES ASSUME NEW a \in Accesses(objects), Made(hb, a)
                 PROVE  a \in hb.known[Main] \cup S
    BY <1>7 DEF Within
  <2>2. a[1] \in {Main, A, B}
    BY DEF Accesses
  <2> QED
    BY <2>1, <2>2 DEF Made, S
<1> QED
  BY <1>4, <1>7, <1>8

-----------------------------------------------------------------------------
(* Loops, and operations on atomic variables *)

\* Two operations in front of a list.
LEMMA Cons2Is ==
    ASSUME NEW S, NEW o, NEW r, NEW rest \in Seq(S)
    PROVE  /\ <<o, r>> \o rest # <<>>
           /\ Head(<<o, r>> \o rest) = o
           /\ Tail(<<o, r>> \o rest) = <<r>> \o rest
<1> DEFINE R == S \cup {o, r}
           u == <<r>> \o rest
           s == <<o, r>> \o rest
<1>1. rest \in Seq(R) /\ <<o, r>> \in Seq(R) /\ <<r>> \in Seq(R) /\ o \in R /\ r \in R
  OBVIOUS
<1> HIDE DEF R
<1>2. u \in Seq(R) /\ Len(u) = Len(rest) + 1 /\ u[1] = r /\ \A i \in 1 .. Len(rest) : u[i + 1] = rest[i]
  BY <1>1
<1>3. /\ s \in Seq(R) /\ Len(s) = Len(rest) + 2 /\ s[1] = o /\ s[2] = r
      /\ \A i \in 1 .. Len(rest) : s[i + 2] = rest[i]
  BY <1>1
<1> HIDE DEF s, u
<1>4. /\ Tail(s) \in Seq(R) /\ Len(Tail(s)) = Len(rest) + 1 /\ Tail(s)[1] = r
      /\ \A i \in 1 .. Len(rest) : Tail(s)[i + 1] = rest[i]
  BY <1>3
<1>5. Tail(s) = u
  <2> DEFINE r1 == Tail(s)
  <2>1. Len(r1) = Len(u) /\ r1 \in Seq(R) /\ u \in Seq(R)
    BY <1>2, <1>4
  <2>2. ASSUME NEW i \in 1 .. Len(u)
        PROVE  r1[i] = u[i]
    <3>1. CASE i = 1
      BY <1>2, <1>4, <3>1
    <3>2. CASE i # 1
      <4>1. i - 1 \in 1 .. Len(rest) /\ (i - 1) + 1 = i
        BY <1>1, <1>2, <3>2
      <4> QED
        BY <1>2, <1>4, <4>1
    <3> QED
      BY <3>1, <3>2
  <2> HIDE DEF r1
  <2> QED
    BY <2>1, <2>2 DEF r1
<1>6. s # <<>> /\ Head(s) = o
  BY <1>3
<1> QED
  BY <1>5, <1>6 DEF s, u

\* What is left of a list of operations, work, that repeats the k operations ops.
Repeats(work, ops, k, total) ==
    /\ From(work, 0) = work
    /\ \A j \in 0 .. total : /\ From(work, j) = <<>> <=> j = total
                             /\ <<>> \o From(work, j) = From(work, j)
    /\ \A j \in 0 .. total : \A o : /\ <<o>> \o From(work, j) # <<>>
                                /\ Head(<<o>> \o From(work, j)) = o
                                /\ Tail(<<o>> \o From(work, j)) = From(work, j)
                                /\ <<>> \o (<<o>> \o From(work, j)) = <<o>> \o From(work, j)
    /\ \A j \in 0 .. total : \A o, r :
                                /\ <<o, r>> \o From(work, j) # <<>>
                                /\ Head(<<o, r>> \o From(work, j)) = o
                                /\ Tail(<<o, r>> \o From(work, j)) = <<r>> \o From(work, j)
    /\ \A j \in 0 .. total - 1 : /\ Tail(From(work, j)) = From(work, j + 1)
                                 /\ Head(From(work, j)) = ops[(j % k) + 1]

\* Nothing in front of an operation in front of a list.
LEMMA ConsAlone ==
    ASSUME NEW S, NEW o, NEW rest \in Seq(S)
    PROVE  <<>> \o (<<o>> \o rest) = <<o>> \o rest
<1> DEFINE R == S \cup {o}
           s == <<o>> \o rest
<1>1. rest \in Seq(R) /\ <<o>> \in Seq(R)
  OBVIOUS
<1> HIDE DEF R
<1>2. s \in Seq(R)
  BY <1>1
<1> HIDE DEF s
<1>3. <<>> \o s = s
  BY <1>2
<1> QED
  BY <1>3 DEF s

\* A loop over k operations repeats them.
LEMMA RepeatIs ==
    ASSUME NEW S, NEW ops \in Seq(S), NEW k \in Nat, k > 0, Len(ops) = k,
           NEW work, work = Times(Rounds, ops), NEW total, total = k * Rounds
    PROVE  Repeats(work, ops, k, total)
<1>1. total = Rounds * Len(ops) /\ total \in Nat
  BY RoundsAssumption
<1>2. /\ work \in Seq(S)
      /\ Len(work) = total
      /\ \A j \in 0 .. total - 1 : work[j + 1] = ops[(j % k) + 1]
  <2>1. /\ Times(Rounds, ops) \in Seq(S)
        /\ Len(Times(Rounds, ops)) = Rounds * Len(ops)
        /\ \A j \in 0 .. Rounds * Len(ops) - 1 :
              Times(Rounds, ops)[j + 1] = ops[(j % Len(ops)) + 1]
    BY TimesIs, RoundsAssumption
  <2> QED
    BY <1>1, <2>1
<1>3. From(work, 0) = work
  BY <1>1, <1>2, FromIs
<1>4. ASSUME NEW j \in 0 .. total
      PROVE  /\ From(work, j) \in Seq(S)
             /\ From(work, j) = <<>> <=> j = total
             /\ <<>> \o From(work, j) = From(work, j)
             /\ j < total => /\ Tail(From(work, j)) = From(work, j + 1)
                             /\ Head(From(work, j)) = work[j + 1]
  <2>1. j \in 0 .. Len(work)
    BY <1>2
  <2>2. /\ From(work, j) \in Seq(S)
        /\ From(work, j) = <<>> <=> j = Len(work)
        /\ <<>> \o From(work, j) = From(work, j)
    BY <1>2, <2>1, FromIs
  <2>3. j < Len(work) => /\ Tail(From(work, j)) = From(work, j + 1)
                         /\ Head(From(work, j)) = work[j + 1]
    BY <1>2, <2>1, FromIs
  <2> QED
    BY <1>2, <2>2, <2>3
<1>5. ASSUME NEW j \in 0 .. total, NEW o
      PROVE  /\ <<o>> \o From(work, j) # <<>>
             /\ Head(<<o>> \o From(work, j)) = o
             /\ Tail(<<o>> \o From(work, j)) = From(work, j)
             /\ <<>> \o (<<o>> \o From(work, j)) = <<o>> \o From(work, j)
  BY <1>4, ConsIs, ConsAlone
<1>7. ASSUME NEW j \in 0 .. total, NEW o, NEW r
      PROVE  /\ <<o, r>> \o From(work, j) # <<>>
             /\ Head(<<o, r>> \o From(work, j)) = o
             /\ Tail(<<o, r>> \o From(work, j)) = <<r>> \o From(work, j)
  BY <1>4, Cons2Is
<1>6. ASSUME NEW j \in 0 .. total - 1
      PROVE  /\ Tail(From(work, j)) = From(work, j + 1)
             /\ Head(From(work, j)) = ops[(j % k) + 1]
  <2>1. j \in 0 .. total /\ j < total
    BY <1>1
  <2> QED
    BY <1>2, <1>4, <2>1
<1>8. \A j \in 0 .. total : /\ From(work, j) = <<>> <=> j = total
                            /\ <<>> \o From(work, j) = From(work, j)
  BY <1>4
<1>9. \A j \in 0 .. total : \A o : /\ <<o>> \o From(work, j) # <<>>
                                   /\ Head(<<o>> \o From(work, j)) = o
                                   /\ Tail(<<o>> \o From(work, j)) = From(work, j)
                                   /\ <<>> \o (<<o>> \o From(work, j)) = <<o>> \o From(work, j)
  BY <1>5
<1>10. \A j \in 0 .. total : \A o, r : /\ <<o, r>> \o From(work, j) # <<>>
                                       /\ Head(<<o, r>> \o From(work, j)) = o
                                       /\ Tail(<<o, r>> \o From(work, j)) = <<r>> \o From(work, j)
  BY <1>7
<1>11. \A j \in 0 .. total - 1 : /\ Tail(From(work, j)) = From(work, j + 1)
                                 /\ Head(From(work, j)) = ops[(j % k) + 1]
  BY <1>6
<1> QED
  BY <1>3, <1>8, <1>9, <1>10, <1>11 DEF Repeats

\* A load by main, which no one runs beside.
LEMMA LoadIs ==
    ASSUME DOMAIN code = Threads, NEW t \in Threads, LoadAtomic(t), NEW objects, DOMAIN mem = objects,
           NEW x \in objects, NEW into \in objects, NEW order, Now(t) = Load(x, into, order)
    PROVE  /\ Sets(into, mem[x])
           /\ hb' = Writes(Acquired(hb, t, x, order), t, into)
           /\ Continues(t, <<>> \o Tail(code[t]))
           /\ asleep' = asleep
<1>1. Now(t).obj = x /\ Now(t).into = into /\ Now(t).order = order
  BY DEF Load
<1>2. Becomes(into, mem[x]) /\ Goto(t, <<>> \o Tail(code[t]))
  BY <1>1 DEF LoadAtomic, Proceed, Instead
<1> QED
  BY <1>1, <1>2, GotoIs, BecomesIs DEF LoadAtomic

\* An atomic operation orders accesses that have been made, or none.
LEMMA AcquiredIs ==
    ASSUME NEW objects, NEW h, Ordered(h, objects), NEW t \in Threads, NEW o \in objects,
           NEW order, NEW g, g = Acquired(h, t, o, order)
    PROVE  /\ Ordered(g, objects)
           /\ \A x : Within(h, objects, x, h.known[t]) => Within(g, objects, x, g.known[t])
<1>1. CASE order = "relaxed"
  BY <1>1 DEF Acquired
<1>2. CASE order # "relaxed"
  <2>1. g = Sees(h, t, o)
    BY <1>2 DEF Acquired
  <2>2. /\ Ordered(g, objects)
        /\ g.known[t] = h.known[t] \cup h.shown[o]
        /\ \A a \in Accesses(objects) : Made(g, a) <=> Made(h, a)
    BY <2>1, SeesIs
  <2> QED
    BY <2>2 DEF Within
<1> QED
  BY <1>1, <1>2

\* What main does when it alone is left: it knows of all accesses.
LEMMA MainLoads ==
    ASSUME NEW objects, Ordered(hb, objects),
           \A x \in objects : Within(hb, objects, x, hb.known[Main]),
           NEW o \in objects, NEW order, NEW into \in objects,
           hb' = Writes(Acquired(hb, Main, o, order), Main, into)
    PROVE  Ordered(hb', objects) /\ \A x \in objects : Within(hb', objects, x, hb'.known[Main])
<1> DEFINE g == Acquired(hb, Main, o, order)
<1>1. Main \in Threads /\ Main \in {Main, A, B}
  BY DEF Threads
<1>2. Ordered(g, objects) /\ \A x \in objects : Within(g, objects, x, g.known[Main])
  BY <1>1, AcquiredIs
<1> HIDE DEF g
<1>3. Within(g, objects, into, g.known[Main])
  BY <1>2
<1>4. hb' = Writes(g, Main, into)
  BY DEF g
<1>5. /\ Ordered(hb', objects)
      /\ Within(hb', objects, into, hb'.known[Main])
      /\ SameBut(hb', g, objects, into)
  BY <1>1, <1>2, <1>3, <1>4, WritesIs
<1>6. ASSUME NEW x \in objects
      PROVE  Within(hb', objects, x, hb'.known[Main])
  <2>1. CASE x = into
    BY <1>5, <2>1
  <2>2. CASE x # into
    BY <1>1, <1>2, <1>5, <2>2 DEF Within, SameBut
  <2> QED
    BY <2>1, <2>2
<1> QED
  BY <1>5, <1>6

\* Threads that have accessed nothing have nothing to hand on.
LEMMA NothingToShow ==
    ASSUME NEW objects, NEW t \in Threads, NEW x \in objects, NEW order
    PROVE  /\ Acquired(Before(objects), t, x, order) = Before(objects)
           /\ Released(Before(objects), t, x, order) = Before(objects)
<1> DEFINE h == Before(objects)
           K == [u \in Threads |-> {}]
           S == [o \in objects |-> {}]
<1>1. h = [known |-> K, shown |-> S, races |-> {}]
  BY DEF Before
<1>2. K[t] = {} /\ S[x] = {} /\ [K EXCEPT ![t] = K[t] \cup S[x]] = K /\ [S EXCEPT ![x] = S[x] \cup K[t]] = S
  OBVIOUS
<1>3. Sees(h, t, x) = [h EXCEPT !.known = [K EXCEPT ![t] = K[t] \cup S[x]]]
  BY <1>1 DEF Sees
<1>4. Shows(h, t, x) = [h EXCEPT !.shown = [S EXCEPT ![x] = S[x] \cup K[t]]]
  BY <1>1 DEF Shows
<1>5. [h EXCEPT !.known = K] = h /\ [h EXCEPT !.shown = S] = h
  <2> HIDE DEF K, S
  <2> QED
    BY <1>1
<1>6. Sees(h, t, x) = h
  <2> HIDE DEF h, K, S
  <2> QED
    BY <1>2, <1>3, <1>5
<1>7. Shows(h, t, x) = h
  <2> HIDE DEF h, K, S
  <2> QED
    BY <1>2, <1>4, <1>5
<1> QED
  BY <1>6, <1>7 DEF Acquired, Released

\* What fetch_add does.
LEMMA FetchAddIs ==
    ASSUME DOMAIN code = Threads, NEW t \in Threads, AddAtomic(t), NEW objects, DOMAIN mem = objects,
           hb = Before(objects),
           NEW x \in objects, NEW d, NEW order, Now(t) = FetchAdd(x, d, order)
    PROVE  /\ Sets(x, mem[x] + d)
           /\ hb' = hb
           /\ Continues(t, <<>> \o Tail(code[t]))
           /\ asleep' = asleep
<1>1. Now(t).obj = x /\ Now(t).by = d /\ Now(t).order = order
  BY DEF FetchAdd
<1>2. Becomes(x, mem[x] + d) /\ Goto(t, <<>> \o Tail(code[t]))
  BY <1>1 DEF AddAtomic, Proceed, Instead
<1>3. hb' = Released(Acquired(hb, t, x, order), t, x, order)
  BY <1>1 DEF AddAtomic
<1> QED
  BY <1>2, <1>3, GotoIs, BecomesIs, NothingToShow DEF AddAtomic

\* A thread that does nothing but count.
CountWork(x, order) == Times(Rounds, <<FetchAdd(x, 1, order)>>)

\* Its loop has one operation.
LEMMA CountWorkIs ==
    ASSUME NEW x, NEW order, NEW work, work = CountWork(x, order)
    PROVE  /\ From(work, 0) = work
           /\ \A j \in 0 .. Rounds : /\ From(work, j) = <<>> <=> j = Rounds
                                     /\ <<>> \o From(work, j) = From(work, j)
           /\ \A j \in 0 .. Rounds - 1 : /\ Tail(From(work, j)) = From(work, j + 1)
                                         /\ Head(From(work, j)) = FetchAdd(x, 1, order)
<1> DEFINE o == FetchAdd(x, 1, order)
           ops == <<o>>
           S == {o}
<1>1. ops \in Seq(S) /\ Len(ops) = 1 /\ ops[1] = o
  <2> HIDE DEF o
  <2> QED
    OBVIOUS
<1>2. work = Times(Rounds, ops) /\ Rounds = 1 * Rounds
  BY RoundsAssumption DEF CountWork
<1>3. \A j \in Nat : (j % 1) + 1 = 1
  OBVIOUS
<1> HIDE DEF o, ops, S
<1>4. /\ From(work, 0) = work
      /\ \A j \in 0 .. Rounds : /\ From(work, j) = <<>> <=> j = Rounds
                                /\ <<>> \o From(work, j) = From(work, j)
      /\ \A j \in 0 .. Rounds - 1 : /\ Tail(From(work, j)) = From(work, j + 1)
                                    /\ Head(From(work, j)) = ops[(j % 1) + 1]
  <2> DEFINE k == 1
  <2>1. k \in Nat /\ k > 0 /\ Len(ops) = k /\ Rounds = k * Rounds
    BY <1>1, <1>2
  <2> HIDE DEF k
  <2>2. Repeats(work, ops, k, Rounds)
    BY <1>1, <1>2, <2>1, RepeatIs
  <2> QED
    BY <2>2 DEF Repeats, k
<1>5. ASSUME NEW j \in 0 .. Rounds - 1
      PROVE  Head(From(work, j)) = o
  BY <1>1, <1>3, <1>4
<1> QED
  BY <1>4, <1>5 DEF o

\* One round of a thread that counts.
LEMMA CountStep ==
    ASSUME DOMAIN code = Threads, NEW t \in Threads, asleep[t] = Awake,
           LibraryStep(t) \/ UnforcedStep(t),
           NEW objects, DOMAIN mem = objects, hb = Before(objects), NEW x \in objects, NEW order,
           NEW j \in 0 .. Rounds, code[t] = From(CountWork(x, order), j)
    PROVE  /\ j < Rounds /\ j + 1 \in 0 .. Rounds
           /\ Sets(x, mem[x] + 1) /\ hb' = hb /\ asleep' = asleep
           /\ Continues(t, From(CountWork(x, order), j + 1))
<1> USE RoundsAssumption
<1> DEFINE work == CountWork(x, order)
<1>1. /\ \A i \in 0 .. Rounds : /\ From(work, i) = <<>> <=> i = Rounds
                                /\ <<>> \o From(work, i) = From(work, i)
      /\ \A i \in 0 .. Rounds - 1 : /\ Tail(From(work, i)) = From(work, i + 1)
                                    /\ Head(From(work, i)) = FetchAdd(x, 1, order)
  BY CountWorkIs
<1>2. code[t] = From(work, j)
  OBVIOUS
<1> HIDE DEF work
<1>3. code[t] # <<>>
  BY OperationOfStep
<1>4. j < Rounds /\ j \in 0 .. Rounds - 1 /\ j + 1 \in 0 .. Rounds
  BY <1>1, <1>2, <1>3
<1>5. Now(t) = FetchAdd(x, 1, order) /\ <<>> \o Tail(code[t]) = From(work, j + 1)
  BY <1>1, <1>2, <1>4 DEF Now
<1>6. AddAtomic(t)
  <2>1. Now(t).op = "fetchAdd"
    BY <1>5 DEF FetchAdd
  <2> QED
    BY <2>1, OperationOfStep
<1>7. Sets(x, mem[x] + 1) /\ hb' = hb /\ Continues(t, <<>> \o Tail(code[t])) /\ asleep' = asleep
  BY <1>5, <1>6, FetchAddIs
<1> QED
  BY <1>4, <1>5, <1>7 DEF work

-----------------------------------------------------------------------------
(* MutexCounterDemo *)

\* What the threads and main do.
MutexWork == Times(Rounds, Locked("m", <<Add("counter", 1)>>))
MutexMain == <<Start([t \in {A, B} |-> MutexWork]), Join({A, B}), Read("counter")>>

\* Main has not started the threads.
MutexBegun ==
    /\ OnlyMain(MutexMain)
    /\ mem = [counter |-> 0, m |-> {}]
    /\ hb = Before({"counter", "m"})

\* Only main, A and B run, and no race has been seen.
MutexMemory ==
    /\ DOMAIN code = Threads /\ code[C] = <<>> /\ code[D] = <<>>
    /\ DOMAIN mem = {"counter", "m"}
    /\ Ordered(hb, {"counter", "m"})

\* Thread t is at operation P[t] of its loop, of which every third step holds
\* the mutex for two steps; the counter says how many increments are behind the
\* two threads, one at most holds the mutex, and it knows of all accesses to the
\* counter, or leaves them at the mutex.
MutexRunning ==
    /\ MutexMemory
    /\ code[Main] = <<Join({A, B}), Read("counter")>>
    /\ \E P \in [{A, B} -> 0 .. 3 * Rounds] :
          /\ \A t \in {A, B} : code[t] = From(MutexWork, P[t])
          /\ mem.counter = ((P[A] + 1) \div 3) + ((P[B] + 1) \div 3)
          /\ mem.m = {t \in {A, B} : P[t] % 3 # 0}
          /\ P[A] % 3 = 0 \/ P[B] % 3 = 0
          /\ mem.m = {} => Within(hb, {"counter", "m"}, "counter", hb.shown["m"])
          /\ \A t \in {A, B} : P[t] % 3 # 0 => Within(hb, {"counter", "m"}, "counter", hb.known[t])

\* Both threads have ended.
MutexJoined ==
    /\ MutexMemory
    /\ code[Main] \in {<<Read("counter")>>, <<>>} /\ code[A] = <<>> /\ code[B] = <<>>
    /\ mem.counter = 2 * Rounds
    /\ Within(hb, {"counter", "m"}, "counter", hb.known[Main])

\* The inductive invariant of the demo.
MutexInv == AllAwake /\ (MutexBegun \/ MutexRunning \/ MutexJoined)

\* The loop repeats lock, increment and unlock.
LEMMA MutexWorkIs ==
    /\ From(MutexWork, 0) = MutexWork
    /\ \A j \in 0 .. 3 * Rounds : From(MutexWork, j) = <<>> <=> j = 3 * Rounds
    /\ \A j \in 0 .. 3 * Rounds - 1 :
          /\ <<>> \o Tail(From(MutexWork, j)) = From(MutexWork, j + 1)
          /\ j % 3 = 0 => Head(From(MutexWork, j)) = Lock("m")
          /\ j % 3 = 1 => Head(From(MutexWork, j)) = Add("counter", 1)
          /\ j % 3 = 2 => Head(From(MutexWork, j)) = Unlock("m")
<1> DEFINE ops == <<Lock("m"), Add("counter", 1), Unlock("m")>>
           S   == {Lock("m"), Add("counter", 1), Unlock("m")}
<1>1. Locked("m", <<Add("counter", 1)>>) = ops
  <2>1. <<Lock("m")>> \o <<Add("counter", 1)>> \o <<Unlock("m")>> = ops
    BY ListOf3
  <2> QED
    BY <2>1 DEF Locked
<1>2. /\ ops \in Seq(S) /\ Len(ops) = 3
      /\ ops[1] = Lock("m") /\ ops[2] = Add("counter", 1) /\ ops[3] = Unlock("m")
  BY ListOf3
<1>3. MutexWork = Times(Rounds, ops)
  BY <1>1 DEF MutexWork
<1> HIDE DEF ops, S
<1>4. /\ MutexWork \in Seq(S)
      /\ Len(MutexWork) = 3 * Rounds
      /\ \A j \in 0 .. 3 * Rounds - 1 : MutexWork[j + 1] = ops[(j % 3) + 1]
  <2>1. Rounds * Len(ops) = 3 * Rounds
    BY <1>2, RoundsAssumption
  <2>2. /\ Times(Rounds, ops) \in Seq(S)
        /\ Len(Times(Rounds, ops)) = Rounds * Len(ops)
        /\ \A j \in 0 .. Rounds * Len(ops) - 1 :
              Times(Rounds, ops)[j + 1] = ops[(j % Len(ops)) + 1]
    <3>1. Len(ops) > 0
      BY <1>2
    <3> QED
      BY <1>2, <3>1, TimesIs, RoundsAssumption
  <2> QED
    BY <1>2, <1>3, <2>1, <2>2
<1>5. From(MutexWork, 0) = MutexWork
  BY <1>4, FromIs, RoundsAssumption
<1>6. \A j \in 0 .. 3 * Rounds : From(MutexWork, j) = <<>> <=> j = 3 * Rounds
  BY <1>4, FromIs
<1>7. ASSUME NEW j \in 0 .. 3 * Rounds - 1
      PROVE  /\ <<>> \o Tail(From(MutexWork, j)) = From(MutexWork, j + 1)
             /\ Head(From(MutexWork, j)) = ops[(j % 3) + 1]
  <2>1. j \in 0 .. Len(MutexWork) /\ j + 1 \in 0 .. Len(MutexWork) /\ j < Len(MutexWork)
    BY <1>4
  <2>2. Head(From(MutexWork, j)) = MutexWork[j + 1] /\ Tail(From(MutexWork, j)) = From(MutexWork, j + 1)
    <3> DEFINE work == MutexWork
    <3>1. work \in Seq(S) /\ j \in 0 .. Len(work) /\ j < Len(work)
      BY <1>4, <2>1
    <3> HIDE DEF work, S
    <3>2. Head(From(work, j)) = work[j + 1] /\ Tail(From(work, j)) = From(work, j + 1)
      BY <3>1, FromIs
    <3> QED
      BY <3>2 DEF work
  <2>3. <<>> \o From(MutexWork, j + 1) = From(MutexWork, j + 1)
    BY <1>4, <2>1, FromIs
  <2> QED
    BY <1>4, <2>2, <2>3
<1> QED
  BY <1>2, <1>5, <1>6, <1>7

\* A step of one of the two threads.
LEMMA MutexWorkerStep ==
    ASSUME AllAwake, MutexRunning, NEW t \in {A, B}, LibraryStep(t) \/ UnforcedStep(t)
    PROVE  AllAwake' /\ MutexRunning'
<1> USE RoundsAssumption
<1> DEFINE Objects == {"counter", "m"}
<1>1. PICK P \in [{A, B} -> 0 .. 3 * Rounds] :
          /\ \A u \in {A, B} : code[u] = From(MutexWork, P[u])
          /\ mem.counter = ((P[A] + 1) \div 3) + ((P[B] + 1) \div 3)
          /\ mem.m = {u \in {A, B} : P[u] % 3 # 0}
          /\ P[A] % 3 = 0 \/ P[B] % 3 = 0
          /\ mem.m = {} => Within(hb, {"counter", "m"}, "counter", hb.shown["m"])
          /\ \A u \in {A, B} : P[u] % 3 # 0 => Within(hb, {"counter", "m"}, "counter", hb.known[u])
  BY DEF MutexRunning
<1> DEFINE j == P[t]
           Q == [P EXCEPT ![t] = j + 1]
<1>2. /\ DOMAIN code = Threads /\ t \in Threads /\ t # Main /\ t \notin {C, D}
      /\ code[C] = <<>> /\ code[D] = <<>> /\ code[Main] = <<Join({A, B}), Read("counter")>>
      /\ DOMAIN mem = Objects /\ Ordered(hb, Objects)
  BY ThreadsDiffer DEF MutexRunning, MutexMemory, Threads
<1>3. asleep[t] = Awake
  BY <1>2 DEF AllAwake
<1>4. code[t] # <<>> /\ j \in 0 .. 3 * Rounds - 1
  <2>1. code[t] # <<>>
    BY <1>2, <1>3, OperationOfStep
  <2>2. j # 3 * Rounds
    BY <1>1, <2>1, MutexWorkIs
  <2>3. j \in 0 .. 3 * Rounds
    BY <1>1
  <2> QED
    BY <2>1, <2>2, <2>3
<1>5. /\ <<>> \o Tail(code[t]) = From(MutexWork, j + 1)
      /\ j % 3 = 0 => Now(t) = Lock("m")
      /\ j % 3 = 1 => Now(t) = Add("counter", 1)
      /\ j % 3 = 2 => Now(t) = Unlock("m")
  BY <1>1, <1>4, MutexWorkIs DEF Now
<1>6. /\ Q \in [{A, B} -> 0 .. 3 * Rounds]
      /\ Q[t] = j + 1 /\ \A u \in {A, B} : u # t => Q[u] = P[u]
  <2> DEFINE q == j + 1
  <2>1. P \in [{A, B} -> 0 .. 3 * Rounds] /\ q \in 0 .. 3 * Rounds /\ Q = [P EXCEPT ![t] = q]
    BY <1>1, <1>4
  <2> HIDE DEF q, Q
  <2> QED
    BY <2>1 DEF q
<1>7. PICK other \in {A, B} : other # t /\ {A, B} = {t, other} /\ other # Main
  BY ThreadsDiffer
<1>8. mem.counter = ((P[t] + 1) \div 3) + ((P[other] + 1) \div 3)
  BY <1>1, <1>7
<1> HIDE DEF Q
<1> DEFINE k == P[other]
<1>a. /\ j \in Nat /\ k \in Nat /\ Q[t] = j + 1 /\ Q[other] = k
      /\ mem.counter = ((j + 1) \div 3) + ((k + 1) \div 3)
      /\ j % 3 # 0 => k % 3 = 0
  <2>1. j \in Nat /\ k \in Nat
    BY <1>1, <1>4
  <2>2. Q[t] = j + 1 /\ Q[other] = k
    BY <1>6, <1>7
  <2>3. mem.counter = ((j + 1) \div 3) + ((k + 1) \div 3)
    BY <1>8
  <2>4. P[t] % 3 = 0 \/ P[other] % 3 = 0
    BY <1>1, <1>7
  <2> QED
    BY <2>1, <2>2, <2>3, <2>4
<1>9. SUFFICES
        /\ Continues(t, <<>> \o Tail(code[t]))
        /\ DOMAIN mem' = Objects
        /\ mem'.counter = ((Q[t] + 1) \div 3) + ((Q[other] + 1) \div 3)
        /\ mem'.m = {u \in {A, B} : Q[u] % 3 # 0}
        /\ Q[t] % 3 = 0 \/ Q[other] % 3 = 0
        /\ asleep' = asleep
        /\ Ordered(hb', Objects)
        /\ mem'.m = {} => Within(hb', {"counter", "m"}, "counter", hb'.shown["m"])
        /\ \A u \in {A, B} : Q[u] % 3 # 0 => Within(hb', {"counter", "m"}, "counter", hb'.known[u])
  <2>1. \A u \in {A, B} : code'[u] = From(MutexWork, Q[u])
    BY <1>1, <1>2, <1>5, <1>6, <1>9 DEF Continues, Threads
  <2>2. mem'.counter = ((Q[A] + 1) \div 3) + ((Q[B] + 1) \div 3)
    BY <1>6, <1>7, <1>9
  <2>3. Q[A] % 3 = 0 \/ Q[B] % 3 = 0
    BY <1>7, <1>9
  <2>4. MutexMemory'
    BY <1>2, <1>9 DEF MutexMemory, Continues, Threads
  <2>5. code'[Main] = <<Join({A, B}), Read("counter")>>
    BY <1>2, <1>9 DEF Continues, Threads
  <2>6. MutexRunning'
    BY <1>6, <1>9, <2>1, <2>2, <2>3, <2>4, <2>5 DEF MutexRunning
  <2> QED
    BY <1>9, <2>6 DEF AllAwake
<1>10. CASE j % 3 = 0
  <2>1. Now(t).op = "lock"
    BY <1>5, <1>10 DEF Lock, LockWith
  <2>2. LockMutex(t)
    BY <1>2, <1>3, <2>1, OperationOfStep
  <2>3. /\ mem.m = {} /\ Sets("m", {t}) /\ hb' = Sees(hb, t, "m")
        /\ Continues(t, <<>> \o Tail(code[t])) /\ asleep' = asleep
    BY <1>2, <1>5, <1>10, <2>2, LockIs
  <2>4. DOMAIN mem' = Objects /\ mem'.m = {t} /\ mem'.counter = mem.counter
    BY <1>2, <2>3 DEF Sets
  <2>5. P[other] % 3 = 0 /\ Q[other] % 3 = 0 /\ Q[t] % 3 = 1
    BY <1>1, <1>7, <1>10, <1>a, <2>3, Thirds
  <2>6. (Q[t] + 1) \div 3 = (P[t] + 1) \div 3
    BY <1>10, <1>a, Thirds
  <2>7. mem'.counter = ((Q[t] + 1) \div 3) + ((Q[other] + 1) \div 3)
    BY <1>6, <1>7, <1>8, <2>4, <2>6
  <2>8. mem'.m = {u \in {A, B} : Q[u] % 3 # 0}
    BY <1>7, <2>4, <2>5
  <2>9. Ordered(hb', Objects) /\ Within(hb', {"counter", "m"}, "counter", hb'.known[t])
    BY <1>1, <1>2, <2>3, SeesIs DEF Within
  <2> QED
    BY <1>7, <2>3, <2>4, <2>5, <2>7, <2>8, <2>9
<1>11. CASE j % 3 = 1
  <2>1. Now(t).op = "assign"
    BY <1>5, <1>11 DEF Add, Assign
  <2>2. AssignVariable(t)
    BY <1>2, <1>3, <2>1, OperationOfStep
  <2>3. /\ Sets("counter", mem.counter + 1)
        /\ hb' = Writes(hb, t, "counter")
        /\ Continues(t, <<>> \o Tail(code[t])) /\ asleep' = asleep
    BY <1>2, <1>5, <1>11, <2>2, AddIs
  <2>4. DOMAIN mem' = Objects /\ mem'.m = mem.m /\ mem'.counter = mem.counter + 1
    BY <1>2, <2>3 DEF Sets
  <2>5. P[other] % 3 = 0 /\ Q[other] % 3 = 0 /\ Q[t] % 3 = 2
    <3>1. k % 3 = 0
      BY <1>11, <1>a
    <3>2. (j + 1) % 3 = 2
      BY <1>11, <1>a, Thirds
    <3> QED
      BY <1>a, <3>1, <3>2
  <2>6. (Q[t] + 1) \div 3 = ((P[t] + 1) \div 3) + 1
    BY <1>11, <1>a, Thirds
  <2>7. mem'.counter = ((Q[t] + 1) \div 3) + ((Q[other] + 1) \div 3)
    BY <1>6, <1>7, <1>8, <2>4, <2>6, <1>1
  <2>8. mem'.m = {u \in {A, B} : Q[u] % 3 # 0} /\ mem'.m # {}
    BY <1>1, <1>7, <1>11, <2>4, <2>5
  <2>9. Ordered(hb', Objects) /\ Within(hb', {"counter", "m"}, "counter", hb'.known[t])
    <3>1. Within(hb, {"counter", "m"}, "counter", hb.known[t])
      BY <1>1, <1>11
    <3>2. "counter" \in Objects
      OBVIOUS
    <3> QED
      BY <1>2, <2>3, <3>1, <3>2, WritesIs
  <2> QED
    BY <1>7, <2>3, <2>4, <2>5, <2>7, <2>8, <2>9
<1>12. CASE j % 3 = 2
  <2>1. Now(t).op = "unlock"
    BY <1>5, <1>12 DEF Unlock
  <2>2. UnlockMutex(t)
    BY <1>2, <1>3, <2>1, OperationOfStep
  <2>3. /\ Sets("m", mem.m \ {t}) /\ hb' = Shows(hb, t, "m")
        /\ Continues(t, <<>> \o Tail(code[t])) /\ asleep' = asleep
    BY <1>2, <1>5, <1>12, <2>2, UnlockIs
  <2>4. DOMAIN mem' = Objects /\ mem'.m = mem.m \ {t} /\ mem'.counter = mem.counter
    BY <1>2, <2>3 DEF Sets
  <2>5. P[other] % 3 = 0 /\ Q[other] % 3 = 0 /\ Q[t] % 3 = 0
    BY <1>12, <1>a, Thirds
  <2>6. (Q[t] + 1) \div 3 = (P[t] + 1) \div 3
    BY <1>12, <1>a, Thirds
  <2>7. mem'.counter = ((Q[t] + 1) \div 3) + ((Q[other] + 1) \div 3)
    BY <1>6, <1>7, <1>8, <2>4, <2>6
  <2>8. mem'.m = {u \in {A, B} : Q[u] % 3 # 0}
    BY <1>1, <1>7, <1>12, <2>4, <2>5
  <2>9. Ordered(hb', Objects) /\ Within(hb', {"counter", "m"}, "counter", hb'.shown["m"])
    BY <1>1, <1>2, <1>12, <2>3, ShowsIs DEF Within
  <2> QED
    BY <1>7, <2>3, <2>4, <2>5, <2>7, <2>8, <2>9
<1>13. j % 3 = 0 \/ j % 3 = 1 \/ j % 3 = 2
  BY <1>4
<1> QED
  BY <1>10, <1>11, <1>12, <1>13

\* The invariant holds at first,
LEMMA MutexInit ==
    ASSUME Init, Running = MutexCounterDemo
    PROVE  MutexInv
<1>1. /\ Running.main = MutexMain
      /\ Running.objects = [counter |-> 0, m |-> {}]
      /\ DOMAIN Running.objects = {"counter", "m"}
  BY DEF MutexCounterDemo, MutexMain, MutexWork, Demo
<1>2. OnlyMain(MutexMain) /\ mem = [counter |-> 0, m |-> {}] /\ hb = Before({"counter", "m"})
  BY <1>1 DEF Init, OnlyMain
<1> QED
  BY <1>2 DEF Init, MutexInv, MutexBegun, AllAwake

\* every step keeps it,
LEMMA MutexStep ==
    ASSUME MutexInv, NEW t \in Threads, LibraryStep(t) \/ UnforcedStep(t)
    PROVE  MutexInv'
<1> USE RoundsAssumption
<1> DEFINE Objects == {"counter", "m"}
<1>1. AllAwake /\ asleep[t] = Awake
  BY DEF MutexInv, AllAwake
<1>2. code[t] # <<>>
  BY <1>1, OperationOfStep
<1>3. CASE MutexBegun
  <2> DEFINE new == [u \in {A, B} |-> MutexWork]
  <2>1. /\ Head(MutexMain) = Start(new) /\ DOMAIN new = {A, B} /\ new[A] = MutexWork /\ new[B] = MutexWork
        /\ Tail(MutexMain) = <<Join({A, B}), Read("counter")>>
    BY DEF MutexMain
  <2> HIDE DEF new
  <2>2. /\ DOMAIN code' = Threads
        /\ code'[Main] = <<Join({A, B}), Read("counter")>>
        /\ code'[A] = MutexWork /\ code'[B] = MutexWork
        /\ code'[C] = <<>> /\ code'[D] = <<>>
        /\ hb' = hb /\ mem' = mem /\ asleep' = asleep
    BY <1>1, <1>3, <2>1, FirstStep DEF MutexBegun
  <2>3. Ordered(hb', Objects) /\ Within(hb', Objects, "counter", hb'.shown["m"])
    BY <1>3, <2>2, BeforeIs DEF MutexBegun, Within
  <2> DEFINE P == [u \in {A, B} |-> 0]
  <2>4. P \in [{A, B} -> 0 .. 3 * Rounds] /\ \A u \in {A, B} : P[u] = 0
    OBVIOUS
  <2>5. \A u \in {A, B} : code'[u] = From(MutexWork, P[u])
    BY <2>2, <2>4, MutexWorkIs
  <2>6. mem'.counter = 0 /\ mem'.m = {} /\ DOMAIN mem' = Objects
    BY <1>3, <2>2 DEF MutexBegun
  <2>7. (0 + 1) \div 3 = 0 /\ 0 % 3 = 0
    OBVIOUS
  <2> HIDE DEF P
  <2>8. /\ mem'.counter = ((P[A] + 1) \div 3) + ((P[B] + 1) \div 3)
        /\ mem'.m = {u \in {A, B} : P[u] % 3 # 0}
        /\ \A u \in {A, B} : P[u] % 3 = 0
    BY <2>4, <2>6, <2>7
  <2>9. MutexMemory'
    BY <2>2, <2>3, <2>6 DEF MutexMemory
  <2>10. MutexRunning'
    BY <2>2, <2>3, <2>4, <2>5, <2>8, <2>9 DEF MutexRunning
  <2> QED
    BY <1>1, <2>2, <2>10 DEF MutexInv, AllAwake
<1>4. CASE MutexRunning
  <2>1. CASE t \in {A, B}
    BY <1>1, <1>4, <2>1, MutexWorkerStep DEF MutexInv
  <2>2. CASE t = Main
    <3>1. /\ code[Main] = <<Join({A, B}), Read("counter")>> /\ MutexMemory
          /\ DOMAIN code = Threads /\ Ordered(hb, Objects)
      BY <1>4 DEF MutexRunning, MutexMemory
    <3>2. Head(code[Main]) = Join({A, B}) /\ <<>> \o Tail(code[Main]) = <<Read("counter")>>
      BY <3>1
    <3>3. /\ code[A] = <<>> /\ code[B] = <<>>
          /\ Continues(Main, <<>> \o Tail(code[Main]))
          /\ mem' = mem /\ asleep' = asleep
          /\ Ordered(hb', Objects)
          /\ \A x : Within(hb', Objects, x, hb'.known[Main])
      BY <1>1, <1>2, <2>2, <3>1, <3>2, JoinStep
    <3>4. mem.counter = 2 * Rounds
      <4>1. PICK P \in [{A, B} -> 0 .. 3 * Rounds] :
                /\ \A u \in {A, B} : code[u] = From(MutexWork, P[u])
                /\ mem.counter = ((P[A] + 1) \div 3) + ((P[B] + 1) \div 3)
        BY <1>4 DEF MutexRunning
      <4>2. P[A] = 3 * Rounds /\ P[B] = 3 * Rounds
        BY <3>3, <4>1, MutexWorkIs
      <4>3. (3 * Rounds + 1) \div 3 = Rounds
        OBVIOUS
      <4> QED
        BY <4>1, <4>2, <4>3
    <3>5. /\ code'[Main] = <<Read("counter")>> /\ code'[A] = <<>> /\ code'[B] = <<>>
          /\ code'[C] = <<>> /\ code'[D] = <<>> /\ DOMAIN code' = Threads
      BY <3>1, <3>2, <3>3, ThreadsDiffer DEF Continues, MutexMemory, Threads
    <3>6. MutexJoined'
      BY <3>1, <3>3, <3>4, <3>5 DEF MutexJoined, MutexMemory
    <3> QED
      BY <1>1, <3>3, <3>6 DEF MutexInv, AllAwake
  <2>3. t \in {Main, A, B}
    BY <1>2, <1>4, ThreadsDiffer DEF MutexRunning, MutexMemory
  <2> QED
    BY <2>1, <2>2, <2>3
<1>5. CASE MutexJoined
  <2>1. t = Main /\ code[Main] = <<Read("counter")>>
    BY <1>2, <1>5, ThreadsDiffer DEF MutexJoined, MutexMemory
  <2>2. Now(t) = Read("counter") /\ Now(t).op = "read" /\ <<>> \o Tail(code[t]) = <<>>
    BY <2>1 DEF Now, Read
  <2>3. ReadVariable(t)
    BY <1>1, <2>2, OperationOfStep
  <2>4. /\ DOMAIN code = Threads /\ Ordered(hb, Objects) /\ "counter" \in Objects
        /\ Within(hb, Objects, "counter", hb.known[t])
    BY <1>5, <2>1 DEF MutexJoined, MutexMemory
  <2>5. /\ hb' = Reads(hb, t, {"counter"}) /\ Continues(t, <<>> \o Tail(code[t]))
        /\ mem' = mem /\ asleep' = asleep
    BY <2>2, <2>3, <2>4, ReadIs
  <2>6. Ordered(hb', Objects) /\ Within(hb', Objects, "counter", hb'.known[t])
    BY <2>1, <2>4, <2>5, ReadsIs
  <2>7. /\ DOMAIN code' = Threads /\ code'[Main] = <<>> /\ code'[A] = <<>> /\ code'[B] = <<>>
        /\ code'[C] = <<>> /\ code'[D] = <<>>
    BY <1>5, <2>1, <2>2, <2>5, ThreadsDiffer DEF MutexJoined, MutexMemory, Continues, Threads
  <2>8. MutexJoined'
    BY <1>5, <2>1, <2>5, <2>6, <2>7 DEF MutexJoined, MutexMemory
  <2> QED
    BY <1>1, <2>5, <2>8 DEF MutexInv, AllAwake
<1> QED
  BY <1>3, <1>4, <1>5 DEF MutexInv

\* and it says that the demo is right.
LEMMA MutexShows ==
    ASSUME Running = MutexCounterDemo, MutexInv
    PROVE  RaceFree /\ AsPrinted /\ WithinLimits
<1>1. RaceFree
  BY DEF MutexInv, MutexBegun, MutexRunning, MutexJoined, MutexMemory, Before, Ordered, Ordering,
         RaceFree
<1>2. ASSUME Done
      PROVE  mem.counter = 2 * Rounds
  <2>1. code[Main] = <<>>
    BY <1>2 DEF Done, Threads
  <2>2. ~MutexBegun
    BY <2>1 DEF MutexBegun, MutexMain, OnlyMain, Threads
  <2> QED
    BY <2>1, <2>2 DEF MutexInv, MutexRunning, MutexJoined
<1>3. /\ Running.final = [counter : {2 * Rounds}]
      /\ Running.always = <<>>
  BY DEF MutexCounterDemo, Demo, Nothing
<1>4. AsPrinted
  <2> DEFINE f == [counter |-> 2 * Rounds]
  <2>1. f \in Running.final /\ DOMAIN f = {"counter"} /\ f["counter"] = 2 * Rounds
    BY <1>3
  <2> QED
    BY <1>2, <2>1 DEF AsPrinted
<1>5. WithinLimits
  BY <1>3 DEF WithinLimits
<1> QED
  BY <1>1, <1>4, <1>5

-----------------------------------------------------------------------------
(* ScopedLockDemo and ScopedLockPairDemo *)

\* The names of the mutexes and variables in the two demos.
ScopedNames == [first |-> "first", second |-> "second", x |-> "firstValue", y |-> "secondValue"]
PairNames == [first |-> "m1", second |-> "m2", x |-> "a", y |-> "b"]

\* The objects of such a demo, all different.
PairObjects(n) == {n.first, n.second, n.x, n.y}
Different(n) ==
    /\ n.first \notin {n.second, n.x, n.y} /\ n.second \notin {n.x, n.y} /\ n.x # n.y

\* What the threads and main do.
PairWork(n) == Times(Rounds, ScopedLock(n.first, n.second, <<Add(n.x, 1), Add(n.y, 1)>>))
PairMain(n) == <<Start([t \in {A, B} |-> PairWork(n)]), Join({A, B}), Read(n.x), Read(n.y)>>

\* A thread is in std::lock: it asks for both mutexes, in one order or the other,
\* or has the first one it asked for.
Pending(a, b, way) ==
    CASE way = "both"    -> LockBoth(a, b)
      [] way = "swapped" -> LockBoth(b, a)
      [] way = "first"   -> Tries(a, b)
      [] way = "second"  -> Tries(b, a)

\* A thread is on a numbered operation of its loop, or on the way through
\* std::lock, asking for both or holding one.
Ways == {"on", "both", "swapped", "first", "second"}

\* Thread t is at operation p of its loop, and holds the mutexes that this means.
PairAt(n, t, p, way) ==
    /\ way = "on" => code[t] = From(PairWork(n), p)
    /\ way # "on" => /\ code[t] = <<Pending(n.first, n.second, way)>> \o From(PairWork(n), p + 1)
                     /\ p % 5 = 0 /\ p < 5 * Rounds
    /\ t \in mem[n.first] <=> p % 5 \in {1, 2, 3} \/ way = "first"
    /\ t \in mem[n.second] <=> p % 5 \in {1, 2, 3, 4} \/ way = "second"

\* Main has not started the threads.
PairBegun(n) ==
    /\ OnlyMain(PairMain(n))
    /\ mem = [o \in PairObjects(n) |-> IF o \in {n.x, n.y} THEN 0 ELSE {}]
    /\ hb = Before(PairObjects(n))

\* Only main, A and B run, and no race has been seen.
PairMemory(n) ==
    /\ DOMAIN code = Threads /\ code[C] = <<>> /\ code[D] = <<>>
    /\ DOMAIN mem = PairObjects(n)
    /\ Ordered(hb, PairObjects(n))

\* The variables say how many increments are behind the threads.
PairCounts(n, P) ==
    /\ mem[n.x] = ((P[A] + 3) \div 5) + ((P[B] + 3) \div 5)
    /\ mem[n.y] = ((P[A] + 2) \div 5) + ((P[B] + 2) \div 5)

\* One thread at most has a mutex, and the first guards both variables.
PairLocks(n) ==
    /\ \A m \in {n.first, n.second} : mem[m] \in {{}, {A}, {B}}
    /\ \A v \in {n.x, n.y} : Guarded(hb, PairObjects(n), v, n.first, mem[n.first])

\* The two threads are in their loops.
PairRunning(n) ==
    /\ PairMemory(n)
    /\ code[Main] = <<Join({A, B}), Read(n.x), Read(n.y)>>
    /\ PairLocks(n)
    /\ \E P \in [{A, B} -> 0 .. 5 * Rounds], W \in [{A, B} -> Ways] :
          /\ \A t \in {A, B} : PairAt(n, t, P[t], W[t])
          /\ PairCounts(n, P)

\* Both have ended.
PairJoined(n) ==
    /\ PairMemory(n)
    /\ code[Main] \in {<<Read(n.x), Read(n.y)>>, <<Read(n.y)>>, <<>>}
    /\ code[A] = <<>> /\ code[B] = <<>>
    /\ mem[n.x] = 2 * Rounds /\ mem[n.y] = 2 * Rounds
    /\ \A v \in {n.x, n.y} : Within(hb, PairObjects(n), v, hb.known[Main])

\* The inductive invariant of the demos.
PairInv(n) == AllAwake /\ (PairBegun(n) \/ PairRunning(n) \/ PairJoined(n))


\* The loop repeats five operations.
LEMMA PairWorkIs ==
    ASSUME NEW n
    PROVE  /\ From(PairWork(n), 0) = PairWork(n)
           /\ \A p \in 0 .. 5 * Rounds : From(PairWork(n), p) = <<>> <=> p = 5 * Rounds
           /\ \A p \in 0 .. 5 * Rounds : <<>> \o From(PairWork(n), p) = From(PairWork(n), p)
           /\ \A p \in 0 .. 5 * Rounds : \A o :
                 /\ <<o>> \o From(PairWork(n), p) # <<>>
                 /\ Head(<<o>> \o From(PairWork(n), p)) = o
                 /\ Tail(<<o>> \o From(PairWork(n), p)) = From(PairWork(n), p)
           /\ \A p \in 0 .. 5 * Rounds - 1 :
                 /\ Tail(From(PairWork(n), p)) = From(PairWork(n), p + 1)
                 /\ p % 5 = 0 => Head(From(PairWork(n), p)) = LockBoth(n.first, n.second)
                 /\ p % 5 = 1 => Head(From(PairWork(n), p)) = Add(n.x, 1)
                 /\ p % 5 = 2 => Head(From(PairWork(n), p)) = Add(n.y, 1)
                 /\ p % 5 = 3 => Head(From(PairWork(n), p)) = Unlock(n.first)
                 /\ p % 5 = 4 => Head(From(PairWork(n), p)) = Unlock(n.second)
<1> DEFINE work == PairWork(n)
           a == LockBoth(n.first, n.second)
           b == Add(n.x, 1)
           c == Add(n.y, 1)
           d == Unlock(n.first)
           e == Unlock(n.second)
           ops == <<a, b, c, d, e>>
           S   == {a, b, c, d, e}
<1>1. work = Times(Rounds, ops)
  <2>1. <<a>> \o <<b, c>> \o <<d, e>> = ops
    <3> HIDE DEF a, b, c, d, e
    <3> QED
      BY ListOf5
  <2> QED
    BY <2>1 DEF PairWork, ScopedLock
<1>2. /\ ops \in Seq(S) /\ Len(ops) = 5
      /\ ops[1] = a /\ ops[2] = b /\ ops[3] = c /\ ops[4] = d /\ ops[5] = e
  <2> HIDE DEF a, b, c, d, e
  <2> QED
    BY ListOf5
<1> HIDE DEF ops, S, work
<1>3. /\ work \in Seq(S)
      /\ Len(work) = 5 * Rounds
      /\ \A p \in 0 .. 5 * Rounds - 1 : work[p + 1] = ops[(p % 5) + 1]
  <2>1. Rounds * Len(ops) = 5 * Rounds
    BY <1>2, RoundsAssumption
  <2>2. /\ Times(Rounds, ops) \in Seq(S)
        /\ Len(Times(Rounds, ops)) = Rounds * Len(ops)
        /\ \A j \in 0 .. Rounds * Len(ops) - 1 :
              Times(Rounds, ops)[j + 1] = ops[(j % Len(ops)) + 1]
    <3>1. Len(ops) > 0
      BY <1>2
    <3> QED
      BY <1>2, <3>1, TimesIs, RoundsAssumption
  <2> QED
    BY <1>1, <1>2, <2>1, <2>2
<1>4. From(work, 0) = work
  BY <1>3, FromIs, RoundsAssumption
<1>5. ASSUME NEW p \in 0 .. 5 * Rounds
      PROVE  /\ From(work, p) \in Seq(S)
             /\ From(work, p) = <<>> <=> p = 5 * Rounds
             /\ <<>> \o From(work, p) = From(work, p)
  BY <1>3, FromIs
<1>6. ASSUME NEW p \in 0 .. 5 * Rounds, NEW o
      PROVE  /\ <<o>> \o From(work, p) # <<>>
             /\ Head(<<o>> \o From(work, p)) = o
             /\ Tail(<<o>> \o From(work, p)) = From(work, p)
  BY <1>5, ConsIs
<1>7. ASSUME NEW p \in 0 .. 5 * Rounds - 1
      PROVE  /\ Tail(From(work, p)) = From(work, p + 1)
             /\ Head(From(work, p)) = ops[(p % 5) + 1]
  <2>1. p \in 0 .. Len(work) /\ p < Len(work)
    BY <1>3
  <2>2. Head(From(work, p)) = work[p + 1] /\ Tail(From(work, p)) = From(work, p + 1)
    <3>1. work \in Seq(S) /\ p \in 0 .. Len(work) /\ p < Len(work)
      BY <1>3, <2>1
    <3> HIDE DEF work, S
    <3> QED
      BY <3>1, FromIs
  <2> QED
    BY <1>3, <2>2
<1> HIDE DEF a, b, c, d, e
<1>8. \A p \in 0 .. 5 * Rounds - 1 :
                 /\ Tail(From(work, p)) = From(work, p + 1)
                 /\ p % 5 = 0 => Head(From(work, p)) = a
                 /\ p % 5 = 1 => Head(From(work, p)) = b
                 /\ p % 5 = 2 => Head(From(work, p)) = c
                 /\ p % 5 = 3 => Head(From(work, p)) = d
                 /\ p % 5 = 4 => Head(From(work, p)) = e
  BY <1>2, <1>7
<1> QED
  BY <1>4, <1>5, <1>6, <1>8 DEF work, a, b, c, d, e

\* The next operation of a thread.
LEMMA PairNow ==
    ASSUME NEW n, NEW t \in {A, B}, NEW p \in 0 .. 5 * Rounds, NEW way \in Ways,
           PairAt(n, t, p, way), code[t] # <<>>
    PROVE  /\ p < 5 * Rounds
           /\ Tail(code[t]) = From(PairWork(n), p + 1)
           /\ <<>> \o Tail(code[t]) = From(PairWork(n), p + 1)
           /\ way # "on" => Now(t) = Pending(n.first, n.second, way)
           /\ way = "on" => /\ p % 5 = 0 => Now(t) = LockBoth(n.first, n.second)
                            /\ p % 5 = 1 => Now(t) = Add(n.x, 1)
                            /\ p % 5 = 2 => Now(t) = Add(n.y, 1)
                            /\ p % 5 = 3 => Now(t) = Unlock(n.first)
                            /\ p % 5 = 4 => Now(t) = Unlock(n.second)
<1> USE RoundsAssumption
<1>1. p < 5 * Rounds /\ p \in 0 .. 5 * Rounds - 1 /\ p + 1 \in 0 .. 5 * Rounds
  <2>1. way # "on" => p < 5 * Rounds
    BY DEF PairAt
  <2>2. ASSUME way = "on"
        PROVE  p # 5 * Rounds
    <3>1. From(PairWork(n), p) # <<>>
      BY <2>2 DEF PairAt
    <3>2. From(PairWork(n), p) = <<>> <=> p = 5 * Rounds
      BY PairWorkIs
    <3> QED
      BY <3>1, <3>2
  <2>3. p \in Nat /\ 5 * Rounds \in Nat /\ p <= 5 * Rounds
    OBVIOUS
  <2>4. p < 5 * Rounds
    BY <2>1, <2>2, <2>3
  <2> QED
    BY <2>3, <2>4
<1>2. <<>> \o From(PairWork(n), p + 1) = From(PairWork(n), p + 1)
  BY <1>1, PairWorkIs
<1>3. CASE way = "on"
  <2>1. code[t] = From(PairWork(n), p)
    BY <1>3 DEF PairAt
  <2>2. Tail(code[t]) = From(PairWork(n), p + 1)
    BY <1>1, <2>1, PairWorkIs
  <2>3. /\ p % 5 = 0 => Now(t) = LockBoth(n.first, n.second)
        /\ p % 5 = 1 => Now(t) = Add(n.x, 1)
        /\ p % 5 = 2 => Now(t) = Add(n.y, 1)
        /\ p % 5 = 3 => Now(t) = Unlock(n.first)
        /\ p % 5 = 4 => Now(t) = Unlock(n.second)
    BY <1>1, <2>1, PairWorkIs DEF Now
  <2> QED
    BY <1>1, <1>2, <1>3, <2>2, <2>3
<1>4. CASE way # "on"
  <2>1. code[t] = <<Pending(n.first, n.second, way)>> \o From(PairWork(n), p + 1)
    BY <1>4 DEF PairAt
  <2>2. Tail(code[t]) = From(PairWork(n), p + 1) /\ Now(t) = Pending(n.first, n.second, way)
    <3> DEFINE q == p + 1
               o == Pending(n.first, n.second, way)
    <3>1. q \in 0 .. 5 * Rounds
      BY <1>1
    <3> HIDE DEF q, o
    <3>2. Head(<<o>> \o From(PairWork(n), q)) = o
      BY <3>1, PairWorkIs
    <3>3. Tail(<<o>> \o From(PairWork(n), q)) = From(PairWork(n), q)
      BY <3>1, PairWorkIs
    <3> QED
      BY <2>1, <3>2, <3>3 DEF q, o, Now
  <2> QED
    BY <1>1, <1>2, <1>4, <2>2
<1> QED
  BY <1>3, <1>4

\* Thread t goes from operation p to q, and nothing else changes.
PairGoes(n, t, p, q, way) ==
    /\ DOMAIN code' = Threads /\ \A u \in Threads : u # t => code'[u] = code[u]
    /\ PairAt(n, t, q, way)'
    /\ \A m \in {n.first, n.second}, u \in {A, B} : u # t => (u \in mem'[m] <=> u \in mem[m])
    /\ mem'[n.x] = mem[n.x] + (((q + 3) \div 5) - ((p + 3) \div 5))
    /\ mem'[n.y] = mem[n.y] + (((q + 2) \div 5) - ((p + 2) \div 5))
    /\ DOMAIN mem' = PairObjects(n) /\ PairLocks(n)'
    /\ Ordered(hb', PairObjects(n)) /\ asleep' = asleep

\* Thread t is at p, on its way, and nothing has been said yet of its step.
PairStands(n, t, p, way) ==
    /\ Different(n) /\ AllAwake /\ PairMemory(n) /\ PairLocks(n)
    /\ mem[n.x] \in Int /\ mem[n.y] \in Int
    /\ PairAt(n, t, p, way) /\ code[t] # <<>>
    /\ LibraryStep(t) \/ UnforcedStep(t)

\* The names, one by one.
Named(n, a, b, x, y) == n.first = a /\ n.second = b /\ n.x = x /\ n.y = y

\* What is known then, with the two mutexes, the two variables and the four objects named.
PairFacts(n, t, p, way, a, b, x, y, objects) ==
    /\ Named(n, a, b, x, y) /\ objects = PairObjects(n)
    /\ p \in Nat /\ p < 5 * Rounds /\ p + 1 \in 0 .. 5 * Rounds
    /\ t \in Threads /\ asleep[t] = Awake
    /\ LibraryStep(t) \/ UnforcedStep(t)
    /\ DOMAIN code = Threads /\ <<>> \o Tail(code[t]) = From(PairWork(n), p + 1)
    /\ Tail(code[t]) = From(PairWork(n), p + 1)
    /\ a \in objects /\ b \in objects /\ x \in objects /\ y \in objects
    /\ a # b /\ x \notin {a, b} /\ y \notin {a, b} /\ x # y
    /\ DOMAIN mem = objects /\ Ordered(hb, objects)
    /\ mem[x] \in Int /\ mem[y] \in Int
    /\ mem[a] \in {{}, {A}, {B}} /\ mem[b] \in {{}, {A}, {B}}
    /\ mem[a] \in SUBSET Threads /\ mem[b] \in SUBSET Threads
    /\ t \in mem[a] => mem[a] = {t}
    /\ t \in mem[b] => mem[b] = {t}
    /\ t \in mem[a] <=> p % 5 \in {1, 2, 3} \/ way = "first"
    /\ t \in mem[b] <=> p % 5 \in {1, 2, 3, 4} \/ way = "second"
    /\ way # "on" => p % 5 = 0
    /\ \A v \in {x, y} : Guarded(hb, objects, v, a, mem[a])

\* Where a thread stands, those facts hold.
LEMMA PairStandsIs ==
    ASSUME NEW n, NEW t \in {A, B}, NEW p \in 0 .. 5 * Rounds, NEW way \in Ways,
           PairStands(n, t, p, way)
    PROVE  PairFacts(n, t, p, way, n.first, n.second, n.x, n.y, PairObjects(n))
<1> DEFINE a == n.first
           b == n.second
           x == n.x
           y == n.y
           objects == PairObjects(n)
<1>0. Named(n, a, b, x, y)
  BY DEF Named
<1> HIDE DEF a, b, x, y
<1>1. /\ p < 5 * Rounds /\ <<>> \o Tail(code[t]) = From(PairWork(n), p + 1)
      /\ Tail(code[t]) = From(PairWork(n), p + 1)
  BY PairNow DEF PairStands
<1>2. t \in Threads
  BY DEF Threads
<1>3. /\ a \in objects /\ b \in objects /\ x \in objects /\ y \in objects
      /\ DOMAIN mem = objects /\ Ordered(hb, objects) /\ DOMAIN code = Threads
  BY <1>0 DEF PairStands, PairMemory, PairObjects, Named, objects
<1>4. asleep[t] = Awake
  BY <1>2 DEF PairStands, AllAwake
<1>5. a # b /\ x \notin {a, b} /\ y \notin {a, b} /\ x # y
  BY <1>0 DEF PairStands, Different, Named
<1>6. /\ mem[a] \in {{}, {A}, {B}} /\ mem[b] \in {{}, {A}, {B}}
      /\ \A v \in {x, y} : Guarded(hb, objects, v, a, mem[a])
  BY <1>0 DEF PairStands, PairLocks, Named
<1>7. /\ t \in mem[a] <=> p % 5 \in {1, 2, 3} \/ way = "first"
      /\ t \in mem[b] <=> p % 5 \in {1, 2, 3, 4} \/ way = "second"
      /\ way # "on" => p % 5 = 0
  BY <1>0 DEF PairStands, PairAt, Named
<1>8. /\ mem[x] \in Int /\ mem[y] \in Int
      /\ LibraryStep(t) \/ UnforcedStep(t)
  BY <1>0 DEF PairStands, Named
<1>9. /\ mem[a] \in SUBSET Threads /\ mem[b] \in SUBSET Threads
      /\ t \in mem[a] => mem[a] = {t}
      /\ t \in mem[b] => mem[b] = {t}
  BY <1>6 DEF Threads
<1> QED
  BY <1>1, <1>2, <1>3, <1>4, <1>5, <1>6, <1>7, <1>8, <1>9, <1>0, RoundsAssumption DEF PairFacts, a, b, x, y

\* std::lock gets the mutex it asks for first.
LEMMA PairLocksFirst ==
    ASSUME NEW n, NEW t \in {A, B}, NEW p \in 0 .. 5 * Rounds, NEW way \in Ways,
           NEW a, NEW b, NEW x, NEW y, NEW objects,
           PairFacts(n, t, p, way, a, b, x, y, objects),
           Now(t) = LockBoth(a, b), p % 5 = 0, way \notin {"first", "second"}
    PROVE  PairGoes(n, t, p, p, "first")
<1> USE DEF PairFacts
<1>1. LockFirst(t)
  <2>1. Now(t).op = "lockBoth"
    BY DEF LockBoth
  <2> QED
    BY <2>1, OperationOfStep
<1>2. /\ mem[a] = {} /\ Sets(a, {t}) /\ hb' = Sees(hb, t, a)
      /\ Continues(t, <<Tries(a, b)>> \o Tail(code[t]))
      /\ asleep' = asleep
  BY <1>1, LockFirstIs
<1>3. /\ DOMAIN mem' = objects /\ mem'[a] = {t} /\ mem'[b] = mem[b]
      /\ mem'[x] = mem[x] /\ mem'[y] = mem[y]
  BY <1>2 DEF Sets
<1>4. Ordered(hb', objects)
  BY <1>2, SeesIs
<1>5. ASSUME NEW v \in {x, y}
      PROVE  Guarded(hb', objects, v, a, mem'[a])
  <2>1. Guarded(hb, objects, v, a, {}) /\ {} \in SUBSET Threads
    BY <1>2
  <2>2. Guarded(hb', objects, v, a, {t})
    BY <1>2, <2>1, GuardLocked
  <2> QED
    BY <1>3, <2>2
<1>6. PairLocks(n)'
  BY <1>2, <1>3, <1>5 DEF PairLocks, Named
<1>7. PairAt(n, t, p, "first")'
  <2>1. code'[t] = <<Pending(a, b, "first")>> \o From(PairWork(n), p + 1)
    BY <1>2 DEF Continues, Pending
  <2>2. t \in mem'[a] /\ t \notin mem'[b] /\ p % 5 = 0
    BY <1>2, <1>3
  <2> QED
    BY <2>1, <2>2 DEF PairAt, Named
<1>8. /\ mem'[x] = mem[x] + (((p + 3) \div 5) - ((p + 3) \div 5))
      /\ mem'[y] = mem[y] + (((p + 2) \div 5) - ((p + 2) \div 5))
  BY <1>3
<1>9. DOMAIN code' = Threads /\ \A u \in Threads : u # t => code'[u] = code[u]
  BY <1>2 DEF Continues
<1>10. \A m \in {a, b}, u \in {A, B} : u # t => (u \in mem'[m] <=> u \in mem[m])
  BY <1>2, <1>3
<1>11. asleep' = asleep
  BY <1>2
<1> QED
  BY <1>3, <1>4, <1>6, <1>7, <1>8, <1>9, <1>10, <1>11 DEF PairGoes, Named

\* std::lock, which has failed to get the second mutex, waits for that one.
LEMMA PairLocksSecond ==
    ASSUME NEW n, NEW t \in {A, B}, NEW p \in 0 .. 5 * Rounds, NEW way \in Ways,
           NEW a, NEW b, NEW x, NEW y, NEW objects,
           PairFacts(n, t, p, way, a, b, x, y, objects),
           Now(t) = LockBoth(b, a), way = "swapped"
    PROVE  PairGoes(n, t, p, p, "second")
<1> USE DEF PairFacts
<1>1. LockFirst(t)
  <2>1. Now(t).op = "lockBoth"
    BY DEF LockBoth
  <2> QED
    BY <2>1, OperationOfStep
<1>2. /\ mem[b] = {} /\ Sets(b, {t}) /\ hb' = Sees(hb, t, b)
      /\ Continues(t, <<Tries(b, a)>> \o Tail(code[t]))
      /\ asleep' = asleep
  BY <1>1, LockFirstIs
<1>3. /\ DOMAIN mem' = objects /\ mem'[a] = mem[a] /\ mem'[b] = {t}
      /\ mem'[x] = mem[x] /\ mem'[y] = mem[y]
  BY <1>2 DEF Sets
<1>4. Ordered(hb', objects)
  BY <1>2, SeesIs
<1>5. ASSUME NEW v \in {x, y}
      PROVE  Guarded(hb', objects, v, a, mem'[a])
  <2>1. Guarded(hb, objects, v, a, mem[a])
    OBVIOUS
  <2>2. Guarded(hb', objects, v, a, mem[a])
    BY <1>2, <2>1, GuardLocked
  <2> QED
    BY <1>3, <2>2
<1>6. PairLocks(n)'
  BY <1>2, <1>3, <1>5 DEF PairLocks, Named
<1>7. PairAt(n, t, p, "second")'
  <2>1. code'[t] = <<Pending(a, b, "second")>> \o From(PairWork(n), p + 1)
    BY <1>2 DEF Continues, Pending
  <2>2. t \notin mem'[a] /\ t \in mem'[b] /\ p % 5 = 0
    BY <1>2, <1>3
  <2> QED
    BY <2>1, <2>2 DEF PairAt, Named
<1>8. /\ mem'[x] = mem[x] + (((p + 3) \div 5) - ((p + 3) \div 5))
      /\ mem'[y] = mem[y] + (((p + 2) \div 5) - ((p + 2) \div 5))
  BY <1>3
<1>9. DOMAIN code' = Threads /\ \A u \in Threads : u # t => code'[u] = code[u]
  BY <1>2 DEF Continues
<1>10. \A m \in {a, b}, u \in {A, B} : u # t => (u \in mem'[m] <=> u \in mem[m])
  BY <1>2, <1>3
<1>11. asleep' = asleep
  BY <1>2
<1> QED
  BY <1>3, <1>4, <1>6, <1>7, <1>8, <1>9, <1>10, <1>11 DEF PairGoes, Named

\* A thread with the first mutex gets the second.
LEMMA PairGetsSecond ==
    ASSUME NEW n, NEW t \in {A, B}, NEW p \in 0 .. 5 * Rounds, NEW way \in Ways,
           NEW a, NEW b, NEW x, NEW y, NEW objects,
           PairFacts(n, t, p, way, a, b, x, y, objects),
           way = "first", mem[b] = {}, Sets(b, {t}), hb' = Sees(hb, t, b),
           Continues(t, <<>> \o Tail(code[t])), asleep' = asleep
    PROVE  PairGoes(n, t, p, p + 1, "on")
<1> USE DEF PairFacts
<1>3. /\ DOMAIN mem' = objects /\ mem'[a] = {t} /\ mem'[b] = {t}
      /\ mem'[x] = mem[x] /\ mem'[y] = mem[y]
  BY DEF Sets
<1>4. Ordered(hb', objects)
  BY SeesIs
<1>5. ASSUME NEW v \in {x, y}
      PROVE  Guarded(hb', objects, v, a, mem'[a])
  <2>1. Guarded(hb, objects, v, a, mem[a])
    OBVIOUS
  <2>2. Guarded(hb', objects, v, a, mem[a])
    BY <2>1, GuardLocked
  <2> QED
    BY <1>3, <2>2
<1>6. PairLocks(n)'
  BY <1>3, <1>5 DEF PairLocks, Named
<1>7. PairAt(n, t, p + 1, "on")'
  <2>1. code'[t] = From(PairWork(n), p + 1)
    BY DEF Continues
  <2>2. t \in mem'[a] /\ t \in mem'[b] /\ (p + 1) % 5 = 1
    BY <1>3, Fifths
  <2> QED
    BY <2>1, <2>2 DEF PairAt, Named
<1>8. /\ mem'[x] = mem[x] + ((((p + 1) + 3) \div 5) - ((p + 3) \div 5))
      /\ mem'[y] = mem[y] + ((((p + 1) + 2) \div 5) - ((p + 2) \div 5))
  <2> DEFINE d3 == (p + 3) \div 5
             d2 == (p + 2) \div 5
             e3 == ((p + 1) + 3) \div 5
             e2 == ((p + 1) + 2) \div 5
  <2>1. /\ d3 \in Nat /\ d2 \in Nat
        /\ e3 = d3 /\ e2 = d2
    BY Fifths
  <2> HIDE DEF d3, d2, e3, e2
  <2>2. mem'[x] = mem[x] + (e3 - d3) /\ mem'[y] = mem[y] + (e2 - d2)
    BY <1>3, <2>1
  <2> QED
    BY <2>2 DEF d3, d2, e3, e2
<1>9. DOMAIN code' = Threads /\ \A u \in Threads : u # t => code'[u] = code[u]
  BY DEF Continues
<1>10. \A m \in {a, b}, u \in {A, B} : u # t => (u \in mem'[m] <=> u \in mem[m])
  BY <1>3
<1>11. asleep' = asleep
  OBVIOUS
<1> QED
  BY <1>3, <1>4, <1>6, <1>7, <1>8, <1>9, <1>10, <1>11 DEF PairGoes, Named

\* A thread with the second mutex gets the first.
LEMMA PairGetsFirst ==
    ASSUME NEW n, NEW t \in {A, B}, NEW p \in 0 .. 5 * Rounds, NEW way \in Ways,
           NEW a, NEW b, NEW x, NEW y, NEW objects,
           PairFacts(n, t, p, way, a, b, x, y, objects),
           way = "second", mem[a] = {}, Sets(a, {t}), hb' = Sees(hb, t, a),
           Continues(t, <<>> \o Tail(code[t])), asleep' = asleep
    PROVE  PairGoes(n, t, p, p + 1, "on")
<1> USE DEF PairFacts
<1>3. /\ DOMAIN mem' = objects /\ mem'[a] = {t} /\ mem'[b] = {t}
      /\ mem'[x] = mem[x] /\ mem'[y] = mem[y]
  BY DEF Sets
<1>4. Ordered(hb', objects)
  BY SeesIs
<1>5. ASSUME NEW v \in {x, y}
      PROVE  Guarded(hb', objects, v, a, mem'[a])
  <2>1. Guarded(hb, objects, v, a, {}) /\ {} \in SUBSET Threads
    OBVIOUS
  <2>2. Guarded(hb', objects, v, a, {t})
    BY <2>1, GuardLocked
  <2> QED
    BY <1>3, <2>2
<1>6. PairLocks(n)'
  BY <1>3, <1>5 DEF PairLocks, Named
<1>7. PairAt(n, t, p + 1, "on")'
  <2>1. code'[t] = From(PairWork(n), p + 1)
    BY DEF Continues
  <2>2. t \in mem'[a] /\ t \in mem'[b] /\ (p + 1) % 5 = 1
    BY <1>3, Fifths
  <2> QED
    BY <2>1, <2>2 DEF PairAt, Named
<1>8. /\ mem'[x] = mem[x] + ((((p + 1) + 3) \div 5) - ((p + 3) \div 5))
      /\ mem'[y] = mem[y] + ((((p + 1) + 2) \div 5) - ((p + 2) \div 5))
  <2> DEFINE d3 == (p + 3) \div 5
             d2 == (p + 2) \div 5
             e3 == ((p + 1) + 3) \div 5
             e2 == ((p + 1) + 2) \div 5
  <2>1. /\ d3 \in Nat /\ d2 \in Nat
        /\ e3 = d3 /\ e2 = d2
    BY Fifths
  <2> HIDE DEF d3, d2, e3, e2
  <2>2. mem'[x] = mem[x] + (e3 - d3) /\ mem'[y] = mem[y] + (e2 - d2)
    BY <1>3, <2>1
  <2> QED
    BY <2>2 DEF d3, d2, e3, e2
<1>9. DOMAIN code' = Threads /\ \A u \in Threads : u # t => code'[u] = code[u]
  BY DEF Continues
<1>10. \A m \in {a, b}, u \in {A, B} : u # t => (u \in mem'[m] <=> u \in mem[m])
  BY <1>3
<1>11. asleep' = asleep
  OBVIOUS
<1> QED
  BY <1>3, <1>4, <1>6, <1>7, <1>8, <1>9, <1>10, <1>11 DEF PairGoes, Named

\* A thread with the first mutex does not get the second, and gives the first back.
LEMMA PairFailsSecond ==
    ASSUME NEW n, NEW t \in {A, B}, NEW p \in 0 .. 5 * Rounds, NEW way \in Ways,
           NEW a, NEW b, NEW x, NEW y, NEW objects,
           PairFacts(n, t, p, way, a, b, x, y, objects),
           way = "first", Sets(a, {}), hb' = Shows(hb, t, a),
           Continues(t, <<LockBoth(b, a)>> \o Tail(code[t])), asleep' = asleep
    PROVE  PairGoes(n, t, p, p, "swapped")
<1> USE DEF PairFacts
<1>3. /\ DOMAIN mem' = objects /\ mem'[a] = {} /\ mem'[b] = mem[b]
      /\ mem'[x] = mem[x] /\ mem'[y] = mem[y]
  BY DEF Sets
<1>4. Ordered(hb', objects)
  BY ShowsIs
<1>5. ASSUME NEW v \in {x, y}
      PROVE  Guarded(hb', objects, v, a, mem'[a])
  <2>1. Guarded(hb, objects, v, a, {t}) /\ {t} \in SUBSET Threads
    OBVIOUS
  <2>2. Guarded(hb', objects, v, a, {})
    BY <2>1, GuardUnlocked
  <2> QED
    BY <1>3, <2>2
<1>6. PairLocks(n)'
  BY <1>3, <1>5 DEF PairLocks, Named
<1>7. PairAt(n, t, p, "swapped")'
  <2>1. code'[t] = <<Pending(a, b, "swapped")>> \o From(PairWork(n), p + 1)
    BY DEF Continues, Pending
  <2>2. t \notin mem'[a] /\ t \notin mem'[b] /\ p % 5 = 0
    BY <1>3
  <2> QED
    BY <2>1, <2>2 DEF PairAt, Named
<1>8. /\ mem'[x] = mem[x] + (((p + 3) \div 5) - ((p + 3) \div 5))
      /\ mem'[y] = mem[y] + (((p + 2) \div 5) - ((p + 2) \div 5))
  BY <1>3
<1>9. DOMAIN code' = Threads /\ \A u \in Threads : u # t => code'[u] = code[u]
  BY DEF Continues
<1>10. \A m \in {a, b}, u \in {A, B} : u # t => (u \in mem'[m] <=> u \in mem[m])
  BY <1>3
<1>11. asleep' = asleep
  OBVIOUS
<1> QED
  BY <1>3, <1>4, <1>6, <1>7, <1>8, <1>9, <1>10, <1>11 DEF PairGoes, Named

\* A thread with the second mutex does not get the first, and gives the second back.
LEMMA PairFailsFirst ==
    ASSUME NEW n, NEW t \in {A, B}, NEW p \in 0 .. 5 * Rounds, NEW way \in Ways,
           NEW a, NEW b, NEW x, NEW y, NEW objects,
           PairFacts(n, t, p, way, a, b, x, y, objects),
           way = "second", Sets(b, {}), hb' = Shows(hb, t, b),
           Continues(t, <<LockBoth(a, b)>> \o Tail(code[t])), asleep' = asleep
    PROVE  PairGoes(n, t, p, p, "both")
<1> USE DEF PairFacts
<1>3. /\ DOMAIN mem' = objects /\ mem'[a] = mem[a] /\ mem'[b] = {}
      /\ mem'[x] = mem[x] /\ mem'[y] = mem[y]
  BY DEF Sets
<1>4. Ordered(hb', objects)
  BY ShowsIs
<1>5. ASSUME NEW v \in {x, y}
      PROVE  Guarded(hb', objects, v, a, mem'[a])
  <2>1. Guarded(hb, objects, v, a, mem[a])
    OBVIOUS
  <2>2. Guarded(hb', objects, v, a, mem[a])
    BY <2>1, GuardUnlocked
  <2> QED
    BY <1>3, <2>2
<1>6. PairLocks(n)'
  BY <1>3, <1>5 DEF PairLocks, Named
<1>7. PairAt(n, t, p, "both")'
  <2>1. code'[t] = <<Pending(a, b, "both")>> \o From(PairWork(n), p + 1)
    BY DEF Continues, Pending
  <2>2. t \notin mem'[a] /\ t \notin mem'[b] /\ p % 5 = 0
    BY <1>3
  <2> QED
    BY <2>1, <2>2 DEF PairAt, Named
<1>8. /\ mem'[x] = mem[x] + (((p + 3) \div 5) - ((p + 3) \div 5))
      /\ mem'[y] = mem[y] + (((p + 2) \div 5) - ((p + 2) \div 5))
  BY <1>3
<1>9. DOMAIN code' = Threads /\ \A u \in Threads : u # t => code'[u] = code[u]
  BY DEF Continues
<1>10. \A m \in {a, b}, u \in {A, B} : u # t => (u \in mem'[m] <=> u \in mem[m])
  BY <1>3
<1>11. asleep' = asleep
  OBVIOUS
<1> QED
  BY <1>3, <1>4, <1>6, <1>7, <1>8, <1>9, <1>10, <1>11 DEF PairGoes, Named

\* The first variable is incremented, under both mutexes.
LEMMA PairAddsFirst ==
    ASSUME NEW n, NEW t \in {A, B}, NEW p \in 0 .. 5 * Rounds, NEW way \in Ways,
           NEW a, NEW b, NEW x, NEW y, NEW objects,
           PairFacts(n, t, p, way, a, b, x, y, objects),
           Now(t) = Add(x, 1), way = "on", p % 5 = 1
    PROVE  PairGoes(n, t, p, p + 1, "on")
<1> USE DEF PairFacts
<1>1. AssignVariable(t)
  <2>1. Now(t).op = "assign"
    BY DEF Add, Assign
  <2> QED
    BY <2>1, OperationOfStep
<1>2. /\ Sets(x, mem[x] + 1) /\ hb' = Writes(hb, t, x)
      /\ Continues(t, <<>> \o Tail(code[t])) /\ asleep' = asleep
  BY <1>1, AddIs
<1>3. /\ DOMAIN mem' = objects /\ mem'[a] = mem[a] /\ mem'[b] = mem[b]
      /\ mem'[x] = mem[x] + 1 /\ mem'[y] = mem[y]
  BY <1>2 DEF Sets
<1>4. Ordered(hb', objects)
  BY <1>2, WritesIs DEF Guarded
<1>5. ASSUME NEW v \in {x, y}
      PROVE  Guarded(hb', objects, v, a, mem'[a])
  <2>1. Guarded(hb, objects, v, a, {t}) /\ Guarded(hb, objects, x, a, {t}) /\ t \in {Main, A, B}
    OBVIOUS
  <2>2. Guarded(hb', objects, v, a, {t})
    BY <1>2, <2>1, GuardWritten
  <2> QED
    BY <1>3, <2>2
<1>6. PairLocks(n)'
  BY <1>2, <1>3, <1>5 DEF PairLocks, Named
<1>7. PairAt(n, t, p + 1, "on")'
  <2>1. code'[t] = From(PairWork(n), p + 1)
    BY <1>2 DEF Continues
  <2>2. t \in mem'[a] /\ t \in mem'[b] /\ (p + 1) % 5 = 2
    BY <1>2, <1>3, Fifths
  <2> QED
    BY <2>1, <2>2 DEF PairAt, Named
<1>8. /\ mem'[x] = mem[x] + ((((p + 1) + 3) \div 5) - ((p + 3) \div 5))
      /\ mem'[y] = mem[y] + ((((p + 1) + 2) \div 5) - ((p + 2) \div 5))
  <2> DEFINE d3 == (p + 3) \div 5
             d2 == (p + 2) \div 5
             e3 == ((p + 1) + 3) \div 5
             e2 == ((p + 1) + 2) \div 5
  <2>1. /\ d3 \in Nat /\ d2 \in Nat
        /\ e3 = d3 + 1 /\ e2 = d2
    BY Fifths
  <2> HIDE DEF d3, d2, e3, e2
  <2>2. mem'[x] = mem[x] + (e3 - d3) /\ mem'[y] = mem[y] + (e2 - d2)
    BY <1>3, <2>1
  <2> QED
    BY <2>2 DEF d3, d2, e3, e2
<1>9. DOMAIN code' = Threads /\ \A u \in Threads : u # t => code'[u] = code[u]
  BY <1>2 DEF Continues
<1>10. \A m \in {a, b}, u \in {A, B} : u # t => (u \in mem'[m] <=> u \in mem[m])
  BY <1>2, <1>3
<1>11. asleep' = asleep
  BY <1>2
<1> QED
  BY <1>3, <1>4, <1>6, <1>7, <1>8, <1>9, <1>10, <1>11 DEF PairGoes, Named

\* The second variable is incremented, under both mutexes.
LEMMA PairAddsSecond ==
    ASSUME NEW n, NEW t \in {A, B}, NEW p \in 0 .. 5 * Rounds, NEW way \in Ways,
           NEW a, NEW b, NEW x, NEW y, NEW objects,
           PairFacts(n, t, p, way, a, b, x, y, objects),
           Now(t) = Add(y, 1), way = "on", p % 5 = 2
    PROVE  PairGoes(n, t, p, p + 1, "on")
<1> USE DEF PairFacts
<1>1. AssignVariable(t)
  <2>1. Now(t).op = "assign"
    BY DEF Add, Assign
  <2> QED
    BY <2>1, OperationOfStep
<1>2. /\ Sets(y, mem[y] + 1) /\ hb' = Writes(hb, t, y)
      /\ Continues(t, <<>> \o Tail(code[t])) /\ asleep' = asleep
  BY <1>1, AddIs
<1>3. /\ DOMAIN mem' = objects /\ mem'[a] = mem[a] /\ mem'[b] = mem[b]
      /\ mem'[x] = mem[x] /\ mem'[y] = mem[y] + 1
  BY <1>2 DEF Sets
<1>4. Ordered(hb', objects)
  BY <1>2, WritesIs DEF Guarded
<1>5. ASSUME NEW v \in {x, y}
      PROVE  Guarded(hb', objects, v, a, mem'[a])
  <2>1. Guarded(hb, objects, v, a, {t}) /\ Guarded(hb, objects, y, a, {t}) /\ t \in {Main, A, B}
    OBVIOUS
  <2>2. Guarded(hb', objects, v, a, {t})
    BY <1>2, <2>1, GuardWritten
  <2> QED
    BY <1>3, <2>2
<1>6. PairLocks(n)'
  BY <1>2, <1>3, <1>5 DEF PairLocks, Named
<1>7. PairAt(n, t, p + 1, "on")'
  <2>1. code'[t] = From(PairWork(n), p + 1)
    BY <1>2 DEF Continues
  <2>2. t \in mem'[a] /\ t \in mem'[b] /\ (p + 1) % 5 = 3
    BY <1>2, <1>3, Fifths
  <2> QED
    BY <2>1, <2>2 DEF PairAt, Named
<1>8. /\ mem'[x] = mem[x] + ((((p + 1) + 3) \div 5) - ((p + 3) \div 5))
      /\ mem'[y] = mem[y] + ((((p + 1) + 2) \div 5) - ((p + 2) \div 5))
  <2> DEFINE d3 == (p + 3) \div 5
             d2 == (p + 2) \div 5
             e3 == ((p + 1) + 3) \div 5
             e2 == ((p + 1) + 2) \div 5
  <2>1. /\ d3 \in Nat /\ d2 \in Nat
        /\ e3 = d3 /\ e2 = d2 + 1
    BY Fifths
  <2> HIDE DEF d3, d2, e3, e2
  <2>2. mem'[x] = mem[x] + (e3 - d3) /\ mem'[y] = mem[y] + (e2 - d2)
    BY <1>3, <2>1
  <2> QED
    BY <2>2 DEF d3, d2, e3, e2
<1>9. DOMAIN code' = Threads /\ \A u \in Threads : u # t => code'[u] = code[u]
  BY <1>2 DEF Continues
<1>10. \A m \in {a, b}, u \in {A, B} : u # t => (u \in mem'[m] <=> u \in mem[m])
  BY <1>2, <1>3
<1>11. asleep' = asleep
  BY <1>2
<1> QED
  BY <1>3, <1>4, <1>6, <1>7, <1>8, <1>9, <1>10, <1>11 DEF PairGoes, Named

\* The scope ends: the first mutex is given back.
LEMMA PairUnlocksFirst ==
    ASSUME NEW n, NEW t \in {A, B}, NEW p \in 0 .. 5 * Rounds, NEW way \in Ways,
           NEW a, NEW b, NEW x, NEW y, NEW objects,
           PairFacts(n, t, p, way, a, b, x, y, objects),
           Now(t) = Unlock(a), way = "on", p % 5 = 3
    PROVE  PairGoes(n, t, p, p + 1, "on")
<1> USE DEF PairFacts
<1>1. UnlockMutex(t)
  <2>1. Now(t).op = "unlock"
    BY DEF Unlock
  <2> QED
    BY <2>1, OperationOfStep
<1>2. /\ Sets(a, mem[a] \ {t}) /\ hb' = Shows(hb, t, a)
      /\ Continues(t, <<>> \o Tail(code[t])) /\ asleep' = asleep
  BY <1>1, UnlockIs
<1>3. /\ DOMAIN mem' = objects /\ mem'[a] = {} /\ mem'[b] = mem[b]
      /\ mem'[x] = mem[x] /\ mem'[y] = mem[y]
  BY <1>2 DEF Sets
<1>4. Ordered(hb', objects)
  BY <1>2, ShowsIs
<1>5. ASSUME NEW v \in {x, y}
      PROVE  Guarded(hb', objects, v, a, mem'[a])
  <2>1. Guarded(hb, objects, v, a, {t}) /\ {t} \in SUBSET Threads
    OBVIOUS
  <2>2. Guarded(hb', objects, v, a, {})
    BY <1>2, <2>1, GuardUnlocked
  <2> QED
    BY <1>3, <2>2
<1>6. PairLocks(n)'
  BY <1>2, <1>3, <1>5 DEF PairLocks, Named
<1>7. PairAt(n, t, p + 1, "on")'
  <2>1. code'[t] = From(PairWork(n), p + 1)
    BY <1>2 DEF Continues
  <2>2. t \notin mem'[a] /\ t \in mem'[b] /\ (p + 1) % 5 = 4
    BY <1>2, <1>3, Fifths
  <2> QED
    BY <2>1, <2>2 DEF PairAt, Named
<1>8. /\ mem'[x] = mem[x] + ((((p + 1) + 3) \div 5) - ((p + 3) \div 5))
      /\ mem'[y] = mem[y] + ((((p + 1) + 2) \div 5) - ((p + 2) \div 5))
  <2> DEFINE d3 == (p + 3) \div 5
             d2 == (p + 2) \div 5
             e3 == ((p + 1) + 3) \div 5
             e2 == ((p + 1) + 2) \div 5
  <2>1. /\ d3 \in Nat /\ d2 \in Nat
        /\ e3 = d3 /\ e2 = d2
    BY Fifths
  <2> HIDE DEF d3, d2, e3, e2
  <2>2. mem'[x] = mem[x] + (e3 - d3) /\ mem'[y] = mem[y] + (e2 - d2)
    BY <1>3, <2>1
  <2> QED
    BY <2>2 DEF d3, d2, e3, e2
<1>9. DOMAIN code' = Threads /\ \A u \in Threads : u # t => code'[u] = code[u]
  BY <1>2 DEF Continues
<1>10. \A m \in {a, b}, u \in {A, B} : u # t => (u \in mem'[m] <=> u \in mem[m])
  BY <1>2, <1>3
<1>11. asleep' = asleep
  BY <1>2
<1> QED
  BY <1>3, <1>4, <1>6, <1>7, <1>8, <1>9, <1>10, <1>11 DEF PairGoes, Named

\* Then the second.
LEMMA PairUnlocksSecond ==
    ASSUME NEW n, NEW t \in {A, B}, NEW p \in 0 .. 5 * Rounds, NEW way \in Ways,
           NEW a, NEW b, NEW x, NEW y, NEW objects,
           PairFacts(n, t, p, way, a, b, x, y, objects),
           Now(t) = Unlock(b), way = "on", p % 5 = 4
    PROVE  PairGoes(n, t, p, p + 1, "on")
<1> USE DEF PairFacts
<1>1. UnlockMutex(t)
  <2>1. Now(t).op = "unlock"
    BY DEF Unlock
  <2> QED
    BY <2>1, OperationOfStep
<1>2. /\ Sets(b, mem[b] \ {t}) /\ hb' = Shows(hb, t, b)
      /\ Continues(t, <<>> \o Tail(code[t])) /\ asleep' = asleep
  BY <1>1, UnlockIs
<1>3. /\ DOMAIN mem' = objects /\ mem'[a] = mem[a] /\ mem'[b] = {}
      /\ mem'[x] = mem[x] /\ mem'[y] = mem[y]
  BY <1>2 DEF Sets
<1>4. Ordered(hb', objects)
  BY <1>2, ShowsIs
<1>5. ASSUME NEW v \in {x, y}
      PROVE  Guarded(hb', objects, v, a, mem'[a])
  <2>1. Guarded(hb, objects, v, a, mem[a])
    OBVIOUS
  <2>2. Guarded(hb', objects, v, a, mem[a])
    BY <1>2, <2>1, GuardUnlocked
  <2> QED
    BY <1>3, <2>2
<1>6. PairLocks(n)'
  BY <1>2, <1>3, <1>5 DEF PairLocks, Named
<1>7. PairAt(n, t, p + 1, "on")'
  <2>1. code'[t] = From(PairWork(n), p + 1)
    BY <1>2 DEF Continues
  <2>2. t \notin mem'[a] /\ t \notin mem'[b] /\ (p + 1) % 5 = 0
    BY <1>2, <1>3, Fifths
  <2> QED
    BY <2>1, <2>2 DEF PairAt, Named
<1>8. /\ mem'[x] = mem[x] + ((((p + 1) + 3) \div 5) - ((p + 3) \div 5))
      /\ mem'[y] = mem[y] + ((((p + 1) + 2) \div 5) - ((p + 2) \div 5))
  <2> DEFINE d3 == (p + 3) \div 5
             d2 == (p + 2) \div 5
             e3 == ((p + 1) + 3) \div 5
             e2 == ((p + 1) + 2) \div 5
  <2>1. /\ d3 \in Nat /\ d2 \in Nat
        /\ e3 = d3 /\ e2 = d2
    BY Fifths
  <2> HIDE DEF d3, d2, e3, e2
  <2>2. mem'[x] = mem[x] + (e3 - d3) /\ mem'[y] = mem[y] + (e2 - d2)
    BY <1>3, <2>1
  <2> QED
    BY <2>2 DEF d3, d2, e3, e2
<1>9. DOMAIN code' = Threads /\ \A u \in Threads : u # t => code'[u] = code[u]
  BY <1>2 DEF Continues
<1>10. \A m \in {a, b}, u \in {A, B} : u # t => (u \in mem'[m] <=> u \in mem[m])
  BY <1>2, <1>3
<1>11. asleep' = asleep
  BY <1>2
<1> QED
  BY <1>3, <1>4, <1>6, <1>7, <1>8, <1>9, <1>10, <1>11 DEF PairGoes, Named

\* Every operation takes a thread on.
LEMMA PairWayStep ==
    ASSUME NEW n, NEW t \in {A, B}, NEW p \in 0 .. 5 * Rounds, NEW way \in Ways,
           PairStands(n, t, p, way)
    PROVE  \E q \in 0 .. 5 * Rounds, next \in Ways : PairGoes(n, t, p, q, next)
<1> DEFINE a == n.first
           b == n.second
           x == n.x
           y == n.y
           objects == PairObjects(n)
           Some == \E q \in 0 .. 5 * Rounds, next \in Ways : PairGoes(n, t, p, q, next)
<1>1. PairFacts(n, t, p, way, a, b, x, y, objects)
  BY PairStandsIs
<1>2. /\ way # "on" => Now(t) = Pending(a, b, way)
      /\ way = "on" => /\ p % 5 = 0 => Now(t) = LockBoth(a, b)
                       /\ p % 5 = 1 => Now(t) = Add(x, 1)
                       /\ p % 5 = 2 => Now(t) = Add(y, 1)
                       /\ p % 5 = 3 => Now(t) = Unlock(a)
                       /\ p % 5 = 4 => Now(t) = Unlock(b)
  BY PairNow DEF PairStands
<1> HIDE DEF a, b, x, y, objects
<1>3. /\ p + 1 \in 0 .. 5 * Rounds /\ p \in Nat /\ t \in Threads /\ asleep[t] = Awake
      /\ LibraryStep(t) \/ UnforcedStep(t)
      /\ DOMAIN code = Threads /\ a \in DOMAIN mem /\ b \in DOMAIN mem
      /\ way # "on" => p % 5 = 0
  BY <1>1 DEF PairFacts
<1>4. "on" \in Ways /\ "both" \in Ways /\ "swapped" \in Ways /\ "first" \in Ways /\ "second" \in Ways
  BY DEF Ways
<1>5. ASSUME Now(t) = LockBoth(a, b), p % 5 = 0, way \notin {"first", "second"}
      PROVE  Some
  BY <1>1, <1>4, <1>5, PairLocksFirst
<1>6. CASE way = "both"
  BY <1>2, <1>3, <1>5, <1>6 DEF Pending
<1>7. CASE way = "swapped"
  <2>1. Now(t) = LockBoth(b, a)
    BY <1>2, <1>7 DEF Pending
  <2> QED
    BY <1>1, <1>4, <1>7, <2>1, PairLocksSecond
<1>8. CASE way = "first"
  <2>1. Now(t) = Tries(a, b) /\ Now(t).op = "trySecond"
    BY <1>2, <1>8 DEF Pending, Tries, TrySecond
  <2>2. LockSecond(t)
    BY <1>3, <2>1, OperationOfStep
  <2>3. /\ \/ /\ mem[b] = {} /\ Sets(b, {t}) /\ hb' = Sees(hb, t, b)
              /\ Continues(t, <<>> \o Tail(code[t]))
           \/ /\ Sets(a, {}) /\ hb' = Shows(hb, t, a)
              /\ Continues(t, <<LockBoth(b, a)>> \o Tail(code[t]))
        /\ asleep' = asleep
    BY <1>3, <2>1, <2>2, LockSecondIs
  <2>4. CASE /\ mem[b] = {} /\ Sets(b, {t}) /\ hb' = Sees(hb, t, b)
             /\ Continues(t, <<>> \o Tail(code[t]))
    BY <1>1, <1>3, <1>4, <1>8, <2>3, <2>4, PairGetsSecond
  <2>5. CASE /\ Sets(a, {}) /\ hb' = Shows(hb, t, a)
             /\ Continues(t, <<LockBoth(b, a)>> \o Tail(code[t]))
    BY <1>1, <1>3, <1>4, <1>8, <2>3, <2>5, PairFailsSecond
  <2> QED
    BY <2>3, <2>4, <2>5
<1>9. CASE way = "second"
  <2>1. Now(t) = Tries(b, a) /\ Now(t).op = "trySecond"
    BY <1>2, <1>9 DEF Pending, Tries, TrySecond
  <2>2. LockSecond(t)
    BY <1>3, <2>1, OperationOfStep
  <2>3. /\ \/ /\ mem[a] = {} /\ Sets(a, {t}) /\ hb' = Sees(hb, t, a)
              /\ Continues(t, <<>> \o Tail(code[t]))
           \/ /\ Sets(b, {}) /\ hb' = Shows(hb, t, b)
              /\ Continues(t, <<LockBoth(a, b)>> \o Tail(code[t]))
        /\ asleep' = asleep
    BY <1>3, <2>1, <2>2, LockSecondIs
  <2>4. CASE /\ mem[a] = {} /\ Sets(a, {t}) /\ hb' = Sees(hb, t, a)
             /\ Continues(t, <<>> \o Tail(code[t]))
    BY <1>1, <1>3, <1>4, <1>9, <2>3, <2>4, PairGetsFirst
  <2>5. CASE /\ Sets(b, {}) /\ hb' = Shows(hb, t, b)
             /\ Continues(t, <<LockBoth(a, b)>> \o Tail(code[t]))
    BY <1>1, <1>3, <1>4, <1>9, <2>3, <2>5, PairFailsFirst
  <2> QED
    BY <2>3, <2>4, <2>5
<1>10. CASE way = "on"
  <2>1. CASE p % 5 = 0
    BY <1>2, <1>5, <1>10, <2>1
  <2>2. CASE p % 5 = 1
    BY <1>1, <1>2, <1>3, <1>4, <1>10, <2>2, PairAddsFirst
  <2>3. CASE p % 5 = 2
    BY <1>1, <1>2, <1>3, <1>4, <1>10, <2>3, PairAddsSecond
  <2>4. CASE p % 5 = 3
    BY <1>1, <1>2, <1>3, <1>4, <1>10, <2>4, PairUnlocksFirst
  <2>5. CASE p % 5 = 4
    BY <1>1, <1>2, <1>3, <1>4, <1>10, <2>5, PairUnlocksSecond
  <2> QED
    BY <1>3, <2>1, <2>2, <2>3, <2>4, <2>5, Fifths
<1> QED
  BY <1>6, <1>7, <1>8, <1>9, <1>10 DEF Ways

\* A step of one of the two threads.
LEMMA PairWorkerStep ==
    ASSUME NEW n, Different(n), AllAwake, PairRunning(n), NEW t \in {A, B},
           LibraryStep(t) \/ UnforcedStep(t)
    PROVE  AllAwake' /\ PairRunning(n)'
<1> USE RoundsAssumption
<1>1. PICK P \in [{A, B} -> 0 .. 5 * Rounds], W \in [{A, B} -> Ways] :
          /\ \A u \in {A, B} : PairAt(n, u, P[u], W[u])
          /\ PairCounts(n, P)
  BY DEF PairRunning
<1> DEFINE p == P[t]
<1>2. PICK other \in {A, B} : other # t /\ {A, B} = {t, other}
  BY ThreadsDiffer
<1>3. /\ p \in 0 .. 5 * Rounds /\ P[other] \in 0 .. 5 * Rounds /\ W[t] \in Ways
      /\ p \in Nat /\ P[other] \in Nat
      /\ t \in Threads /\ other \in Threads /\ t # Main /\ t \notin {C, D}
  BY <1>1, <1>2, ThreadsDiffer DEF Threads
<1>4. /\ (p + 3) \div 5 \in Nat /\ (p + 2) \div 5 \in Nat
      /\ (P[other] + 3) \div 5 \in Nat /\ (P[other] + 2) \div 5 \in Nat
  BY <1>3, Fifths
<1>5. /\ mem[n.x] = ((p + 3) \div 5) + ((P[other] + 3) \div 5)
      /\ mem[n.y] = ((p + 2) \div 5) + ((P[other] + 2) \div 5)
  <2>1. CASE t = A
    BY <1>1, <1>2, <1>4, <2>1 DEF PairCounts
  <2>2. CASE t = B
    BY <1>1, <1>2, <1>4, <2>2 DEF PairCounts
  <2> QED
    BY <2>1, <2>2
<1>6. code[t] # <<>>
  BY <1>3, OperationOfStep DEF AllAwake
<1>7. PairStands(n, t, p, W[t])
  <2>1. mem[n.x] \in Int /\ mem[n.y] \in Int
    BY <1>4, <1>5
  <2>2. PairAt(n, t, p, W[t])
    BY <1>1
  <2> QED
    BY <1>6, <2>1, <2>2 DEF PairStands, PairRunning
<1> HIDE DEF p
<1>8. PICK q \in 0 .. 5 * Rounds, next \in Ways : PairGoes(n, t, p, q, next)
  BY <1>3, <1>7, PairWayStep
<1> DEFINE Q == [P EXCEPT ![t] = q]
           V == [W EXCEPT ![t] = next]
<1>9. /\ Q \in [{A, B} -> 0 .. 5 * Rounds] /\ V \in [{A, B} -> Ways]
      /\ Q[t] = q /\ Q[other] = P[other] /\ V[t] = next /\ V[other] = W[other]
  BY <1>1, <1>2
<1> HIDE DEF Q, V
<1>10. /\ DOMAIN code' = Threads /\ \A u \in Threads : u # t => code'[u] = code[u]
       /\ DOMAIN mem' = PairObjects(n) /\ PairLocks(n)'
       /\ Ordered(hb', PairObjects(n)) /\ asleep' = asleep
  BY <1>8 DEF PairGoes
<1>11. PairMemory(n)' /\ code'[Main] = <<Join({A, B}), Read(n.x), Read(n.y)>>
  <2>1. C \in Threads /\ D \in Threads /\ Main \in Threads
    BY DEF Threads
  <2> QED
    BY <1>3, <1>10, <2>1 DEF PairRunning, PairMemory
<1>12. \A u \in {A, B} : PairAt(n, u, Q[u], V[u])'
  <2>1. PairAt(n, t, Q[t], V[t])'
    BY <1>8, <1>9 DEF PairGoes
  <2>2. PairAt(n, other, Q[other], V[other])'
    <3>1. PairAt(n, other, P[other], W[other])
      BY <1>1
    <3>2. \A m \in {n.first, n.second} : other \in mem'[m] <=> other \in mem[m]
      BY <1>2, <1>8 DEF PairGoes
    <3>3. code'[other] = code[other]
      BY <1>2, <1>3, <1>10
    <3> QED
      BY <1>9, <3>1, <3>2, <3>3 DEF PairAt
  <2> QED
    BY <1>2, <2>1, <2>2
<1>13. PairCounts(n, Q)'
  <2> DEFINE dx == (p + 3) \div 5
             dy == (p + 2) \div 5
             ex == (q + 3) \div 5
             ey == (q + 2) \div 5
             ox == (P[other] + 3) \div 5
             oy == (P[other] + 2) \div 5
  <2>1. /\ mem[n.x] = dx + ox /\ mem[n.y] = dy + oy
        /\ dx \in Nat /\ dy \in Nat /\ ox \in Nat /\ oy \in Nat
    BY <1>4, <1>5
  <2>2. ex \in Nat /\ ey \in Nat
    <3>1. q \in Nat
      OBVIOUS
    <3> QED
      BY <3>1, Fifths
  <2>3. mem'[n.x] = mem[n.x] + (ex - dx) /\ mem'[n.y] = mem[n.y] + (ey - dy)
    BY <1>8 DEF PairGoes
  <2> HIDE DEF dx, dy, ex, ey, ox, oy
  <2>4. mem'[n.x] = ex + ox /\ mem'[n.y] = ey + oy
    BY <2>1, <2>2, <2>3
  <2>5. /\ mem'[n.x] = ((Q[t] + 3) \div 5) + ((Q[other] + 3) \div 5)
        /\ mem'[n.y] = ((Q[t] + 2) \div 5) + ((Q[other] + 2) \div 5)
    BY <1>9, <2>4 DEF ex, ey, ox, oy
  <2>6. /\ (Q[t] + 3) \div 5 \in Nat /\ (Q[t] + 2) \div 5 \in Nat
        /\ (Q[other] + 3) \div 5 \in Nat /\ (Q[other] + 2) \div 5 \in Nat
    BY <1>4, <1>9, <2>2 DEF ex, ey
  <2>7. CASE t = A
    BY <1>2, <2>5, <2>6, <2>7 DEF PairCounts
  <2>8. CASE t = B
    BY <1>2, <2>5, <2>6, <2>8 DEF PairCounts
  <2> QED
    BY <2>7, <2>8
<1>14. PairRunning(n)'
  BY <1>9, <1>10, <1>11, <1>12, <1>13 DEF PairRunning
<1> QED
  BY <1>10, <1>14 DEF AllAwake

\* The names of both demos are different ones.
LEMMA NamesDiffer == Different(ScopedNames) /\ Different(PairNames)
BY DEF Different, ScopedNames, PairNames

\* The invariant holds at first, in the one demo
LEMMA ScopedInit ==
    ASSUME Init, Running = ScopedLockDemo
    PROVE  PairInv(ScopedNames)
<1> DEFINE n == ScopedNames
<1>1. /\ Running.main = PairMain(n)
      /\ Running.objects = [first |-> {}, second |-> {}, firstValue |-> 0, secondValue |-> 0]
  BY DEF ScopedLockDemo, PairMain, PairWork, Demo, ScopedNames
<1>2. /\ Running.objects = [o \in PairObjects(n) |-> IF o \in {n.x, n.y} THEN 0 ELSE {}]
      /\ DOMAIN Running.objects = PairObjects(n)
  BY <1>1 DEF PairObjects, ScopedNames
<1> HIDE DEF n
<1> QED
  BY <1>1, <1>2 DEF Init, PairInv, PairBegun, OnlyMain, AllAwake, n

\* and in the other.
LEMMA PairInit ==
    ASSUME Init, Running = ScopedLockPairDemo
    PROVE  PairInv(PairNames)
<1> DEFINE n == PairNames
<1>1. /\ Running.main = PairMain(n)
      /\ Running.objects = [m1 |-> {}, m2 |-> {}, a |-> 0, b |-> 0]
  BY DEF ScopedLockPairDemo, PairMain, PairWork, Demo, PairNames
<1>2. /\ Running.objects = [o \in PairObjects(n) |-> IF o \in {n.x, n.y} THEN 0 ELSE {}]
      /\ DOMAIN Running.objects = PairObjects(n)
  BY <1>1 DEF PairObjects, PairNames
<1> HIDE DEF n
<1> QED
  BY <1>1, <1>2 DEF Init, PairInv, PairBegun, OnlyMain, AllAwake, n

\* Main starts the threads.
LEMMA PairFirstStep ==
    ASSUME NEW n, Different(n), AllAwake, PairBegun(n), NEW t \in Threads,
           LibraryStep(t) \/ UnforcedStep(t)
    PROVE  AllAwake' /\ PairRunning(n)'
<1> USE RoundsAssumption
<1> DEFINE new == [u \in {A, B} |-> PairWork(n)]
           Objects == PairObjects(n)
<1>1. /\ Head(PairMain(n)) = Start(new) /\ DOMAIN new = {A, B}
      /\ new[A] = PairWork(n) /\ new[B] = PairWork(n)
      /\ Tail(PairMain(n)) = <<Join({A, B}), Read(n.x), Read(n.y)>>
  BY DEF PairMain
<1> HIDE DEF new
<1>2. /\ DOMAIN code' = Threads
      /\ code'[Main] = <<Join({A, B}), Read(n.x), Read(n.y)>>
      /\ code'[A] = PairWork(n) /\ code'[B] = PairWork(n)
      /\ code'[C] = <<>> /\ code'[D] = <<>>
      /\ hb' = hb /\ mem' = mem /\ asleep' = asleep
  <2> DEFINE main == PairMain(n)
  <2>1. /\ OnlyMain(main) /\ hb = Before(Objects) /\ Head(main) = Start(new)
        /\ Tail(main) = <<Join({A, B}), Read(n.x), Read(n.y)>>
    BY <1>1 DEF PairBegun
  <2> HIDE DEF main, Objects
  <2> QED
    BY <1>1, <2>1, FirstStep
<1>3. Ordered(hb', Objects) /\ \A v, m : Guarded(hb', Objects, v, m, {})
  BY <1>2, BeforeIs DEF PairBegun, Guarded, Within
<1> DEFINE P == [u \in {A, B} |-> 0]
           W == [u \in {A, B} |-> "on"]
<1>4. /\ P \in [{A, B} -> 0 .. 5 * Rounds] /\ W \in [{A, B} -> Ways]
      /\ \A u \in {A, B} : P[u] = 0 /\ W[u] = "on"
  BY DEF Ways
<1> HIDE DEF P, W
<1>5. /\ DOMAIN mem' = Objects
      /\ mem'[n.x] = 0 /\ mem'[n.y] = 0 /\ mem'[n.first] = {} /\ mem'[n.second] = {}
  BY <1>2 DEF PairBegun, PairObjects, Different
<1>6. \A u \in {A, B} : PairAt(n, u, P[u], W[u])'
  <2>1. \A u \in {A, B} : code'[u] = From(PairWork(n), P[u])
    BY <1>2, <1>4, PairWorkIs
  <2>2. 0 % 5 = 0
    OBVIOUS
  <2> QED
    BY <1>4, <1>5, <2>1, <2>2 DEF PairAt
<1>7. PairCounts(n, P)'
  <2>1. (0 + 3) \div 5 = 0 /\ (0 + 2) \div 5 = 0
    OBVIOUS
  <2> QED
    BY <1>4, <1>5, <2>1 DEF PairCounts
<1>8. PairLocks(n)'
  BY <1>3, <1>5 DEF PairLocks
<1>9. PairMemory(n)'
  BY <1>2, <1>3, <1>5 DEF PairMemory
<1> QED
  BY <1>2, <1>4, <1>6, <1>7, <1>8, <1>9 DEF PairRunning, AllAwake

\* Main joins them.
LEMMA PairJoinStep ==
    ASSUME NEW n, Different(n), AllAwake, PairRunning(n), LibraryStep(Main) \/ UnforcedStep(Main)
    PROVE  AllAwake' /\ PairJoined(n)'
<1> USE RoundsAssumption
<1> DEFINE Objects == PairObjects(n)
<1>1. /\ code[Main] = <<Join({A, B}), Read(n.x), Read(n.y)>> /\ PairMemory(n)
      /\ DOMAIN code = Threads /\ Ordered(hb, Objects)
  BY DEF PairRunning, PairMemory
<1>2. /\ code[Main] # <<>> /\ Head(code[Main]) = Join({A, B})
      /\ <<>> \o Tail(code[Main]) = <<Read(n.x), Read(n.y)>>
  BY <1>1
<1>3. /\ code[A] = <<>> /\ code[B] = <<>>
      /\ Continues(Main, <<>> \o Tail(code[Main]))
      /\ mem' = mem /\ asleep' = asleep
      /\ Ordered(hb', Objects)
      /\ \A x : Within(hb', Objects, x, hb'.known[Main])
  BY <1>1, <1>2, JoinStep
<1>4. mem[n.x] = 2 * Rounds /\ mem[n.y] = 2 * Rounds
  <2>1. PICK P \in [{A, B} -> 0 .. 5 * Rounds], W \in [{A, B} -> Ways] :
            /\ \A t \in {A, B} : PairAt(n, t, P[t], W[t])
            /\ PairCounts(n, P)
    BY DEF PairRunning
  <2>2. ASSUME NEW t \in {A, B}
        PROVE  P[t] = 5 * Rounds
    <3>1. PairAt(n, t, P[t], W[t]) /\ code[t] = <<>> /\ P[t] \in 0 .. 5 * Rounds
      BY <1>3, <2>1
    <3>2. W[t] = "on"
      <4>1. CASE W[t] # "on"
        <5> DEFINE o == Pending(n.first, n.second, W[t])
                   q == P[t] + 1
        <5>1. code[t] = <<o>> \o From(PairWork(n), q) /\ P[t] < 5 * Rounds
          BY <3>1, <4>1 DEF PairAt
        <5>2. q \in 0 .. 5 * Rounds
          BY <3>1, <5>1
        <5> HIDE DEF o, q
        <5>3. code[t] # <<>>
          BY <5>1, <5>2, PairWorkIs
        <5> QED
          BY <3>1, <5>3
      <4> QED
        BY <4>1
    <3> DEFINE p == P[t]
    <3>3. From(PairWork(n), p) = <<>>
      BY <3>1, <3>2 DEF PairAt
    <3>4. p \in 0 .. 5 * Rounds
      BY <3>1
    <3> HIDE DEF p
    <3>5. p = 5 * Rounds
      BY <3>3, <3>4, PairWorkIs
    <3> QED
      BY <3>5 DEF p
  <2>3. (5 * Rounds + 3) \div 5 = Rounds /\ (5 * Rounds + 2) \div 5 = Rounds
    OBVIOUS
  <2> QED
    BY <2>1, <2>2, <2>3 DEF PairCounts
<1>5. /\ code'[Main] = <<Read(n.x), Read(n.y)>> /\ code'[A] = <<>> /\ code'[B] = <<>>
      /\ code'[C] = <<>> /\ code'[D] = <<>> /\ DOMAIN code' = Threads
  BY <1>1, <1>2, <1>3, ThreadsDiffer DEF Continues, PairMemory, Threads
<1>6. PairMemory(n)'
  BY <1>1, <1>3, <1>5 DEF PairMemory
<1> QED
  BY <1>3, <1>4, <1>5, <1>6 DEF PairJoined, AllAwake

\* Main reads the variables.
LEMMA PairReadStep ==
    ASSUME NEW n, Different(n), AllAwake, PairJoined(n), NEW t \in Threads,
           LibraryStep(t) \/ UnforcedStep(t)
    PROVE  AllAwake' /\ PairJoined(n)'
<1> DEFINE Objects == PairObjects(n)
<1>1. asleep[t] = Awake
  BY DEF AllAwake
<1>2. code[t] # <<>>
  BY <1>1, OperationOfStep
<1>3. t = Main /\ t \in {Main, A, B} /\ code[Main] \in {<<Read(n.x), Read(n.y)>>, <<Read(n.y)>>}
  BY <1>2, ThreadsDiffer DEF PairJoined, PairMemory
<1>4. PICK x \in {n.x, n.y} :
          /\ Now(t) = Read(x)
          /\ <<>> \o Tail(code[t]) \in {<<Read(n.y)>>, <<>>}
  <2> DEFINE r == Read(n.x)
             s == Read(n.y)
  <2>1. code[t] = <<r, s>> \/ code[t] = <<s>>
    BY <1>3
  <2> HIDE DEF r, s
  <2>2. CASE code[t] = <<r, s>>
    <3>1. Now(t) = r /\ <<>> \o Tail(code[t]) = <<s>>
      BY <2>2 DEF Now
    <3> QED
      BY <3>1 DEF r, s
  <2>3. CASE code[t] = <<s>>
    <3>1. Now(t) = s /\ <<>> \o Tail(code[t]) = <<>>
      BY <2>3 DEF Now
    <3> QED
      BY <3>1 DEF s
  <2> QED
    BY <2>1, <2>2, <2>3
<1>5. ReadVariable(t)
  <2>1. Now(t).op = "read"
    BY <1>4 DEF Read
  <2> QED
    BY <1>1, <2>1, OperationOfStep
<1>6. /\ DOMAIN code = Threads /\ Ordered(hb, Objects) /\ x \in Objects
      /\ \A v \in {n.x, n.y} : Within(hb, Objects, v, hb.known[t])
  BY <1>3 DEF PairJoined, PairMemory, PairObjects
<1>7. /\ hb' = Reads(hb, t, {x}) /\ Continues(t, <<>> \o Tail(code[t]))
      /\ mem' = mem /\ asleep' = asleep
  BY <1>4, <1>5, <1>6, ReadIs
<1>8. Ordered(hb', Objects) /\ Within(hb', Objects, x, hb'.known[t]) /\ SameBut(hb', hb, Objects, x)
  BY <1>3, <1>6, <1>7, ReadsIs
<1>9. \A v \in {n.x, n.y} : Within(hb', Objects, v, hb'.known[t])
  <2>1. ASSUME NEW v \in {n.x, n.y}, v # x
        PROVE  Within(hb', Objects, v, hb'.known[t])
    BY <1>6, <1>8, <2>1 DEF Within, SameBut
  <2> QED
    BY <1>8, <2>1
<1>10. /\ DOMAIN code' = Threads /\ code'[Main] \in {<<Read(n.y)>>, <<>>}
       /\ code'[A] = <<>> /\ code'[B] = <<>> /\ code'[C] = <<>> /\ code'[D] = <<>>
  BY <1>3, <1>4, <1>7, ThreadsDiffer DEF PairJoined, PairMemory, Continues, Threads
<1>11. PairMemory(n)'
  BY <1>7, <1>8, <1>10 DEF PairJoined, PairMemory
<1> QED
  BY <1>3, <1>7, <1>9, <1>10, <1>11 DEF PairJoined, AllAwake

\* Every step keeps the invariant,
LEMMA PairStep ==
    ASSUME NEW n, Different(n), PairInv(n), NEW t \in Threads, LibraryStep(t) \/ UnforcedStep(t)
    PROVE  PairInv(n)'
<1>1. CASE PairBegun(n)
  BY <1>1, PairFirstStep DEF PairInv
<1>2. CASE PairRunning(n)
  <2>1. t \in {Main, A, B}
    <3>1. code[t] # <<>>
      BY OperationOfStep DEF PairInv, AllAwake
    <3> QED
      BY <1>2, <3>1, ThreadsDiffer DEF PairRunning, PairMemory
  <2>2. CASE t = Main
    BY <1>2, <2>2, PairJoinStep DEF PairInv
  <2>3. CASE t \in {A, B}
    BY <1>2, <2>3, PairWorkerStep DEF PairInv
  <2> QED
    BY <2>1, <2>2, <2>3
<1>3. CASE PairJoined(n)
  BY <1>3, PairReadStep DEF PairInv
<1> QED
  BY <1>1, <1>2, <1>3 DEF PairInv

\* and when the demo has ended both variables have all increments.
LEMMA PairShows ==
    ASSUME NEW n, PairInv(n)
    PROVE  RaceFree /\ (Done => mem[n.x] = 2 * Rounds /\ mem[n.y] = 2 * Rounds)
<1>1. RaceFree
  BY DEF PairInv, PairBegun, PairRunning, PairJoined, PairMemory, Before, Ordered, Ordering,
         RaceFree
<1>2. ASSUME Done
      PROVE  mem[n.x] = 2 * Rounds /\ mem[n.y] = 2 * Rounds
  <2>1. code[Main] = <<>>
    BY <1>2 DEF Done, Threads
  <2>2. ~PairBegun(n)
    BY <2>1 DEF PairBegun, PairMain, OnlyMain, Threads
  <2> QED
    BY <2>1, <2>2 DEF PairInv, PairRunning, PairJoined
<1> QED
  BY <1>1, <1>2

\* So the first demo is right,
LEMMA ScopedShows ==
    ASSUME Running = ScopedLockDemo, PairInv(ScopedNames)
    PROVE  RaceFree /\ AsPrinted /\ WithinLimits
<1>1. RaceFree /\ (Done => mem.firstValue = 2 * Rounds /\ mem.secondValue = 2 * Rounds)
  <2> DEFINE n == ScopedNames
  <2>1. n.x = "firstValue" /\ n.y = "secondValue"
    BY DEF ScopedNames
  <2> HIDE DEF n
  <2>2. RaceFree /\ (Done => mem[n.x] = 2 * Rounds /\ mem[n.y] = 2 * Rounds)
    BY PairShows DEF n
  <2> QED
    BY <2>1, <2>2
<1>2. /\ Running.final = [firstValue : {2 * Rounds}, secondValue : {2 * Rounds}]
      /\ Running.always = <<>>
  BY DEF ScopedLockDemo, Demo, Nothing
<1>3. AsPrinted
  <2> DEFINE f == [firstValue |-> 2 * Rounds, secondValue |-> 2 * Rounds]
  <2>1. f \in Running.final /\ \A z \in DOMAIN f : Done => mem[z] = f[z]
    BY <1>1, <1>2
  <2> QED
    BY <2>1 DEF AsPrinted
<1> QED
  BY <1>1, <1>2, <1>3 DEF WithinLimits

\* and so is the second.
LEMMA PairDemoShows ==
    ASSUME Running = ScopedLockPairDemo, PairInv(PairNames)
    PROVE  RaceFree /\ AsPrinted /\ WithinLimits
<1>1. RaceFree /\ (Done => mem.a = 2 * Rounds /\ mem.b = 2 * Rounds)
  <2> DEFINE n == PairNames
  <2>1. n.x = "a" /\ n.y = "b"
    BY DEF PairNames
  <2> HIDE DEF n
  <2>2. RaceFree /\ (Done => mem[n.x] = 2 * Rounds /\ mem[n.y] = 2 * Rounds)
    BY PairShows DEF n
  <2> QED
    BY <2>1, <2>2
<1>2. /\ Running.final = [a : {2 * Rounds}, b : {2 * Rounds}]
      /\ Running.always = <<>>
  BY DEF ScopedLockPairDemo, Demo, Nothing
<1>3. AsPrinted
  <2> DEFINE f == [a |-> 2 * Rounds, b |-> 2 * Rounds]
  <2>1. f \in Running.final /\ \A z \in DOMAIN f : Done => mem[z] = f[z]
    BY <1>1, <1>2
  <2> QED
    BY <2>1 DEF AsPrinted
<1> QED
  BY <1>1, <1>2, <1>3 DEF WithinLimits

-----------------------------------------------------------------------------
(* RelaxedCounterDemo, AtomicCounterDemo and TwoCounters *)

\* The objects, and what main does.
TallyObjects == {"counter", "printed"}
TallyMain(order) ==
    <<Start([t \in {A, B} |-> CountWork("counter", order)]), Join({A, B}),
      Load("counter", "printed", order)>>

\* Main has not started the threads.
TallyBegun(order) ==
    /\ OnlyMain(TallyMain(order))
    /\ mem = [counter |-> 0, printed |-> 0]
    /\ hb = Before(TallyObjects)

\* Nobody has accessed an ordinary variable, and the counter is the number of
\* increments behind the two threads.
TallyRunning(order) ==
    /\ DOMAIN code = Threads /\ code[C] = <<>> /\ code[D] = <<>>
    /\ code[Main] = <<Join({A, B}), Load("counter", "printed", order)>>
    /\ DOMAIN mem = TallyObjects
    /\ hb = Before(TallyObjects)
    /\ \E P \in [{A, B} -> 0 .. Rounds] :
          /\ \A t \in {A, B} : code[t] = From(CountWork("counter", order), P[t])
          /\ mem.counter = P[A] + P[B]

\* Both threads have ended.
TallyJoined(order) ==
    /\ DOMAIN code = Threads /\ code[C] = <<>> /\ code[D] = <<>>
    /\ code[Main] \in {<<Load("counter", "printed", order)>>, <<>>}
    /\ code[A] = <<>> /\ code[B] = <<>>
    /\ DOMAIN mem = TallyObjects
    /\ Ordered(hb, TallyObjects) /\ \A x \in TallyObjects : Within(hb, TallyObjects, x, hb.known[Main])
    /\ mem.counter = 2 * Rounds
    /\ code[Main] = <<>> => mem.printed = 2 * Rounds

\* The inductive invariant of a demo in which two threads count with one
\* atomic counter, in any memory order.
TallyInv(order) == AllAwake /\ (TallyBegun(order) \/ TallyRunning(order) \/ TallyJoined(order))

\* Main starts the threads.
LEMMA TallyFirstStep ==
    ASSUME NEW order, AllAwake, TallyBegun(order), NEW t \in Threads,
           LibraryStep(t) \/ UnforcedStep(t)
    PROVE  AllAwake' /\ TallyRunning(order)'
<1> USE RoundsAssumption
<1> DEFINE work == CountWork("counter", order)
           new == [u \in {A, B} |-> work]
           rest == <<Join({A, B}), Load("counter", "printed", order)>>
           main == TallyMain(order)
           objects == TallyObjects
           P == [u \in {A, B} |-> 0]
<1>1. /\ OnlyMain(main) /\ hb = Before(objects)
      /\ Head(main) = Start(new) /\ Tail(main) = rest
      /\ DOMAIN new = {A, B} /\ new[A] = work /\ new[B] = work
  BY DEF TallyMain, TallyBegun
<1>2. From(work, 0) = work
  BY CountWorkIs
<1>3. DOMAIN mem = objects /\ mem.counter = 0
  BY DEF TallyBegun, TallyObjects
<1>4. P \in [{A, B} -> 0 .. Rounds] /\ \A u \in {A, B} : P[u] = 0
  OBVIOUS
<1> HIDE DEF main, new, objects, work, rest, P
<1>5. /\ DOMAIN code' = Threads
      /\ code'[Main] = rest /\ code'[A] = work /\ code'[B] = work
      /\ code'[C] = <<>> /\ code'[D] = <<>>
      /\ hb' = hb /\ mem' = mem /\ asleep' = asleep
  BY <1>1, FirstStep
<1>6. /\ \A u \in {A, B} : code'[u] = From(work, P[u])
      /\ mem'.counter = P[A] + P[B]
  BY <1>2, <1>3, <1>4, <1>5
<1> QED
  BY <1>1, <1>3, <1>4, <1>5, <1>6 DEF TallyRunning, AllAwake, work, rest, objects

\* A thread counts.
LEMMA TallyCountStep ==
    ASSUME NEW order, AllAwake, TallyRunning(order), NEW t \in {A, B},
           LibraryStep(t) \/ UnforcedStep(t)
    PROVE  AllAwake' /\ TallyRunning(order)'
<1> USE RoundsAssumption
<1> DEFINE work == CountWork("counter", order)
           x == "counter"
           objects == TallyObjects
<1>1. PICK P \in [{A, B} -> 0 .. Rounds] :
          /\ \A u \in {A, B} : code[u] = From(work, P[u])
          /\ mem.counter = P[A] + P[B]
  BY DEF TallyRunning
<1>2. /\ t \in Threads /\ asleep[t] = Awake /\ t # Main /\ t \notin {C, D} /\ A # B
      /\ Main \in Threads /\ C \in Threads /\ D \in Threads /\ A \in Threads /\ B \in Threads
  BY ThreadsDiffer DEF AllAwake, Threads
<1>3. /\ DOMAIN code = Threads /\ DOMAIN mem = objects /\ x \in objects /\ hb = Before(objects)
      /\ P[t] \in 0 .. Rounds /\ code[t] = From(CountWork(x, order), P[t])
  BY <1>1 DEF TallyRunning, TallyObjects
<1> HIDE DEF x, objects
<1>4. /\ P[t] < Rounds /\ P[t] + 1 \in 0 .. Rounds
      /\ Sets(x, mem[x] + 1) /\ hb' = hb /\ asleep' = asleep
      /\ Continues(t, From(CountWork(x, order), P[t] + 1))
  BY <1>2, <1>3, CountStep
<1> DEFINE Q == [P EXCEPT ![t] = P[t] + 1]
<1>5. Q \in [{A, B} -> 0 .. Rounds] /\ Q[t] = P[t] + 1 /\ \A u \in {A, B} : u # t => Q[u] = P[u]
  BY <1>1, <1>4
<1> HIDE DEF Q
<1>6. \A u \in {A, B} : code'[u] = From(work, Q[u])
  BY <1>1, <1>2, <1>4, <1>5 DEF Continues, x
<1>7. mem'.counter = Q[A] + Q[B] /\ DOMAIN mem' = objects
  <2>1. mem'.counter = mem.counter + 1 /\ DOMAIN mem' = objects
    BY <1>3, <1>4 DEF Sets, x
  <2> QED
    BY <1>1, <1>2, <1>5, <2>1
<1>8. /\ DOMAIN code' = Threads /\ code'[Main] = code[Main]
      /\ code'[C] = code[C] /\ code'[D] = code[D]
  BY <1>2, <1>4 DEF Continues
<1> QED
  BY <1>3, <1>4, <1>5, <1>6, <1>7, <1>8 DEF TallyRunning, AllAwake, objects

\* Main joins the threads.
LEMMA TallyJoinStep ==
    ASSUME NEW order, AllAwake, TallyRunning(order), LibraryStep(Main) \/ UnforcedStep(Main)
    PROVE  AllAwake' /\ TallyJoined(order)'
<1> USE RoundsAssumption
<1> DEFINE work == CountWork("counter", order)
           load == Load("counter", "printed", order)
           join == Join({A, B})
           objects == TallyObjects
<1>1. /\ DOMAIN code = Threads /\ code[Main] = <<join, load>> /\ Ordered(hb, objects)
  BY BeforeIs DEF TallyRunning
<1> HIDE DEF objects, load
<1>2. code[Main] # <<>> /\ Head(code[Main]) = join /\ <<>> \o Tail(code[Main]) = <<load>>
  <2> HIDE DEF join
  <2> QED
    BY <1>1
<1>3. /\ code[A] = <<>> /\ code[B] = <<>>
      /\ Continues(Main, <<>> \o Tail(code[Main]))
      /\ mem' = mem /\ asleep' = asleep
      /\ Ordered(hb', objects)
      /\ \A x : Within(hb', objects, x, hb'.known[Main])
  BY <1>1, <1>2, JoinStep
<1>4. mem.counter = 2 * Rounds
  <2>1. PICK P \in [{A, B} -> 0 .. Rounds] :
          /\ \A u \in {A, B} : code[u] = From(work, P[u])
          /\ mem.counter = P[A] + P[B]
    BY DEF TallyRunning
  <2>2. \A j \in 0 .. Rounds : From(work, j) = <<>> <=> j = Rounds
    BY CountWorkIs
  <2>3. P[A] = Rounds /\ P[B] = Rounds
    BY <1>3, <2>1, <2>2
  <2> QED
    BY <2>1, <2>3
<1>5. /\ DOMAIN code' = Threads /\ code'[Main] = <<load>>
      /\ code'[A] = <<>> /\ code'[B] = <<>> /\ code'[C] = <<>> /\ code'[D] = <<>>
  BY <1>2, <1>3, ThreadsDiffer DEF Continues, Threads, TallyRunning
<1> QED
  BY <1>3, <1>4, <1>5 DEF TallyRunning, TallyJoined, AllAwake, objects, load

\* Main reads the counter.
LEMMA TallyLoadStep ==
    ASSUME NEW order, AllAwake, TallyJoined(order), NEW t \in Threads,
           LibraryStep(t) \/ UnforcedStep(t)
    PROVE  AllAwake' /\ TallyJoined(order)'
<1> DEFINE x == "counter"
           into == "printed"
           load == Load(x, into, order)
           objects == TallyObjects
<1>1. asleep[t] = Awake
  BY DEF AllAwake
<1>2. code[t] # <<>>
  BY <1>1, OperationOfStep
<1>3. t = Main /\ code[Main] = <<load>>
  BY <1>2, ThreadsDiffer DEF TallyJoined
<1>4. x \in objects /\ into \in objects /\ into # x
  BY DEF TallyObjects
<1> HIDE DEF x, into, objects
<1>5. Now(t) = load /\ <<>> \o Tail(code[t]) = <<>>
  <2> HIDE DEF load
  <2> QED
    BY <1>3 DEF Now
<1>6. LoadAtomic(t)
  <2>1. Now(t).op = "load"
    BY <1>5 DEF Load
  <2> QED
    BY <1>1, <2>1, OperationOfStep
<1>7. DOMAIN code = Threads /\ DOMAIN mem = objects
  BY DEF TallyJoined, objects
<1>8. /\ Sets(into, mem[x])
      /\ hb' = Writes(Acquired(hb, t, x, order), t, into)
      /\ Continues(t, <<>> \o Tail(code[t])) /\ asleep' = asleep
  BY <1>4, <1>5, <1>6, <1>7, LoadIs
<1>9. Ordered(hb', objects) /\ \A y \in objects : Within(hb', objects, y, hb'.known[Main])
  <2>1. Ordered(hb, objects) /\ \A y \in objects : Within(hb, objects, y, hb.known[Main])
    BY DEF TallyJoined, objects
  <2> QED
    BY <1>3, <1>4, <1>8, <2>1, MainLoads
<1>10. DOMAIN mem' = objects /\ mem'[x] = 2 * Rounds /\ mem'[into] = 2 * Rounds
  BY <1>4, <1>7, <1>8 DEF Sets, TallyJoined, x
<1>11. /\ DOMAIN code' = Threads /\ code'[Main] = <<>>
       /\ code'[A] = <<>> /\ code'[B] = <<>> /\ code'[C] = <<>> /\ code'[D] = <<>>
  BY <1>3, <1>5, <1>8, ThreadsDiffer DEF Continues, Threads, TallyJoined
<1> QED
  BY <1>8, <1>9, <1>10, <1>11 DEF TallyJoined, AllAwake, objects, x, into

\* Every step keeps the invariant,
LEMMA TallyStep ==
    ASSUME NEW order, TallyInv(order), NEW t \in Threads, LibraryStep(t) \/ UnforcedStep(t)
    PROVE  TallyInv(order)'
<1>1. CASE TallyBegun(order)
  BY <1>1, TallyFirstStep DEF TallyInv
<1>2. CASE TallyRunning(order)
  <2>1. t \in {Main, A, B}
    <3>1. code[t] # <<>>
      BY OperationOfStep DEF TallyInv, AllAwake
    <3> QED
      BY <1>2, <3>1, ThreadsDiffer DEF TallyRunning
  <2>2. CASE t = Main
    BY <1>2, <2>2, TallyJoinStep DEF TallyInv
  <2>3. CASE t \in {A, B}
    BY <1>2, <2>3, TallyCountStep DEF TallyInv
  <2> QED
    BY <2>1, <2>2, <2>3
<1>3. CASE TallyJoined(order)
  BY <1>3, TallyLoadStep DEF TallyInv
<1> QED
  BY <1>1, <1>2, <1>3 DEF TallyInv

\* it holds at first,
LEMMA TallyInit ==
    /\ Init /\ Running = RelaxedCounterDemo => TallyInv("relaxed")
    /\ Init /\ Running = AtomicCounterDemo => TallyInv("seq_cst")
<1>1. ASSUME NEW order, Init, Running.main = TallyMain(order),
             Running.objects = [counter |-> 0, printed |-> 0]
      PROVE  TallyInv(order)
  <2>1. DOMAIN Running.objects = TallyObjects
    BY <1>1 DEF TallyObjects
  <2> QED
    BY <1>1, <2>1 DEF Init, TallyInv, TallyBegun, OnlyMain, AllAwake
<1>2. ASSUME Init, Running = RelaxedCounterDemo
      PROVE  TallyInv("relaxed")
  <2> DEFINE order == "relaxed"
  <2>1. Running.main = TallyMain(order) /\ Running.objects = [counter |-> 0, printed |-> 0]
    BY <1>2 DEF RelaxedCounterDemo, TallyMain, CountWork, Demo
  <2> HIDE DEF order
  <2>2. TallyInv(order)
    BY <1>1, <1>2, <2>1
  <2> QED
    BY <2>2 DEF order
<1>3. ASSUME Init, Running = AtomicCounterDemo
      PROVE  TallyInv("seq_cst")
  <2> DEFINE order == "seq_cst"
  <2>1. Running.main = TallyMain(order) /\ Running.objects = [counter |-> 0, printed |-> 0]
    BY <1>3 DEF AtomicCounterDemo, TallyMain, CountWork, Demo
  <2> HIDE DEF order
  <2>2. TallyInv(order)
    BY <1>1, <1>3, <2>1
  <2> QED
    BY <2>2 DEF order
<1> QED
  BY <1>2, <1>3

\* and it says that the demos are right.
LEMMA TallyShows ==
    ASSUME NEW order, TallyInv(order), Running \in {RelaxedCounterDemo, AtomicCounterDemo}
    PROVE  RaceFree /\ AsPrinted /\ WithinLimits
<1>1. RaceFree
  BY DEF TallyInv, TallyBegun, TallyRunning, TallyJoined, Before, Ordered, Ordering, RaceFree
<1>2. ASSUME Done
      PROVE  mem.printed = 2 * Rounds
  <2>1. code[Main] = <<>>
    BY <1>2 DEF Done, Threads
  <2>2. ~TallyBegun(order)
    BY <2>1 DEF TallyBegun, TallyMain, OnlyMain, Threads
  <2> QED
    BY <2>1, <2>2 DEF TallyInv, TallyRunning, TallyJoined
<1>3. Running.final = [printed : {2 * Rounds}] /\ Running.always = <<>>
  <2>1. CASE Running = RelaxedCounterDemo
    BY <2>1 DEF RelaxedCounterDemo, Demo, Nothing
  <2>2. CASE Running = AtomicCounterDemo
    BY <2>2 DEF AtomicCounterDemo, Demo, Nothing
  <2> QED
    BY <2>1, <2>2
<1>4. AsPrinted
  <2> DEFINE f == [printed |-> 2 * Rounds]
  <2>1. f \in Running.final /\ \A z \in DOMAIN f : Done => mem[z] = f[z]
    BY <1>2, <1>3
  <2> QED
    BY <2>1 DEF AsPrinted
<1> QED
  BY <1>1, <1>3, <1>4 DEF WithinLimits

\* Two threads count, each with a counter of its own.
TwoNames == [t \in {A, B} |-> IF t = A THEN "first" ELSE "second"]
TwoObjects == {"first", "second", "printed1", "printed2"}
TwoWork(t) == CountWork(TwoNames[t], "relaxed")
TwoLoads == <<Load("first", "printed1", "seq_cst"), Load("second", "printed2", "seq_cst")>>
TwoRest == <<Join({A, B}), Load("first", "printed1", "seq_cst"),
             Load("second", "printed2", "seq_cst")>>
TwoMain == <<Start([t \in {A, B} |-> TwoWork(t)]), Join({A, B}),
             Load("first", "printed1", "seq_cst"), Load("second", "printed2", "seq_cst")>>

\* Main has not started the threads.
TwoBegun ==
    /\ OnlyMain(TwoMain)
    /\ mem = [first |-> 0, second |-> 0, printed1 |-> 0, printed2 |-> 0]
    /\ hb = Before(TwoObjects)

\* Each counter is the number of rounds behind its thread.
TwoRunning ==
    /\ DOMAIN code = Threads /\ code[C] = <<>> /\ code[D] = <<>>
    /\ code[Main] = TwoRest
    /\ DOMAIN mem = TwoObjects
    /\ hb = Before(TwoObjects)
    /\ \A t \in {A, B} : /\ mem[TwoNames[t]] \in 0 .. Rounds
                         /\ code[t] = From(TwoWork(t), mem[TwoNames[t]])

\* Both threads have ended.
TwoJoined ==
    /\ DOMAIN code = Threads /\ code[C] = <<>> /\ code[D] = <<>>
    /\ code[A] = <<>> /\ code[B] = <<>>
    /\ DOMAIN mem = TwoObjects
    /\ Ordered(hb, TwoObjects) /\ \A x \in TwoObjects : Within(hb, TwoObjects, x, hb.known[Main])
    /\ mem.first = Rounds /\ mem.second = Rounds
    /\ \/ code[Main] = TwoLoads
       \/ code[Main] = Tail(TwoLoads) /\ mem.printed1 = Rounds
       \/ code[Main] = <<>> /\ mem.printed1 = Rounds /\ mem.printed2 = Rounds

\* The inductive invariant of the demo.
TwoInv == AllAwake /\ (TwoBegun \/ TwoRunning \/ TwoJoined)

\* What main does, step by step.
LEMMA TwoMainIs ==
    LET l == Load("first", "printed1", "seq_cst")
        m == Load("second", "printed2", "seq_cst")
        j == Join({A, B})
        new == [t \in {A, B} |-> TwoWork(t)]
    IN  /\ TwoLoads = <<l, m>> /\ Tail(TwoLoads) = <<m>>
        /\ TwoRest = <<j, l, m>>
        /\ TwoMain = <<Start(new), j, l, m>>
        /\ Head(TwoMain) = Start(new) /\ Tail(TwoMain) = TwoRest
<1> DEFINE l == Load("first", "printed1", "seq_cst")
           m == Load("second", "printed2", "seq_cst")
           j == Join({A, B})
           new == [t \in {A, B} |-> TwoWork(t)]
           s == Start(new)
<1>1. TwoLoads = <<l, m>> /\ TwoMain = <<s, j, l, m>> /\ TwoRest = <<j, l, m>>
  BY DEF TwoLoads, TwoMain, TwoRest
<1> HIDE DEF l, m, j, s
<1>2. Tail(<<l, m>>) = <<m>>
  OBVIOUS
<1>3. Head(<<s, j, l, m>>) = s /\ Tail(<<s, j, l, m>>) = <<j, l, m>>
  OBVIOUS
<1> QED
  BY <1>1, <1>2, <1>3 DEF l, m, j, s

\* Main starts the threads.
LEMMA TwoFirstStep ==
    ASSUME AllAwake, TwoBegun, NEW t \in Threads, LibraryStep(t) \/ UnforcedStep(t)
    PROVE  AllAwake' /\ TwoRunning'
<1> USE RoundsAssumption
<1> DEFINE new == [u \in {A, B} |-> TwoWork(u)]
           rest == TwoRest
           main == TwoMain
           objects == TwoObjects
<1>1. /\ OnlyMain(main) /\ hb = Before(objects)
      /\ Head(main) = Start(new) /\ Tail(main) = rest
      /\ DOMAIN new = {A, B} /\ new[A] = TwoWork(A) /\ new[B] = TwoWork(B)
  BY TwoMainIs DEF TwoBegun
<1>2. \A u \in {A, B} : From(TwoWork(u), 0) = TwoWork(u)
  BY CountWorkIs DEF TwoWork
<1>3. DOMAIN mem = objects /\ mem.first = 0 /\ mem.second = 0
  BY DEF TwoBegun, TwoObjects
<1> HIDE DEF main, new, objects, rest
<1>4. /\ DOMAIN code' = Threads
      /\ code'[Main] = rest /\ code'[A] = TwoWork(A) /\ code'[B] = TwoWork(B)
      /\ code'[C] = <<>> /\ code'[D] = <<>>
      /\ hb' = hb /\ mem' = mem /\ asleep' = asleep
  BY <1>1, FirstStep
<1>5. \A u \in {A, B} : mem'[TwoNames[u]] = 0 /\ code'[u] = From(TwoWork(u), 0)
  <2>1. \A u \in {A, B} : TwoNames[u] \in {"first", "second"}
    BY DEF TwoNames
  <2> QED
    BY <1>2, <1>3, <1>4, <2>1
<1>6. \A u \in {A, B} : /\ mem'[TwoNames[u]] \in 0 .. Rounds
                        /\ code'[u] = From(TwoWork(u), mem'[TwoNames[u]])
  BY <1>5
<1> QED
  BY <1>1, <1>3, <1>4, <1>6 DEF TwoRunning, AllAwake, rest, objects

\* A thread counts.
LEMMA TwoCountStep ==
    ASSUME AllAwake, TwoRunning, NEW t \in {A, B}, LibraryStep(t) \/ UnforcedStep(t)
    PROVE  AllAwake' /\ TwoRunning'
<1> USE RoundsAssumption
<1> DEFINE x == TwoNames[t]
           order == "relaxed"
           objects == TwoObjects
           j == mem[x]
<1>1. PICK other \in {A, B} : other # t /\ {A, B} = {t, other}
  BY ThreadsDiffer
<1>2. /\ t \in Threads /\ asleep[t] = Awake /\ t # Main /\ t \notin {C, D}
      /\ Main \in Threads /\ C \in Threads /\ D \in Threads /\ other \in Threads
  BY ThreadsDiffer DEF AllAwake, Threads
<1>3. TwoNames[other] # x /\ TwoNames[other] \in objects /\ x \in objects
  BY <1>1, ThreadsDiffer DEF TwoNames, TwoObjects
<1>4. /\ DOMAIN code = Threads /\ DOMAIN mem = objects /\ hb = Before(objects)
      /\ j \in 0 .. Rounds /\ code[t] = From(CountWork(x, order), j)
  BY DEF TwoRunning, TwoWork
<1> HIDE DEF x, objects, j, order
<1>5. /\ j < Rounds /\ j + 1 \in 0 .. Rounds
      /\ Sets(x, mem[x] + 1) /\ hb' = hb /\ asleep' = asleep
      /\ Continues(t, From(CountWork(x, order), j + 1))
  BY <1>2, <1>3, <1>4, CountStep
<1>6. /\ DOMAIN mem' = objects /\ mem'[x] = j + 1 /\ mem'[x] \in 0 .. Rounds
      /\ mem'[TwoNames[other]] = mem[TwoNames[other]]
  BY <1>3, <1>4, <1>5 DEF Sets, j
<1>7. /\ code'[t] = From(CountWork(x, order), mem'[x])
      /\ code'[other] = code[other]
      /\ DOMAIN code' = Threads /\ code'[Main] = code[Main]
      /\ code'[C] = code[C] /\ code'[D] = code[D]
  BY <1>1, <1>2, <1>5, <1>6 DEF Continues
<1>8. \A u \in {A, B} : /\ mem'[TwoNames[u]] \in 0 .. Rounds
                        /\ code'[u] = From(TwoWork(u), mem'[TwoNames[u]])
  <2>1. /\ mem[TwoNames[other]] \in 0 .. Rounds
        /\ code[other] = From(TwoWork(other), mem[TwoNames[other]])
    BY DEF TwoRunning
  <2>2. /\ mem'[TwoNames[t]] \in 0 .. Rounds
        /\ code'[t] = From(TwoWork(t), mem'[TwoNames[t]])
    BY <1>6, <1>7 DEF TwoWork, x, order
  <2> QED
    BY <1>1, <1>6, <1>7, <2>1, <2>2
<1> QED
  BY <1>5, <1>6, <1>7, <1>8 DEF TwoRunning, AllAwake, objects

\* Main joins the threads.
LEMMA TwoJoinStep ==
    ASSUME AllAwake, TwoRunning, LibraryStep(Main) \/ UnforcedStep(Main)
    PROVE  AllAwake' /\ TwoJoined'
<1> USE RoundsAssumption
<1> DEFINE join == Join({A, B})
           l == Load("first", "printed1", "seq_cst")
           m == Load("second", "printed2", "seq_cst")
           objects == TwoObjects
<1>1. /\ DOMAIN code = Threads /\ code[Main] = <<join, l, m>> /\ Ordered(hb, objects)
      /\ TwoLoads = <<l, m>>
  BY BeforeIs, TwoMainIs DEF TwoRunning
<1> HIDE DEF objects, l, m
<1>2. code[Main] # <<>> /\ Head(code[Main]) = join /\ <<>> \o Tail(code[Main]) = TwoLoads
  <2> HIDE DEF join
  <2> QED
    BY <1>1
<1>3. /\ code[A] = <<>> /\ code[B] = <<>>
      /\ Continues(Main, <<>> \o Tail(code[Main]))
      /\ mem' = mem /\ asleep' = asleep
      /\ Ordered(hb', objects)
      /\ \A x : Within(hb', objects, x, hb'.known[Main])
  BY <1>1, <1>2, JoinStep
<1>4. mem.first = Rounds /\ mem.second = Rounds
  <2>1. ASSUME NEW t \in {A, B}
        PROVE  mem[TwoNames[t]] = Rounds
    <3>1. mem[TwoNames[t]] \in 0 .. Rounds /\ From(TwoWork(t), mem[TwoNames[t]]) = <<>>
      BY <1>3 DEF TwoRunning
    <3>2. \A j \in 0 .. Rounds : From(TwoWork(t), j) = <<>> <=> j = Rounds
      BY CountWorkIs DEF TwoWork
    <3> QED
      BY <3>1, <3>2
  <2>2. TwoNames[A] = "first" /\ TwoNames[B] = "second"
    BY ThreadsDiffer DEF TwoNames
  <2> QED
    BY <2>1, <2>2
<1>5. /\ DOMAIN code' = Threads /\ code'[Main] = TwoLoads
      /\ code'[A] = <<>> /\ code'[B] = <<>> /\ code'[C] = <<>> /\ code'[D] = <<>>
  BY <1>2, <1>3, ThreadsDiffer DEF Continues, Threads, TwoRunning
<1> QED
  BY <1>3, <1>4, <1>5 DEF TwoRunning, TwoJoined, AllAwake, objects

\* Main reads the counters.
LEMMA TwoLoadStep ==
    ASSUME AllAwake, TwoJoined, NEW t \in Threads, LibraryStep(t) \/ UnforcedStep(t)
    PROVE  AllAwake' /\ TwoJoined'
<1> DEFINE objects == TwoObjects
           order == "seq_cst"
           l == Load("first", "printed1", order)
           m == Load("second", "printed2", order)
<1>1. asleep[t] = Awake
  BY DEF AllAwake
<1>2. code[t] # <<>>
  BY <1>1, OperationOfStep
<1>3. t = Main /\ TwoLoads = <<l, m>> /\ Tail(TwoLoads) = <<m>>
  BY <1>2, ThreadsDiffer, TwoMainIs DEF TwoJoined
<1>4. code[t] = <<l, m>> \/ (code[t] = <<m>> /\ mem.printed1 = Rounds)
  BY <1>2, <1>3 DEF TwoJoined
<1>5. PICK x \in {"first", "second"}, into \in {"printed1", "printed2"} :
          /\ Now(t) = Load(x, into, order)
          /\ \/ into = "printed1" /\ <<>> \o Tail(code[t]) = Tail(TwoLoads)
             \/ into = "printed2" /\ <<>> \o Tail(code[t]) = <<>> /\ mem.printed1 = Rounds
  <2> DEFINE G(x, into) ==
          /\ Now(t) = Load(x, into, order)
          /\ \/ into = "printed1" /\ <<>> \o Tail(code[t]) = Tail(TwoLoads)
             \/ into = "printed2" /\ <<>> \o Tail(code[t]) = <<>> /\ mem.printed1 = Rounds
  <2>1. CASE code[t] = <<l, m>>
    <3>1. Now(t) = l /\ <<>> \o Tail(code[t]) = <<m>>
      <4> HIDE DEF l, m
      <4> QED
        BY <2>1 DEF Now
    <3> QED
      BY <1>3, <3>1
  <2>2. CASE code[t] = <<m>> /\ mem.printed1 = Rounds
    <3>1. Now(t) = m /\ <<>> \o Tail(code[t]) = <<>>
      <4> HIDE DEF l, m
      <4> QED
        BY <2>2 DEF Now
    <3> QED
      BY <2>2, <3>1
  <2> QED
    BY <1>4, <2>1, <2>2
<1>6. x \in objects /\ into \in objects /\ into # x /\ into \notin {"first", "second"}
  BY DEF TwoObjects
<1> HIDE DEF objects, order
<1>7. LoadAtomic(t)
  <2>1. Now(t).op = "load"
    BY <1>5 DEF Load
  <2> QED
    BY <1>1, <2>1, OperationOfStep
<1>8. DOMAIN code = Threads /\ DOMAIN mem = objects
  BY DEF TwoJoined, objects
<1>9. /\ Sets(into, mem[x])
      /\ hb' = Writes(Acquired(hb, t, x, order), t, into)
      /\ Continues(t, <<>> \o Tail(code[t])) /\ asleep' = asleep
  BY <1>5, <1>6, <1>7, <1>8, LoadIs
<1>10. Ordered(hb', objects) /\ \A y \in objects : Within(hb', objects, y, hb'.known[Main])
  <2>1. Ordered(hb, objects) /\ \A y \in objects : Within(hb, objects, y, hb.known[Main])
    BY DEF TwoJoined, objects
  <2> QED
    BY <1>3, <1>6, <1>9, <2>1, MainLoads
<1>11. mem[x] = Rounds /\ mem.first = Rounds /\ mem.second = Rounds
  BY DEF TwoJoined
<1>12. /\ DOMAIN mem' = objects /\ mem'.first = Rounds /\ mem'.second = Rounds
       /\ mem'[into] = Rounds
       /\ into # "printed1" => mem'.printed1 = mem.printed1
  BY <1>6, <1>8, <1>9, <1>11 DEF Sets, objects, TwoObjects
<1>13. \/ code'[Main] = Tail(TwoLoads) /\ mem'.printed1 = Rounds
       \/ code'[Main] = <<>> /\ mem'.printed1 = Rounds /\ mem'.printed2 = Rounds
  <2> DEFINE rest == <<>> \o Tail(code[t])
  <2>1. code'[Main] = rest
    BY <1>3, <1>9 DEF Continues
  <2> HIDE DEF rest
  <2>2. CASE into = "printed1" /\ rest = Tail(TwoLoads)
    <3>1. mem'.printed1 = Rounds
      BY <1>12, <2>2
    <3>2. code'[Main] = Tail(TwoLoads)
      BY <2>1, <2>2
    <3> QED
      BY <3>1, <3>2
  <2>3. CASE into = "printed2" /\ rest = <<>> /\ mem.printed1 = Rounds
    <3>1. mem'.printed2 = Rounds
      BY <1>12, <2>3
    <3>2. mem'.printed1 = Rounds
      BY <1>12, <2>3
    <3>3. code'[Main] = <<>>
      BY <2>1, <2>3
    <3> QED
      BY <3>1, <3>2, <3>3
  <2> QED
    BY <1>5, <2>2, <2>3 DEF rest
<1>14. /\ DOMAIN code' = Threads
       /\ code'[A] = <<>> /\ code'[B] = <<>> /\ code'[C] = <<>> /\ code'[D] = <<>>
  BY <1>3, <1>9, ThreadsDiffer DEF Continues, Threads, TwoJoined
<1> QED
  BY <1>9, <1>10, <1>12, <1>13, <1>14 DEF TwoJoined, AllAwake, objects

\* Every step keeps the invariant,
LEMMA TwoStep ==
    ASSUME TwoInv, NEW t \in Threads, LibraryStep(t) \/ UnforcedStep(t)
    PROVE  TwoInv'
<1>1. CASE TwoBegun
  BY <1>1, TwoFirstStep DEF TwoInv
<1>2. CASE TwoRunning
  <2>1. t \in {Main, A, B}
    <3>1. code[t] # <<>>
      BY OperationOfStep DEF TwoInv, AllAwake
    <3> QED
      BY <1>2, <3>1, ThreadsDiffer DEF TwoRunning
  <2>2. CASE t = Main
    BY <1>2, <2>2, TwoJoinStep DEF TwoInv
  <2>3. CASE t \in {A, B}
    BY <1>2, <2>3, TwoCountStep DEF TwoInv
  <2> QED
    BY <2>1, <2>2, <2>3
<1>3. CASE TwoJoined
  BY <1>3, TwoLoadStep DEF TwoInv
<1> QED
  BY <1>1, <1>2, <1>3 DEF TwoInv

\* it holds at first,
LEMMA TwoInit ==
    ASSUME Init, Running = TwoCounters
    PROVE  TwoInv
<1>1. Running.objects = [first |-> 0, second |-> 0, printed1 |-> 0, printed2 |-> 0]
  BY DEF TwoCounters, Demo
<1>2. Running.main = TwoMain
  <2> DEFINE counter(t) == IF t = A THEN "first" ELSE "second"
             new == [t \in {A, B} |-> Times(Rounds, <<FetchAdd(counter(t), 1, "relaxed")>>)]
  <2>1. Running.main = <<Start(new), Join({A, B}),
               Load("first", "printed1", "seq_cst"), Load("second", "printed2", "seq_cst")>>
    BY DEF TwoCounters, Demo
  <2>2. new = [t \in {A, B} |-> TwoWork(t)]
    BY DEF TwoWork, CountWork, TwoNames
  <2> HIDE DEF new
  <2> QED
    BY <2>1, <2>2, TwoMainIs
<1>3. DOMAIN Running.objects = TwoObjects
  BY <1>1 DEF TwoObjects
<1> QED
  BY <1>1, <1>2, <1>3 DEF Init, TwoInv, TwoBegun, OnlyMain, AllAwake

\* and it says that the demo is right.
LEMMA TwoShows ==
    ASSUME TwoInv, Running = TwoCounters
    PROVE  RaceFree /\ AsPrinted /\ WithinLimits
<1>1. RaceFree
  BY DEF TwoInv, TwoBegun, TwoRunning, TwoJoined, Before, Ordered, Ordering, RaceFree
<1>2. ASSUME Done
      PROVE  mem.printed1 = Rounds /\ mem.printed2 = Rounds
  <2>1. code[Main] = <<>>
    BY <1>2 DEF Done, Threads
  <2>2. ~TwoBegun
    BY <2>1, TwoMainIs DEF TwoBegun, OnlyMain, Threads
  <2>3. ~TwoRunning
    BY <2>1, TwoMainIs DEF TwoRunning
  <2>4. TwoLoads # <<>> /\ Tail(TwoLoads) # <<>>
    BY TwoMainIs
  <2> QED
    BY <2>1, <2>2, <2>3, <2>4 DEF TwoInv, TwoJoined
<1>3. Running.final = [printed1 : {Rounds}, printed2 : {Rounds}] /\ Running.always = <<>>
  BY DEF TwoCounters, Demo, Nothing
<1>4. AsPrinted
  <2> DEFINE f == [printed1 |-> Rounds, printed2 |-> Rounds]
  <2>1. f \in Running.final /\ \A z \in DOMAIN f : Done => mem[z] = f[z]
    BY <1>2, <1>3
  <2> QED
    BY <2>1 DEF AsPrinted
<1> QED
  BY <1>1, <1>3, <1>4 DEF WithinLimits

-----------------------------------------------------------------------------
(* CasIncrementDemo *)

\* A thread at operation j of loops of two has been through j \div 2 of them.
LEMMA Halves ==
    ASSUME NEW j \in Nat
    PROVE  /\ j \div 2 \in Nat /\ j % 2 \in {0, 1}
           /\ j % 2 = 0 => (j + 1) % 2 = 1 /\ (j + 1) \div 2 = j \div 2
           /\ j % 2 = 1 => (j + 1) % 2 = 0 /\ (j + 1) \div 2 = (j \div 2) + 1
OBVIOUS

\* The names of the threads' own copies, and what the threads do: load the
\* counter, then try until the exchange succeeds.
CasNames == [t \in {A, B} |-> IF t = A THEN "current1" ELSE "current2"]
CasObjects == {"counter", "current1", "current2"}
CasLoad(t) == Load("counter", CasNames[t], "relaxed")
CasLoop(t) == ExchangeWhile(<<Always>>, "counter", CasNames[t], "plus", 1, "relaxed")
CasTry(t) == CompareExchange("counter", CasNames[t], "plus", 1, "relaxed", <<>>, <<CasLoop(t)>>)
CasWork(t) == Times(Rounds, <<CasLoad(t), CasLoop(t)>>)
CasMain == <<Start([t \in {A, B} |-> CasWork(t)]), Join({A, B})>>

\* A thread is on a numbered operation of its loop, or inside the inner loop:
\* about to try again, or trying.
CasWays == {"on", "again", "trying"}

\* Thread t is at operation p of its loop.
CasAt(t, p, way) ==
    /\ way = "on" => code[t] = From(CasWork(t), p)
    /\ way # "on" => /\ p % 2 = 1 /\ p < 2 * Rounds
                     /\ code[t] = <<IF way = "again" THEN CasLoop(t) ELSE CasTry(t)>>
                                  \o From(CasWork(t), p + 1)

\* Main has not started the threads.
CasBegun ==
    /\ OnlyMain(CasMain)
    /\ mem = [counter |-> 0, current1 |-> 0, current2 |-> 0]
    /\ hb = Before(CasObjects)

\* Each thread alone has accessed its copy of the counter.
CasOwn == \A t \in {A, B} : Within(hb, CasObjects, CasNames[t], hb.known[t])

\* Only main, A and B run, and no race has been seen.
CasMemory ==
    /\ DOMAIN code = Threads /\ code[C] = <<>> /\ code[D] = <<>>
    /\ DOMAIN mem = CasObjects
    /\ Ordered(hb, CasObjects)

\* Each pair of operations behind a thread is one increment of the counter: a
\* failed exchange adds nothing, a successful one exactly one.
CasRunning ==
    /\ CasMemory /\ CasOwn
    /\ code[Main] = <<Join({A, B})>>
    /\ \E P \in [{A, B} -> 0 .. 2 * Rounds], W \in [{A, B} -> CasWays] :
          /\ \A t \in {A, B} : CasAt(t, P[t], W[t])
          /\ mem.counter = (P[A] \div 2) + (P[B] \div 2)

\* Both threads have ended.
CasJoined ==
    /\ CasMemory
    /\ code[Main] = <<>> /\ code[A] = <<>> /\ code[B] = <<>>
    /\ mem.counter = 2 * Rounds

\* The inductive invariant of the demo.
CasInv == AllAwake /\ (CasBegun \/ CasRunning \/ CasJoined)

\* The loop repeats the load and the inner loop.
LEMMA CasWorkIs ==
    ASSUME NEW t \in {A, B}, NEW a, a = CasLoad(t), NEW b, b = CasLoop(t)
    PROVE  Repeats(CasWork(t), <<a, b>>, 2, 2 * Rounds)
<1> DEFINE ops == <<a, b>>
           S == {a, b}
           k == 2
           total == 2 * Rounds
<1>1. ops \in Seq(S) /\ Len(ops) = 2
  OBVIOUS
<1>2. CasWork(t) = Times(Rounds, ops) /\ k \in Nat /\ k > 0 /\ Len(ops) = k /\ total = k * Rounds
  BY <1>1 DEF CasWork
<1> HIDE DEF ops, S, k, total
<1>3. Repeats(CasWork(t), ops, k, total)
  BY <1>1, <1>2, RepeatIs
<1> QED
  BY <1>3 DEF ops, k, total

\* The steps of the loop, as lemmas about the library.
LEMMA ReadsNothing ==
    ASSUME NEW objects, NEW h, Ordered(h, objects), NEW t \in Threads
    PROVE  Reads(h, t, {}) = h
<1> DEFINE pairs == {<<x, "read">> : x \in {}}
           new   == {<<t, p[1], p[2]>> : p \in pairs}
           hidden == (UNION {h.known[u] : u \in Threads}) \ h.known[t]
           races == {p[1] : p \in {q \in pairs : \E a \in hidden : a[2] = q[1] /\ "write" \in {a[3], q[2]}}}
           g == Reads(h, t, {})
<1>1. pairs = {}
  OBVIOUS
<1>2. /\ h.known \in [Threads -> SUBSET Accesses(objects)]
      /\ h.shown \in [objects -> SUBSET Accesses(objects)]
      /\ h = [known |-> h.known, shown |-> h.shown, races |-> h.races]
  BY DEF Ordered, Ordering
<1>3. g = Access(h, t, pairs)
  BY DEF Reads
<1> HIDE DEF pairs
<1>4. g = [known |-> [u \in Threads |-> IF u = t THEN h.known[u] \cup new ELSE h.known[u] \ new],
           shown |-> [o \in DOMAIN h.shown |-> h.shown[o] \ new],
           races |-> h.races \cup races]
  BY <1>3 DEF Access
<1>5. new = {} /\ races = {}
  BY <1>1
<1> HIDE DEF new, races, g
<1>6. [u \in Threads |-> IF u = t THEN h.known[u] \cup new ELSE h.known[u] \ new] = h.known
  BY <1>2, <1>5
<1>7. [o \in DOMAIN h.shown |-> h.shown[o] \ new] = h.shown
  BY <1>2, <1>5
<1>8. h.races \cup races = h.races
  BY <1>5
<1> QED
  BY <1>2, <1>4, <1>6, <1>7, <1>8 DEF g

\* The inner loop unrolls into a try.
LEMMA CasLoopIs ==
    ASSUME DOMAIN code = Threads, NEW objects, Ordered(hb, objects), NEW t \in Threads,
           ExchangeAgain(t), NEW x, NEW y,
           Now(t) = ExchangeWhile(<<Always>>, x, y, "plus", 1, "relaxed")
    PROVE  /\ mem' = mem /\ hb' = hb /\ asleep' = asleep
           /\ Continues(t, <<CompareExchange(x, y, "plus", 1, "relaxed", <<>>,
                                             <<ExchangeWhile(<<Always>>, x, y, "plus", 1, "relaxed")>>)>>
                           \o Tail(code[t]))
<1> DEFINE o == ExchangeWhile(<<Always>>, x, y, "plus", 1, "relaxed")
           try == CompareExchange(x, y, "plus", 1, "relaxed", <<>>, <<o>>)
<1>0. DOMAIN <<Always>> = 1 .. 1 /\ <<Always>>[1] = Always /\ Always.kind = "always"
  <2>1. Always.kind = "always"
    BY DEF Always
  <2> QED
    BY <2>1
<1>1. Now(t) = o /\ o.test = <<Always>> /\ o.cas = CompareExchange(x, y, "plus", 1, "relaxed", <<>>, <<>>)
  BY DEF ExchangeWhile
<1>2. [o.cas EXCEPT !.no = <<o>>] = try
  BY <1>1 DEF CompareExchange
<1>3. Holds(<<Always>>)
  <2> DEFINE test == <<Always>>
  <2>1. 1 \in DOMAIN test /\ test[1].kind = "always"
    BY <1>0
  <2> HIDE DEF test
  <2>2. Holds(test)
    BY <2>1 DEF Holds
  <2> QED
    BY <2>2 DEF test
<1>4. Tested(<<Always>>) = {}
  BY <1>0 DEF Tested
<1> HIDE DEF o, try
<1>5. Goto(t, <<try>> \o Tail(code[t])) /\ hb' = Reads(hb, t, {}) /\ mem' = mem /\ asleep' = asleep
  BY <1>1, <1>2, <1>3, <1>4 DEF ExchangeAgain, Instead
<1> QED
  BY <1>5, ReadsNothing, GotoIs DEF o, try

\* A try succeeds, or loads the counter again, also for no reason.
LEMMA CasTryIs ==
    ASSUME DOMAIN code = Threads, NEW t \in Threads, Exchange(t),
           NEW x \in DOMAIN mem, NEW y \in DOMAIN mem, NEW again,
           Now(t) = CompareExchange(x, y, "plus", 1, "relaxed", <<>>, <<again>>)
    PROVE  /\ \/ /\ mem[x] = mem[y] /\ Sets(x, mem[x] + 1) /\ hb' = Reads(hb, t, {y})
                 /\ Continues(t, <<>> \o Tail(code[t]))
              \/ /\ Sets(y, mem[x]) /\ hb' = Writes(hb, t, y)
                 /\ Continues(t, <<again>> \o Tail(code[t]))
           /\ asleep' = asleep
<1>1. /\ Now(t).obj = x /\ Now(t).expected = y /\ Now(t).how = "plus" /\ Now(t).arg = 1
      /\ Now(t).order = "relaxed" /\ Now(t).yes = <<>> /\ Now(t).no = <<again>>
  BY DEF CompareExchange
<1>2. NewValue(y, "plus", 1) = mem[y] + 1
  BY DEF NewValue
<1>3. \A h : Acquired(h, t, x, "relaxed") = h /\ Released(h, t, x, "relaxed") = h
  BY DEF Acquired, Released
<1>4. /\ \/ /\ mem[x] = mem[y] /\ Becomes(x, mem[y] + 1) /\ hb' = Reads(hb, t, {y})
            /\ Goto(t, <<>> \o Tail(code[t]))
         \/ /\ Becomes(y, mem[x]) /\ hb' = Writes(hb, t, y)
            /\ Goto(t, <<again>> \o Tail(code[t]))
      /\ asleep' = asleep
  BY <1>1, <1>2, <1>3 DEF Exchange, Instead
<1> QED
  BY <1>4, GotoIs, BecomesIs

\* Thread t goes from operation p to q, and nothing else changes.
CasGoes(t, p, q, next) ==
    /\ DOMAIN code' = Threads /\ \A u \in Threads : u # t => code'[u] = code[u]
    /\ CasAt(t, q, next)'
    /\ DOMAIN mem' = CasObjects
    /\ mem'["counter"] = mem["counter"] + ((q \div 2) - (p \div 2))
    /\ Ordered(hb', CasObjects)
    /\ Within(hb', CasObjects, CasNames[t], hb'.known[t])
    /\ hb' = hb \/ SameBut(hb', hb, CasObjects, CasNames[t])
    /\ asleep' = asleep

\* The next operation of a thread.
LEMMA CasNowIs ==
    ASSUME NEW t \in {A, B}, NEW p \in 0 .. 2 * Rounds, NEW way \in CasWays,
           CasAt(t, p, way), code[t] # <<>>,
           NEW a, a = CasLoad(t), NEW b, b = CasLoop(t), NEW c, c = CasTry(t)
    PROVE  /\ p < 2 * Rounds /\ p \in 0 .. 2 * Rounds - 1 /\ p + 1 \in 0 .. 2 * Rounds /\ p \in Nat
           /\ Tail(code[t]) = From(CasWork(t), p + 1)
           /\ <<>> \o Tail(code[t]) = From(CasWork(t), p + 1)
           /\ way = "on" /\ p % 2 = 0 => Now(t) = a
           /\ ~(way = "on" /\ p % 2 = 0) => p % 2 = 1
           /\ ~(way = "on" /\ p % 2 = 0) /\ way # "trying" => Now(t) = b
           /\ way = "trying" => Now(t) = c
<1> USE RoundsAssumption
<1> DEFINE work == CasWork(t)
<1>1. /\ \A j \in 0 .. 2 * Rounds : /\ From(work, j) = <<>> <=> j = 2 * Rounds
                                    /\ <<>> \o From(work, j) = From(work, j)
      /\ \A j \in 0 .. 2 * Rounds : \A o : /\ <<o>> \o From(work, j) # <<>>
                                           /\ Head(<<o>> \o From(work, j)) = o
                                           /\ Tail(<<o>> \o From(work, j)) = From(work, j)
      /\ \A j \in 0 .. 2 * Rounds - 1 : /\ Tail(From(work, j)) = From(work, j + 1)
                                        /\ j % 2 = 0 => Head(From(work, j)) = a
                                        /\ j % 2 = 1 => Head(From(work, j)) = b
  <2>1. Repeats(work, <<a, b>>, 2, 2 * Rounds)
    BY CasWorkIs
  <2>2. \A j \in Nat : /\ j % 2 = 0 => <<a, b>>[(j % 2) + 1] = a
                       /\ j % 2 = 1 => <<a, b>>[(j % 2) + 1] = b
    OBVIOUS
  <2> HIDE DEF work
  <2> DEFINE ops == <<a, b>>
             total == 2 * Rounds
  <2>3. \A j \in 0 .. total - 1 : /\ j % 2 = 0 => ops[(j % 2) + 1] = a
                                  /\ j % 2 = 1 => ops[(j % 2) + 1] = b
    BY <2>2
  <2> HIDE DEF ops, total
  <2> DEFINE k == 2
  <2>4. Repeats(work, ops, k, total) /\ k = 2
    BY <2>1 DEF ops, total
  <2> HIDE DEF k
  <2>5. /\ \A j \in 0 .. total : /\ From(work, j) = <<>> <=> j = total
                                 /\ <<>> \o From(work, j) = From(work, j)
        /\ \A j \in 0 .. total : \A o : /\ <<o>> \o From(work, j) # <<>>
                                        /\ Head(<<o>> \o From(work, j)) = o
                                        /\ Tail(<<o>> \o From(work, j)) = From(work, j)
        /\ \A j \in 0 .. total - 1 : /\ Tail(From(work, j)) = From(work, j + 1)
                                     /\ Head(From(work, j)) = ops[(j % 2) + 1]
    BY <2>4 DEF Repeats
  <2>6. \A j \in 0 .. total - 1 : /\ j % 2 = 0 => Head(From(work, j)) = a
                                  /\ j % 2 = 1 => Head(From(work, j)) = b
    BY <2>3, <2>5
  <2> QED
    BY <2>5, <2>6 DEF total
<1>2. /\ way = "on" => code[t] = From(work, p)
      /\ way = "again" => code[t] = <<b>> \o From(work, p + 1)
      /\ way = "trying" => code[t] = <<c>> \o From(work, p + 1)
      /\ way # "on" => p % 2 = 1 /\ p < 2 * Rounds
      /\ way \in {"on", "again", "trying"}
  BY DEF CasAt, CasWays
<1> HIDE DEF work
<1>3. p < 2 * Rounds /\ p \in 0 .. 2 * Rounds - 1 /\ p + 1 \in 0 .. 2 * Rounds /\ p \in Nat
  <2>1. From(work, p) = <<>> <=> p = 2 * Rounds
    BY <1>1
  <2>2. p # 2 * Rounds
    BY <1>2, <2>1
  <2>3. p \in Nat /\ 2 * Rounds \in Nat /\ p <= 2 * Rounds
    OBVIOUS
  <2>4. p < 2 * Rounds
    BY <2>2, <2>3
  <2> QED
    BY <2>3, <2>4
<1>4. /\ Tail(code[t]) = From(work, p + 1) /\ <<>> \o Tail(code[t]) = From(work, p + 1)
      /\ way = "on" /\ p % 2 = 0 => Now(t) = a
      /\ ~(way = "on" /\ p % 2 = 0) => p % 2 = 1
      /\ ~(way = "on" /\ p % 2 = 0) /\ way # "trying" => Now(t) = b
      /\ way = "trying" => Now(t) = c
  <2>1. p % 2 \in {0, 1}
    BY <1>3, Halves
  <2>2. CASE way = "on"
    BY <1>1, <1>2, <1>3, <2>1, <2>2 DEF Now
  <2>3. CASE way = "again"
    <3> DEFINE q == p + 1
    <3>1. q \in 0 .. 2 * Rounds /\ code[t] = <<b>> \o From(work, q) /\ p % 2 = 1
      BY <1>2, <1>3, <2>3
    <3> HIDE DEF q
    <3>2. Tail(code[t]) = From(work, q) /\ <<>> \o From(work, q) = From(work, q) /\ Now(t) = b
      BY <1>1, <3>1 DEF Now
    <3> QED
      BY <2>3, <3>1, <3>2 DEF q
  <2>4. CASE way = "trying"
    <3> DEFINE q == p + 1
    <3>1. q \in 0 .. 2 * Rounds /\ code[t] = <<c>> \o From(work, q) /\ p % 2 = 1
      BY <1>2, <1>3, <2>4
    <3> HIDE DEF q
    <3>2. Tail(code[t]) = From(work, q) /\ <<>> \o From(work, q) = From(work, q) /\ Now(t) = c
      BY <1>1, <3>1 DEF Now
    <3> QED
      BY <2>4, <3>1, <3>2 DEF q
  <2> QED
    BY <1>2, <2>2, <2>3, <2>4
<1> QED
  BY <1>3, <1>4 DEF work

\* Every operation takes a thread on.
LEMMA CasThreadStep ==
    ASSUME NEW t \in {A, B}, NEW p \in 0 .. 2 * Rounds, NEW way \in CasWays,
           AllAwake, CasMemory, CasOwn, mem["counter"] \in Int, CasAt(t, p, way),
           LibraryStep(t) \/ UnforcedStep(t)
    PROVE  \E q \in 0 .. 2 * Rounds, next \in CasWays : CasGoes(t, p, q, next)
<1> USE RoundsAssumption
<1> DEFINE x == "counter"
           y == CasNames[t]
           objects == CasObjects
           work == CasWork(t)
           a == CasLoad(t)
           b == CasLoop(t)
           c == CasTry(t)
<1>1. /\ a = Load(x, y, "relaxed") /\ b = ExchangeWhile(<<Always>>, x, y, "plus", 1, "relaxed")
      /\ c = CompareExchange(x, y, "plus", 1, "relaxed", <<>>, <<b>>)
      /\ a.op = "load" /\ b.op = "exchangeWhile" /\ c.op = "cas"
  BY DEF CasLoad, CasLoop, CasTry, Load, ExchangeWhile, CompareExchange
<1>2. /\ t \in Threads /\ t \in {Main, A, B} /\ asleep[t] = Awake
      /\ x \in objects /\ y \in objects /\ x # y /\ DOMAIN mem = objects
      /\ DOMAIN code = Threads /\ Ordered(hb, objects) /\ Within(hb, objects, y, hb.known[t])
      /\ mem[x] \in Int
  BY DEF Threads, AllAwake, CasMemory, CasOwn, CasObjects, CasNames
<1>3. a = CasLoad(t) /\ b = CasLoop(t) /\ c = CasTry(t) /\ work = CasWork(t)
  OBVIOUS
<1>5. ASSUME NEW q, NEW next,
             next = "on" => code'[t] = From(work, q),
             next = "again" => code'[t] = <<b>> \o From(work, q + 1),
             next = "trying" => code'[t] = <<c>> \o From(work, q + 1),
             next # "on" => q % 2 = 1 /\ q < 2 * Rounds, next \in CasWays
      PROVE  CasAt(t, q, next)'
  BY <1>5 DEF CasAt, CasWays
<1> HIDE DEF x, y, objects, work, a, b, c
<1>6. code[t] # <<>>
  BY <1>2, OperationOfStep
<1>7. p < 2 * Rounds /\ p \in 0 .. 2 * Rounds - 1 /\ p + 1 \in 0 .. 2 * Rounds /\ p \in Nat
  BY <1>3, <1>6, CasNowIs
<1>8. /\ Tail(code[t]) = From(work, p + 1) /\ <<>> \o Tail(code[t]) = From(work, p + 1)
      /\ way = "on" /\ p % 2 = 0 => Now(t) = a
      /\ ~(way = "on" /\ p % 2 = 0) => p % 2 = 1
      /\ ~(way = "on" /\ p % 2 = 0) /\ way # "trying" => Now(t) = b
      /\ way = "trying" => Now(t) = c
  BY <1>3, <1>6, CasNowIs
<1>9. "on" \in CasWays /\ "again" \in CasWays /\ "trying" \in CasWays
  BY DEF CasWays
<1>10. p \div 2 \in Nat /\ (p + 1) \div 2 \in Nat
  BY <1>7, Halves
<1>11. CASE way = "on" /\ p % 2 = 0
  <2>1. LoadAtomic(t)
    BY <1>1, <1>2, <1>8, <1>11, OperationOfStep
  <2>2. /\ Sets(y, mem[x]) /\ hb' = Writes(Acquired(hb, t, x, "relaxed"), t, y)
        /\ Continues(t, <<>> \o Tail(code[t])) /\ asleep' = asleep
    BY <1>1, <1>2, <1>8, <1>11, <2>1, LoadIs
  <2>3. hb' = Writes(hb, t, y)
    BY <2>2 DEF Acquired
  <2>4. /\ Ordered(hb', objects) /\ Within(hb', objects, y, hb'.known[t])
        /\ SameBut(hb', hb, objects, y)
    BY <1>2, <2>3, WritesIs
  <2>5. DOMAIN mem' = objects /\ mem'[x] = mem[x] + (((p + 1) \div 2) - (p \div 2))
    BY <1>2, <1>7, <1>10, <1>11, <2>2, Halves DEF Sets
  <2>6. CasAt(t, p + 1, "on")'
    BY <1>5, <1>8, <1>9, <2>2 DEF Continues
  <2>7. CasGoes(t, p, p + 1, "on")
    BY <2>2, <2>4, <2>5, <2>6 DEF CasGoes, Continues, x, y, objects
  <2> QED
    BY <1>7, <1>9, <2>7
<1>12. CASE ~(way = "on" /\ p % 2 = 0) /\ way # "trying"
  <2>1. ExchangeAgain(t)
    BY <1>1, <1>2, <1>8, <1>12, OperationOfStep
  <2>2. /\ mem' = mem /\ hb' = hb /\ asleep' = asleep
        /\ Continues(t, <<c>> \o Tail(code[t]))
    BY <1>1, <1>2, <1>8, <1>12, <2>1, CasLoopIs
  <2>3. CasAt(t, p, "trying")'
    BY <1>5, <1>7, <1>8, <1>9, <1>12, <2>2 DEF Continues
  <2>4. mem'[x] = mem[x] + ((p \div 2) - (p \div 2))
    BY <1>2, <1>10, <2>2
  <2>5. CasGoes(t, p, p, "trying")
    BY <1>2, <2>2, <2>3, <2>4 DEF CasGoes, Continues, x, y, objects
  <2> QED
    BY <1>9, <2>5
<1>13. CASE way = "trying"
  <2>1. Exchange(t)
    BY <1>1, <1>2, <1>8, <1>13, OperationOfStep
  <2>2. /\ \/ /\ mem[x] = mem[y] /\ Sets(x, mem[x] + 1) /\ hb' = Reads(hb, t, {y})
              /\ Continues(t, <<>> \o Tail(code[t]))
           \/ /\ Sets(y, mem[x]) /\ hb' = Writes(hb, t, y)
              /\ Continues(t, <<b>> \o Tail(code[t]))
        /\ asleep' = asleep
    BY <1>1, <1>2, <1>8, <1>13, <2>1, CasTryIs
  <2>3. CASE /\ Sets(x, mem[x] + 1) /\ hb' = Reads(hb, t, {y})
             /\ Continues(t, <<>> \o Tail(code[t]))
    <3>1. /\ Ordered(hb', objects) /\ Within(hb', objects, y, hb'.known[t])
          /\ SameBut(hb', hb, objects, y)
      BY <1>2, <2>3, ReadsIs
    <3>2. DOMAIN mem' = objects /\ mem'[x] = mem[x] + (((p + 1) \div 2) - (p \div 2))
      BY <1>2, <1>7, <1>8, <1>10, <1>13, <2>3, Halves DEF Sets
    <3>3. CasAt(t, p + 1, "on")'
      BY <1>5, <1>8, <1>9, <2>3 DEF Continues
    <3>4. CasGoes(t, p, p + 1, "on")
      BY <2>2, <2>3, <3>1, <3>2, <3>3 DEF CasGoes, Continues, x, y, objects
    <3> QED
      BY <1>7, <1>9, <3>4
  <2>4. CASE /\ Sets(y, mem[x]) /\ hb' = Writes(hb, t, y)
             /\ Continues(t, <<b>> \o Tail(code[t]))
    <3>1. /\ Ordered(hb', objects) /\ Within(hb', objects, y, hb'.known[t])
          /\ SameBut(hb', hb, objects, y)
      BY <1>2, <2>4, WritesIs
    <3>2. DOMAIN mem' = objects /\ mem'[x] = mem[x] + ((p \div 2) - (p \div 2))
      BY <1>2, <1>10, <2>4 DEF Sets
    <3>3. CasAt(t, p, "again")'
      BY <1>5, <1>7, <1>8, <1>9, <1>13, <2>4 DEF Continues
    <3>4. CasGoes(t, p, p, "again")
      BY <2>2, <2>4, <3>1, <3>2, <3>3 DEF CasGoes, Continues, x, y, objects
    <3> QED
      BY <1>9, <3>4
  <2> QED
    BY <2>2, <2>3, <2>4
<1> QED
  BY <1>11, <1>12, <1>13

\* A thread's own copy is nobody else's.
LEMMA CasNamesDiffer ==
    /\ \A t \in {A, B} : CasNames[t] \in CasObjects /\ CasNames[t] # "counter"
    /\ CasNames[A] # CasNames[B]
BY ThreadsDiffer DEF CasNames, CasObjects

\* A step of one of the two threads.
LEMMA CasWorkerStep ==
    ASSUME AllAwake, CasRunning, NEW t \in {A, B}, LibraryStep(t) \/ UnforcedStep(t)
    PROVE  AllAwake' /\ CasRunning'
<1> USE RoundsAssumption
<1>1. PICK P \in [{A, B} -> 0 .. 2 * Rounds], W \in [{A, B} -> CasWays] :
          /\ \A u \in {A, B} : CasAt(u, P[u], W[u])
          /\ mem.counter = (P[A] \div 2) + (P[B] \div 2)
  BY DEF CasRunning
<1> DEFINE p == P[t]
<1>2. PICK other \in {A, B} : other # t /\ {A, B} = {t, other}
  BY ThreadsDiffer
<1>3. /\ p \in 0 .. 2 * Rounds /\ P[other] \in 0 .. 2 * Rounds /\ W[t] \in CasWays
      /\ p \in Nat /\ P[other] \in Nat
      /\ t \in Threads /\ other \in Threads /\ t # Main /\ t \notin {C, D}
  BY <1>1, <1>2, ThreadsDiffer DEF Threads
<1>4. p \div 2 \in Nat /\ P[other] \div 2 \in Nat
  BY <1>3, Halves
<1>5. mem["counter"] = (p \div 2) + (P[other] \div 2)
  <2>1. CASE t = A
    BY <1>1, <1>2, <1>4, <2>1
  <2>2. CASE t = B
    BY <1>1, <1>2, <1>4, <2>2
  <2> QED
    BY <2>1, <2>2
<1>6. mem["counter"] \in Int /\ CasAt(t, p, W[t]) /\ CasMemory /\ CasOwn
  BY <1>1, <1>4, <1>5 DEF CasRunning
<1> HIDE DEF p
<1>7. PICK q \in 0 .. 2 * Rounds, next \in CasWays : CasGoes(t, p, q, next)
  BY <1>3, <1>6, CasThreadStep
<1> DEFINE Q == [P EXCEPT ![t] = q]
           V == [W EXCEPT ![t] = next]
<1>8. /\ Q \in [{A, B} -> 0 .. 2 * Rounds] /\ V \in [{A, B} -> CasWays]
      /\ Q[t] = q /\ Q[other] = P[other] /\ V[t] = next /\ V[other] = W[other]
  BY <1>1, <1>2
<1> HIDE DEF Q, V
<1>9. /\ DOMAIN code' = Threads /\ \A u \in Threads : u # t => code'[u] = code[u]
      /\ DOMAIN mem' = CasObjects
      /\ Ordered(hb', CasObjects) /\ asleep' = asleep
  BY <1>7 DEF CasGoes
<1>10. CasMemory' /\ code'[Main] = <<Join({A, B})>>
  <2>1. C \in Threads /\ D \in Threads /\ Main \in Threads
    BY DEF Threads
  <2> QED
    BY <1>3, <1>9, <2>1 DEF CasRunning, CasMemory
<1>11. CasOwn'
  <2>1. Within(hb', CasObjects, CasNames[t], hb'.known[t])
    BY <1>7 DEF CasGoes
  <2>2. Within(hb', CasObjects, CasNames[other], hb'.known[other])
    <3>1. Within(hb, CasObjects, CasNames[other], hb.known[other])
      BY <1>6 DEF CasOwn
    <3>2. CasNames[other] # CasNames[t]
      BY <1>2, CasNamesDiffer
    <3>3. hb' = hb \/ SameBut(hb', hb, CasObjects, CasNames[t])
      BY <1>7 DEF CasGoes
    <3>4. CASE hb' = hb
      BY <3>1, <3>4
    <3>5. CASE SameBut(hb', hb, CasObjects, CasNames[t])
      BY <1>3, <3>1, <3>2, <3>5 DEF SameBut, Within
    <3> QED
      BY <3>3, <3>4, <3>5
  <2>3. \A u \in {A, B} : Within(hb', CasObjects, CasNames[u], hb'.known[u])
    BY <1>2, <2>1, <2>2
  <2> QED
    BY <2>3 DEF CasOwn
<1>12. \A u \in {A, B} : CasAt(u, Q[u], V[u])'
  <2>1. CasAt(t, Q[t], V[t])'
    BY <1>7, <1>8 DEF CasGoes
  <2>2. CasAt(other, Q[other], V[other])'
    <3>1. CasAt(other, P[other], W[other])
      BY <1>1
    <3>2. code'[other] = code[other]
      BY <1>2, <1>3, <1>9
    <3> QED
      BY <1>8, <3>1, <3>2 DEF CasAt
  <2> QED
    BY <1>2, <2>1, <2>2
<1>13. mem'.counter = (Q[A] \div 2) + (Q[B] \div 2)
  <2> DEFINE dx == p \div 2
             ex == q \div 2
             ox == P[other] \div 2
  <2>1. mem["counter"] = dx + ox /\ dx \in Nat /\ ox \in Nat
    BY <1>4, <1>5
  <2>2. ex \in Nat
    <3>1. q \in Nat
      OBVIOUS
    <3> QED
      BY <3>1, Halves
  <2>3. mem'["counter"] = mem["counter"] + (ex - dx)
    BY <1>7 DEF CasGoes
  <2> HIDE DEF dx, ex, ox
  <2>4. mem'["counter"] = ex + ox
    BY <2>1, <2>2, <2>3
  <2>5. mem'["counter"] = (Q[t] \div 2) + (Q[other] \div 2)
    BY <1>8, <2>4 DEF ex, ox
  <2>6. Q[t] \div 2 \in Nat /\ Q[other] \div 2 \in Nat
    BY <1>4, <1>8, <2>2 DEF ex
  <2>7. CASE t = A
    BY <1>2, <2>5, <2>6, <2>7
  <2>8. CASE t = B
    BY <1>2, <2>5, <2>6, <2>8
  <2> QED
    BY <2>7, <2>8
<1>14. CasRunning'
  BY <1>8, <1>10, <1>11, <1>12, <1>13 DEF CasRunning
<1> QED
  BY <1>9, <1>14 DEF AllAwake

\* Main starts the threads.
LEMMA CasFirstStep ==
    ASSUME AllAwake, CasBegun, NEW t \in Threads, LibraryStep(t) \/ UnforcedStep(t)
    PROVE  AllAwake' /\ CasRunning'
<1> USE RoundsAssumption
<1> DEFINE new == [u \in {A, B} |-> CasWork(u)]
           join == Join({A, B})
           main == CasMain
           rest == <<join>>
           objects == CasObjects
           P == [u \in {A, B} |-> 0]
           W == [u \in {A, B} |-> "on"]
<1>1. /\ OnlyMain(main) /\ hb = Before(objects)
      /\ Head(main) = Start(new) /\ Tail(main) = rest
      /\ DOMAIN new = {A, B} /\ new[A] = CasWork(A) /\ new[B] = CasWork(B)
  <2> DEFINE s == Start(new)
  <2>1. main = <<s, join>>
    BY DEF CasMain
  <2> HIDE DEF s, join
  <2>2. Head(<<s, join>>) = s /\ Tail(<<s, join>>) = <<join>>
    OBVIOUS
  <2>3. Head(main) = s /\ Tail(main) = rest
    BY <2>1, <2>2
  <2>4. OnlyMain(main) /\ hb = Before(objects)
    BY DEF CasBegun
  <2> QED
    BY <2>3, <2>4 DEF s
<1>2. \A u \in {A, B} : From(CasWork(u), 0) = CasWork(u)
  <2>1. ASSUME NEW u \in {A, B}
        PROVE  From(CasWork(u), 0) = CasWork(u)
    <3> DEFINE a == CasLoad(u)
               b == CasLoop(u)
    <3>1. Repeats(CasWork(u), <<a, b>>, 2, 2 * Rounds)
      BY CasWorkIs
    <3> QED
      BY <3>1 DEF Repeats
  <2> QED
    BY <2>1
<1>3. DOMAIN mem = objects /\ mem.counter = 0
  BY DEF CasBegun, CasObjects
<1>4. /\ P \in [{A, B} -> 0 .. 2 * Rounds] /\ W \in [{A, B} -> CasWays]
      /\ \A u \in {A, B} : P[u] = 0 /\ W[u] = "on"
  BY DEF CasWays
<1> HIDE DEF main, new, objects, rest, P, W
<1>5. /\ DOMAIN code' = Threads
      /\ code'[Main] = rest /\ code'[A] = CasWork(A) /\ code'[B] = CasWork(B)
      /\ code'[C] = <<>> /\ code'[D] = <<>>
      /\ hb' = hb /\ mem' = mem /\ asleep' = asleep
  BY <1>1, FirstStep
<1>6. \A u \in {A, B} : CasAt(u, P[u], W[u])'
  BY <1>2, <1>4, <1>5 DEF CasAt
<1>7. mem'.counter = (P[A] \div 2) + (P[B] \div 2)
  <2>1. 0 \div 2 = 0
    OBVIOUS
  <2> QED
    BY <1>3, <1>4, <1>5, <2>1
<1>8. Ordered(hb', objects) /\ \A a \in Accesses(objects) : ~Made(hb', a)
  BY <1>1, <1>5, BeforeIs
<1>9. CasOwn'
  BY <1>8 DEF CasOwn, Within, objects
<1>10. CasMemory'
  BY <1>3, <1>5, <1>8 DEF CasMemory, objects
<1> QED
  BY <1>4, <1>5, <1>6, <1>7, <1>9, <1>10 DEF CasRunning, AllAwake, rest

\* Main joins them.
LEMMA CasJoinStep ==
    ASSUME AllAwake, CasRunning, LibraryStep(Main) \/ UnforcedStep(Main)
    PROVE  AllAwake' /\ CasJoined'
<1> USE RoundsAssumption
<1> DEFINE join == Join({A, B})
           objects == CasObjects
<1>1. DOMAIN code = Threads /\ code[Main] = <<join>> /\ Ordered(hb, objects)
  BY DEF CasRunning, CasMemory
<1> HIDE DEF objects
<1>2. code[Main] # <<>> /\ Head(code[Main]) = join /\ <<>> \o Tail(code[Main]) = <<>>
  <2> HIDE DEF join
  <2> QED
    BY <1>1
<1>3. /\ code[A] = <<>> /\ code[B] = <<>>
      /\ Continues(Main, <<>> \o Tail(code[Main]))
      /\ mem' = mem /\ asleep' = asleep
      /\ Ordered(hb', objects)
  BY <1>1, <1>2, JoinStep
<1>4. mem.counter = 2 * Rounds
  <2>1. PICK P \in [{A, B} -> 0 .. 2 * Rounds], W \in [{A, B} -> CasWays] :
            /\ \A t \in {A, B} : CasAt(t, P[t], W[t])
            /\ mem.counter = (P[A] \div 2) + (P[B] \div 2)
    BY DEF CasRunning
  <2>2. ASSUME NEW t \in {A, B}
        PROVE  P[t] = 2 * Rounds
    <3> DEFINE a == CasLoad(t)
               b == CasLoop(t)
               work == CasWork(t)
               p == P[t]
               o == IF W[t] = "again" THEN CasLoop(t) ELSE CasTry(t)
    <3>1. CasAt(t, p, W[t]) /\ code[t] = <<>> /\ p \in 0 .. 2 * Rounds
      BY <1>3, <2>1
    <3>2. Repeats(work, <<a, b>>, 2, 2 * Rounds)
      BY CasWorkIs
    <3>3. /\ W[t] = "on" => code[t] = From(work, p)
          /\ W[t] # "on" => p < 2 * Rounds /\ code[t] = <<o>> \o From(work, p + 1)
      BY <3>1 DEF CasAt
    <3> HIDE DEF a, b, work, o, p
    <3>4. W[t] = "on"
      <4>1. CASE W[t] # "on"
        <5>1. p < 2 * Rounds /\ code[t] = <<o>> \o From(work, p + 1)
          BY <3>3, <4>1
        <5>2. p + 1 \in 0 .. 2 * Rounds
          BY <3>1, <5>1
        <5> QED
          BY <3>1, <3>2, <5>1, <5>2 DEF Repeats
      <4> QED
        BY <4>1
    <3>5. From(work, p) = <<>>
      BY <3>1, <3>3, <3>4
    <3> QED
      BY <3>1, <3>2, <3>5 DEF Repeats, p
  <2>3. (2 * Rounds) \div 2 = Rounds /\ Rounds \in Nat
    OBVIOUS
  <2>4. mem.counter = Rounds + Rounds
    BY <2>1, <2>2, <2>3
  <2> QED
    BY <2>3, <2>4
<1>5. /\ DOMAIN code' = Threads /\ code'[Main] = <<>>
      /\ code'[A] = <<>> /\ code'[B] = <<>> /\ code'[C] = <<>> /\ code'[D] = <<>>
  BY <1>2, <1>3, ThreadsDiffer DEF Continues, Threads, CasRunning, CasMemory
<1>6. CasMemory'
  BY <1>3, <1>5 DEF CasRunning, CasMemory, objects
<1> QED
  BY <1>3, <1>4, <1>5, <1>6 DEF CasJoined, AllAwake

\* Every step keeps the invariant,
LEMMA CasStep ==
    ASSUME CasInv, NEW t \in Threads, LibraryStep(t) \/ UnforcedStep(t)
    PROVE  CasInv'
<1>1. CASE CasBegun
  BY <1>1, CasFirstStep DEF CasInv
<1>2. CASE CasRunning
  <2>1. t \in {Main, A, B}
    <3>1. code[t] # <<>>
      BY OperationOfStep DEF CasInv, AllAwake
    <3> QED
      BY <1>2, <3>1, ThreadsDiffer DEF CasRunning, CasMemory
  <2>2. CASE t = Main
    BY <1>2, <2>2, CasJoinStep DEF CasInv
  <2>3. CASE t \in {A, B}
    BY <1>2, <2>3, CasWorkerStep DEF CasInv
  <2> QED
    BY <2>1, <2>2, <2>3
<1>3. CASE CasJoined
  <2>1. code[t] # <<>>
    BY OperationOfStep DEF CasInv, AllAwake
  <2> QED
    BY <1>3, <2>1, ThreadsDiffer DEF CasJoined, CasMemory
<1> QED
  BY <1>1, <1>2, <1>3 DEF CasInv

\* it holds at first,
LEMMA CasInit ==
    ASSUME Init, Running = CasIncrementDemo
    PROVE  CasInv
<1>1. Running.objects = [counter |-> 0, current1 |-> 0, current2 |-> 0]
  BY DEF CasIncrementDemo, Demo
<1>2. Running.main = CasMain
  <2> DEFINE current(t) == IF t = A THEN "current1" ELSE "current2"
             increment(t) ==
               Times(Rounds, <<Load("counter", current(t), "relaxed"),
                               ExchangeWhile(<<Always>>, "counter", current(t), "plus", 1,
                                             "relaxed")>>)
             new == [t \in {A, B} |-> increment(t)]
  <2>1. Running.main = <<Start(new), Join({A, B})>>
    BY DEF CasIncrementDemo, Demo
  <2>2. new = [t \in {A, B} |-> CasWork(t)]
    BY DEF CasWork, CasLoad, CasLoop, CasNames
  <2> HIDE DEF new
  <2> QED
    BY <2>1, <2>2 DEF CasMain
<1>3. DOMAIN Running.objects = CasObjects
  BY <1>1 DEF CasObjects
<1> QED
  BY <1>1, <1>2, <1>3 DEF Init, CasInv, CasBegun, OnlyMain, AllAwake

\* and it says that the demo is right.
LEMMA CasShows ==
    ASSUME CasInv, Running = CasIncrementDemo
    PROVE  RaceFree /\ AsPrinted /\ WithinLimits
<1>1. RaceFree
  BY DEF CasInv, CasBegun, CasRunning, CasJoined, CasMemory, Before, Ordered, Ordering, RaceFree
<1>2. ASSUME Done
      PROVE  mem.counter = 2 * Rounds
  <2>1. code[Main] = <<>>
    BY <1>2 DEF Done, Threads
  <2>2. ~CasBegun
    BY <2>1 DEF CasBegun, CasMain, OnlyMain, Threads
  <2>3. ~CasRunning
    BY <2>1 DEF CasRunning
  <2> QED
    BY <2>2, <2>3 DEF CasInv, CasJoined
<1>3. Running.final = [counter : {2 * Rounds}] /\ Running.always = <<>>
  BY DEF CasIncrementDemo, Demo, Nothing
<1>4. AsPrinted
  <2> DEFINE f == [counter |-> 2 * Rounds]
  <2>1. f \in Running.final /\ \A z \in DOMAIN f : Done => mem[z] = f[z]
    BY <1>2, <1>3
  <2> QED
    BY <2>1 DEF AsPrinted
<1> QED
  BY <1>1, <1>3, <1>4 DEF WithinLimits

-----------------------------------------------------------------------------
(* BankTransferDemo *)

\* A thread at operation j of loops of four has been through (j + 2) \div 4 tests.
LEMMA Fourths ==
    ASSUME NEW j \in Nat
    PROVE  /\ (j + 2) \div 4 \in Nat
           /\ j % 4 \in {0, 1, 2, 3}
           /\ j % 4 = 0 => (j + 1) % 4 = 1 /\ ((j + 1) + 2) \div 4 = (j + 2) \div 4
           /\ j % 4 = 1 => (j + 1) % 4 = 2 /\ ((j + 1) + 2) \div 4 = ((j + 2) \div 4) + 1
           /\ j % 4 = 2 => (j + 1) % 4 = 3 /\ ((j + 1) + 2) \div 4 = (j + 2) \div 4
           /\ j % 4 = 3 => (j + 1) % 4 = 0 /\ ((j + 1) + 2) \div 4 = (j + 2) \div 4
           /\ \A n \in Nat : j <= 4 * n => (j + 2) \div 4 <= n
           /\ \A n \in Nat : j < 4 * n /\ j % 4 = 1 => (j + 2) \div 4 < n
OBVIOUS

\* The objects, the names of each thread's two mutexes and accounts, and what
\* the threads and main do.
Mutexes  == {"mutex1", "mutex2"}
Balances == {"balance1", "balance2"}
BankObjects == {"balance1", "balance2", "mutex1", "mutex2"}

BankNames ==
    [t \in {A, B} |->
        IF t = A THEN [first |-> "mutex1", second |-> "mutex2",
                       from |-> "balance1", to |-> "balance2"]
        ELSE [first |-> "mutex2", second |-> "mutex1",
              from |-> "balance2", to |-> "balance1"]]

BankNamed(t, a, b, x, y) ==
    /\ BankNames[t].first = a /\ BankNames[t].second = b
    /\ BankNames[t].from = x /\ BankNames[t].to = y

BankTest(t) ==
    If(<<Less(BankNames[t].from, 1)>>, <<>>,
       <<Add(BankNames[t].from, -1), Add(BankNames[t].to, 1)>>)

BankWork(t) ==
    Times(Rounds, <<LockBoth(BankNames[t].first, BankNames[t].second), BankTest(t),
                    Unlock(BankNames[t].first), Unlock(BankNames[t].second)>>)

BankRest == <<Join({A, B}), Read("balance1"), Read("balance2")>>
BankReads == <<Read("balance1"), Read("balance2")>>
BankMain == <<Start([t \in {A, B} |-> BankWork(t)]), Join({A, B}),
              Read("balance1"), Read("balance2")>>

\* A thread is on a numbered operation of its loop, on the way through
\* std::lock, or between the test and the two changes of the accounts.
LockWays == {"both", "swapped", "first", "second"}
BankWays == {"on", "both", "swapped", "first", "second", "debit", "credit"}

\* Thread t is at operation p of its loop, and holds the mutexes that this means.
BankAt(t, p, way) ==
    /\ way = "on" => code[t] = From(BankWork(t), p)
    /\ way # "on" => p < 4 * Rounds
    /\ way \in LockWays =>
          /\ p % 4 = 0
          /\ code[t] = <<Pending(BankNames[t].first, BankNames[t].second, way)>>
                       \o From(BankWork(t), p + 1)
    /\ way = "debit" =>
          /\ p % 4 = 1
          /\ code[t] = <<Add(BankNames[t].from, -1), Add(BankNames[t].to, 1)>>
                       \o From(BankWork(t), p + 1)
    /\ way = "credit" =>
          /\ p % 4 = 1
          /\ code[t] = <<Add(BankNames[t].to, 1)>> \o From(BankWork(t), p + 1)
    /\ t \in mem[BankNames[t].first] <=> p % 4 \in {1, 2} \/ way = "first"
    /\ t \in mem[BankNames[t].second] <=> p % 4 \in {1, 2, 3} \/ way = "second"

\* How many debits and credits a thread has made.
BankIn(p) == (p + 2) \div 4
BankOut(p, way) == IF way = "credit" THEN BankIn(p) + 1 ELSE BankIn(p)

\* Only main, A and B run, and no race has been seen.
BankMemory ==
    /\ DOMAIN code = Threads /\ code[C] = <<>> /\ code[D] = <<>>
    /\ DOMAIN mem = BankObjects
    /\ Ordered(hb, BankObjects)

\* One thread at most has a mutex, and mutex1 guards both accounts.
BankLocks ==
    /\ \A m \in Mutexes : mem[m] \in {{}, {A}, {B}}
    /\ \A v \in Balances : Guarded(hb, BankObjects, v, "mutex1", mem["mutex1"])

\* Each account has what it began with, less its thread's debits, with the
\* other thread's credits.
BankCounts(P, W) ==
    \A t \in {A, B}, u \in {A, B} : u # t =>
        mem[BankNames[t].from] = (Rounds - BankOut(P[t], W[t])) + BankIn(P[u])

\* Main has not started the threads.
BankBegun ==
    /\ OnlyMain(BankMain)
    /\ mem = [balance1 |-> Rounds, balance2 |-> Rounds, mutex1 |-> {}, mutex2 |-> {}]
    /\ hb = Before(BankObjects)

\* The two threads transfer.
BankRunning ==
    /\ BankMemory /\ BankLocks
    /\ code[Main] = BankRest
    /\ \E P \in [{A, B} -> 0 .. 4 * Rounds], W \in [{A, B} -> BankWays] :
          /\ \A t \in {A, B} : BankAt(t, P[t], W[t])
          /\ BankCounts(P, W)

\* Both have ended.
BankJoined ==
    /\ BankMemory
    /\ code[Main] \in {BankReads, Tail(BankReads), <<>>}
    /\ code[A] = <<>> /\ code[B] = <<>>
    /\ mem.balance1 = Rounds /\ mem.balance2 = Rounds
    /\ \A v \in Balances : Within(hb, BankObjects, v, hb.known[Main])

\* The inductive invariant of the demo.
BankInv == AllAwake /\ (BankBegun \/ BankRunning \/ BankJoined)

\* What the names are.
LEMMA BankNamesAre ==
    ASSUME NEW t \in {A, B}, NEW a, NEW b, NEW x, NEW y, BankNamed(t, a, b, x, y)
    PROVE  /\ Mutexes = {a, b} /\ a # b /\ "mutex1" \in {a, b}
           /\ Balances = {x, y} /\ x # y /\ x \notin {a, b} /\ y \notin {a, b}
           /\ BankObjects = {a, b, x, y}
           /\ \A u \in {A, B} : u # t => BankNamed(u, b, a, y, x)
<1>1. CASE t = A
  BY <1>1, ThreadsDiffer DEF BankNamed, BankNames, Mutexes, Balances, BankObjects
<1>2. CASE t = B
  BY <1>2, ThreadsDiffer DEF BankNamed, BankNames, Mutexes, Balances, BankObjects
<1> QED
  BY <1>1, <1>2

\* The loop repeats four operations.
LEMMA BankWorkIs ==
    ASSUME NEW t \in {A, B}, NEW a, NEW b, NEW x, NEW y, BankNamed(t, a, b, x, y),
           NEW o1, NEW o2, NEW o3, NEW o4,
           o1 = LockBoth(a, b), o2 = BankTest(t), o3 = Unlock(a), o4 = Unlock(b)
    PROVE  Repeats(BankWork(t), <<o1, o2, o3, o4>>, 4, 4 * Rounds)
<1> DEFINE ops == <<o1, o2, o3, o4>>
           S == {o1, o2, o3, o4}
           k == 4
           total == 4 * Rounds
<1>1. ops \in Seq(S) /\ Len(ops) = 4
  OBVIOUS
<1>2. BankWork(t) = Times(Rounds, ops)
  BY DEF BankWork, BankNamed
<1>3. k \in Nat /\ k > 0 /\ Len(ops) = k /\ total = k * Rounds
  BY <1>1
<1> HIDE DEF ops, S, k, total
<1>4. Repeats(BankWork(t), ops, k, total)
  BY <1>1, <1>2, <1>3, RepeatIs
<1> QED
  BY <1>4 DEF ops, k, total

\* What is known when thread t takes a step: a and b are its mutexes, in its
\* order, x and y its own account and the other, g the mutex that guards both.
BankFacts(t, p, way, a, b, x, y, g, objects) ==
    /\ BankNamed(t, a, b, x, y) /\ objects = BankObjects
    /\ Mutexes = {a, b} /\ Balances = {x, y} /\ g \in {a, b} /\ g = "mutex1"
    /\ a \in objects /\ b \in objects /\ x \in objects /\ y \in objects
    /\ a # b /\ x \notin {a, b} /\ y \notin {a, b} /\ x # y
    /\ p \in Nat /\ p < 4 * Rounds /\ p + 1 \in 0 .. 4 * Rounds
    /\ t \in Threads /\ t \in {Main, A, B} /\ asleep[t] = Awake
    /\ LibraryStep(t) \/ UnforcedStep(t)
    /\ DOMAIN code = Threads /\ DOMAIN mem = objects /\ Ordered(hb, objects)
    /\ mem[x] \in Int /\ mem[y] \in Int
    /\ \A m \in {a, b} : /\ mem[m] \in {{}, {A}, {B}} /\ mem[m] \in SUBSET Threads
                         /\ t \in mem[m] => mem[m] = {t}
    /\ \A v \in {x, y} : Guarded(hb, objects, v, g, mem[g])
    /\ t \in mem[a] <=> p % 4 \in {1, 2} \/ way = "first"
    /\ t \in mem[b] <=> p % 4 \in {1, 2, 3} \/ way = "second"
    /\ p % 4 = 1 /\ way = "on" => mem[x] >= 1

\* What a step of thread t leaves alone, and what it moves between the accounts.
BankKeeps(t, a, b, x, y, out, in) ==
    /\ DOMAIN code' = Threads /\ \A u \in Threads : u # t => code'[u] = code[u]
    /\ \A m \in {a, b}, u \in {A, B} : u # t => (u \in mem'[m] <=> u \in mem[m])
    /\ mem'[x] = mem[x] - out /\ mem'[y] = mem[y] + in
    /\ DOMAIN mem' = BankObjects /\ BankLocks' /\ Ordered(hb', BankObjects)
    /\ asleep' = asleep

\* A mutex is taken.
LEMMA BankTakes ==
    ASSUME NEW t \in {A, B}, NEW p, NEW way, NEW a, NEW b, NEW x, NEW y, NEW g, NEW objects,
           BankFacts(t, p, way, a, b, x, y, g, objects), NEW m \in {a, b},
           mem[m] = {}, Sets(m, {t}), hb' = Sees(hb, t, m),
           NEW rest, Continues(t, rest), asleep' = asleep
    PROVE  /\ BankKeeps(t, a, b, x, y, 0, 0)
           /\ t \in mem'[m] /\ \A o \in {a, b} : o # m => mem'[o] = mem[o]
<1>0. /\ x # y /\ x \notin {a, b} /\ y \notin {a, b} /\ a # b
      /\ x \in objects /\ y \in objects /\ m \in objects /\ g \in objects /\ g \in {a, b}
      /\ t \in Threads /\ Ordered(hb, objects) /\ DOMAIN mem = objects
      /\ mem[x] \in Int /\ mem[y] \in Int
      /\ \A o \in {a, b} : /\ mem[o] \in {{}, {A}, {B}} /\ mem[o] \in SUBSET Threads
                           /\ t \in mem[o] => mem[o] = {t}
      /\ \A v \in {x, y} : Guarded(hb, objects, v, g, mem[g])
      /\ objects = BankObjects /\ g = "mutex1" /\ Mutexes = {a, b} /\ Balances = {x, y}
      /\ DOMAIN code = Threads
  BY DEF BankFacts
<1>1. /\ DOMAIN mem' = objects /\ mem'[m] = {t} /\ \A o \in {a, b} : o # m => mem'[o] = mem[o]
      /\ mem'[x] = mem[x] - 0 /\ mem'[y] = mem[y] + 0
  <2>1. DOMAIN mem' = objects /\ mem'[m] = {t} /\ \A o \in objects : o # m => mem'[o] = mem[o]
    BY <1>0 DEF Sets
  <2>2. mem'[x] = mem[x] /\ mem'[y] = mem[y]
    BY <1>0, <2>1
  <2>3. \A o \in {a, b} : o \in objects
    BY <1>0 DEF BankFacts
  <2> QED
    BY <1>0, <2>1, <2>2, <2>3
<1>2. Ordered(hb', objects)
  BY <1>0, SeesIs
<1>3. ASSUME NEW v \in {x, y}
      PROVE  Guarded(hb', objects, v, g, mem'[g])
  <2>1. Guarded(hb, objects, v, g, mem[g]) /\ mem[g] \in SUBSET Threads /\ m \in objects
    BY <1>0
  <2>2. /\ mem[g] # {} \/ m # g => Guarded(hb', objects, v, g, mem[g])
        /\ mem[g] = {} /\ m = g => Guarded(hb', objects, v, g, {t})
    <3> DEFINE holders == mem[g]
               before  == hb
               after   == hb'
    <3>1. /\ Ordered(before, objects) /\ t \in Threads /\ m \in objects
          /\ after = Sees(before, t, m)
          /\ holders \in SUBSET Threads /\ Guarded(before, objects, v, g, holders)
      BY <1>0, <2>1
    <3> HIDE DEF holders, before, after
    <3>2. /\ holders # {} \/ m # g => Guarded(after, objects, v, g, holders)
          /\ holders = {} /\ m = g => Guarded(after, objects, v, g, {t})
      BY <3>1, GuardLocked
    <3> QED
      BY <3>2 DEF holders, before, after
  <2>3. CASE m = g
    BY <1>1, <1>0, <2>2, <2>3
  <2>4. CASE m # g
    BY <1>1, <1>0, <2>2, <2>4
  <2> QED
    BY <2>3, <2>4
<1>4. \A o \in {a, b} : mem'[o] \in {{}, {A}, {B}}
  BY <1>1, <1>0
<1>5. BankLocks'
  BY <1>3, <1>4, <1>0 DEF BankLocks
<1>6. \A o \in {a, b}, u \in {A, B} : u # t => (u \in mem'[o] <=> u \in mem[o])
  BY <1>1, <1>0
<1> QED
  BY <1>1, <1>2, <1>5, <1>6, <1>0 DEF BankKeeps, Continues

\* A mutex is given back.
LEMMA BankGives ==
    ASSUME NEW t \in {A, B}, NEW p, NEW way, NEW a, NEW b, NEW x, NEW y, NEW g, NEW objects,
           BankFacts(t, p, way, a, b, x, y, g, objects), NEW m \in {a, b},
           t \in mem[m], Sets(m, {}), hb' = Shows(hb, t, m),
           NEW rest, Continues(t, rest), asleep' = asleep
    PROVE  /\ BankKeeps(t, a, b, x, y, 0, 0)
           /\ t \notin mem'[m] /\ \A o \in {a, b} : o # m => mem'[o] = mem[o]
<1>0. /\ x # y /\ x \notin {a, b} /\ y \notin {a, b} /\ a # b
      /\ x \in objects /\ y \in objects /\ m \in objects /\ g \in objects /\ g \in {a, b}
      /\ t \in Threads /\ Ordered(hb, objects) /\ DOMAIN mem = objects
      /\ mem[x] \in Int /\ mem[y] \in Int
      /\ \A o \in {a, b} : /\ mem[o] \in {{}, {A}, {B}} /\ mem[o] \in SUBSET Threads
                           /\ t \in mem[o] => mem[o] = {t}
      /\ \A v \in {x, y} : Guarded(hb, objects, v, g, mem[g])
      /\ objects = BankObjects /\ g = "mutex1" /\ Mutexes = {a, b} /\ Balances = {x, y}
      /\ DOMAIN code = Threads
  BY DEF BankFacts
<1>1. /\ DOMAIN mem' = objects /\ mem'[m] = {} /\ \A o \in {a, b} : o # m => mem'[o] = mem[o]
      /\ mem'[x] = mem[x] - 0 /\ mem'[y] = mem[y] + 0 /\ mem[m] = {t}
  <2>1. DOMAIN mem' = objects /\ mem'[m] = {} /\ \A o \in objects : o # m => mem'[o] = mem[o]
    BY <1>0 DEF Sets
  <2>2. mem'[x] = mem[x] /\ mem'[y] = mem[y]
    BY <1>0, <2>1
  <2>3. \A o \in {a, b} : o \in objects
    BY <1>0 DEF BankFacts
  <2> QED
    BY <1>0, <2>1, <2>2, <2>3
<1>2. Ordered(hb', objects)
  BY <1>0, ShowsIs
<1>3. ASSUME NEW v \in {x, y}
      PROVE  Guarded(hb', objects, v, g, mem'[g])
  <2>1. Guarded(hb, objects, v, g, mem[g]) /\ mem[g] \in SUBSET Threads /\ m \in objects
        /\ g \in objects
    BY <1>0
  <2>2. /\ m # g => Guarded(hb', objects, v, g, mem[g])
        /\ mem[g] = {t} /\ m = g => Guarded(hb', objects, v, g, {})
    <3> DEFINE holders == mem[g]
               before  == hb
               after   == hb'
    <3>1. /\ Ordered(before, objects) /\ t \in Threads /\ m \in objects /\ g \in objects
          /\ after = Shows(before, t, m)
          /\ holders \in SUBSET Threads /\ Guarded(before, objects, v, g, holders)
      BY <1>0, <2>1
    <3> HIDE DEF holders, before, after
    <3>2. /\ m # g => Guarded(after, objects, v, g, holders)
          /\ holders = {t} /\ m = g => Guarded(after, objects, v, g, {})
      BY <3>1, GuardUnlocked
    <3> QED
      BY <3>2 DEF holders, before, after
  <2>3. CASE m = g
    BY <1>1, <1>0, <2>2, <2>3
  <2>4. CASE m # g
    BY <1>1, <1>0, <2>2, <2>4
  <2> QED
    BY <2>3, <2>4
<1>4. \A o \in {a, b} : mem'[o] \in {{}, {A}, {B}}
  BY <1>1, <1>0
<1>5. BankLocks'
  BY <1>3, <1>4, <1>0 DEF BankLocks
<1>6. \A o \in {a, b}, u \in {A, B} : u # t => (u \in mem'[o] <=> u \in mem[o])
  BY <1>1, <1>0
<1> QED
  BY <1>1, <1>2, <1>5, <1>6, <1>0 DEF BankKeeps, Continues

\* A write or a read of an account under the mutex that guards both.
LEMMA BankTouches ==
    ASSUME NEW t \in {A, B}, NEW p, NEW way, NEW a, NEW b, NEW x, NEW y, NEW g, NEW objects,
           BankFacts(t, p, way, a, b, x, y, g, objects), NEW z \in {x, y},
           t \in mem[g], \A o \in {a, b} : mem'[o] = mem[o],
           hb' = Writes(hb, t, z) \/ hb' = Reads(hb, t, {z})
    PROVE  BankLocks' /\ Ordered(hb', objects)
<1> USE DEF BankFacts
<1>1. /\ mem[g] = {t} /\ z \in objects /\ Within(hb, objects, z, hb.known[t])
  BY DEF Guarded
<1>2. Ordered(hb', objects) /\ Within(hb', objects, z, hb'.known[t]) /\ SameBut(hb', hb, objects, z)
  <2>1. CASE hb' = Writes(hb, t, z)
    BY <1>1, <2>1, WritesIs
  <2>2. CASE hb' = Reads(hb, t, {z})
    BY <1>1, <2>2, ReadsIs
  <2> QED
    BY <2>1, <2>2
<1>3. ASSUME NEW v \in {x, y}
      PROVE  Guarded(hb', objects, v, g, mem'[g])
  <2>1. mem'[g] = {t}
    BY <1>1
  <2>2. Within(hb, objects, v, hb.known[t])
    BY <1>1 DEF Guarded
  <2>3. Within(hb', objects, v, hb'.known[t])
    <3>1. CASE v = z
      BY <1>2, <3>1
    <3>2. CASE v # z
      BY <1>2, <2>2, <3>2 DEF Within, SameBut
    <3> QED
      BY <3>1, <3>2
  <2> QED
    BY <2>1, <2>3 DEF Guarded
<1>4. \A o \in {a, b} : mem'[o] \in {{}, {A}, {B}}
  OBVIOUS
<1> QED
  BY <1>2, <1>3, <1>4 DEF BankLocks

\* The test of an account with enough money is false.
LEMMA IfLessIs ==
    ASSUME DOMAIN code = Threads, NEW t \in Threads, Branch(t), NEW x, NEW yes, NEW no,
           Now(t) = If(<<Less(x, 1)>>, yes, no), mem[x] \in Int, mem[x] >= 1
    PROVE  /\ hb' = Reads(hb, t, {x})
           /\ Continues(t, no \o Tail(code[t]))
           /\ mem' = mem /\ asleep' = asleep
<1> DEFINE o == Less(x, 1)
           test == <<o>>
<1>1. Now(t).test = test /\ Now(t).yes = yes /\ Now(t).no = no
  BY DEF If
<1>2. o.kind = "less" /\ o.var = x /\ o.arg = 1
  BY DEF Less
<1> HIDE DEF o
<1>3. DOMAIN test = {1} /\ test[1] = o
  OBVIOUS
<1> HIDE DEF test
<1>4. ~Holds(test)
  <2>1. ~(mem[x] < 1)
    OBVIOUS
  <2> QED
    BY <1>2, <1>3, <2>1 DEF Holds
<1>5. Tested(test) = {x}
  BY <1>2, <1>3 DEF Tested
<1>6. /\ Goto(t, no \o Tail(code[t])) /\ hb' = Reads(hb, t, {x}) /\ mem' = mem /\ asleep' = asleep
  BY <1>1, <1>4, <1>5 DEF Branch, Instead
<1> QED
  BY <1>6, GotoIs

\* Thread t goes from operation p to q, and nothing else changes.
BankGoes(t, p, way, q, next) ==
    /\ BankKeeps(t, BankNames[t].first, BankNames[t].second, BankNames[t].from, BankNames[t].to,
                 BankOut(q, next) - BankOut(p, way), BankIn(q) - BankIn(p))
    /\ BankAt(t, q, next)'

\* The next operation of thread t.
BankNext(t, p, way, a, b, x, y) ==
    /\ Tail(code[t]) = IF way = "debit" THEN <<Add(y, 1)>> \o From(BankWork(t), p + 1)
                       ELSE From(BankWork(t), p + 1)
    /\ <<>> \o From(BankWork(t), p + 1) = From(BankWork(t), p + 1)
    /\ way = "debit" => <<>> \o Tail(code[t]) = Tail(code[t])
    /\ way \in LockWays => p % 4 = 0 /\ Now(t) = Pending(a, b, way)
    /\ way = "debit" => p % 4 = 1 /\ Now(t) = Add(x, -1)
    /\ way = "credit" => p % 4 = 1 /\ Now(t) = Add(y, 1)
    /\ way = "on" => /\ p % 4 = 0 => Now(t) = LockBoth(a, b)
                     /\ p % 4 = 1 => Now(t) = If(<<Less(x, 1)>>, <<>>, <<Add(x, -1), Add(y, 1)>>)
                     /\ p % 4 = 2 => Now(t) = Unlock(a)
                     /\ p % 4 = 3 => Now(t) = Unlock(b)

\* Where a thread stands, this is its next operation.
LEMMA BankNowIs ==
    ASSUME NEW t \in {A, B}, NEW a, NEW b, NEW x, NEW y, BankNamed(t, a, b, x, y),
           NEW p \in 0 .. 4 * Rounds, NEW way \in BankWays, BankAt(t, p, way), code[t] # <<>>
    PROVE  p < 4 * Rounds /\ BankNext(t, p, way, a, b, x, y)
<1> USE RoundsAssumption
<1> DEFINE work == BankWork(t)
           o1 == LockBoth(a, b)
           o2 == BankTest(t)
           o3 == Unlock(a)
           o4 == Unlock(b)
           debit == Add(x, -1)
           credit == Add(y, 1)
           pending == Pending(a, b, way)
           total == 4 * Rounds
<1>1. Repeats(work, <<o1, o2, o3, o4>>, 4, 4 * Rounds)
  <2> HIDE DEF o1, o2, o3, o4
  <2>1. o1 = LockBoth(a, b) /\ o2 = BankTest(t) /\ o3 = Unlock(a) /\ o4 = Unlock(b)
    BY DEF o1, o2, o3, o4
  <2> QED
    BY <2>1, BankWorkIs
<1>2. o2 = If(<<Less(x, 1)>>, <<>>, <<debit, credit>>)
  BY DEF BankTest, BankNamed
<1>3. /\ way = "on" => code[t] = From(work, p)
      /\ way # "on" => p < 4 * Rounds
      /\ way \in LockWays => p % 4 = 0 /\ code[t] = <<pending>> \o From(work, p + 1)
      /\ way = "debit" => p % 4 = 1 /\ code[t] = <<debit, credit>> \o From(work, p + 1)
      /\ way = "credit" => p % 4 = 1 /\ code[t] = <<credit>> \o From(work, p + 1)
  BY DEF BankAt, BankNamed
<1> HIDE DEF work, o1, o2, o3, o4, debit, credit, pending
<1>4. p < 4 * Rounds
  <2>1. CASE way = "on"
    BY <1>1, <1>3, <2>1 DEF Repeats
  <2>2. CASE way # "on"
    BY <1>3, <2>2
  <2> QED
    BY <2>1, <2>2
<1>5. /\ p \in 0 .. 4 * Rounds - 1 /\ p + 1 \in 0 .. 4 * Rounds
      /\ p % 4 = 0 => <<o1, o2, o3, o4>>[(p % 4) + 1] = o1
      /\ p % 4 = 1 => <<o1, o2, o3, o4>>[(p % 4) + 1] = o2
      /\ p % 4 = 2 => <<o1, o2, o3, o4>>[(p % 4) + 1] = o3
      /\ p % 4 = 3 => <<o1, o2, o3, o4>>[(p % 4) + 1] = o4
  BY <1>4
<1>6. /\ <<>> \o From(work, p + 1) = From(work, p + 1)
      /\ \A o : /\ Head(<<o>> \o From(work, p + 1)) = o
                /\ Tail(<<o>> \o From(work, p + 1)) = From(work, p + 1)
                /\ <<>> \o (<<o>> \o From(work, p + 1)) = <<o>> \o From(work, p + 1)
      /\ \A o, r : /\ Head(<<o, r>> \o From(work, p + 1)) = o
                   /\ Tail(<<o, r>> \o From(work, p + 1)) = <<r>> \o From(work, p + 1)
      /\ Tail(From(work, p)) = From(work, p + 1)
      /\ Head(From(work, p)) = <<o1, o2, o3, o4>>[(p % 4) + 1]
  <2> DEFINE q == p + 1
             ops == <<o1, o2, o3, o4>>
  <2>1. q \in 0 .. total
    BY <1>5
  <2> HIDE DEF ops
  <2>2. Repeats(work, ops, 4, total)
    BY <1>1 DEF ops
  <2>3. Tail(From(work, p)) = From(work, p + 1) /\ Head(From(work, p)) = ops[(p % 4) + 1]
    BY <1>5, <2>2 DEF Repeats
  <2> HIDE DEF q, total
  <2>4. /\ <<>> \o From(work, q) = From(work, q)
        /\ \A o : /\ Head(<<o>> \o From(work, q)) = o
                  /\ Tail(<<o>> \o From(work, q)) = From(work, q)
                  /\ <<>> \o (<<o>> \o From(work, q)) = <<o>> \o From(work, q)
    BY <2>1, <2>2 DEF Repeats
  <2>5. \A o, r : /\ Head(<<o, r>> \o From(work, q)) = o
                 /\ Tail(<<o, r>> \o From(work, q)) = <<r>> \o From(work, q)
    BY <2>1, <2>2 DEF Repeats
  <2> QED
    BY <2>3, <2>4, <2>5 DEF q, ops
<1>7. CASE way = "on"
  <2>1. Now(t) = <<o1, o2, o3, o4>>[(p % 4) + 1] /\ Tail(code[t]) = From(work, p + 1)
    BY <1>3, <1>6, <1>7 DEF Now
  <2> QED
    BY <1>2, <1>4, <1>5, <1>6, <1>7, <2>1 DEF BankNext, LockWays, work, o1, o3, o4, debit, credit
<1>8. CASE way \in LockWays
  <2>1. Now(t) = pending /\ Tail(code[t]) = From(work, p + 1) /\ p % 4 = 0
    BY <1>3, <1>6, <1>8 DEF Now
  <2> QED
    BY <1>4, <1>6, <1>8, <2>1 DEF BankNext, LockWays, work, pending
<1>9. CASE way = "debit"
  <2>1. Now(t) = debit /\ Tail(code[t]) = <<credit>> \o From(work, p + 1) /\ p % 4 = 1
    <3> DEFINE s == From(work, p + 1)
    <3>1. /\ code[t] = <<debit, credit>> \o s /\ p % 4 = 1
          /\ \A o, r : /\ Head(<<o, r>> \o s) = o
                       /\ Tail(<<o, r>> \o s) = <<r>> \o s
      BY <1>3, <1>6, <1>9
    <3> HIDE DEF s
    <3>2. Head(<<debit, credit>> \o s) = debit
      BY <3>1
    <3>3. Tail(<<debit, credit>> \o s) = <<credit>> \o s
      BY <3>1
    <3> QED
      BY <3>1, <3>2, <3>3 DEF Now, s
  <2>2. <<>> \o Tail(code[t]) = Tail(code[t])
    BY <1>6, <2>1
  <2> QED
    BY <1>4, <1>6, <1>9, <2>1, <2>2 DEF BankNext, LockWays, work, debit, credit
<1>10. CASE way = "credit"
  <2>1. Now(t) = credit /\ Tail(code[t]) = From(work, p + 1) /\ p % 4 = 1
    BY <1>3, <1>6, <1>10 DEF Now
  <2> QED
    BY <1>4, <1>6, <1>10, <2>1 DEF BankNext, LockWays, work, credit
<1> QED
  BY <1>7, <1>8, <1>9, <1>10 DEF BankWays, LockWays

\* Thread t is then at q, on the way next.
BankStands(t, q, next, a, b, y, s) ==
    /\ \/ next = "on" /\ code'[t] = From(BankWork(t), q)
       \/ next \in LockWays /\ q % 4 = 0 /\ code'[t] = <<Pending(a, b, next)>> \o s
       \/ next = "debit" /\ q % 4 = 1 /\ code'[t] = s
       \/ next = "credit" /\ q % 4 = 1 /\ code'[t] = <<Add(y, 1)>> \o s
    /\ t \in mem'[a] <=> q % 4 \in {1, 2} \/ next = "first"
    /\ t \in mem'[b] <=> q % 4 \in {1, 2, 3} \/ next = "second"

\* A thread that stands at q has gone there.
LEMMA BankArrives ==
    ASSUME NEW t \in {A, B}, NEW p, NEW way, NEW a, NEW b, NEW x, NEW y,
           BankNamed(t, a, b, x, y), NEW q, NEW next \in BankWays,
           BankKeeps(t, a, b, x, y, BankOut(q, next) - BankOut(p, way), BankIn(q) - BankIn(p)),
           next # "on" => q < 4 * Rounds,
           NEW s, s = IF next = "debit" THEN <<Add(x, -1), Add(y, 1)>> \o From(BankWork(t), q + 1)
                      ELSE From(BankWork(t), q + 1),
           BankStands(t, q, next, a, b, y, s)
    PROVE  BankGoes(t, p, way, q, next)
<1>1. BankKeeps(t, BankNames[t].first, BankNames[t].second, BankNames[t].from, BankNames[t].to,
                BankOut(q, next) - BankOut(p, way), BankIn(q) - BankIn(p))
  BY DEF BankNamed
<1>2. BankAt(t, q, next)'
  BY DEF BankAt, BankStands, BankNamed, LockWays
<1> QED
  BY <1>1, <1>2 DEF BankGoes

\* On the way through std::lock no account changes,
LEMMA BankSame ==
    ASSUME NEW p \in Nat, NEW way \in BankWays, way # "credit", NEW next \in BankWays, next # "credit"
    PROVE  BankOut(p, next) - BankOut(p, way) = 0 /\ BankIn(p) - BankIn(p) = 0
BY Fourths DEF BankOut, BankIn

\* nor at the operations other than the test.
LEMMA BankAgain ==
    ASSUME NEW p \in Nat, NEW way \in BankWays, way # "credit", p % 4 # 1
    PROVE  BankOut(p + 1, "on") - BankOut(p, way) = 0 /\ BankIn(p + 1) - BankIn(p) = 0
BY Fourths DEF BankOut, BankIn

\* std::lock takes the mutex it asks for first.
LEMMA BankFirst ==
    ASSUME NEW t \in {A, B}, NEW p, NEW way \in BankWays, NEW a, NEW b, NEW x, NEW y, NEW g, NEW objects,
           BankFacts(t, p, way, a, b, x, y, g, objects), BankNext(t, p, way, a, b, x, y),
           way = "both" \/ (way = "on" /\ p % 4 = 0)
    PROVE  BankGoes(t, p, way, p, "first")
<1> DEFINE s == From(BankWork(t), p + 1)
<1>1. /\ Now(t) = LockBoth(a, b) /\ Tail(code[t]) = s /\ p % 4 = 0
      /\ t \in Threads /\ asleep[t] = Awake
      /\ LibraryStep(t) \/ UnforcedStep(t)
      /\ DOMAIN code = Threads /\ a \in DOMAIN mem /\ p \in Nat
  BY DEF BankFacts, BankNext, Pending, LockWays
<1>2. LockFirst(t)
  <2>1. Now(t).op = "lockBoth"
    BY <1>1 DEF LockBoth
  <2> QED
    BY <1>1, <2>1, OperationOfStep
<1> DEFINE rest == <<Tries(a, b)>> \o Tail(code[t])
<1>3. /\ mem[a] = {} /\ Sets(a, {t}) /\ hb' = Sees(hb, t, a)
      /\ Continues(t, rest) /\ asleep' = asleep
  BY <1>1, <1>2, LockFirstIs
<1>4. rest = <<Pending(a, b, "first")>> \o s
  BY <1>1 DEF Pending
<1> HIDE DEF rest, s
<1>5. /\ BankKeeps(t, a, b, x, y, 0, 0)
      /\ t \in mem'[a] /\ \A o \in {a, b} : o # a => mem'[o] = mem[o]
  BY <1>3, BankTakes
<1>6. BankStands(t, p, "first", a, b, y, s)
  <2>1. t \in mem'[b] <=> t \in mem[b]
    BY <1>5 DEF BankFacts
  <2>2. t \notin mem'[b]
    BY <1>1, <2>1 DEF BankFacts
  <2>3. code'[t] = <<Pending(a, b, "first")>> \o s
    BY <1>3, <1>4 DEF Continues
  <2> QED
    BY <1>1, <1>5, <2>2, <2>3 DEF BankStands, LockWays
<1>7. "first" \in BankWays /\ p < 4 * Rounds /\ way # "credit" /\ BankNamed(t, a, b, x, y)
  BY DEF BankWays, BankFacts
<1>8. BankKeeps(t, a, b, x, y, BankOut(p, "first") - BankOut(p, way), BankIn(p) - BankIn(p))
  BY <1>1, <1>5, <1>7, BankSame
<1> QED
  BY <1>6, <1>7, <1>8, BankArrives DEF s

\* std::lock, which has given one mutex back, takes the other.
LEMMA BankSecond ==
    ASSUME NEW t \in {A, B}, NEW p, NEW way \in BankWays, NEW a, NEW b, NEW x, NEW y, NEW g, NEW objects,
           BankFacts(t, p, way, a, b, x, y, g, objects), BankNext(t, p, way, a, b, x, y),
           way = "swapped"
    PROVE  BankGoes(t, p, way, p, "second")
<1> DEFINE s == From(BankWork(t), p + 1)
<1>1. /\ Now(t) = LockBoth(b, a) /\ Tail(code[t]) = s /\ p % 4 = 0
      /\ t \in Threads /\ asleep[t] = Awake
      /\ LibraryStep(t) \/ UnforcedStep(t)
      /\ DOMAIN code = Threads /\ b \in DOMAIN mem /\ p \in Nat
  BY DEF BankFacts, BankNext, Pending, LockWays
<1>2. LockFirst(t)
  <2>1. Now(t).op = "lockBoth"
    BY <1>1 DEF LockBoth
  <2> QED
    BY <1>1, <2>1, OperationOfStep
<1> DEFINE rest == <<Tries(b, a)>> \o Tail(code[t])
<1>3. /\ mem[b] = {} /\ Sets(b, {t}) /\ hb' = Sees(hb, t, b)
      /\ Continues(t, rest) /\ asleep' = asleep
  BY <1>1, <1>2, LockFirstIs
<1>4. rest = <<Pending(a, b, "second")>> \o s
  BY <1>1 DEF Pending
<1> HIDE DEF rest, s
<1>5. /\ BankKeeps(t, a, b, x, y, 0, 0)
      /\ t \in mem'[b] /\ \A o \in {a, b} : o # b => mem'[o] = mem[o]
  BY <1>3, BankTakes
<1>6. BankStands(t, p, "second", a, b, y, s)
  <2>1. t \in mem'[a] <=> t \in mem[a]
    BY <1>5 DEF BankFacts
  <2>2. t \notin mem'[a]
    BY <1>1, <2>1 DEF BankFacts
  <2>3. code'[t] = <<Pending(a, b, "second")>> \o s
    BY <1>3, <1>4 DEF Continues
  <2> QED
    BY <1>1, <1>5, <2>2, <2>3 DEF BankStands, LockWays
<1>7. "second" \in BankWays /\ p < 4 * Rounds /\ way # "credit" /\ BankNamed(t, a, b, x, y)
  BY DEF BankWays, BankFacts
<1>8. BankKeeps(t, a, b, x, y, BankOut(p, "second") - BankOut(p, way), BankIn(p) - BankIn(p))
  BY <1>1, <1>5, <1>7, BankSame
<1> QED
  BY <1>6, <1>7, <1>8, BankArrives DEF s

\* The attempt to take the second of the two it locks, which is m; o is the first.
LEMMA BankTry ==
    ASSUME NEW t \in {A, B}, NEW p, NEW way \in BankWays, NEW a, NEW b, NEW x, NEW y, NEW g, NEW objects,
           BankFacts(t, p, way, a, b, x, y, g, objects), BankNext(t, p, way, a, b, x, y),
           NEW m, NEW o, NEW next,
           \/ way = "first" /\ o = a /\ m = b /\ next = "swapped"
           \/ way = "second" /\ o = b /\ m = a /\ next = "both"
    PROVE  BankGoes(t, p, way, p + 1, "on") \/ BankGoes(t, p, way, p, next)
<1> DEFINE s == From(BankWork(t), p + 1)
<1>1. /\ Now(t) = Tries(o, m) /\ Tail(code[t]) = s /\ p % 4 = 0
      /\ <<>> \o Tail(code[t]) = s
      /\ t \in Threads /\ asleep[t] = Awake
      /\ LibraryStep(t) \/ UnforcedStep(t)
      /\ DOMAIN code = Threads /\ m \in DOMAIN mem /\ o \in DOMAIN mem /\ p \in Nat
      /\ m \in {a, b} /\ o \in {a, b} /\ o # m /\ t \in mem[o] /\ {a, b} = {o, m}
      /\ BankNamed(t, a, b, x, y) /\ p < 4 * Rounds
  BY DEF BankFacts, BankNext, Pending, LockWays
<1>2. LockSecond(t)
  <2>1. Now(t).op = "trySecond"
    BY <1>1 DEF Tries, TrySecond
  <2> QED
    BY <1>1, <2>1, OperationOfStep
<1>3. /\ \/ /\ mem[m] = {}
            /\ Sets(m, {t})
            /\ hb' = Sees(hb, t, m)
            /\ Continues(t, <<>> \o Tail(code[t]))
         \/ /\ Sets(o, {})
            /\ hb' = Shows(hb, t, o)
            /\ Continues(t, <<LockBoth(m, o)>> \o Tail(code[t]))
      /\ asleep' = asleep
  BY <1>1, <1>2, LockSecondIs
<1>4. "on" \in BankWays /\ next \in BankWays /\ way # "credit" /\ next # "credit"
  BY DEF BankWays
<1>5. (p + 1) % 4 = 1
  BY <1>1, Fourths
<1>6. CASE /\ mem[m] = {} /\ Sets(m, {t}) /\ hb' = Sees(hb, t, m)
           /\ Continues(t, <<>> \o Tail(code[t]))
  <2> DEFINE rest == <<>> \o Tail(code[t])
             q == p + 1
             s2 == From(BankWork(t), q + 1)
             on == "on"
  <2>1. rest = s
    BY <1>1
  <2>2. Continues(t, rest)
    BY <1>6
  <2> HIDE DEF rest, s, s2
  <2>3. /\ BankKeeps(t, a, b, x, y, 0, 0)
        /\ t \in mem'[m] /\ \A n \in {a, b} : n # m => mem'[n] = mem[n]
    <3>1. /\ m \in {a, b} /\ mem[m] = {} /\ Sets(m, {t}) /\ hb' = Sees(hb, t, m)
          /\ Continues(t, rest) /\ asleep' = asleep
      BY <1>1, <1>3, <1>6, <2>2
    <3> HIDE DEF q, on
    <3> QED
      BY <3>1, BankTakes
  <2>4. t \in mem'[a] /\ t \in mem'[b]
    BY <1>1, <2>3
  <2>5. code'[t] = From(BankWork(t), q)
    BY <2>1, <2>2 DEF Continues, s
  <2>6. BankStands(t, q, on, a, b, y, s2)
    BY <1>5, <2>4, <2>5 DEF BankStands
  <2>7. BankKeeps(t, a, b, x, y, BankOut(q, on) - BankOut(p, way), BankIn(q) - BankIn(p))
    BY <1>1, <1>4, <2>3, BankAgain
  <2>8. s2 = From(BankWork(t), q + 1) /\ on = "on" /\ on \in BankWays
    BY <1>4 DEF s2
  <2> HIDE DEF q, on
  <2>9. s2 = IF on = "debit" THEN <<Add(x, -1), Add(y, 1)>> \o From(BankWork(t), q + 1)
             ELSE From(BankWork(t), q + 1)
    BY <2>8
  <2>10. BankGoes(t, p, way, q, on)
    BY <1>1, <2>6, <2>7, <2>8, <2>9, BankArrives
  <2> QED
    BY <2>10 DEF q, on
<1>7. CASE /\ Sets(o, {}) /\ hb' = Shows(hb, t, o)
           /\ Continues(t, <<LockBoth(m, o)>> \o Tail(code[t]))
  <2> DEFINE rest == <<LockBoth(m, o)>> \o Tail(code[t])
  <2>1. rest = <<Pending(a, b, next)>> \o s
    BY <1>1 DEF Pending
  <2>2. Continues(t, rest)
    BY <1>7
  <2> HIDE DEF rest, s
  <2>3. /\ BankKeeps(t, a, b, x, y, 0, 0)
        /\ t \notin mem'[o] /\ \A n \in {a, b} : n # o => mem'[n] = mem[n]
    BY <1>1, <1>3, <1>7, <2>2, BankGives
  <2>4. t \notin mem'[a] /\ t \notin mem'[b]
    BY <1>1, <2>3 DEF BankFacts
  <2>5. code'[t] = <<Pending(a, b, next)>> \o s
    BY <2>1, <2>2 DEF Continues
  <2>6. BankStands(t, p, next, a, b, y, s)
    BY <1>1, <2>4, <2>5 DEF BankStands, LockWays
  <2>7. BankKeeps(t, a, b, x, y, BankOut(p, next) - BankOut(p, way), BankIn(p) - BankIn(p))
    BY <1>1, <1>4, <2>3, BankSame
  <2>8. s = IF next = "debit" THEN <<Add(x, -1), Add(y, 1)>> \o From(BankWork(t), p + 1)
            ELSE From(BankWork(t), p + 1)
    BY DEF s
  <2>9. BankGoes(t, p, way, p, next)
    BY <1>1, <1>4, <2>6, <2>7, <2>8, BankArrives
  <2> QED
    BY <2>9
<1> QED
  BY <1>3, <1>6, <1>7

\* The step that every case has in common: what it needs of the facts.
BankPlain(t, p, way, a, b, x, y, g, objects) ==
    /\ t \in Threads /\ asleep[t] = Awake
    /\ LibraryStep(t) \/ UnforcedStep(t)
    /\ DOMAIN code = Threads /\ DOMAIN mem = objects /\ objects = BankObjects /\ p \in Nat
    /\ a \in objects /\ b \in objects /\ x \in objects /\ y \in objects
    /\ a # b /\ x # y /\ x \notin {a, b} /\ y \notin {a, b} /\ g \in {a, b}
    /\ mem[x] \in Int /\ mem[y] \in Int
    /\ BankNamed(t, a, b, x, y) /\ p < 4 * Rounds
    /\ t \in mem[a] <=> p % 4 \in {1, 2} \/ way = "first"
    /\ t \in mem[b] <=> p % 4 \in {1, 2, 3} \/ way = "second"
    /\ \A m \in {a, b} : t \in mem[m] => mem[m] = {t}

\* The account has enough money for one transfer, whoever went first.
LEMMA BankTest1 ==
    ASSUME NEW t \in {A, B}, NEW p, NEW way \in BankWays, NEW a, NEW b, NEW x, NEW y, NEW g, NEW objects,
           BankFacts(t, p, way, a, b, x, y, g, objects), BankNext(t, p, way, a, b, x, y),
           way = "on", p % 4 = 1
    PROVE  BankGoes(t, p, way, p, "debit")
<1> DEFINE moves == <<Add(x, -1), Add(y, 1)>>
           s == moves \o From(BankWork(t), p + 1)
           debit == "debit"
<1>1. BankPlain(t, p, way, a, b, x, y, g, objects) /\ mem[x] >= 1
  BY DEF BankFacts, BankPlain
<1>2. Now(t) = If(<<Less(x, 1)>>, <<>>, moves) /\ moves \o Tail(code[t]) = s
  BY DEF BankNext
<1> HIDE DEF moves
<1>3. Branch(t)
  <2>1. Now(t).op = "if"
    BY <1>2 DEF If
  <2> QED
    BY <1>1, <2>1, OperationOfStep DEF BankPlain
<1> DEFINE yes == <<>>
<1>4. /\ hb' = Reads(hb, t, {x}) /\ Continues(t, moves \o Tail(code[t]))
      /\ mem' = mem /\ asleep' = asleep
  <2>1. Now(t) = If(<<Less(x, 1)>>, yes, moves)
    BY <1>2
  <2> HIDE DEF yes
  <2> QED
    BY <1>1, <1>3, <2>1, IfLessIs DEF BankPlain
<1> HIDE DEF s
<1>5. /\ code'[t] = s /\ DOMAIN code' = Threads
      /\ \A u \in Threads : u # t => code'[u] = code[u]
  BY <1>2, <1>4 DEF Continues
<1>6. BankLocks' /\ Ordered(hb', objects)
  <2>1. t \in mem[g]
    BY <1>1 DEF BankPlain
  <2>2. (\A o \in {a, b} : mem'[o] = mem[o]) /\ x \in {x, y}
    BY <1>4
  <2> QED
    BY <1>4, <2>1, <2>2, BankTouches
<1>7. BankKeeps(t, a, b, x, y, 0, 0)
  <2>1. mem'[x] = mem[x] - 0 /\ mem'[y] = mem[y] + 0 /\ DOMAIN mem' = BankObjects
    BY <1>1, <1>4 DEF BankPlain
  <2> QED
    BY <1>1, <1>4, <1>5, <1>6, <2>1 DEF BankKeeps, BankPlain
<1>8. BankStands(t, p, debit, a, b, y, s)
  BY <1>1, <1>4, <1>5 DEF BankStands, BankPlain
<1>9. debit \in BankWays /\ way # "credit" /\ debit # "credit"
  BY DEF BankWays
<1>10. s = IF debit = "debit" THEN <<Add(x, -1), Add(y, 1)>> \o From(BankWork(t), p + 1)
           ELSE From(BankWork(t), p + 1)
  BY DEF s, moves
<1> HIDE DEF debit
<1>11. BankKeeps(t, a, b, x, y, BankOut(p, debit) - BankOut(p, way), BankIn(p) - BankIn(p))
  BY <1>1, <1>7, <1>9, BankSame DEF BankPlain
<1>12. BankGoes(t, p, way, p, debit)
  BY <1>1, <1>8, <1>9, <1>10, <1>11, BankArrives DEF BankPlain
<1> QED
  BY <1>12 DEF debit

\* The own account is debited.
LEMMA BankDebit ==
    ASSUME NEW t \in {A, B}, NEW p, NEW way \in BankWays, NEW a, NEW b, NEW x, NEW y, NEW g, NEW objects,
           BankFacts(t, p, way, a, b, x, y, g, objects), BankNext(t, p, way, a, b, x, y),
           way = "debit"
    PROVE  BankGoes(t, p, way, p, "credit")
<1> DEFINE rest == <<>> \o Tail(code[t])
           s == From(BankWork(t), p + 1)
           credit == "credit"
           minus == -1
<1>1. BankPlain(t, p, way, a, b, x, y, g, objects)
  BY DEF BankFacts, BankPlain
<1>2. Now(t) = Add(x, minus) /\ rest = <<Add(y, 1)>> \o s /\ p % 4 = 1
  BY DEF BankNext
<1>3. AssignVariable(t)
  <2>1. Now(t).op = "assign"
    BY <1>2 DEF Add, Assign
  <2> QED
    BY <1>1, <2>1, OperationOfStep DEF BankPlain
<1> HIDE DEF rest, s
<1>4. /\ Sets(x, mem[x] + minus) /\ hb' = Writes(hb, t, x) /\ Continues(t, rest) /\ asleep' = asleep
  <2> HIDE DEF minus
  <2> QED
    BY <1>1, <1>2, <1>3, AddIs DEF BankPlain, rest
<1>5. /\ code'[t] = <<Add(y, 1)>> \o s /\ DOMAIN code' = Threads
      /\ \A u \in Threads : u # t => code'[u] = code[u]
  BY <1>2, <1>4 DEF Continues
<1>6. /\ \A o \in {a, b} : mem'[o] = mem[o]
      /\ mem'[x] = mem[x] - 1 /\ mem'[y] = mem[y] + 0 /\ DOMAIN mem' = BankObjects
  BY <1>1, <1>4 DEF BankPlain, Sets
<1>7. BankLocks' /\ Ordered(hb', objects)
  <2>1. t \in mem[g] /\ x \in {x, y}
    BY <1>1, <1>2 DEF BankPlain
  <2>2. hb' = Writes(hb, t, x) \/ hb' = Reads(hb, t, {x})
    BY <1>4
  <2>3. \A o \in {a, b} : mem'[o] = mem[o]
    BY <1>6
  <2> QED
    BY <2>1, <2>2, <2>3, BankTouches
<1>8. BankKeeps(t, a, b, x, y, 1, 0)
  BY <1>1, <1>4, <1>5, <1>6, <1>7 DEF BankKeeps, BankPlain
<1>9. BankStands(t, p, credit, a, b, y, s)
  BY <1>1, <1>2, <1>5, <1>6 DEF BankStands, BankPlain
<1>10. BankOut(p, credit) - BankOut(p, way) = 1 /\ BankIn(p) - BankIn(p) = 0
  BY <1>1, Fourths DEF BankOut, BankIn, BankPlain
<1>11. credit \in BankWays
  BY DEF BankWays
<1>12. s = IF credit = "debit" THEN <<Add(x, -1), Add(y, 1)>> \o From(BankWork(t), p + 1)
           ELSE From(BankWork(t), p + 1)
  BY DEF s
<1> HIDE DEF credit
<1>13. BankKeeps(t, a, b, x, y, BankOut(p, credit) - BankOut(p, way), BankIn(p) - BankIn(p))
  BY <1>8, <1>10
<1>14. BankGoes(t, p, way, p, credit)
  BY <1>1, <1>9, <1>11, <1>12, <1>13, BankArrives DEF BankPlain
<1> QED
  BY <1>14 DEF credit

\* The steps after which thread t is one operation further.
LEMMA BankFurther ==
    ASSUME NEW t \in {A, B}, NEW p, NEW way \in BankWays, NEW a, NEW b, NEW x, NEW y, NEW g, NEW objects,
           BankPlain(t, p, way, a, b, x, y, g, objects),
           NEW out, NEW in, BankKeeps(t, a, b, x, y, out, in),
           BankOut(p + 1, "on") - BankOut(p, way) = out, BankIn(p + 1) - BankIn(p) = in,
           code'[t] = From(BankWork(t), p + 1),
           t \in mem'[a] <=> (p + 1) % 4 \in {1, 2}, t \in mem'[b] <=> (p + 1) % 4 \in {1, 2, 3}
    PROVE  BankGoes(t, p, way, p + 1, "on")
<1> DEFINE on == "on"
           q == p + 1
           s == From(BankWork(t), q + 1)
<1>1. BankStands(t, q, on, a, b, y, s)
  BY DEF BankStands
<1>2. on \in BankWays /\ on # "debit" /\ on = "on"
  BY DEF BankWays
<1>3. BankKeeps(t, a, b, x, y, BankOut(q, on) - BankOut(p, way), BankIn(q) - BankIn(p))
  OBVIOUS
<1> HIDE DEF on, q
<1>4. s = IF on = "debit" THEN <<Add(x, -1), Add(y, 1)>> \o From(BankWork(t), q + 1)
          ELSE From(BankWork(t), q + 1)
  BY <1>2
<1> HIDE DEF s
<1>5. BankGoes(t, p, way, q, on)
  BY <1>1, <1>2, <1>3, <1>4, BankArrives DEF BankPlain
<1> QED
  BY <1>5 DEF on, q

\* The other account is credited.
LEMMA BankCredit ==
    ASSUME NEW t \in {A, B}, NEW p, NEW way \in BankWays, NEW a, NEW b, NEW x, NEW y, NEW g, NEW objects,
           BankFacts(t, p, way, a, b, x, y, g, objects), BankNext(t, p, way, a, b, x, y),
           way = "credit"
    PROVE  BankGoes(t, p, way, p + 1, "on")
<1> DEFINE rest == <<>> \o Tail(code[t])
           s == From(BankWork(t), p + 1)
<1>1. BankPlain(t, p, way, a, b, x, y, g, objects)
  BY DEF BankFacts, BankPlain
<1>2. Now(t) = Add(y, 1) /\ rest = s /\ p % 4 = 1
  BY DEF BankNext
<1>3. AssignVariable(t)
  <2>1. Now(t).op = "assign"
    BY <1>2 DEF Add, Assign
  <2> QED
    BY <1>1, <2>1, OperationOfStep DEF BankPlain
<1> HIDE DEF rest, s
<1>4. /\ Sets(y, mem[y] + 1) /\ hb' = Writes(hb, t, y) /\ Continues(t, rest) /\ asleep' = asleep
  BY <1>1, <1>2, <1>3, AddIs DEF BankPlain, rest
<1>5. /\ code'[t] = s /\ DOMAIN code' = Threads
      /\ \A u \in Threads : u # t => code'[u] = code[u]
  BY <1>2, <1>4 DEF Continues
<1>6. /\ \A o \in {a, b} : mem'[o] = mem[o]
      /\ mem'[x] = mem[x] - 0 /\ mem'[y] = mem[y] + 1 /\ DOMAIN mem' = BankObjects
  BY <1>1, <1>4 DEF BankPlain, Sets
<1>7. BankLocks' /\ Ordered(hb', objects)
  <2>1. t \in mem[g] /\ y \in {x, y}
    BY <1>1, <1>2 DEF BankPlain
  <2>2. hb' = Writes(hb, t, y) \/ hb' = Reads(hb, t, {y})
    BY <1>4
  <2>3. \A o \in {a, b} : mem'[o] = mem[o]
    BY <1>6
  <2> QED
    BY <2>1, <2>2, <2>3, BankTouches
<1>8. BankKeeps(t, a, b, x, y, 0, 1)
  BY <1>1, <1>4, <1>5, <1>6, <1>7 DEF BankKeeps, BankPlain
<1>9. BankOut(p + 1, "on") - BankOut(p, way) = 0 /\ BankIn(p + 1) - BankIn(p) = 1
  <2>1. BankIn(p) \in Nat /\ BankIn(p + 1) = BankIn(p) + 1
    BY <1>1, <1>2, Fourths DEF BankIn, BankPlain
  <2>2. BankOut(p + 1, "on") = BankIn(p + 1) /\ BankOut(p, way) = BankIn(p) + 1
    BY DEF BankOut
  <2> QED
    BY <2>1, <2>2
<1>10. /\ t \in mem'[a] <=> (p + 1) % 4 \in {1, 2}
       /\ t \in mem'[b] <=> (p + 1) % 4 \in {1, 2, 3}
  <2>1. (p + 1) % 4 = 2
    BY <1>1, <1>2, Fourths DEF BankPlain
  <2> QED
    BY <1>1, <1>2, <1>6, <2>1 DEF BankPlain
<1> QED
  BY <1>1, <1>5, <1>8, <1>9, <1>10, BankFurther DEF s

\* The scope ends: the mutexes are given back, the first and then the second.
LEMMA BankUnlock ==
    ASSUME NEW t \in {A, B}, NEW p, NEW way \in BankWays, NEW a, NEW b, NEW x, NEW y, NEW g, NEW objects,
           BankFacts(t, p, way, a, b, x, y, g, objects), BankNext(t, p, way, a, b, x, y),
           way = "on", p % 4 \in {2, 3}
    PROVE  BankGoes(t, p, way, p + 1, "on")
<1> DEFINE rest == <<>> \o Tail(code[t])
           s == From(BankWork(t), p + 1)
           m == IF p % 4 = 2 THEN a ELSE b
<1>1. BankPlain(t, p, way, a, b, x, y, g, objects)
  BY DEF BankFacts, BankPlain
<1>2. Now(t) = Unlock(m) /\ rest = s
  BY DEF BankNext
<1>3. UnlockMutex(t)
  <2>1. Now(t).op = "unlock"
    BY <1>2 DEF Unlock
  <2> QED
    BY <1>1, <2>1, OperationOfStep DEF BankPlain
<1>4. m \in {a, b} /\ m \in objects /\ t \in mem[m] /\ mem[m] = {t}
  BY <1>1 DEF BankPlain
<1> HIDE DEF rest, s, m
<1>5. /\ Sets(m, mem[m] \ {t}) /\ hb' = Shows(hb, t, m) /\ Continues(t, rest) /\ asleep' = asleep
  BY <1>1, <1>2, <1>3, <1>4, UnlockIs DEF BankPlain, rest
<1>6. Sets(m, {})
  <2>1. mem[m] \ {t} = {}
    BY <1>4
  <2> QED
    BY <1>5, <2>1
<1>7. code'[t] = s
  BY <1>1, <1>2, <1>5 DEF Continues
<1>8. /\ BankKeeps(t, a, b, x, y, 0, 0)
      /\ t \notin mem'[m] /\ \A o \in {a, b} : o # m => mem'[o] = mem[o]
  BY <1>4, <1>5, <1>6, BankGives
<1>9. /\ t \in mem'[a] <=> (p + 1) % 4 \in {1, 2}
      /\ t \in mem'[b] <=> (p + 1) % 4 \in {1, 2, 3}
  <2>1. /\ p % 4 = 2 => (p + 1) % 4 = 3
        /\ p % 4 = 3 => (p + 1) % 4 = 0
    BY <1>1, Fourths DEF BankPlain
  <2>2. CASE p % 4 = 2
    BY <1>1, <1>8, <2>1, <2>2 DEF BankPlain, m
  <2>3. CASE p % 4 = 3
    BY <1>1, <1>8, <2>1, <2>3 DEF BankPlain, m
  <2> QED
    BY <2>2, <2>3
<1>10. BankOut(p + 1, "on") - BankOut(p, way) = 0 /\ BankIn(p + 1) - BankIn(p) = 0
  BY <1>1, BankAgain DEF BankPlain
<1> QED
  BY <1>1, <1>7, <1>8, <1>9, <1>10, BankFurther DEF s

\* Every operation takes a thread on.
LEMMA BankWayStep ==
    ASSUME NEW t \in {A, B}, NEW p, NEW way \in BankWays, NEW a, NEW b, NEW x, NEW y, NEW g, NEW objects,
           BankFacts(t, p, way, a, b, x, y, g, objects), BankNext(t, p, way, a, b, x, y)
    PROVE  \E q \in 0 .. 4 * Rounds, next \in BankWays : BankGoes(t, p, way, q, next)
<1> USE RoundsAssumption
<1> DEFINE Some == \E q \in 0 .. 4 * Rounds, next \in BankWays : BankGoes(t, p, way, q, next)
<1>1. p \in Nat /\ p \in 0 .. 4 * Rounds /\ p + 1 \in 0 .. 4 * Rounds /\ p % 4 \in {0, 1, 2, 3}
  BY Fourths DEF BankFacts
<1>2. /\ "on" \in BankWays /\ "both" \in BankWays /\ "swapped" \in BankWays
      /\ "first" \in BankWays /\ "second" \in BankWays
      /\ "debit" \in BankWays /\ "credit" \in BankWays
  BY DEF BankWays
<1>3. ASSUME way = "both" \/ (way = "on" /\ p % 4 = 0)
      PROVE  Some
  <2>1. BankGoes(t, p, way, p, "first")
    BY <1>3, BankFirst
  <2> QED
    BY <1>1, <1>2, <2>1
<1>4. CASE way = "swapped"
  <2>1. BankGoes(t, p, way, p, "second")
    BY <1>4, BankSecond
  <2> QED
    BY <1>1, <1>2, <2>1
<1>5. CASE way = "first"
  <2> DEFINE next == "swapped"
  <2>1. \/ way = "first" /\ a = a /\ b = b /\ next = "swapped"
        \/ way = "second" /\ a = b /\ b = a /\ next = "both"
    BY <1>5
  <2> HIDE DEF next
  <2>2. BankGoes(t, p, way, p + 1, "on") \/ BankGoes(t, p, way, p, next)
    BY <2>1, BankTry
  <2> QED
    BY <1>1, <1>2, <2>2 DEF next
<1>6. CASE way = "second"
  <2> DEFINE next == "both"
  <2>1. \/ way = "first" /\ b = a /\ a = b /\ next = "swapped"
        \/ way = "second" /\ b = b /\ a = a /\ next = "both"
    BY <1>6
  <2> HIDE DEF next
  <2>2. BankGoes(t, p, way, p + 1, "on") \/ BankGoes(t, p, way, p, next)
    BY <2>1, BankTry
  <2> QED
    BY <1>1, <1>2, <2>2 DEF next
<1>7. CASE way = "debit"
  <2>1. BankGoes(t, p, way, p, "credit")
    BY <1>7, BankDebit
  <2> QED
    BY <1>1, <1>2, <2>1
<1>8. CASE way = "credit"
  <2>1. BankGoes(t, p, way, p + 1, "on")
    BY <1>8, BankCredit
  <2> QED
    BY <1>1, <1>2, <2>1
<1>9. CASE way = "on" /\ p % 4 = 1
  <2>1. BankGoes(t, p, way, p, "debit")
    BY <1>9, BankTest1
  <2> QED
    BY <1>1, <1>2, <2>1
<1>10. CASE way = "on" /\ p % 4 \in {2, 3}
  <2>1. BankGoes(t, p, way, p + 1, "on")
    BY <1>10, BankUnlock
  <2> QED
    BY <1>1, <1>2, <2>1
<1>11. \/ way = "both" \/ (way = "on" /\ p % 4 = 0)
       \/ way = "swapped" \/ way = "first" \/ way = "second" \/ way = "debit" \/ way = "credit"
       \/ (way = "on" /\ p % 4 = 1) \/ (way = "on" /\ p % 4 \in {2, 3})
  BY <1>1 DEF BankWays
<1> QED
  BY <1>3, <1>4, <1>5, <1>6, <1>7, <1>8, <1>9, <1>10, <1>11

\* Each thread has its names.
LEMMA BankNamesOf ==
    ASSUME NEW t \in {A, B}
    PROVE  \E a, b, x, y : BankNamed(t, a, b, x, y)
BY DEF BankNamed

\* In the invariant the facts hold; an account cannot be short of money, because
\* its thread makes as many debits as the account has at first.
LEMMA BankFactsAre ==
    ASSUME NEW t \in {A, B}, NEW other \in {A, B}, other # t,
           NEW P \in [{A, B} -> 0 .. 4 * Rounds], NEW W \in [{A, B} -> BankWays],
           AllAwake, BankMemory, BankLocks, BankAt(t, P[t], W[t]), BankCounts(P, W),
           LibraryStep(t) \/ UnforcedStep(t),
           NEW a, NEW b, NEW x, NEW y, BankNamed(t, a, b, x, y)
    PROVE  /\ BankFacts(t, P[t], W[t], a, b, x, y, "mutex1", BankObjects)
           /\ BankNext(t, P[t], W[t], a, b, x, y)
<1> USE RoundsAssumption
<1> DEFINE p == P[t]
           way == W[t]
           g == "mutex1"
           objects == BankObjects
           k == BankIn(p)
           l == BankIn(P[other])
<1>1. p \in 0 .. 4 * Rounds /\ P[other] \in 0 .. 4 * Rounds /\ way \in BankWays /\ W[other] \in BankWays
  OBVIOUS
<1>2. t \in Threads /\ t \in {Main, A, B} /\ asleep[t] = Awake
  BY DEF Threads, AllAwake
<1>3. code[t] # <<>>
  BY <1>2, OperationOfStep
<1>4. p < 4 * Rounds /\ BankNext(t, p, way, a, b, x, y)
  BY <1>1, <1>3, BankNowIs
<1>5. /\ Mutexes = {a, b} /\ a # b /\ g \in {a, b}
      /\ Balances = {x, y} /\ x # y /\ x \notin {a, b} /\ y \notin {a, b}
      /\ objects = {a, b, x, y}
      /\ BankNamed(other, b, a, y, x)
  BY BankNamesAre
<1>6. /\ k \in Nat /\ l \in Nat
      /\ BankOut(P[other], W[other]) \in Nat /\ BankOut(p, way) \in Nat
      /\ k <= Rounds /\ (p % 4 = 1 => k < Rounds)
  <2>1. p \in Nat /\ P[other] \in Nat /\ p <= 4 * Rounds /\ p < 4 * Rounds /\ Rounds \in Nat
    BY <1>1, <1>4
  <2>2. ASSUME NEW j \in Nat
        PROVE  BankIn(j) \in Nat /\ \A w : BankOut(j, w) \in Nat
    BY Fourths DEF BankIn, BankOut
  <2>3. BankIn(p) <= Rounds /\ (p % 4 = 1 => BankIn(p) < Rounds)
    <3> HIDE DEF p
    <3> QED
      BY <2>1, Fourths DEF BankIn
  <2> QED
    BY <2>1, <2>2, <2>3
<1>7. /\ mem[x] = (Rounds - BankOut(p, way)) + l
      /\ mem[y] = (Rounds - BankOut(P[other], W[other])) + k
  BY <1>5 DEF BankCounts, BankNamed
<1>8. mem[x] \in Int /\ mem[y] \in Int
  BY <1>6, <1>7
<1>9. p % 4 = 1 /\ way = "on" => mem[x] >= 1
  <2>1. way = "on" => BankOut(p, way) = k
    BY DEF BankOut
  <2> HIDE DEF k, l, p, way
  <2> QED
    BY <1>6, <1>7, <2>1
<1>10. \A m \in {a, b} : /\ mem[m] \in {{}, {A}, {B}} /\ mem[m] \in SUBSET Threads
                         /\ t \in mem[m] => mem[m] = {t}
  <2>1. \A m \in {a, b} : mem[m] \in {{}, {A}, {B}}
    BY <1>5 DEF BankLocks
  <2> QED
    BY <2>1 DEF Threads
<1>11. \A v \in {x, y} : Guarded(hb, objects, v, g, mem[g])
  BY <1>5 DEF BankLocks
<1>12. /\ t \in mem[a] <=> p % 4 \in {1, 2} \/ way = "first"
       /\ t \in mem[b] <=> p % 4 \in {1, 2, 3} \/ way = "second"
  BY DEF BankAt, BankNamed
<1>13. DOMAIN code = Threads /\ DOMAIN mem = objects /\ Ordered(hb, objects)
  BY DEF BankMemory
<1>14. p \in Nat /\ p + 1 \in 0 .. 4 * Rounds
  BY <1>1, <1>4
<1>15. a \in objects /\ b \in objects /\ x \in objects /\ y \in objects
  BY <1>5
<1> HIDE DEF objects, p, way
<1>16. BankFacts(t, p, way, a, b, x, y, g, objects)
  BY <1>2, <1>4, <1>5, <1>8, <1>9, <1>10, <1>11, <1>12, <1>13, <1>14, <1>15 DEF BankFacts, objects
<1> QED
  BY <1>4, <1>16 DEF objects, p, way

\* A step of one of the two threads.
LEMMA BankWorkerStep ==
    ASSUME AllAwake, BankRunning, NEW t \in {A, B}, LibraryStep(t) \/ UnforcedStep(t)
    PROVE  AllAwake' /\ BankRunning'
<1> USE RoundsAssumption
<1>1. PICK P \in [{A, B} -> 0 .. 4 * Rounds], W \in [{A, B} -> BankWays] :
          /\ \A u \in {A, B} : BankAt(u, P[u], W[u])
          /\ BankCounts(P, W)
  BY DEF BankRunning
<1> DEFINE p == P[t]
           way == W[t]
           g == "mutex1"
           objects == BankObjects
<1>2. PICK other \in {A, B} : other # t /\ {A, B} = {t, other}
  BY ThreadsDiffer
<1>3. PICK a, b, x, y : BankNamed(t, a, b, x, y)
  BY BankNamesOf
<1>4. BankNamed(other, b, a, y, x) /\ a # b /\ x # y
  BY <1>2, <1>3, BankNamesAre
<1>5. BankFacts(t, p, way, a, b, x, y, g, objects) /\ BankNext(t, p, way, a, b, x, y)
  BY <1>1, <1>2, <1>3, BankFactsAre DEF BankRunning
<1>6. /\ t \in Threads /\ other \in Threads /\ t # Main /\ t \notin {C, D}
      /\ p \in 0 .. 4 * Rounds /\ P[other] \in 0 .. 4 * Rounds
      /\ way \in BankWays /\ W[other] \in BankWays
  BY <1>1, <1>2, ThreadsDiffer DEF Threads
<1> HIDE DEF p, way, g, objects
<1>7. PICK q \in 0 .. 4 * Rounds, next \in BankWays : BankGoes(t, p, way, q, next)
  BY <1>5, <1>6, BankWayStep
<1> DEFINE out == BankOut(q, next) - BankOut(p, way)
           in == BankIn(q) - BankIn(p)
<1>8. BankKeeps(t, a, b, x, y, out, in) /\ BankAt(t, q, next)'
  BY <1>3, <1>7 DEF BankGoes, BankNamed
<1>9. /\ DOMAIN code' = Threads /\ \A u \in Threads : u # t => code'[u] = code[u]
      /\ \A m \in {a, b}, u \in {A, B} : u # t => (u \in mem'[m] <=> u \in mem[m])
      /\ mem'[x] = mem[x] - out /\ mem'[y] = mem[y] + in
      /\ DOMAIN mem' = BankObjects /\ BankLocks' /\ Ordered(hb', BankObjects)
      /\ asleep' = asleep
  BY <1>8 DEF BankKeeps
<1> DEFINE Q == [P EXCEPT ![t] = q]
           V == [W EXCEPT ![t] = next]
<1>10. /\ Q \in [{A, B} -> 0 .. 4 * Rounds] /\ V \in [{A, B} -> BankWays]
       /\ Q[t] = q /\ Q[other] = P[other] /\ V[t] = next /\ V[other] = W[other]
  BY <1>1, <1>2
<1> HIDE DEF Q, V, out, in
<1>11. BankMemory' /\ code'[Main] = BankRest
  <2>1. C \in Threads /\ D \in Threads /\ Main \in Threads
    BY DEF Threads
  <2> QED
    BY <1>6, <1>9, <2>1 DEF BankRunning, BankMemory
<1>12. \A u \in {A, B} : BankAt(u, Q[u], V[u])'
  <2>1. BankAt(t, Q[t], V[t])'
    BY <1>8, <1>10
  <2>2. BankAt(other, Q[other], V[other])'
    <3>1. BankAt(other, P[other], W[other])
      BY <1>1
    <3>2. code'[other] = code[other]
      BY <1>2, <1>6, <1>9
    <3>3. /\ other \in mem'[BankNames[other].first] <=> other \in mem[BankNames[other].first]
          /\ other \in mem'[BankNames[other].second] <=> other \in mem[BankNames[other].second]
      BY <1>2, <1>4, <1>9 DEF BankNamed
    <3> QED
      BY <1>10, <3>1, <3>2, <3>3 DEF BankAt
  <2> QED
    BY <1>2, <2>1, <2>2
<1>13. BankCounts(Q, V)'
  <2> DEFINE o1 == BankOut(p, way)
             o2 == BankOut(q, next)
             i1 == BankIn(p)
             i2 == BankIn(q)
             ou == BankOut(P[other], W[other])
             iu == BankIn(P[other])
  <2>1. /\ o1 \in Nat /\ o2 \in Nat /\ i1 \in Nat /\ i2 \in Nat /\ ou \in Nat /\ iu \in Nat
    <3>1. p \in Nat /\ q \in Nat /\ P[other] \in Nat
      BY <1>6
    <3> QED
      BY <3>1, Fourths DEF BankOut, BankIn
  <2>2. mem[x] = (Rounds - o1) + iu /\ mem[y] = (Rounds - ou) + i1
    BY <1>1, <1>2, <1>3, <1>4 DEF BankCounts, BankNamed, p, way
  <2>3. mem'[x] = mem[x] - (o2 - o1) /\ mem'[y] = mem[y] + (i2 - i1)
    BY <1>9 DEF out, in
  <2> HIDE DEF o1, o2, i1, i2, ou, iu
  <2>4. mem'[x] = (Rounds - o2) + iu /\ mem'[y] = (Rounds - ou) + i2
    BY <2>1, <2>2, <2>3
  <2>5. /\ mem'[BankNames[t].from] = (Rounds - BankOut(Q[t], V[t])) + BankIn(Q[other])
        /\ mem'[BankNames[other].from] = (Rounds - BankOut(Q[other], V[other])) + BankIn(Q[t])
    BY <1>3, <1>4, <1>10, <2>4 DEF BankNamed, o2, ou, i2, iu
  <2>6. ASSUME NEW u \in {A, B}, NEW v \in {A, B}, v # u
        PROVE  mem'[BankNames[u].from] = (Rounds - BankOut(Q[u], V[u])) + BankIn(Q[v])
    <3>1. CASE u = t
      <4>1. v = other
        BY <1>2, <2>6, <3>1
      <4> QED
        BY <2>5, <3>1, <4>1
    <3>2. CASE u = other
      <4>1. v = t
        BY <1>2, <2>6, <3>2
      <4> QED
        BY <2>5, <3>2, <4>1
    <3> QED
      BY <1>2, <3>1, <3>2
  <2> QED
    BY <2>6 DEF BankCounts
<1>14. BankRunning'
  BY <1>9, <1>10, <1>11, <1>12, <1>13 DEF BankRunning
<1> QED
  BY <1>9, <1>14 DEF AllAwake

\* What main does, step by step.
LEMMA BankMainIs ==
    LET r == Read("balance1")
        s == Read("balance2")
        j == Join({A, B})
        new == [t \in {A, B} |-> BankWork(t)]
    IN  /\ BankReads = <<r, s>> /\ Tail(BankReads) = <<s>>
        /\ BankRest = <<j, r, s>>
        /\ Head(BankMain) = Start(new) /\ Tail(BankMain) = BankRest /\ BankMain # <<>>
<1> DEFINE r == Read("balance1")
           s == Read("balance2")
           j == Join({A, B})
           new == [t \in {A, B} |-> BankWork(t)]
           o == Start(new)
<1>1. BankReads = <<r, s>> /\ BankMain = <<o, j, r, s>> /\ BankRest = <<j, r, s>>
  BY DEF BankReads, BankMain, BankRest
<1> HIDE DEF r, s, j, o
<1>2. Tail(<<r, s>>) = <<s>>
  OBVIOUS
<1>3. Head(<<o, j, r, s>>) = o /\ Tail(<<o, j, r, s>>) = <<j, r, s>> /\ <<o, j, r, s>> # <<>>
  OBVIOUS
<1> QED
  BY <1>1, <1>2, <1>3 DEF r, s, j, o

\* Main starts the threads.
LEMMA BankFirstStep ==
    ASSUME AllAwake, BankBegun, NEW t \in Threads, LibraryStep(t) \/ UnforcedStep(t)
    PROVE  AllAwake' /\ BankRunning'
<1> USE RoundsAssumption
<1> DEFINE new == [u \in {A, B} |-> BankWork(u)]
           rest == BankRest
           main == BankMain
           objects == BankObjects
           P == [u \in {A, B} |-> 0]
           W == [u \in {A, B} |-> "on"]
<1>1. /\ OnlyMain(main) /\ hb = Before(objects)
      /\ Head(main) = Start(new) /\ Tail(main) = rest
      /\ DOMAIN new = {A, B} /\ new[A] = BankWork(A) /\ new[B] = BankWork(B)
  BY BankMainIs DEF BankBegun
<1>2. \A u \in {A, B} : From(BankWork(u), 0) = BankWork(u)
  <2>1. ASSUME NEW u \in {A, B}
        PROVE  From(BankWork(u), 0) = BankWork(u)
    <3>1. PICK a, b, x, y : BankNamed(u, a, b, x, y)
      BY BankNamesOf
    <3> DEFINE o1 == LockBoth(a, b)
               o2 == BankTest(u)
               o3 == Unlock(a)
               o4 == Unlock(b)
    <3>2. o1 = LockBoth(a, b) /\ o2 = BankTest(u) /\ o3 = Unlock(a) /\ o4 = Unlock(b)
      OBVIOUS
    <3> HIDE DEF o1, o2, o3, o4
    <3>3. Repeats(BankWork(u), <<o1, o2, o3, o4>>, 4, 4 * Rounds)
      BY <3>1, <3>2, BankWorkIs
    <3> QED
      BY <3>3 DEF Repeats
  <2> QED
    BY <2>1
<1>3. /\ DOMAIN mem = objects
      /\ \A v \in Balances : mem[v] = Rounds
      /\ \A m \in Mutexes : mem[m] = {}
  BY DEF BankBegun, BankObjects, Balances, Mutexes
<1>4. /\ P \in [{A, B} -> 0 .. 4 * Rounds] /\ W \in [{A, B} -> BankWays]
      /\ \A u \in {A, B} : P[u] = 0 /\ W[u] = "on"
  BY DEF BankWays
<1> HIDE DEF main, new, objects, rest, P, W
<1>5. /\ DOMAIN code' = Threads
      /\ code'[Main] = rest /\ code'[A] = BankWork(A) /\ code'[B] = BankWork(B)
      /\ code'[C] = <<>> /\ code'[D] = <<>>
      /\ hb' = hb /\ mem' = mem /\ asleep' = asleep
  BY <1>1, FirstStep
<1>6. \A u \in {A, B} : /\ BankNames[u].first \in Mutexes /\ BankNames[u].second \in Mutexes
                        /\ BankNames[u].from \in Balances
  <2>1. ASSUME NEW u \in {A, B}
        PROVE  /\ BankNames[u].first \in Mutexes /\ BankNames[u].second \in Mutexes
               /\ BankNames[u].from \in Balances
    <3>1. PICK a, b, x, y : BankNamed(u, a, b, x, y)
      BY BankNamesOf
    <3>2. Mutexes = {a, b} /\ Balances = {x, y}
      BY <3>1, BankNamesAre
    <3> QED
      BY <3>1, <3>2 DEF BankNamed
  <2> QED
    BY <2>1
<1>7. \A u \in {A, B} : BankAt(u, P[u], W[u])'
  <2>1. \A u \in {A, B} : /\ u \notin mem'[BankNames[u].first]
                          /\ u \notin mem'[BankNames[u].second]
    BY <1>3, <1>5, <1>6
  <2>2. 0 % 4 = 0
    OBVIOUS
  <2> QED
    BY <1>2, <1>4, <1>5, <2>1, <2>2 DEF BankAt, LockWays
<1>8. BankCounts(P, W)'
  <2>1. BankIn(0) = 0 /\ BankOut(0, "on") = 0
    BY DEF BankIn, BankOut
  <2>2. \A u \in {A, B} : mem'[BankNames[u].from] = Rounds
    BY <1>3, <1>5, <1>6
  <2>3. (Rounds - 0) + 0 = Rounds
    OBVIOUS
  <2> QED
    BY <1>4, <2>1, <2>2, <2>3 DEF BankCounts
<1>9. Ordered(hb', objects) /\ \A v, m : Guarded(hb', objects, v, m, {})
  BY <1>1, <1>5, BeforeIs DEF Guarded, Within
<1>10. BankLocks'
  <2>1. mem'["mutex1"] = {} /\ \A m \in Mutexes : mem'[m] = {}
    BY <1>3, <1>5 DEF Mutexes
  <2> QED
    BY <1>9, <2>1 DEF BankLocks, objects
<1>11. BankMemory'
  BY <1>3, <1>5, <1>9 DEF BankMemory, objects
<1> QED
  BY <1>4, <1>5, <1>7, <1>8, <1>10, <1>11 DEF BankRunning, AllAwake, rest

\* Main joins them: no transfer is under way, so the accounts have what they began with.
LEMMA BankJoinStep ==
    ASSUME AllAwake, BankRunning, LibraryStep(Main) \/ UnforcedStep(Main)
    PROVE  AllAwake' /\ BankJoined'
<1> USE RoundsAssumption
<1> DEFINE join == Join({A, B})
           r == Read("balance1")
           s == Read("balance2")
           objects == BankObjects
<1>1. /\ DOMAIN code = Threads /\ code[Main] = <<join, r, s>> /\ Ordered(hb, objects)
      /\ BankReads = <<r, s>>
  BY BankMainIs DEF BankRunning, BankMemory
<1> HIDE DEF objects, r, s
<1>2. code[Main] # <<>> /\ Head(code[Main]) = join /\ <<>> \o Tail(code[Main]) = BankReads
  <2> HIDE DEF join
  <2> QED
    BY <1>1
<1>3. /\ code[A] = <<>> /\ code[B] = <<>>
      /\ Continues(Main, <<>> \o Tail(code[Main]))
      /\ mem' = mem /\ asleep' = asleep
      /\ Ordered(hb', objects)
      /\ \A x : Within(hb', objects, x, hb'.known[Main])
  BY <1>1, <1>2, JoinStep
<1>4. \A v \in Balances : mem[v] = Rounds
  <2>1. PICK P \in [{A, B} -> 0 .. 4 * Rounds], W \in [{A, B} -> BankWays] :
            /\ \A t \in {A, B} : BankAt(t, P[t], W[t])
            /\ BankCounts(P, W)
    BY DEF BankRunning
  <2>2. ASSUME NEW t \in {A, B}
        PROVE  P[t] = 4 * Rounds /\ W[t] = "on"
    <3>1. PICK a, b, x, y : BankNamed(t, a, b, x, y)
      BY BankNamesOf
    <3> DEFINE o1 == LockBoth(a, b)
               o2 == BankTest(t)
               o3 == Unlock(a)
               o4 == Unlock(b)
               ops == <<o1, o2, o3, o4>>
               work == BankWork(t)
               total == 4 * Rounds
               p == P[t]
    <3>2. o1 = LockBoth(a, b) /\ o2 = BankTest(t) /\ o3 = Unlock(a) /\ o4 = Unlock(b)
      OBVIOUS
    <3> HIDE DEF o1, o2, o3, o4
    <3>3. Repeats(work, ops, 4, total)
      BY <3>1, <3>2, BankWorkIs
    <3>4. p \in 0 .. total /\ W[t] \in BankWays /\ code[t] = <<>> /\ BankAt(t, p, W[t])
      BY <1>3, <2>1
    <3>5. ASSUME W[t] # "on"
          PROVE  FALSE
      <4> DEFINE q == p + 1
                 o == IF W[t] = "credit" THEN Add(BankNames[t].to, 1)
                      ELSE Pending(BankNames[t].first, BankNames[t].second, W[t])
                 d == Add(BankNames[t].from, -1)
                 c == Add(BankNames[t].to, 1)
      <4>1. p < total /\ (code[t] = <<o>> \o From(work, q) \/ code[t] = <<d, c>> \o From(work, q))
        BY <3>4, <3>5 DEF BankAt, BankWays, LockWays
      <4>2. q \in 0 .. total
        BY <3>4, <4>1
      <4> HIDE DEF q, o, d, c, work, ops, total, p
      <4>3. <<o>> \o From(work, q) # <<>>
        BY <3>3, <4>2 DEF Repeats
      <4>4. <<d, c>> \o From(work, q) # <<>>
        BY <3>3, <4>2 DEF Repeats
      <4> QED
        BY <3>4, <4>1, <4>3, <4>4
    <3>6. W[t] = "on"
      BY <3>5
    <3>7. From(work, p) = <<>>
      BY <3>4, <3>6 DEF BankAt
    <3>8. p = total
      <4> HIDE DEF work, ops, total, p
      <4> QED
        BY <3>3, <3>4, <3>7 DEF Repeats
    <3> QED
      BY <3>6, <3>8
  <2>3. BankIn(4 * Rounds) = Rounds /\ BankOut(4 * Rounds, "on") = Rounds
    <3>1. (4 * Rounds + 2) \div 4 = Rounds
      OBVIOUS
    <3> QED
      BY <3>1 DEF BankIn, BankOut
  <2>4. \A t \in {A, B} : mem[BankNames[t].from] = Rounds
    <3>1. ASSUME NEW t \in {A, B}
          PROVE  mem[BankNames[t].from] = Rounds
      <4>1. PICK other \in {A, B} : other # t
        BY ThreadsDiffer
      <4>2. mem[BankNames[t].from] = (Rounds - BankOut(P[t], W[t])) + BankIn(P[other])
        BY <2>1, <4>1 DEF BankCounts
      <4>3. BankOut(P[t], W[t]) = Rounds /\ BankIn(P[other]) = Rounds
        BY <2>2, <2>3
      <4> QED
        BY <4>2, <4>3
    <3> QED
      BY <3>1
  <2>5. PICK a, b, x, y : BankNamed(A, a, b, x, y)
    BY BankNamesOf
  <2>6. Balances = {x, y} /\ BankNamed(B, b, a, y, x)
    BY <2>5, BankNamesAre, ThreadsDiffer
  <2> QED
    BY <2>4, <2>5, <2>6 DEF BankNamed
<1>5. /\ code'[Main] = BankReads /\ code'[A] = <<>> /\ code'[B] = <<>>
      /\ code'[C] = <<>> /\ code'[D] = <<>> /\ DOMAIN code' = Threads
  BY <1>2, <1>3, ThreadsDiffer DEF Continues, BankRunning, BankMemory, Threads
<1>6. BankMemory'
  BY <1>3, <1>5 DEF BankRunning, BankMemory, objects
<1>7. mem'.balance1 = Rounds /\ mem'.balance2 = Rounds
  BY <1>3, <1>4 DEF Balances
<1>8. \A v \in Balances : Within(hb', BankObjects, v, hb'.known[Main])
  BY <1>3 DEF objects
<1> QED
  BY <1>3, <1>5, <1>6, <1>7, <1>8 DEF BankJoined, AllAwake

\* Main reads the accounts.
LEMMA BankReadStep ==
    ASSUME AllAwake, BankJoined, NEW t \in Threads, LibraryStep(t) \/ UnforcedStep(t)
    PROVE  AllAwake' /\ BankJoined'
<1> DEFINE objects == BankObjects
           r == Read("balance1")
           s == Read("balance2")
<1>1. asleep[t] = Awake
  BY DEF AllAwake
<1>2. code[t] # <<>>
  BY <1>1, OperationOfStep
<1>3. t = Main /\ t \in {Main, A, B} /\ code[Main] \in {BankReads, Tail(BankReads)}
  BY <1>2, ThreadsDiffer DEF BankJoined, BankMemory
<1>4. PICK v \in Balances :
          /\ Now(t) = Read(v)
          /\ <<>> \o Tail(code[t]) \in {Tail(BankReads), <<>>}
  <2>1. r = Read("balance1") /\ s = Read("balance2")
    OBVIOUS
  <2>2. BankReads = <<r, s>> /\ Tail(BankReads) = <<s>>
    BY BankMainIs
  <2> HIDE DEF r, s
  <2>3. CASE code[t] = BankReads
    <3>1. Now(t) = r /\ <<>> \o Tail(code[t]) = <<s>>
      BY <2>2, <2>3 DEF Now
    <3> QED
      BY <2>1, <2>2, <3>1 DEF Balances
  <2>4. CASE code[t] = Tail(BankReads)
    <3>1. Now(t) = s /\ <<>> \o Tail(code[t]) = <<>>
      BY <2>2, <2>4 DEF Now
    <3> QED
      BY <2>1, <3>1 DEF Balances
  <2> QED
    BY <1>3, <2>3, <2>4
<1>5. ReadVariable(t)
  <2>1. Now(t).op = "read"
    BY <1>4 DEF Read
  <2> QED
    BY <1>1, <2>1, OperationOfStep
<1>6. /\ DOMAIN code = Threads /\ Ordered(hb, objects) /\ v \in objects
      /\ \A z \in Balances : Within(hb, objects, z, hb.known[t])
  BY <1>3 DEF BankJoined, BankMemory, BankObjects, Balances
<1>7. /\ hb' = Reads(hb, t, {v}) /\ Continues(t, <<>> \o Tail(code[t]))
      /\ mem' = mem /\ asleep' = asleep
  BY <1>4, <1>5, <1>6, ReadIs
<1> HIDE DEF objects
<1>8. Ordered(hb', objects) /\ Within(hb', objects, v, hb'.known[t]) /\ SameBut(hb', hb, objects, v)
  BY <1>3, <1>6, <1>7, ReadsIs
<1>9. \A z \in Balances : Within(hb', objects, z, hb'.known[t])
  <2>1. ASSUME NEW z \in Balances, z # v
        PROVE  Within(hb', objects, z, hb'.known[t])
    BY <1>6, <1>8, <2>1 DEF Within, SameBut
  <2> QED
    BY <1>8, <2>1
<1>10. /\ DOMAIN code' = Threads /\ code'[Main] \in {Tail(BankReads), <<>>}
       /\ code'[A] = <<>> /\ code'[B] = <<>> /\ code'[C] = <<>> /\ code'[D] = <<>>
  BY <1>3, <1>4, <1>7, ThreadsDiffer DEF BankJoined, BankMemory, Continues, Threads
<1>11. BankMemory'
  BY <1>7, <1>8, <1>10 DEF BankJoined, BankMemory, objects
<1> QED
  BY <1>3, <1>7, <1>9, <1>10, <1>11 DEF BankJoined, AllAwake, objects

\* Every step keeps the invariant,
LEMMA BankStep ==
    ASSUME BankInv, NEW t \in Threads, LibraryStep(t) \/ UnforcedStep(t)
    PROVE  BankInv'
<1>1. CASE BankBegun
  BY <1>1, BankFirstStep DEF BankInv
<1>2. CASE BankRunning
  <2>1. t \in {Main, A, B}
    <3>1. code[t] # <<>>
      BY OperationOfStep DEF BankInv, AllAwake
    <3> QED
      BY <1>2, <3>1, ThreadsDiffer DEF BankRunning, BankMemory
  <2>2. CASE t = Main
    BY <1>2, <2>2, BankJoinStep DEF BankInv
  <2>3. CASE t \in {A, B}
    BY <1>2, <2>3, BankWorkerStep DEF BankInv
  <2> QED
    BY <2>1, <2>2, <2>3
<1>3. CASE BankJoined
  BY <1>3, BankReadStep DEF BankInv
<1> QED
  BY <1>1, <1>2, <1>3 DEF BankInv

\* Three lists, of one, one and two elements, one after the other.
LEMMA ListOf4 ==
    ASSUME NEW a, NEW b, NEW c, NEW d
    PROVE  <<a>> \o <<b>> \o <<c, d>> = <<a, b, c, d>>
<1> DEFINE S == {a, b, c, d}
           r == <<a>> \o <<b>> \o <<c, d>>
           s == <<a, b, c, d>>
<1>1. <<a>> \o <<b>> \in Seq(S) /\ Len(<<a>> \o <<b>>) = 2
  OBVIOUS
<1>2. (<<a>> \o <<b>>)[1] = a /\ (<<a>> \o <<b>>)[2] = b
  OBVIOUS
<1>3. r \in Seq(S) /\ Len(r) = 4
  BY <1>1
<1>4. r[1] = a /\ r[2] = b /\ r[3] = c /\ r[4] = d
  BY <1>1, <1>2
<1>5. s \in Seq(S) /\ Len(s) = 4
  OBVIOUS
<1>6. s[1] = a /\ s[2] = b /\ s[3] = c /\ s[4] = d
  OBVIOUS
<1> HIDE DEF r, s
<1>7. r = s
  BY <1>3, <1>4, <1>5, <1>6
<1> QED
  BY <1>7 DEF r, s

\* it holds at first,
LEMMA BankInit ==
    ASSUME Init, Running = BankTransferDemo
    PROVE  BankInv
<1> DEFINE first  == [balance |-> "balance1", mutex |-> "mutex1"]
           second == [balance |-> "balance2", mutex |-> "mutex2"]
           worker(t) == Times(Rounds, IF t = A THEN Transfer(first, second, 1)
                                      ELSE Transfer(second, first, 1))
           new == [t \in {A, B} |-> worker(t)]
           there == Transfer(first, second, 1)
           back  == Transfer(second, first, 1)
<1>1. /\ Running.objects = [balance1 |-> Rounds, balance2 |-> Rounds, mutex1 |-> {}, mutex2 |-> {}]
      /\ Running.main = <<Start(new), Join({A, B}), Read("balance1"), Read("balance2")>>
  BY DEF BankTransferDemo, Demo
<1>2. first # second
  <2>1. first.balance # second.balance
    OBVIOUS
  <2> QED
    BY <2>1
<1>3. there = <<LockBoth("mutex1", "mutex2"),
                If(<<Less("balance1", 1)>>, <<>>, <<Add("balance1", -1), Add("balance2", 1)>>),
                Unlock("mutex1"), Unlock("mutex2")>>
  <2> DEFINE a == LockBoth("mutex1", "mutex2")
             b == If(<<Less("balance1", 1)>>, <<>>, <<Add("balance1", -1), Add("balance2", 1)>>)
             c == Unlock("mutex1")
             d == Unlock("mutex2")
  <2>1. there = <<a>> \o <<b>> \o <<c, d>>
    BY <1>2 DEF Transfer, ScopedLock
  <2> HIDE DEF a, b, c, d
  <2>2. <<a>> \o <<b>> \o <<c, d>> = <<a, b, c, d>>
    BY ListOf4
  <2> QED
    BY <2>1, <2>2 DEF a, b, c, d
<1>4. back = <<LockBoth("mutex2", "mutex1"),
               If(<<Less("balance2", 1)>>, <<>>, <<Add("balance2", -1), Add("balance1", 1)>>),
               Unlock("mutex2"), Unlock("mutex1")>>
  <2> DEFINE a == LockBoth("mutex2", "mutex1")
             b == If(<<Less("balance2", 1)>>, <<>>, <<Add("balance2", -1), Add("balance1", 1)>>)
             c == Unlock("mutex2")
             d == Unlock("mutex1")
  <2>1. back = <<a>> \o <<b>> \o <<c, d>>
    BY <1>2 DEF Transfer, ScopedLock
  <2> HIDE DEF a, b, c, d
  <2>2. <<a>> \o <<b>> \o <<c, d>> = <<a, b, c, d>>
    BY ListOf4
  <2> QED
    BY <2>1, <2>2 DEF a, b, c, d
<1>5. \A t \in {A, B} : worker(t) = BankWork(t)
  <2>1. worker(A) = Times(Rounds, there) /\ worker(B) = Times(Rounds, back)
    BY ThreadsDiffer
  <2> HIDE DEF there, back
  <2>2. BankWork(A) = Times(Rounds, there) /\ BankWork(B) = Times(Rounds, back)
    BY <1>3, <1>4, ThreadsDiffer DEF BankWork, BankTest, BankNames
  <2> HIDE DEF worker
  <2> QED
    BY <2>1, <2>2
<1> HIDE DEF worker
<1>6. new = [t \in {A, B} |-> BankWork(t)]
  BY <1>5
<1> HIDE DEF new
<1>7. Running.main = BankMain
  BY <1>1, <1>6 DEF BankMain
<1>8. DOMAIN Running.objects = BankObjects
  BY <1>1 DEF BankObjects
<1> QED
  BY <1>1, <1>7, <1>8 DEF Init, BankInv, BankBegun, OnlyMain, AllAwake

\* No account is overdrawn, and none gets more than there is.
LEMMA BankWithin ==
    ASSUME BankInv
    PROVE  mem["balance1"] \in 0 .. 2 * Rounds /\ mem["balance2"] \in 0 .. 2 * Rounds
<1> USE RoundsAssumption
<1>1. CASE BankBegun
  BY <1>1 DEF BankBegun
<1>2. CASE BankRunning
  <2>1. PICK P \in [{A, B} -> 0 .. 4 * Rounds], W \in [{A, B} -> BankWays] :
            /\ \A t \in {A, B} : BankAt(t, P[t], W[t])
            /\ BankCounts(P, W)
    BY <1>2 DEF BankRunning
  <2>2. ASSUME NEW t \in {A, B}
        PROVE  BankIn(P[t]) \in 0 .. Rounds /\ BankOut(P[t], W[t]) \in 0 .. Rounds
    <3> DEFINE p == P[t]
    <3>1. p \in Nat /\ p <= 4 * Rounds /\ Rounds \in Nat
      BY <2>1
    <3>2. W[t] = "credit" => p % 4 = 1 /\ p < 4 * Rounds
      BY <2>1 DEF BankAt
    <3> HIDE DEF p
    <3>3. BankIn(p) \in Nat /\ BankIn(p) <= Rounds /\ (p < 4 * Rounds /\ p % 4 = 1 => BankIn(p) < Rounds)
      BY <3>1, Fourths DEF BankIn
    <3>4. BankOut(p, W[t]) \in 0 .. Rounds
      BY <3>1, <3>2, <3>3 DEF BankOut
    <3> QED
      BY <3>1, <3>3, <3>4 DEF p
  <2>3. ASSUME NEW t \in {A, B}
        PROVE  mem[BankNames[t].from] \in 0 .. 2 * Rounds
    <3>1. PICK other \in {A, B} : other # t
      BY ThreadsDiffer
    <3> DEFINE o == BankOut(P[t], W[t])
               i == BankIn(P[other])
    <3>2. mem[BankNames[t].from] = (Rounds - o) + i
      BY <2>1, <3>1 DEF BankCounts
    <3>3. o \in 0 .. Rounds /\ i \in 0 .. Rounds
      BY <2>2
    <3> HIDE DEF o, i
    <3> QED
      BY <3>2, <3>3
  <2>4. PICK a, b, x, y : BankNamed(A, a, b, x, y)
    BY BankNamesOf
  <2>5. Balances = {x, y} /\ BankNamed(B, b, a, y, x)
    BY <2>4, BankNamesAre, ThreadsDiffer
  <2>6. \A v \in Balances : mem[v] \in 0 .. 2 * Rounds
    BY <2>3, <2>4, <2>5 DEF BankNamed
  <2> QED
    BY <2>6 DEF Balances
<1>3. CASE BankJoined
  BY <1>3 DEF BankJoined
<1> QED
  BY <1>1, <1>2, <1>3 DEF BankInv

\* The invariant says that the demo is right.
LEMMA BankShows ==
    ASSUME BankInv, Running = BankTransferDemo
    PROVE  RaceFree /\ AsPrinted /\ WithinLimits
<1>1. RaceFree
  BY DEF BankInv, BankBegun, BankRunning, BankJoined, BankMemory, Before, Ordered, Ordering, RaceFree
<1>2. ASSUME Done
      PROVE  mem.balance1 = Rounds /\ mem.balance2 = Rounds
  <2>1. code[Main] = <<>>
    BY <1>2 DEF Done, Threads
  <2>2. ~BankBegun
    BY <2>1, BankMainIs DEF BankBegun, OnlyMain, Threads
  <2>3. ~BankRunning
    BY <2>1, BankMainIs DEF BankRunning
  <2> QED
    BY <2>2, <2>3 DEF BankInv, BankJoined
<1>3. /\ Running.final = [balance1 : {Rounds}, balance2 : {Rounds}]
      /\ Running.always = [balance1 |-> 0 .. 2 * Rounds, balance2 |-> 0 .. 2 * Rounds]
  BY DEF BankTransferDemo, Demo
<1>4. AsPrinted
  <2> DEFINE f == [balance1 |-> Rounds, balance2 |-> Rounds]
  <2>1. f \in Running.final /\ \A z \in DOMAIN f : Done => mem[z] = f[z]
    BY <1>2, <1>3
  <2> QED
    BY <2>1 DEF AsPrinted
<1>5. WithinLimits
  <2> DEFINE always == [balance1 |-> 0 .. 2 * Rounds, balance2 |-> 0 .. 2 * Rounds]
  <2>1. always["balance1"] = 0 .. 2 * Rounds /\ always["balance2"] = 0 .. 2 * Rounds
    OBVIOUS
  <2>2. DOMAIN always = {"balance1", "balance2"}
    OBVIOUS
  <2>3. Running.always = always
    BY <1>3
  <2> HIDE DEF always
  <2>4. \A z \in DOMAIN Running.always : mem[z] \in Running.always[z]
    BY <2>1, <2>2, <2>3, BankWithin
  <2> QED
    BY <2>4 DEF WithinLimits
<1> QED
  BY <1>1, <1>4, <1>5

-----------------------------------------------------------------------------
(* CancellationGranularityDemo *)

\* The objects, and what the worker and main do; the second request is the
\* destructor's.
CancelObjects == {"source", "first", "stoppedBefore", "completed"}
CancelCheck == IfStopRequested("source", <<Note("stoppedBefore"), Return>>, <<>>)
CancelWork == Times(Rounds, <<CancelCheck>>) \o <<Note("completed")>>
CancelAsk == RequestStop("source", "first")
CancelMain == <<Start([t \in {A} |-> CancelWork]), CancelAsk, CancelAsk, Join({A})>>
CancelLeft == {<<CancelAsk, CancelAsk, Join({A})>>, <<CancelAsk, Join({A})>>, <<Join({A})>>, <<>>}

\* Main has not started the worker.
CancelBegun ==
    /\ OnlyMain(CancelMain)
    /\ hb = Before(CancelObjects)
    /\ mem = [source |-> StopState, first |-> FALSE, stoppedBefore |-> Silent, completed |-> Silent]

\* The source has no callback, and only main writes the answer to its request.
CancelMemory ==
    /\ DOMAIN code = Threads /\ code[B] = <<>> /\ code[C] = <<>> /\ code[D] = <<>>
    /\ DOMAIN mem = CancelObjects
    /\ mem.source \in [requested : BOOLEAN, callback : {<<>>}, running : {FALSE}]
    /\ Ordered(hb, CancelObjects)
    /\ Within(hb, CancelObjects, "first", hb.known[Main])

\* The worker has printed nothing, or that it was stopped and then it does
\* nothing else, or that it has completed its chunks.
CancelQuiet ==
    /\ mem.stoppedBefore = {} /\ mem.completed = {}
    /\ \E p \in 0 .. Rounds :
          \/ code[A] = From(CancelWork, p)
          \/ code[A] = <<Note("stoppedBefore"), Return>> \o From(CancelWork, p)

\* It has said that it was stopped.
CancelStopped ==
    /\ mem.stoppedBefore = {A} /\ mem.completed = {}
    /\ \/ code[A] = <<>>
       \/ \E p \in 0 .. Rounds : code[A] = <<Return>> \o From(CancelWork, p)

\* It has said that it completed.
CancelCompleted ==
    /\ mem.stoppedBefore = {} /\ mem.completed = {A}
    /\ code[A] = <<>>

\* The worker has been started.
CancelRunning ==
    /\ CancelMemory
    /\ code[Main] \in CancelLeft
    /\ CancelQuiet \/ CancelStopped \/ CancelCompleted

\* The inductive invariant of the demo.
CancelInv == AllAwake /\ (CancelBegun \/ CancelRunning)

\* The list of the worker: a test for each chunk, then the line.
LEMMA CancelWorkIs ==
    ASSUME NEW p \in 0 .. Rounds
    PROVE  /\ From(CancelWork, 0) = CancelWork
           /\ From(CancelWork, p) # <<>>
           /\ p < Rounds => /\ Head(From(CancelWork, p)) = CancelCheck
                            /\ Tail(From(CancelWork, p)) = From(CancelWork, p + 1)
           /\ p = Rounds => /\ Head(From(CancelWork, p)) = Note("completed")
                            /\ Tail(From(CancelWork, p)) = <<>>
           /\ <<>> \o From(CancelWork, p) = From(CancelWork, p)
           /\ \A o : /\ <<o>> \o From(CancelWork, p) # <<>>
                     /\ Head(<<o>> \o From(CancelWork, p)) = o
                     /\ Tail(<<o>> \o From(CancelWork, p)) = From(CancelWork, p)
                     /\ <<>> \o (<<o>> \o From(CancelWork, p)) = <<o>> \o From(CancelWork, p)
           /\ \A o, r : /\ <<o, r>> \o From(CancelWork, p) # <<>>
                        /\ Head(<<o, r>> \o From(CancelWork, p)) = o
                        /\ Tail(<<o, r>> \o From(CancelWork, p)) = <<r>> \o From(CancelWork, p)
<1> USE RoundsAssumption
<1> DEFINE c == CancelCheck
           e == Note("completed")
           S == {c, e}
           ops == <<c>>
           chunks == Times(Rounds, ops)
           work == CancelWork
<1>1. /\ chunks \in Seq(S) /\ Len(chunks) = Rounds
      /\ \A j \in 0 .. Rounds - 1 : chunks[j + 1] = c
  <2> HIDE DEF c, e
  <2>1. ops \in Seq(S) /\ Len(ops) = 1 /\ Len(ops) > 0 /\ ops[1] = c
    OBVIOUS
  <2> HIDE DEF ops
  <2>2. /\ Times(Rounds, ops) \in Seq(S)
        /\ Len(Times(Rounds, ops)) = Rounds * Len(ops)
        /\ \A j \in 0 .. Rounds * Len(ops) - 1 : Times(Rounds, ops)[j + 1] = ops[(j % Len(ops)) + 1]
    BY <2>1, TimesIs
  <2>3. Rounds * Len(ops) = Rounds /\ \A j \in 0 .. Rounds - 1 : (j % Len(ops)) + 1 = 1
    BY <2>1
  <2> QED
    BY <2>1, <2>2, <2>3
<1>2. work = chunks \o <<e>>
  BY DEF CancelWork
<1> HIDE DEF chunks, c, e, work
<1>3. /\ work \in Seq(S) /\ Len(work) = Rounds + 1
      /\ work[Rounds + 1] = e /\ \A j \in 0 .. Rounds - 1 : work[j + 1] = c
  BY <1>1, <1>2
<1> HIDE DEF S
<1>4. p \in 0 .. Len(work) /\ p < Len(work)
  BY <1>3
<1>5. /\ From(work, p) \in Seq(S)
      /\ From(work, p) = <<>> <=> p = Len(work)
      /\ Head(From(work, p)) = work[p + 1]
      /\ Tail(From(work, p)) = From(work, p + 1)
      /\ From(work, 0) = work
      /\ <<>> \o From(work, p) = From(work, p)
  <2>1. work \in Seq(S)
    BY <1>3
  <2>2. /\ From(work, p) \in Seq(S)
        /\ From(work, p) = <<>> <=> p = Len(work)
        /\ p < Len(work) => /\ Head(From(work, p)) = work[p + 1]
                            /\ Tail(From(work, p)) = From(work, p + 1)
        /\ From(work, 0) = work
        /\ <<>> \o From(work, p) = From(work, p)
    BY <1>4, <2>1, FromIs
  <2> QED
    BY <1>4, <2>2
<1>6. p = Rounds => From(work, p + 1) = <<>>
  <2>1. From(work, Len(work)) = <<>>
    <3>1. Len(work) \in 0 .. Len(work)
      BY <1>3
    <3> QED
      BY <1>3, <3>1, FromIs
  <2> QED
    BY <1>3, <2>1
<1>7. \A o : /\ <<o>> \o From(work, p) # <<>>
             /\ Head(<<o>> \o From(work, p)) = o
             /\ Tail(<<o>> \o From(work, p)) = From(work, p)
             /\ <<>> \o (<<o>> \o From(work, p)) = <<o>> \o From(work, p)
  BY <1>5, ConsIs, ConsAlone
<1>8. \A o, r : /\ <<o, r>> \o From(work, p) # <<>>
                /\ Head(<<o, r>> \o From(work, p)) = o
                /\ Tail(<<o, r>> \o From(work, p)) = <<r>> \o From(work, p)
  BY <1>5, Cons2Is
<1>9. /\ p < Rounds => Head(From(work, p)) = c
      /\ p = Rounds => Head(From(work, p)) = e
  BY <1>3, <1>5
<1>10. From(work, p) # <<>>
  BY <1>4, <1>5
<1> QED
  BY <1>5, <1>6, <1>7, <1>8, <1>9, <1>10 DEF work, c, e

\* Main starts the worker.
LEMMA CancelFirstStep ==
    ASSUME AllAwake, CancelBegun, NEW t \in Threads, LibraryStep(t) \/ UnforcedStep(t)
    PROVE  AllAwake' /\ CancelRunning'
<1> USE RoundsAssumption
<1> DEFINE new == [u \in {A} |-> CancelWork]
           join == Join({A})
           rest == <<CancelAsk, CancelAsk, join>>
           main == CancelMain
           objects == CancelObjects
<1>1. Head(main) = Start(new) /\ Tail(main) = rest /\ new[A] = CancelWork /\ DOMAIN new = {A}
  <2> DEFINE s == Start(new)
             ask == CancelAsk
  <2>1. main = <<s, ask, ask, join>> /\ rest = <<ask, ask, join>>
    BY DEF CancelMain
  <2> HIDE DEF s, join, ask
  <2>2. Head(<<s, ask, ask, join>>) = s /\ Tail(<<s, ask, ask, join>>) = <<ask, ask, join>>
    OBVIOUS
  <2>3. Head(main) = s /\ Tail(main) = rest
    BY <2>1, <2>2
  <2> QED
    BY <2>3 DEF s
<1>2. rest \in CancelLeft
  BY DEF CancelLeft
<1> HIDE DEF main, new, rest, objects
<1>3. OnlyMain(main) /\ hb = Before(objects)
  BY DEF CancelBegun, main, objects
<1>4. /\ DOMAIN code = Threads /\ code[Main] = main
      /\ code[A] = <<>> /\ code[B] = <<>> /\ code[C] = <<>> /\ code[D] = <<>>
  BY <1>3, ThreadsDiffer DEF OnlyMain, Threads
<1>5. asleep[t] = Awake
  BY DEF AllAwake
<1>6. code[t] # <<>>
  BY <1>5, OperationOfStep
<1>7. t = Main
  BY <1>3, <1>6 DEF OnlyMain
<1>8. Now(Main) = Start(new) /\ Now(Main).op = "start" /\ Now(Main).programs = new
  BY <1>1, <1>4 DEF Now, Start
<1>9. StartThreads(Main)
  BY <1>5, <1>7, <1>8, OperationOfStep
<1>10. /\ code' = [u \in Threads |-> IF u = Main THEN Tail(code[Main])
                                     ELSE IF u \in {A} THEN new[u] ELSE code[u]]
       /\ hb' = [hb EXCEPT !.known = [u \in Threads |->
                         IF u \in {A} THEN @[u] \cup @[Main] ELSE @[u]]]
       /\ mem' = mem /\ asleep' = asleep
  BY <1>1, <1>8, <1>9 DEF StartThreads
<1>11. /\ DOMAIN code' = Threads /\ code'[Main] = rest /\ code'[A] = CancelWork
       /\ code'[B] = <<>> /\ code'[C] = <<>> /\ code'[D] = <<>>
  BY <1>1, <1>4, <1>10, ThreadsDiffer DEF Threads
<1>12. hb' = hb
  <2> DEFINE K == [u \in Threads |-> IF u \in {A} THEN hb.known[u] \cup hb.known[Main]
                                      ELSE hb.known[u]]
  <2>1. hb' = [hb EXCEPT !.known = K]
    BY <1>10
  <2>2. hb.known = [u \in Threads |-> {}] /\ Main \in Threads
    BY <1>3 DEF Before, Threads
  <2>3. K = hb.known
    BY <2>2
  <2> HIDE DEF K
  <2> QED
    BY <1>3, <2>1, <2>3 DEF Before
<1>13. Ordered(hb', objects) /\ Within(hb', objects, "first", hb'.known[Main])
  BY <1>3, <1>12, BeforeIs DEF Within
<1>14. /\ DOMAIN mem = CancelObjects
       /\ mem.source \in [requested : BOOLEAN, callback : {<<>>}, running : {FALSE}]
       /\ mem.stoppedBefore = {} /\ mem.completed = {}
  BY DEF CancelBegun, CancelObjects, StopState, Silent
<1>15. CancelMemory'
  BY <1>10, <1>11, <1>13, <1>14 DEF CancelMemory, objects
<1>16. 0 \in 0 .. Rounds /\ From(CancelWork, 0) = CancelWork
  BY CancelWorkIs
<1>17. CancelQuiet'
  BY <1>10, <1>11, <1>14, <1>16 DEF CancelQuiet
<1> QED
  BY <1>2, <1>10, <1>11, <1>15, <1>17 DEF CancelRunning, AllAwake

\* What main still has to do.
LEMMA CancelLeftIs ==
    ASSUME code[Main] \in CancelLeft, code[Main] # <<>>
    PROVE  /\ Tail(code[Main]) \in CancelLeft
           /\ <<>> \o Tail(code[Main]) = Tail(code[Main])
           /\ Now(Main) = CancelAsk \/ (Now(Main) = Join({A}) /\ Tail(code[Main]) = <<>>)
<1> DEFINE ask == CancelAsk
           join == Join({A})
<1>1. CancelLeft = {<<ask, ask, join>>, <<ask, join>>, <<join>>, <<>>}
  BY DEF CancelLeft
<1> HIDE DEF ask, join
<1>2. CASE code[Main] = <<ask, ask, join>>
  <2>1. Tail(<<ask, ask, join>>) = <<ask, join>> /\ Head(<<ask, ask, join>>) = ask
    OBVIOUS
  <2>2. <<>> \o <<ask, join>> = <<ask, join>>
    OBVIOUS
  <2> QED
    BY <1>1, <1>2, <2>1, <2>2 DEF Now, ask
<1>3. CASE code[Main] = <<ask, join>>
  <2>1. Tail(<<ask, join>>) = <<join>> /\ Head(<<ask, join>>) = ask
    OBVIOUS
  <2>2. <<>> \o <<join>> = <<join>>
    OBVIOUS
  <2> QED
    BY <1>1, <1>3, <2>1, <2>2 DEF Now, ask
<1>4. CASE code[Main] = <<join>>
  <2>1. Tail(<<join>>) = <<>> /\ Head(<<join>>) = join
    OBVIOUS
  <2>2. <<>> \o <<>> = <<>>
    OBVIOUS
  <2> QED
    BY <1>1, <1>4, <2>1, <2>2 DEF Now, join
<1> QED
  BY <1>1, <1>2, <1>3, <1>4

\* Main asks for the stop, or joins the worker.
LEMMA CancelMainStep ==
    ASSUME AllAwake, CancelRunning, LibraryStep(Main) \/ UnforcedStep(Main)
    PROVE  AllAwake' /\ CancelRunning'
<1> DEFINE objects == CancelObjects
           left == Tail(code[Main])
<1>1. /\ asleep[Main] = Awake /\ Main \in Threads /\ DOMAIN code = Threads
      /\ DOMAIN mem = CancelObjects /\ Ordered(hb, objects)
      /\ Within(hb, objects, "first", hb.known[Main])
      /\ code[Main] \in CancelLeft
  BY DEF AllAwake, Threads, CancelRunning, CancelMemory
<1>2. code[Main] # <<>>
  BY <1>1, OperationOfStep
<1>3. /\ left \in CancelLeft /\ <<>> \o Tail(code[Main]) = left
      /\ Now(Main) = CancelAsk \/ Now(Main) = Join({A})
  BY <1>1, <1>2, CancelLeftIs
<1>4. "first" \in objects /\ "source" \in objects /\ Main \in {Main, A, B}
  BY DEF CancelObjects
<1> HIDE DEF objects, left
<1>5. CASE Now(Main) = CancelAsk
  <2>1. /\ Now(Main).op = "requestStop" /\ Now(Main).obj = "source" /\ Now(Main).into = "first"
    BY <1>5 DEF CancelAsk, RequestStop
  <2>2. RequestTheStop(Main)
    BY <1>1, <2>1, OperationOfStep
  <2> DEFINE s == mem["source"]
             g == Sees(hb, Main, "source")
             h == Shows(g, Main, "source")
  <2>3. s.callback = <<>>
    BY DEF CancelRunning, CancelMemory
  <2>4. /\ mem' = [mem EXCEPT !["source"] = IF s.requested THEN s
                                             ELSE [s EXCEPT !.requested = TRUE,
                                                            !.running = s.callback # <<>>],
                              !["first"] = ~s.requested]
        /\ hb' = Writes(h, Main, "first")
        /\ Goto(Main, <<>> \o Tail(code[Main]))
        /\ asleep' = asleep
    BY <2>1, <2>2, <2>3 DEF RequestTheStop, Instead
  <2>5. Continues(Main, left)
    BY <1>1, <1>3, <2>4, GotoIs
  <2>6. /\ DOMAIN mem' = CancelObjects
        /\ mem'.source \in [requested : BOOLEAN, callback : {<<>>}, running : {FALSE}]
        /\ mem'.stoppedBefore = mem.stoppedBefore /\ mem'.completed = mem.completed
    BY <1>1, <2>3, <2>4 DEF CancelObjects, CancelRunning, CancelMemory
  <2> HIDE DEF g, h
  <2>7. /\ Ordered(g, objects)
        /\ Within(g, objects, "first", g.known[Main])
    <3>1. /\ Ordered(g, objects)
          /\ g.known[Main] = hb.known[Main] \cup hb.shown["source"]
          /\ \A a \in Accesses(objects) : Made(g, a) <=> Made(hb, a)
      BY <1>1, <1>4, SeesIs DEF g
    <3> QED
      BY <1>1, <3>1 DEF Within
  <2>8. /\ Ordered(h, objects)
        /\ Within(h, objects, "first", h.known[Main])
    <3>1. /\ Ordered(h, objects)
          /\ h.known = g.known
          /\ \A a \in Accesses(objects) : Made(h, a) <=> Made(g, a)
      BY <1>1, <1>4, <2>7, ShowsIs DEF h
    <3> QED
      BY <2>7, <3>1 DEF Within
  <2>9. Ordered(hb', objects) /\ Within(hb', objects, "first", hb'.known[Main])
    <3> DEFINE f == "first"
               k == hb'
    <3>1. f \in objects /\ Within(h, objects, f, h.known[Main]) /\ k = Writes(h, Main, f)
      BY <1>4, <2>4, <2>8
    <3> HIDE DEF f, k
    <3>2. Ordered(k, objects) /\ Within(k, objects, f, k.known[Main])
      BY <1>4, <2>8, <3>1, WritesIs
    <3> QED
      BY <3>2 DEF f, k
  <2>10. /\ DOMAIN code' = Threads /\ code'[Main] = left /\ code'[A] = code[A]
         /\ code'[B] = <<>> /\ code'[C] = <<>> /\ code'[D] = <<>>
    BY <2>5, ThreadsDiffer DEF Continues, Threads, CancelRunning, CancelMemory
  <2>11. CancelMemory'
    BY <2>6, <2>9, <2>10 DEF CancelMemory, objects
  <2>12. (CancelQuiet \/ CancelStopped \/ CancelCompleted)'
    BY <2>6, <2>10 DEF CancelRunning, CancelQuiet, CancelStopped, CancelCompleted
  <2> QED
    BY <1>3, <2>4, <2>10, <2>11, <2>12 DEF CancelRunning, AllAwake
<1>6. CASE Now(Main) = Join({A})
  <2>1. Now(Main).op = "join" /\ Now(Main).who = {A}
    BY <1>6 DEF Join
  <2>2. JoinThreads(Main)
    BY <1>1, <2>1, OperationOfStep
  <2>3. /\ hb' = [hb EXCEPT !.known[Main] = @ \cup UNION {hb.known[u] : u \in {A}}]
        /\ Goto(Main, <<>> \o Tail(code[Main]))
        /\ mem' = mem /\ asleep' = asleep
    BY <2>1, <2>2 DEF JoinThreads, Proceed, Instead
  <2>4. Continues(Main, left)
    BY <1>1, <1>3, <2>3, GotoIs
  <2> DEFINE S == hb.known[A]
  <2>5. S \in SUBSET Accesses(objects) /\ \A a \in S : Made(hb, a)
    <3>1. A \in Threads
      BY DEF Threads
    <3> QED
      BY <1>1, <3>1 DEF Ordered, Ordering
  <2>6. hb' = Learns(hb, Main, S)
    <3>1. UNION {hb.known[u] : u \in {A}} = hb.known[A]
      OBVIOUS
    <3> QED
      BY <2>3, <3>1 DEF Learns
  <2> HIDE DEF S
  <2>7. /\ Ordered(hb', objects)
        /\ hb'.known[Main] = hb.known[Main] \cup S
        /\ \A a \in Accesses(objects) : Made(hb', a) <=> Made(hb, a)
    BY <1>1, <2>5, <2>6, LearnIs
  <2>8. Within(hb', objects, "first", hb'.known[Main])
    BY <1>1, <2>7 DEF Within
  <2>9. /\ DOMAIN code' = Threads /\ code'[Main] = left /\ code'[A] = code[A]
        /\ code'[B] = <<>> /\ code'[C] = <<>> /\ code'[D] = <<>>
    BY <2>4, ThreadsDiffer DEF Continues, Threads, CancelRunning, CancelMemory
  <2>10. CancelMemory'
    BY <2>3, <2>7, <2>8, <2>9 DEF CancelMemory, objects, CancelRunning
  <2>11. (CancelQuiet \/ CancelStopped \/ CancelCompleted)'
    BY <2>3, <2>9 DEF CancelRunning, CancelQuiet, CancelStopped, CancelCompleted
  <2> QED
    BY <1>3, <2>3, <2>9, <2>10, <2>11 DEF CancelRunning, AllAwake
<1> QED
  BY <1>3, <1>5, <1>6

\* Within stays true of what the worker does: it writes nothing.
LEMMA CancelSees ==
    ASSUME Ordered(hb, CancelObjects), Within(hb, CancelObjects, "first", hb.known[Main]),
           hb' = hb \/ hb' = Sees(hb, A, "source")
    PROVE  Ordered(hb', CancelObjects) /\ Within(hb', CancelObjects, "first", hb'.known[Main])
<1> DEFINE objects == CancelObjects
           source == "source"
           g == hb'
<1>1. source \in objects /\ A \in Threads /\ Main \in Threads /\ Main # A
  BY ThreadsDiffer DEF CancelObjects, Threads
<1>2. Ordered(hb, objects) /\ Within(hb, objects, "first", hb.known[Main])
  OBVIOUS
<1>3. g = hb \/ g = Sees(hb, A, source)
  OBVIOUS
<1> HIDE DEF objects, source, g
<1>4. CASE g = Sees(hb, A, source)
  <2>1. /\ Ordered(g, objects)
        /\ g.known[Main] = hb.known[Main]
        /\ \A a \in Accesses(objects) : Made(g, a) <=> Made(hb, a)
    BY <1>1, <1>2, <1>4, SeesIs
  <2>2. Within(g, objects, "first", g.known[Main])
    BY <1>2, <2>1 DEF Within
  <2> QED
    BY <2>1, <2>2 DEF objects, g
<1>5. CASE g = hb
  BY <1>2, <1>5 DEF objects, g
<1> QED
  BY <1>3, <1>4, <1>5

\* What a step of the worker that is neither a line nor a test leaves alone.
LEMMA CancelWorkerStep ==
    ASSUME AllAwake, CancelRunning, LibraryStep(A) \/ UnforcedStep(A)
    PROVE  AllAwake' /\ CancelRunning'
<1> USE RoundsAssumption
<1>1. /\ asleep[A] = Awake /\ A \in Threads /\ Main # A /\ DOMAIN code = Threads
      /\ DOMAIN mem = CancelObjects
  BY ThreadsDiffer DEF AllAwake, Threads, CancelRunning, CancelMemory
<1>2. code[A] # <<>>
  BY <1>1, OperationOfStep
<1>3. ASSUME NEW rest, Continues(A, rest), asleep' = asleep,
             DOMAIN mem' = CancelObjects, mem'.source = mem.source,
             hb' = hb \/ hb' = Sees(hb, A, "source")
      PROVE  AllAwake' /\ CancelMemory' /\ code'[Main] \in CancelLeft /\ code'[A] = rest
  <2>1. /\ DOMAIN code' = Threads /\ code'[Main] = code[Main] /\ code'[A] = rest
        /\ code'[B] = <<>> /\ code'[C] = <<>> /\ code'[D] = <<>>
    BY <1>3, ThreadsDiffer DEF Continues, Threads, CancelRunning, CancelMemory
  <2>2. Ordered(hb', CancelObjects) /\ Within(hb', CancelObjects, "first", hb'.known[Main])
    <3>1. hb' = hb \/ hb' = Sees(hb, A, "source")
      BY <1>3
    <3> QED
      BY <3>1, CancelSees DEF CancelRunning, CancelMemory
  <2> QED
    BY <1>3, <2>1, <2>2 DEF CancelRunning, CancelMemory, AllAwake
<1>4. ASSUME NEW p \in 0 .. Rounds, CancelQuiet, code[A] = From(CancelWork, p)
      PROVE  AllAwake' /\ CancelRunning'
  <2>1. CASE p < Rounds
    <3> DEFINE o == CancelCheck
               next == From(CancelWork, p + 1)
    <3>1. Now(A) = o /\ Tail(code[A]) = next /\ p + 1 \in 0 .. Rounds
      BY <1>4, <2>1, CancelWorkIs DEF Now
    <3>2. /\ <<>> \o next = next
      BY <3>1, CancelWorkIs
    <3>3. /\ Now(A).op = "ifStop" /\ Now(A).obj = "source" /\ Now(A).no = <<>>
          /\ Now(A).yes = <<Note("stoppedBefore"), Return>>
      BY <3>1 DEF CancelCheck, IfStopRequested
    <3>4. TestStop(A)
      BY <1>1, <3>3, OperationOfStep
    <3>5. /\ \/ Goto(A, <<Note("stoppedBefore"), Return>> \o Tail(code[A])) /\ hb' = Sees(hb, A, "source")
             \/ Goto(A, <<>> \o Tail(code[A])) /\ hb' = hb
          /\ mem' = mem /\ asleep' = asleep
      BY <3>3, <3>4 DEF TestStop, Instead
    <3> HIDE DEF next
    <3>6. PICK rest \in {next, <<Note("stoppedBefore"), Return>> \o next} : Continues(A, rest)
      BY <1>1, <3>1, <3>2, <3>5, GotoIs
    <3>7. AllAwake' /\ CancelMemory' /\ code'[Main] \in CancelLeft /\ code'[A] = rest
      BY <1>1, <1>3, <3>5, <3>6
    <3>8. CancelQuiet'
      BY <1>4, <3>1, <3>5, <3>6, <3>7 DEF CancelQuiet, next
    <3> QED
      BY <3>7, <3>8 DEF CancelRunning
  <2>2. CASE p = Rounds
    <3>1. Now(A) = Note("completed") /\ Tail(code[A]) = <<>> /\ <<>> \o Tail(code[A]) = <<>>
      BY <1>4, <2>2, CancelWorkIs DEF Now
    <3>2. Now(A).op = "note" /\ Now(A).var = "completed"
      BY <3>1 DEF Note
    <3>3. Output(A)
      BY <1>1, <3>2, OperationOfStep
    <3>4. /\ mem' = [mem EXCEPT !["completed"] = mem["completed"] \cup {A}]
          /\ Goto(A, <<>>) /\ hb' = hb /\ asleep' = asleep
      BY <3>1, <3>2, <3>3 DEF Output, Becomes, Proceed, Instead
    <3>5. /\ DOMAIN mem' = CancelObjects /\ mem'.source = mem.source
          /\ mem'.stoppedBefore = {} /\ mem'.completed = {A}
      BY <1>1, <1>4, <3>4 DEF CancelObjects, CancelQuiet
    <3>6. Continues(A, <<>>)
      BY <1>1, <3>4, GotoIs
    <3>7. AllAwake' /\ CancelMemory' /\ code'[Main] \in CancelLeft /\ code'[A] = <<>>
      BY <1>3, <3>4, <3>5, <3>6
    <3> QED
      BY <3>5, <3>7 DEF CancelRunning, CancelCompleted
  <2> QED
    BY <2>1, <2>2
<1>5. ASSUME NEW p \in 0 .. Rounds, CancelQuiet,
             code[A] = <<Note("stoppedBefore"), Return>> \o From(CancelWork, p)
      PROVE  AllAwake' /\ CancelRunning'
  <2> DEFINE o == Note("stoppedBefore")
             rest == <<Return>> \o From(CancelWork, p)
  <2>1. Now(A) = o /\ Tail(code[A]) = rest /\ <<>> \o rest = rest
    <3> HIDE DEF o
    <3>1. code[A] = <<o, Return>> \o From(CancelWork, p)
      BY <1>5 DEF o
    <3> QED
      BY <3>1, CancelWorkIs DEF Now
  <2>2. Now(A).op = "note" /\ Now(A).var = "stoppedBefore"
    BY <2>1 DEF Note
  <2>3. Output(A)
    BY <1>1, <2>2, OperationOfStep
  <2> HIDE DEF rest
  <2>4. /\ mem' = [mem EXCEPT !["stoppedBefore"] = mem["stoppedBefore"] \cup {A}]
        /\ Goto(A, rest) /\ hb' = hb /\ asleep' = asleep
    BY <2>1, <2>2, <2>3 DEF Output, Becomes, Proceed, Instead
  <2>5. /\ DOMAIN mem' = CancelObjects /\ mem'.source = mem.source
        /\ mem'.stoppedBefore = {A} /\ mem'.completed = {}
    BY <1>1, <1>5, <2>4 DEF CancelObjects, CancelQuiet
  <2>6. Continues(A, rest)
    BY <1>1, <2>4, GotoIs
  <2>7. AllAwake' /\ CancelMemory' /\ code'[Main] \in CancelLeft /\ code'[A] = rest
    BY <1>3, <2>4, <2>5, <2>6
  <2> QED
    BY <2>5, <2>7 DEF CancelRunning, CancelStopped, rest
<1>6. ASSUME NEW p \in 0 .. Rounds, CancelStopped, code[A] = <<Return>> \o From(CancelWork, p)
      PROVE  AllAwake' /\ CancelRunning'
  <2>1. Now(A) = Return
    BY <1>6, CancelWorkIs DEF Now
  <2>2. Leave(A)
    <3>1. Now(A).op = "return"
      BY <2>1 DEF Return
    <3> QED
      BY <1>1, <3>1, OperationOfStep
  <2>3. Goto(A, <<>>) /\ mem' = mem /\ hb' = hb /\ asleep' = asleep
    BY <2>2 DEF Leave
  <2>4. Continues(A, <<>>)
    BY <1>1, <2>3, GotoIs
  <2>5. AllAwake' /\ CancelMemory' /\ code'[Main] \in CancelLeft /\ code'[A] = <<>>
    BY <1>1, <1>3, <2>3, <2>4
  <2> QED
    BY <1>6, <2>3, <2>5 DEF CancelRunning, CancelStopped
<1>7. ~CancelCompleted
  BY <1>2 DEF CancelCompleted
<1>8. CASE CancelQuiet
  <2>1. PICK p \in 0 .. Rounds : \/ code[A] = From(CancelWork, p)
                                 \/ code[A] = <<Note("stoppedBefore"), Return>> \o From(CancelWork, p)
    BY <1>8 DEF CancelQuiet
  <2> QED
    BY <1>4, <1>5, <1>8, <2>1
<1>9. CASE CancelStopped
  <2>1. PICK p \in 0 .. Rounds : code[A] = <<Return>> \o From(CancelWork, p)
    BY <1>2, <1>9 DEF CancelStopped
  <2> QED
    BY <1>6, <1>9, <2>1
<1> QED
  BY <1>7, <1>8, <1>9 DEF CancelRunning

\* Every step keeps the invariant,
LEMMA CancelStep ==
    ASSUME CancelInv, NEW t \in Threads, LibraryStep(t) \/ UnforcedStep(t)
    PROVE  CancelInv'
<1>1. CASE CancelBegun
  BY <1>1, CancelFirstStep DEF CancelInv
<1>2. CASE CancelRunning
  <2>1. code[t] # <<>>
    BY OperationOfStep DEF CancelInv, AllAwake
  <2>2. t \in {Main, A}
    BY <1>2, <2>1, ThreadsDiffer DEF CancelRunning, CancelMemory
  <2>3. CASE t = Main
    BY <1>2, <2>3, CancelMainStep DEF CancelInv
  <2>4. CASE t = A
    BY <1>2, <2>4, CancelWorkerStep DEF CancelInv
  <2> QED
    BY <2>2, <2>3, <2>4
<1> QED
  BY <1>1, <1>2 DEF CancelInv

\* it holds at first,
LEMMA CancelInit ==
    ASSUME Init, Running = CancellationGranularityDemo
    PROVE  CancelInv
<1>1. Running.objects = [source |-> StopState, first |-> FALSE, stoppedBefore |-> Silent,
                         completed |-> Silent]
  BY DEF CancellationGranularityDemo, Demo
<1>2. Running.main = CancelMain
  <2> DEFINE new == [t \in {A} |-> Times(Rounds, <<CancelCheck>>) \o <<Note("completed")>>]
             s == Start(new)
             ask == CancelAsk
             join == Join({A})
  <2>1. Running.main = <<s, ask>> \o <<ask, join>>
    BY DEF CancellationGranularityDemo, Demo, DestroyJthread, CancelCheck, CancelAsk
  <2>2. CancelMain = <<s, ask, ask, join>>
    BY DEF CancelMain, CancelWork
  <2> HIDE DEF s, ask, join
  <2>3. <<s, ask>> \o <<ask, join>> = <<s, ask, ask, join>>
    <3> DEFINE S == {s, ask, join}
               l == <<s, ask>> \o <<ask, join>>
               r == <<s, ask, ask, join>>
    <3>1. l \in Seq(S) /\ Len(l) = 4
      OBVIOUS
    <3>2. l[1] = s /\ l[2] = ask /\ l[3] = ask /\ l[4] = join
      OBVIOUS
    <3>3. r \in Seq(S) /\ Len(r) = 4
      OBVIOUS
    <3>4. r[1] = s /\ r[2] = ask /\ r[3] = ask /\ r[4] = join
      OBVIOUS
    <3> HIDE DEF l, r
    <3>5. l = r
      BY <3>1, <3>2, <3>3, <3>4
    <3> QED
      BY <3>5 DEF l, r
  <2> QED
    BY <2>1, <2>2, <2>3
<1>3. DOMAIN Running.objects = CancelObjects
  BY <1>1 DEF CancelObjects
<1> QED
  BY <1>1, <1>2, <1>3 DEF Init, CancelInv, CancelBegun, OnlyMain, AllAwake

\* and it says that the demo is right.
LEMMA CancelShows ==
    ASSUME CancelInv, Running = CancellationGranularityDemo
    PROVE  RaceFree /\ AsPrinted /\ WithinLimits
<1>1. RaceFree
  <2>1. CASE CancelBegun
    BY <2>1 DEF CancelBegun, Before, RaceFree
  <2>2. CASE CancelRunning
    BY <2>2 DEF CancelRunning, CancelMemory, Ordered, Ordering, RaceFree
  <2> QED
    BY <2>1, <2>2 DEF CancelInv
<1>2. ASSUME Done
      PROVE  \/ mem.stoppedBefore = {A} /\ mem.completed = {}
             \/ mem.stoppedBefore = {} /\ mem.completed = {A}
  <2>1. code[Main] = <<>> /\ code[A] = <<>>
    BY <1>2 DEF Done, Threads
  <2>2. ~CancelBegun
    <3>1. CancelMain # <<>>
      BY DEF CancelMain
    <3> QED
      BY <2>1, <3>1 DEF CancelBegun, OnlyMain, Threads
  <2>3. ~CancelQuiet
    BY <2>1, CancelWorkIs DEF CancelQuiet
  <2> QED
    BY <2>2, <2>3 DEF CancelInv, CancelRunning, CancelStopped, CancelCompleted
<1>3. /\ Running.final = {[stoppedBefore |-> {A}, completed |-> {}],
                          [stoppedBefore |-> {}, completed |-> {A}]}
      /\ Running.always = <<>>
  BY DEF CancellationGranularityDemo, Demo, Nothing, Silent
<1>4. AsPrinted
  <2>1. CASE Done => mem.stoppedBefore = {A} /\ mem.completed = {}
    <3> DEFINE f == [stoppedBefore |-> {A}, completed |-> {}]
    <3>1. f \in Running.final
      BY <1>3
    <3>2. ASSUME NEW z \in DOMAIN f, Done
          PROVE  mem[z] = f[z]
      <4>1. mem.stoppedBefore = {A} /\ mem.completed = {}
        BY <2>1, <3>2
      <4> QED
        BY <4>1
    <3> HIDE DEF f
    <3> QED
      BY <3>1, <3>2 DEF AsPrinted
  <2>2. CASE Done => mem.stoppedBefore = {} /\ mem.completed = {A}
    <3> DEFINE f == [stoppedBefore |-> {}, completed |-> {A}]
    <3>1. f \in Running.final
      BY <1>3
    <3>2. ASSUME NEW z \in DOMAIN f, Done
          PROVE  mem[z] = f[z]
      <4>1. mem.stoppedBefore = {} /\ mem.completed = {A}
        BY <2>2, <3>2
      <4> QED
        BY <4>1
    <3> HIDE DEF f
    <3> QED
      BY <3>1, <3>2 DEF AsPrinted
  <2> QED
    BY <1>2, <2>1, <2>2
<1> QED
  BY <1>1, <1>3, <1>4 DEF WithinLimits

-----------------------------------------------------------------------------
(* Some thread can go on *)

\* What these demos execute, and of it what may have to wait: for a thread to
\* end, or for a mutex.  A mutex can be unlocked only by who holds it.
Immediate == {"start", "read", "assign", "note", "return", "if", "trySecond", "load",
              "fetchAdd", "exchangeWhile", "cas", "requestStop", "ifStop"}

\* Nothing makes t wait at its next operation.  std::lock waits for the first of
\* its mutexes alone: the second it tries.
Passes(t) ==
    LET o == Now(t)
    IN  \/ o.op \in Immediate
        \/ o.op = "join" /\ \A u \in o.who : code[u] = <<>>
        \/ o.op = "lock" /\ \A m \in {o.obj} \cup o.readers : mem[m] = {}
        \/ o.op = "lockBoth" /\ mem[o.first] = {}
        \/ o.op = "unlock" /\ t \in mem[o.obj]

\* Thread t has an operation to execute, and nothing keeps it from doing so.
CanGo(t) == code[t] # <<>> /\ asleep[t] = Awake /\ Passes(t)

\* While something is left to do, some thread can go on.
SomeoneCanGo == Done \/ \E t \in Threads : CanGo(t)

\* The operations, one by one.
LEMMA PassesIs ==
    ASSUME NEW t \in Threads
    PROVE  /\ Now(t).op \in Immediate => Passes(t)
           /\ \A who : Now(t) = Join(who) /\ (\A u \in who : code[u] = <<>>) => Passes(t)
           /\ \A m : Now(t) = Lock(m) /\ mem[m] = {} => Passes(t)
           /\ \A m, n : Now(t) = LockBoth(m, n) /\ mem[m] = {} => Passes(t)
           /\ \A m : Now(t) = Unlock(m) /\ t \in mem[m] => Passes(t)
<1>1. Now(t).op \in Immediate => Passes(t)
  BY DEF Passes
<1>2. ASSUME NEW who, Now(t) = Join(who), \A u \in who : code[u] = <<>>
      PROVE  Passes(t)
  <2>1. Now(t).op = "join" /\ Now(t).who = who
    BY <1>2 DEF Join
  <2> QED
    BY <1>2, <2>1 DEF Passes
<1>3. ASSUME NEW m, Now(t) = Lock(m), mem[m] = {}
      PROVE  Passes(t)
  <2>1. Now(t).op = "lock" /\ Now(t).obj = m /\ Now(t).readers = {}
    BY <1>3 DEF Lock, LockWith
  <2> QED
    BY <1>3, <2>1 DEF Passes
<1>4. ASSUME NEW m, NEW n, Now(t) = LockBoth(m, n), mem[m] = {}
      PROVE  Passes(t)
  <2>1. Now(t).op = "lockBoth" /\ Now(t).first = m
    BY <1>4 DEF LockBoth
  <2> QED
    BY <1>4, <2>1 DEF Passes
<1>5. ASSUME NEW m, Now(t) = Unlock(m), t \in mem[m]
      PROVE  Passes(t)
  <2>1. Now(t).op = "unlock" /\ Now(t).obj = m
    BY <1>5 DEF Unlock
  <2> QED
    BY <1>5, <2>1 DEF Passes
<1> QED
  BY <1>1, <1>2, <1>3, <1>4, <1>5

\* Some operations that do not wait.
LEMMA ImmediateIs ==
    /\ \A x, d : Add(x, d).op \in Immediate
    /\ \A x : Read(x).op \in Immediate
    /\ \A x : Note(x).op \in Immediate
    /\ Return.op \in Immediate
    /\ \A test, yes, no : If(test, yes, no).op \in Immediate
    /\ \A a, b : Tries(a, b).op \in Immediate
    /\ \A x, y, order : Load(x, y, order).op \in Immediate
    /\ \A x, d, order : FetchAdd(x, d, order).op \in Immediate
    /\ \A new : Start(new).op \in Immediate
BY DEF Immediate, Add, Assign, Read, Note, Return, If, Tries, TrySecond, Load, FetchAdd, Start

\* A thread that can go on is what is asked for.
LEMMA GoesOn ==
    ASSUME AllAwake, NEW t \in Threads, code[t] # <<>>, Passes(t)
    PROVE  SomeoneCanGo
BY DEF AllAwake, CanGo, SomeoneCanGo

\* At first main starts the threads.
LEMMA BegunGoes ==
    ASSUME AllAwake, NEW main, OnlyMain(main), main # <<>>, NEW new, Head(main) = Start(new)
    PROVE  SomeoneCanGo
<1>1. Main \in Threads /\ code[Main] = main
  BY DEF Threads, OnlyMain
<1>2. Now(Main).op \in Immediate
  BY <1>1, ImmediateIs DEF Now
<1> QED
  BY <1>1, <1>2, PassesIs, GoesOn

\* If the two threads have ended main joins them.
LEMMA JoinGoes ==
    ASSUME AllAwake, code[Main] # <<>>, Now(Main) = Join({A, B}),
           code[A] = <<>>, code[B] = <<>>
    PROVE  SomeoneCanGo
<1>1. Main \in Threads
  BY DEF Threads
<1>2. \A u \in {A, B} : code[u] = <<>>
  OBVIOUS
<1>3. Passes(Main)
  BY <1>1, <1>2, PassesIs
<1> QED
  BY <1>1, <1>3, GoesOn

\* When only main is left, what it does goes on.
LEMMA JoinedGoes ==
    ASSUME AllAwake, code[A] = <<>>, code[B] = <<>>, code[C] = <<>>, code[D] = <<>>,
           code[Main] # <<>> => Now(Main).op \in Immediate
    PROVE  SomeoneCanGo
<1>1. Main \in Threads /\ \A t \in Threads : t \in {Main, A, B, C, D}
  BY DEF Threads
<1>2. CASE code[Main] = <<>>
  BY <1>1, <1>2 DEF Done, SomeoneCanGo
<1>3. CASE code[Main] # <<>>
  BY <1>1, <1>3, PassesIs, GoesOn
<1> QED
  BY <1>2, <1>3

\* Who holds the mutex can go on, and if nobody does a thread can take it.
LEMMA MutexGoes == MutexInv => SomeoneCanGo
<1> USE RoundsAssumption
<1> SUFFICES ASSUME MutexInv PROVE SomeoneCanGo
  OBVIOUS
<1>1. AllAwake /\ A \in Threads /\ B \in Threads
  BY DEF MutexInv, Threads
<1>2. CASE MutexBegun
  <2> DEFINE new == [t \in {A, B} |-> MutexWork]
  <2>1. MutexMain # <<>> /\ Head(MutexMain) = Start(new)
    BY DEF MutexMain
  <2> QED
    BY <1>1, <1>2, <2>1, BegunGoes DEF MutexBegun
<1>3. CASE MutexRunning
  <2>1. PICK P \in [{A, B} -> 0 .. 3 * Rounds] :
          /\ \A t \in {A, B} : code[t] = From(MutexWork, P[t])
          /\ mem.m = {t \in {A, B} : P[t] % 3 # 0}
    BY <1>3 DEF MutexRunning
  <2>2. ASSUME NEW t \in {A, B}, t \in mem.m
        PROVE  code[t] # <<>> /\ Passes(t)
    <3> DEFINE p == P[t]
    <3>1. p \in 0 .. 3 * Rounds /\ p % 3 # 0 /\ code[t] = From(MutexWork, p)
      BY <2>1, <2>2
    <3>2. p \in 0 .. 3 * Rounds - 1 /\ p % 3 \in {1, 2}
      BY <3>1, Thirds
    <3>3. code[t] # <<>> /\ (Now(t) = Add("counter", 1) \/ Now(t) = Unlock("m"))
      <4> HIDE DEF p
      <4>1. code[t] # <<>>
        <5>1. From(MutexWork, p) = <<>> <=> p = 3 * Rounds
          BY <3>1, MutexWorkIs
        <5> QED
          BY <3>1, <3>2, <5>1
      <4>2. CASE p % 3 = 1
        BY <3>1, <3>2, <4>1, <4>2, MutexWorkIs DEF Now
      <4>3. CASE p % 3 = 2
        BY <3>1, <3>2, <4>1, <4>3, MutexWorkIs DEF Now
      <4> QED
        BY <3>2, <4>2, <4>3
    <3>4. Now(t) = Add("counter", 1) => Now(t).op \in Immediate
      BY ImmediateIs
    <3> QED
      BY <1>1, <2>2, <3>3, <3>4, PassesIs
  <2>3. ASSUME NEW t \in {A, B}, mem.m = {}, code[t] # <<>>
        PROVE  Passes(t)
    <3> DEFINE p == P[t]
    <3>1. p \in 0 .. 3 * Rounds /\ p % 3 = 0 /\ code[t] = From(MutexWork, p)
      BY <2>1, <2>3
    <3>2. From(MutexWork, p) = <<>> <=> p = 3 * Rounds
      BY <3>1, MutexWorkIs
    <3>3. p \in 0 .. 3 * Rounds - 1
      BY <2>3, <3>1, <3>2
    <3>4. Now(t) = Lock("m")
      BY <3>1, <3>3, MutexWorkIs DEF Now
    <3> QED
      BY <1>1, <2>3, <3>4, PassesIs
  <2>4. code[Main] # <<>> /\ Now(Main) = Join({A, B})
    BY <1>3 DEF MutexRunning, Now
  <2>5. CASE mem.m # {}
    BY <1>1, <2>1, <2>2, <2>5, GoesOn
  <2>6. CASE mem.m = {} /\ \E t \in {A, B} : code[t] # <<>>
    BY <1>1, <2>3, <2>6, GoesOn
  <2>7. CASE code[A] = <<>> /\ code[B] = <<>>
    BY <1>1, <2>4, <2>7, JoinGoes
  <2> QED
    BY <2>5, <2>6, <2>7
<1>4. CASE MutexJoined
  <2>1. code[Main] # <<>> => Now(Main) = Read("counter")
    BY <1>4 DEF MutexJoined, Now
  <2>2. code[Main] # <<>> => Now(Main).op \in Immediate
    BY <2>1, ImmediateIs
  <2> QED
    BY <1>1, <1>4, <2>2, JoinedGoes DEF MutexJoined, MutexMemory
<1> QED
  BY <1>2, <1>3, <1>4 DEF MutexInv

\* A thread that counts with an atomic variable never waits.
LEMMA CountGoes ==
    ASSUME NEW t \in Threads, NEW x, NEW order, NEW j \in 0 .. Rounds,
           code[t] = From(CountWork(x, order), j), code[t] # <<>>
    PROVE  Passes(t)
<1> USE RoundsAssumption
<1> DEFINE work == CountWork(x, order)
<1>1. From(work, j) = <<>> <=> j = Rounds
  BY CountWorkIs
<1>2. j \in 0 .. Rounds - 1
  BY <1>1
<1>3. Head(From(work, j)) = FetchAdd(x, 1, order)
  BY <1>2, CountWorkIs
<1>4. Now(t).op \in Immediate
  BY <1>3, ImmediateIs DEF Now
<1> QED
  BY <1>4, PassesIs

\* Counters that threads add to without a mutex: they wait for nothing, and main
\* for them.
LEMMA TallyGoes ==
    ASSUME NEW order, TallyInv(order)
    PROVE  SomeoneCanGo
<1>1. AllAwake /\ A \in Threads /\ B \in Threads
  BY DEF TallyInv, Threads
<1>2. CASE TallyBegun(order)
  <2> DEFINE new == [t \in {A, B} |-> CountWork("counter", order)]
  <2>1. TallyMain(order) # <<>> /\ Head(TallyMain(order)) = Start(new)
    BY DEF TallyMain
  <2> QED
    BY <1>1, <1>2, <2>1, BegunGoes DEF TallyBegun
<1>3. CASE TallyRunning(order)
  <2>1. PICK P \in [{A, B} -> 0 .. Rounds] :
          \A t \in {A, B} : code[t] = From(CountWork("counter", order), P[t])
    BY <1>3 DEF TallyRunning
  <2>2. ASSUME NEW t \in {A, B}, code[t] # <<>>
        PROVE  Passes(t)
    <3> DEFINE x == "counter"
               j == P[t]
    <3>1. j \in 0 .. Rounds /\ code[t] = From(CountWork(x, order), j) /\ t \in Threads
      BY <1>1, <2>1
    <3> HIDE DEF x, j
    <3> QED
      BY <2>2, <3>1, CountGoes
  <2>3. code[Main] # <<>> /\ Now(Main) = Join({A, B})
    BY <1>3 DEF TallyRunning, Now
  <2>4. CASE \E t \in {A, B} : code[t] # <<>>
    BY <1>1, <2>2, <2>4, GoesOn
  <2>5. CASE code[A] = <<>> /\ code[B] = <<>>
    BY <1>1, <2>3, <2>5, JoinGoes
  <2> QED
    BY <2>4, <2>5
<1>4. CASE TallyJoined(order)
  <2>1. code[Main] # <<>> => Now(Main) = Load("counter", "printed", order)
    BY <1>4 DEF TallyJoined, Now
  <2>2. code[Main] # <<>> => Now(Main).op \in Immediate
    BY <2>1, ImmediateIs
  <2> QED
    BY <1>1, <1>4, <2>2, JoinedGoes DEF TallyJoined
<1> QED
  BY <1>2, <1>3, <1>4 DEF TallyInv

\* A counter for each thread: likewise.
LEMMA TwoGoes == TwoInv => SomeoneCanGo
<1> SUFFICES ASSUME TwoInv PROVE SomeoneCanGo
  OBVIOUS
<1>1. AllAwake /\ A \in Threads /\ B \in Threads
  BY DEF TwoInv, Threads
<1>2. CASE TwoBegun
  <2> DEFINE new == [t \in {A, B} |-> TwoWork(t)]
  <2>1. TwoMain # <<>> /\ Head(TwoMain) = Start(new)
    <3>1. Head(TwoMain) = Start(new)
      BY TwoMainIs
    <3>2. TwoMain # <<>>
      BY DEF TwoMain
    <3> QED
      BY <3>1, <3>2
  <2> QED
    BY <1>1, <1>2, <2>1, BegunGoes DEF TwoBegun
<1>3. CASE TwoRunning
  <2>1. ASSUME NEW t \in {A, B}, code[t] # <<>>
        PROVE  Passes(t)
    <3> DEFINE x == TwoNames[t]
               j == mem[x]
               order == "relaxed"
    <3>1. j \in 0 .. Rounds /\ code[t] = From(CountWork(x, order), j) /\ t \in Threads
      BY <1>1, <1>3 DEF TwoRunning, TwoWork
    <3> HIDE DEF x, j, order
    <3> QED
      BY <2>1, <3>1, CountGoes
  <2>2. code[Main] # <<>> /\ Now(Main) = Join({A, B})
    BY <1>3 DEF TwoRunning, TwoRest, Now
  <2>3. CASE \E t \in {A, B} : code[t] # <<>>
    BY <1>1, <2>1, <2>3, GoesOn
  <2>4. CASE code[A] = <<>> /\ code[B] = <<>>
    BY <1>1, <2>2, <2>4, JoinGoes
  <2> QED
    BY <2>3, <2>4
<1>4. CASE TwoJoined
  <2> DEFINE l == Load("first", "printed1", "seq_cst")
             m == Load("second", "printed2", "seq_cst")
  <2>1. l.op \in Immediate /\ m.op \in Immediate
    BY ImmediateIs
  <2>2. code[Main] \in {<<l, m>>, <<m>>, <<>>}
    <3>1. TwoLoads = <<l, m>> /\ Tail(TwoLoads) = <<m>>
      BY TwoMainIs
    <3> QED
      BY <1>4, <3>1 DEF TwoJoined
  <2> HIDE DEF l, m
  <2>3. code[Main] # <<>> => Now(Main).op \in Immediate
    BY <2>1, <2>2 DEF Now
  <2> QED
    BY <1>1, <1>4, <2>3, JoinedGoes DEF TwoJoined
<1> QED
  BY <1>2, <1>3, <1>4 DEF TwoInv

\* A failing exchange is tried again, and never waits.
LEMMA CasGoesOn == CasInv => SomeoneCanGo
<1> SUFFICES ASSUME CasInv PROVE SomeoneCanGo
  OBVIOUS
<1>1. AllAwake /\ A \in Threads /\ B \in Threads
  BY DEF CasInv, Threads
<1>2. CASE CasBegun
  <2> DEFINE new == [t \in {A, B} |-> CasWork(t)]
  <2>1. CasMain # <<>> /\ Head(CasMain) = Start(new)
    BY DEF CasMain
  <2> QED
    BY <1>1, <1>2, <2>1, BegunGoes DEF CasBegun
<1>3. CASE CasRunning
  <2>1. PICK P \in [{A, B} -> 0 .. 2 * Rounds], W \in [{A, B} -> CasWays] :
          \A t \in {A, B} : CasAt(t, P[t], W[t])
    BY <1>3 DEF CasRunning
  <2>2. ASSUME NEW t \in {A, B}, code[t] # <<>>
        PROVE  Passes(t)
    <3> DEFINE p == P[t]
               way == W[t]
               a == CasLoad(t)
               b == CasLoop(t)
               c == CasTry(t)
    <3>1. a.op \in Immediate /\ b.op \in Immediate /\ c.op \in Immediate
      BY DEF Immediate, CasLoad, CasLoop, CasTry, Load, ExchangeWhile, CompareExchange
    <3>2. p \in 0 .. 2 * Rounds /\ way \in CasWays /\ CasAt(t, p, way)
      BY <2>1
    <3>3. a = CasLoad(t) /\ b = CasLoop(t) /\ c = CasTry(t)
      OBVIOUS
    <3> HIDE DEF p, way, a, b, c
    <3>4. Now(t) \in {a, b, c}
      BY <2>2, <3>2, <3>3, CasNowIs
    <3> QED
      BY <1>1, <3>1, <3>4, PassesIs
  <2>3. code[Main] # <<>> /\ Now(Main) = Join({A, B})
    BY <1>3 DEF CasRunning, Now
  <2>4. CASE \E t \in {A, B} : code[t] # <<>>
    BY <1>1, <2>2, <2>4, GoesOn
  <2>5. CASE code[A] = <<>> /\ code[B] = <<>>
    BY <1>1, <2>3, <2>5, JoinGoes
  <2> QED
    BY <2>4, <2>5
<1>4. CASE CasJoined
  BY <1>1, <1>4, JoinedGoes DEF CasJoined, CasMemory
<1> QED
  BY <1>2, <1>3, <1>4 DEF CasInv

\* Neither the worker nor main waits, until main joins a worker that has ended.
LEMMA CancelGoes == CancelInv => SomeoneCanGo
<1> USE RoundsAssumption
<1> SUFFICES ASSUME CancelInv PROVE SomeoneCanGo
  OBVIOUS
<1>1. AllAwake /\ A \in Threads /\ Main \in Threads
  BY DEF CancelInv, Threads
<1>2. CASE CancelBegun
  <2> DEFINE new == [t \in {A} |-> CancelWork]
             s == Start(new)
             ask == CancelAsk
             join == Join({A})
  <2>1. CancelMain = <<s, ask, ask, join>>
    BY DEF CancelMain
  <2> HIDE DEF s, ask, join
  <2>2. CancelMain # <<>> /\ Head(CancelMain) = s
    BY <2>1
  <2> QED
    BY <1>1, <1>2, <2>2, BegunGoes DEF CancelBegun, s
<1>3. CASE CancelRunning /\ code[A] # <<>>
  <2>1. ASSUME NEW p \in 0 .. Rounds, code[A] = From(CancelWork, p)
        PROVE  Now(A).op \in Immediate
    <3>1. Now(A) = CancelCheck \/ Now(A) = Note("completed")
      BY <2>1, CancelWorkIs DEF Now
    <3> QED
      BY <3>1, ImmediateIs DEF CancelCheck, IfStopRequested, Immediate
  <2>2. ASSUME NEW p \in 0 .. Rounds,
               code[A] = <<Note("stoppedBefore"), Return>> \o From(CancelWork, p)
        PROVE  Now(A).op \in Immediate
    <3> DEFINE o == Note("stoppedBefore")
               r == Return
    <3>1. code[A] = <<o, r>> \o From(CancelWork, p)
      BY <2>2
    <3> HIDE DEF o, r
    <3>2. Now(A) = o
      BY <3>1, CancelWorkIs DEF Now
    <3> QED
      BY <3>2, ImmediateIs DEF o
  <2>3. ASSUME NEW p \in 0 .. Rounds, code[A] = <<Return>> \o From(CancelWork, p)
        PROVE  Now(A).op \in Immediate
    <3>1. Now(A) = Return
      BY <2>3, CancelWorkIs DEF Now
    <3> QED
      BY <3>1, ImmediateIs
  <2>4. Now(A).op \in Immediate
    BY <1>3, <2>1, <2>2, <2>3
       DEF CancelRunning, CancelQuiet, CancelStopped, CancelCompleted
  <2> QED
    BY <1>1, <1>3, <2>4, PassesIs, GoesOn
<1>4. CASE CancelRunning /\ code[A] = <<>> /\ code[Main] # <<>>
  <2>1. Now(Main) = CancelAsk \/ Now(Main) = Join({A})
    BY <1>4, CancelLeftIs DEF CancelRunning
  <2>2. CASE Now(Main) = CancelAsk
    <3>1. Now(Main).op \in Immediate
      BY <2>2 DEF CancelAsk, RequestStop, Immediate
    <3> QED
      BY <1>1, <1>4, <3>1, PassesIs, GoesOn
  <2>3. CASE Now(Main) = Join({A})
    <3>1. \A u \in {A} : code[u] = <<>>
      BY <1>4
    <3>2. Passes(Main)
      BY <1>1, <2>3, <3>1, PassesIs
    <3> QED
      BY <1>1, <1>4, <3>2, GoesOn
  <2> QED
    BY <2>1, <2>2, <2>3
<1>5. CASE CancelRunning /\ code[A] = <<>> /\ code[Main] = <<>>
  <2>1. /\ code[B] = <<>> /\ code[C] = <<>> /\ code[D] = <<>>
        /\ code[Main] # <<>> => Now(Main).op \in Immediate
    BY <1>5 DEF CancelRunning, CancelMemory
  <2> QED
    BY <1>1, <1>5, <2>1, JoinedGoes
<1> QED
  BY <1>2, <1>3, <1>4, <1>5 DEF CancelInv

\* A thread on its way that holds a mutex can go on, and so can one that holds
\* none while both are free.
LEMMA PairPasses ==
    ASSUME AllAwake, NEW n, NEW t \in {A, B}, NEW p \in 0 .. 5 * Rounds, NEW way \in Ways,
           PairAt(n, t, p, way)
    PROVE  /\ t \in mem[n.first] \/ t \in mem[n.second] => code[t] # <<>> /\ Passes(t)
           /\ code[t] # <<>> /\ mem[n.first] = {} /\ mem[n.second] = {} => Passes(t)
<1> USE RoundsAssumption
<1> DEFINE a == n.first
           b == n.second
<1>1. t \in Threads /\ p \in Nat
  BY DEF Threads
<1>2. /\ way # "on" => /\ code[t] = <<Pending(a, b, way)>> \o From(PairWork(n), p + 1)
                       /\ p % 5 = 0 /\ p < 5 * Rounds
      /\ way = "on" => code[t] = From(PairWork(n), p)
      /\ t \in mem[a] <=> p % 5 \in {1, 2, 3} \/ way = "first"
      /\ t \in mem[b] <=> p % 5 \in {1, 2, 3, 4} \/ way = "second"
      /\ way \in {"on", "both", "swapped", "first", "second"}
  BY DEF PairAt, Ways
<1>3. /\ way = "both" => Pending(a, b, way) = LockBoth(a, b)
      /\ way = "swapped" => Pending(a, b, way) = LockBoth(b, a)
      /\ way \in {"first", "second"} => Pending(a, b, way).op \in Immediate
  BY ImmediateIs DEF Pending
<1>4. p % 5 \in {0, 1, 2, 3, 4}
  BY <1>1, Fifths
<1>5. ASSUME t \in mem[a] \/ t \in mem[b]
      PROVE  code[t] # <<>>
  <2>1. CASE way = "on"
    <3>1. p % 5 # 0
      BY <1>2, <1>5, <2>1
    <3>2. p # 5 * Rounds
      BY <3>1
    <3>3. From(PairWork(n), p) = <<>> <=> p = 5 * Rounds
      BY PairWorkIs
    <3> QED
      BY <1>2, <2>1, <3>2, <3>3
  <2>2. CASE way # "on"
    <3> DEFINE q == p + 1
               o == Pending(a, b, way)
    <3>1. q \in 0 .. 5 * Rounds /\ code[t] = <<o>> \o From(PairWork(n), q)
      BY <1>2, <2>2
    <3> HIDE DEF q, o
    <3> QED
      BY <3>1, PairWorkIs
  <2> QED
    BY <2>1, <2>2
<1>6. ASSUME code[t] # <<>>
      PROVE  /\ way # "on" => Now(t) = Pending(a, b, way)
             /\ way = "on" => /\ p % 5 = 0 => Now(t) = LockBoth(a, b)
                              /\ p % 5 = 1 => Now(t) = Add(n.x, 1)
                              /\ p % 5 = 2 => Now(t) = Add(n.y, 1)
                              /\ p % 5 = 3 => Now(t) = Unlock(a)
                              /\ p % 5 = 4 => Now(t) = Unlock(b)
  BY <1>6, PairNow
<1> HIDE DEF a, b
<1>7. ASSUME code[t] # <<>>, t \in mem[a] \/ t \in mem[b]
      PROVE  Passes(t)
  <2>1. CASE way # "on"
    <3>1. way \in {"first", "second"}
      BY <1>2, <1>7, <2>1
    <3>2. Now(t).op \in Immediate
      BY <1>3, <1>6, <1>7, <2>1, <3>1
    <3> QED
      BY <1>1, <3>2, PassesIs
  <2>2. CASE way = "on" /\ p % 5 \in {1, 2}
    <3>1. Now(t) = Add(n.x, 1) \/ Now(t) = Add(n.y, 1)
      BY <1>6, <1>7, <2>2
    <3>2. Now(t).op \in Immediate
      BY <3>1, ImmediateIs
    <3> QED
      BY <1>1, <3>2, PassesIs
  <2>3. CASE way = "on" /\ p % 5 = 3
    <3>1. Now(t) = Unlock(a) /\ t \in mem[a]
      BY <1>2, <1>6, <1>7, <2>3
    <3> QED
      BY <1>1, <3>1, PassesIs
  <2>4. CASE way = "on" /\ p % 5 = 4
    <3>1. Now(t) = Unlock(b) /\ t \in mem[b]
      BY <1>2, <1>6, <1>7, <2>4
    <3> QED
      BY <1>1, <3>1, PassesIs
  <2>5. ~(way = "on" /\ p % 5 = 0)
    BY <1>2, <1>7
  <2> QED
    BY <1>4, <2>1, <2>2, <2>3, <2>4, <2>5
<1>8. ASSUME code[t] # <<>>, mem[a] = {}, mem[b] = {}
      PROVE  Passes(t)
  <2>1. Now(t) = LockBoth(a, b) \/ Now(t) = LockBoth(b, a)
    <3>1. p % 5 = 0 /\ way \in {"on", "both", "swapped"}
      BY <1>2, <1>4, <1>8
    <3> QED
      BY <1>3, <1>6, <1>8, <3>1
  <2> QED
    BY <1>1, <1>8, <2>1, PassesIs
<1> QED
  BY <1>5, <1>7, <1>8 DEF a, b

\* std::lock never leaves both threads waiting for each other: who has a mutex
\* either gets the other or gives it back.
LEMMA PairGoesOn ==
    ASSUME NEW n, PairInv(n)
    PROVE  SomeoneCanGo
<1>1. AllAwake /\ A \in Threads /\ B \in Threads
  BY DEF PairInv, Threads
<1>2. CASE PairBegun(n)
  <2> DEFINE new == [t \in {A, B} |-> PairWork(n)]
  <2>1. PairMain(n) # <<>> /\ Head(PairMain(n)) = Start(new)
    <3> DEFINE s == Start(new)
               j == Join({A, B})
               x == Read(n.x)
               y == Read(n.y)
    <3>1. PairMain(n) = <<s, j, x, y>>
      BY DEF PairMain
    <3> HIDE DEF s, j, x, y
    <3>2. PairMain(n) # <<>> /\ Head(PairMain(n)) = s
      BY <3>1
    <3> QED
      BY <3>2 DEF s
  <2> HIDE DEF new
  <2> QED
    BY <1>1, <1>2, <2>1, BegunGoes DEF PairBegun
<1>3. CASE PairRunning(n)
  <2>1. PICK P \in [{A, B} -> 0 .. 5 * Rounds], W \in [{A, B} -> Ways] :
          \A t \in {A, B} : PairAt(n, t, P[t], W[t])
    BY <1>3 DEF PairRunning
  <2>2. ASSUME NEW t \in {A, B}
        PROVE  /\ t \in mem[n.first] \/ t \in mem[n.second] => code[t] # <<>> /\ Passes(t)
               /\ code[t] # <<>> /\ mem[n.first] = {} /\ mem[n.second] = {} => Passes(t)
    <3> DEFINE p == P[t]
               way == W[t]
    <3>1. p \in 0 .. 5 * Rounds /\ way \in Ways /\ PairAt(n, t, p, way)
      BY <2>1
    <3> HIDE DEF p, way
    <3> QED
      BY <1>1, <3>1, PairPasses
  <2>3. code[Main] # <<>> /\ Now(Main) = Join({A, B})
    <3> DEFINE j == Join({A, B})
               x == Read(n.x)
               y == Read(n.y)
    <3>1. code[Main] = <<j, x, y>>
      BY <1>3 DEF PairRunning
    <3> HIDE DEF j, x, y
    <3>2. code[Main] # <<>> /\ Now(Main) = j
      BY <3>1 DEF Now
    <3> QED
      BY <3>2 DEF j
  <2>4. mem[n.first] \in {{}, {A}, {B}} /\ mem[n.second] \in {{}, {A}, {B}}
    BY <1>3 DEF PairRunning, PairLocks
  <2>5. CASE \E t \in {A, B} : t \in mem[n.first] \/ t \in mem[n.second]
    BY <1>1, <2>2, <2>5, GoesOn
  <2>6. CASE mem[n.first] = {} /\ mem[n.second] = {} /\ \E t \in {A, B} : code[t] # <<>>
    BY <1>1, <2>2, <2>6, GoesOn
  <2>7. CASE code[A] = <<>> /\ code[B] = <<>>
    BY <1>1, <2>3, <2>7, JoinGoes
  <2> QED
    BY <2>4, <2>5, <2>6, <2>7
<1>4. CASE PairJoined(n)
  <2> DEFINE x == Read(n.x)
             y == Read(n.y)
  <2>1. x.op \in Immediate /\ y.op \in Immediate
    BY ImmediateIs
  <2>2. code[Main] \in {<<x, y>>, <<y>>, <<>>}
    BY <1>4 DEF PairJoined
  <2> HIDE DEF x, y
  <2>3. code[Main] # <<>> => Now(Main).op \in Immediate
    BY <2>1, <2>2 DEF Now
  <2> QED
    BY <1>1, <1>4, <2>3, JoinedGoes DEF PairJoined, PairMemory
<1> QED
  BY <1>2, <1>3, <1>4 DEF PairInv

\* The same on the way through a transfer.
LEMMA BankPasses ==
    ASSUME AllAwake, NEW t \in {A, B}, NEW p \in 0 .. 4 * Rounds, NEW way \in BankWays,
           BankAt(t, p, way)
    PROVE  /\ (\E m \in Mutexes : t \in mem[m]) => code[t] # <<>> /\ Passes(t)
           /\ code[t] # <<>> /\ (\A m \in Mutexes : mem[m] = {}) => Passes(t)
<1> USE RoundsAssumption
<1>1. t \in Threads /\ p \in Nat /\ p % 4 \in {0, 1, 2, 3}
  BY Fourths DEF Threads
<1>2. PICK a, b, x, y : BankNamed(t, a, b, x, y)
  BY BankNamesOf
<1>3. Mutexes = {a, b}
  BY <1>2, BankNamesAre
<1>4. /\ way = "on" => code[t] = From(BankWork(t), p)
      /\ way # "on" => p < 4 * Rounds
      /\ way \in LockWays => /\ p % 4 = 0
                             /\ code[t] = <<Pending(a, b, way)>> \o From(BankWork(t), p + 1)
      /\ way = "debit" => p % 4 = 1 /\ code[t] = <<Add(x, -1), Add(y, 1)>> \o From(BankWork(t), p + 1)
      /\ way = "credit" => p % 4 = 1 /\ code[t] = <<Add(y, 1)>> \o From(BankWork(t), p + 1)
      /\ t \in mem[a] <=> p % 4 \in {1, 2} \/ way = "first"
      /\ t \in mem[b] <=> p % 4 \in {1, 2, 3} \/ way = "second"
  BY <1>2 DEF BankAt, BankNamed
<1>5. way = "on" \/ way \in LockWays \/ way \in {"debit", "credit"}
  BY DEF BankWays, LockWays
<1>6. /\ way = "both" => Pending(a, b, way) = LockBoth(a, b)
      /\ way = "swapped" => Pending(a, b, way) = LockBoth(b, a)
      /\ way \in {"first", "second"} => Pending(a, b, way).op \in Immediate
  BY ImmediateIs DEF Pending
<1>7. /\ \A j \in 0 .. 4 * Rounds : From(BankWork(t), j) = <<>> <=> j = 4 * Rounds
      /\ \A j \in 0 .. 4 * Rounds : \A o, r : /\ <<o>> \o From(BankWork(t), j) # <<>>
                                              /\ <<o, r>> \o From(BankWork(t), j) # <<>>
  <2> DEFINE o1 == LockBoth(a, b)
             o2 == BankTest(t)
             o3 == Unlock(a)
             o4 == Unlock(b)
             ops == <<o1, o2, o3, o4>>
             k == 4
             total == 4 * Rounds
             work == BankWork(t)
  <2>1. Repeats(work, ops, k, total)
    <3>1. o1 = LockBoth(a, b) /\ o2 = BankTest(t) /\ o3 = Unlock(a) /\ o4 = Unlock(b)
      OBVIOUS
    <3> HIDE DEF o1, o2, o3, o4
    <3> QED
      BY <1>2, <3>1, BankWorkIs
  <2> HIDE DEF ops, k, total, work
  <2>2. /\ \A j \in 0 .. total : From(work, j) = <<>> <=> j = total
        /\ \A j \in 0 .. total : \A o, r : /\ <<o>> \o From(work, j) # <<>>
                                           /\ <<o, r>> \o From(work, j) # <<>>
    BY <2>1 DEF Repeats
  <2> QED
    BY <2>2 DEF total, work
<1>8. ASSUME t \in mem[a] \/ t \in mem[b]
      PROVE  code[t] # <<>>
  <2>1. CASE way = "on"
    <3>1. p % 4 # 0
      BY <1>4, <1>8, <2>1
    <3>2. p # 4 * Rounds
      BY <3>1
    <3> QED
      BY <1>4, <1>7, <2>1, <3>2
  <2>2. CASE way # "on"
    <3> DEFINE q == p + 1
               rest == From(BankWork(t), q)
    <3>1. q \in 0 .. 4 * Rounds
      BY <1>4, <2>2
    <3>2. \E o, r : code[t] = <<o>> \o rest \/ code[t] = <<o, r>> \o rest
      BY <1>4, <1>5, <2>2
    <3> HIDE DEF q
    <3> QED
      BY <1>7, <3>1, <3>2
  <2> QED
    BY <2>1, <2>2
<1>9. ASSUME code[t] # <<>>
      PROVE  BankNext(t, p, way, a, b, x, y)
  BY <1>2, <1>9, BankNowIs
<1>10. ASSUME code[t] # <<>>, t \in mem[a] \/ t \in mem[b]
       PROVE  Passes(t)
  <2>1. BankNext(t, p, way, a, b, x, y)
    BY <1>9, <1>10
  <2>2. CASE way \in LockWays
    <3>1. Now(t) = Pending(a, b, way) /\ way \in {"first", "second"}
      BY <1>4, <1>10, <2>1, <2>2 DEF BankNext
    <3>2. Now(t).op \in Immediate
      BY <1>6, <3>1
    <3> QED
      BY <1>1, <3>2, PassesIs
  <2>3. CASE way \in {"debit", "credit"}
    <3>1. Now(t) = Add(x, -1) \/ Now(t) = Add(y, 1)
      BY <2>1, <2>3 DEF BankNext
    <3>2. Now(t).op \in Immediate
      BY <3>1, ImmediateIs
    <3> QED
      BY <1>1, <3>2, PassesIs
  <2>4. CASE way = "on" /\ p % 4 = 1
    <3>1. Now(t) = If(<<Less(x, 1)>>, <<>>, <<Add(x, -1), Add(y, 1)>>)
      BY <2>1, <2>4 DEF BankNext
    <3>2. Now(t).op \in Immediate
      BY <3>1, ImmediateIs
    <3> QED
      BY <1>1, <3>2, PassesIs
  <2>5. CASE way = "on" /\ p % 4 = 2
    <3>1. Now(t) = Unlock(a) /\ t \in mem[a]
      BY <1>4, <2>1, <2>5 DEF BankNext
    <3> QED
      BY <1>1, <3>1, PassesIs
  <2>6. CASE way = "on" /\ p % 4 = 3
    <3>1. Now(t) = Unlock(b) /\ t \in mem[b]
      BY <1>4, <2>1, <2>6 DEF BankNext
    <3> QED
      BY <1>1, <3>1, PassesIs
  <2>7. ~(way = "on" /\ p % 4 = 0)
    BY <1>4, <1>10
  <2> QED
    BY <1>1, <1>5, <2>2, <2>3, <2>4, <2>5, <2>6, <2>7
<1>11. ASSUME code[t] # <<>>, mem[a] = {}, mem[b] = {}
       PROVE  Passes(t)
  <2>1. Now(t) = LockBoth(a, b) \/ Now(t) = LockBoth(b, a)
    <3>1. BankNext(t, p, way, a, b, x, y)
      BY <1>9, <1>11
    <3>2. p % 4 = 0 /\ way \in {"on", "both", "swapped"}
      BY <1>1, <1>4, <1>5, <1>11 DEF LockWays
    <3> QED
      BY <1>6, <3>1, <3>2 DEF BankNext, LockWays
  <2> QED
    BY <1>1, <1>11, <2>1, PassesIs
<1> QED
  BY <1>3, <1>8, <1>10, <1>11

\* Two transfers in opposite directions do not wait for each other either.
LEMMA BankGoesOn == BankInv => SomeoneCanGo
<1> SUFFICES ASSUME BankInv PROVE SomeoneCanGo
  OBVIOUS
<1>1. AllAwake /\ A \in Threads /\ B \in Threads
  BY DEF BankInv, Threads
<1>2. CASE BankBegun
  <2> DEFINE new == [t \in {A, B} |-> BankWork(t)]
  <2>1. BankMain # <<>> /\ Head(BankMain) = Start(new)
    BY BankMainIs
  <2> HIDE DEF new
  <2> QED
    BY <1>1, <1>2, <2>1, BegunGoes DEF BankBegun
<1>3. CASE BankRunning
  <2>1. PICK P \in [{A, B} -> 0 .. 4 * Rounds], W \in [{A, B} -> BankWays] :
          \A t \in {A, B} : BankAt(t, P[t], W[t])
    BY <1>3 DEF BankRunning
  <2>2. ASSUME NEW t \in {A, B}
        PROVE  /\ (\E m \in Mutexes : t \in mem[m]) => code[t] # <<>> /\ Passes(t)
               /\ code[t] # <<>> /\ (\A m \in Mutexes : mem[m] = {}) => Passes(t)
    <3> DEFINE p == P[t]
               way == W[t]
    <3>1. p \in 0 .. 4 * Rounds /\ way \in BankWays /\ BankAt(t, p, way)
      BY <2>1
    <3> HIDE DEF p, way
    <3> QED
      BY <1>1, <3>1, BankPasses
  <2>3. code[Main] # <<>> /\ Now(Main) = Join({A, B})
    <3> DEFINE j == Join({A, B})
               r == Read("balance1")
               s == Read("balance2")
    <3>1. code[Main] = <<j, r, s>>
      BY <1>3 DEF BankRunning, BankRest
    <3> HIDE DEF j, r, s
    <3>2. code[Main] # <<>> /\ Now(Main) = j
      BY <3>1 DEF Now
    <3> QED
      BY <3>2 DEF j
  <2>4. \A m \in Mutexes : mem[m] \in {{}, {A}, {B}}
    BY <1>3 DEF BankRunning, BankLocks
  <2>5. CASE \E m \in Mutexes : \E t \in {A, B} : t \in mem[m]
    BY <1>1, <2>2, <2>5, GoesOn
  <2>6. CASE (\A m \in Mutexes : mem[m] = {}) /\ \E t \in {A, B} : code[t] # <<>>
    BY <1>1, <2>2, <2>6, GoesOn
  <2>7. CASE code[A] = <<>> /\ code[B] = <<>>
    BY <1>1, <2>3, <2>7, JoinGoes
  <2> QED
    BY <2>4, <2>5, <2>6, <2>7
<1>4. CASE BankJoined
  <2> DEFINE r == Read("balance1")
             s == Read("balance2")
  <2>1. r.op \in Immediate /\ s.op \in Immediate
    BY ImmediateIs
  <2>2. code[Main] \in {<<r, s>>, <<s>>, <<>>}
    <3>1. BankReads = <<r, s>> /\ Tail(BankReads) = <<s>>
      BY BankMainIs
    <3> QED
      BY <1>4, <3>1 DEF BankJoined
  <2> HIDE DEF r, s
  <2>3. code[Main] # <<>> => Now(Main).op \in Immediate
    BY <2>1, <2>2 DEF Now
  <2> QED
    BY <1>1, <1>4, <2>3, JoinedGoes DEF BankJoined, BankMemory
<1> QED
  BY <1>2, <1>3, <1>4 DEF BankInv

-----------------------------------------------------------------------------
(* All of them *)

\* The demos whose loops the constant Rounds bounds, one after the other: the
\* two programs of false_sharing.cpp are the same.
LoopingDemos ==
    {MutexCounterDemo, ScopedLockDemo, ScopedLockPairDemo, RelaxedCounterDemo,
     AtomicCounterDemo, FalseSharingDemo, PaddedCounterDemo, CasIncrementDemo,
     BankTransferDemo, CancellationGranularityDemo}

\* The invariant of whichever of them runs.
LoopInv ==
    /\ Running = MutexCounterDemo => MutexInv
    /\ Running = ScopedLockDemo => PairInv(ScopedNames)
    /\ Running = ScopedLockPairDemo => PairInv(PairNames)
    /\ Running = RelaxedCounterDemo => TallyInv("relaxed")
    /\ Running = AtomicCounterDemo => TallyInv("seq_cst")
    /\ Running = TwoCounters => TwoInv
    /\ Running = CasIncrementDemo => CasInv
    /\ Running = BankTransferDemo => BankInv
    /\ Running = CancellationGranularityDemo => CancelInv

\* It holds at first,
LEMMA LoopInit == Init => LoopInv
<1> SUFFICES ASSUME Init PROVE LoopInv
  OBVIOUS
<1>1. Running = MutexCounterDemo => MutexInv
  BY MutexInit
<1>2. Running = ScopedLockDemo => PairInv(ScopedNames)
  BY ScopedInit
<1>3. Running = ScopedLockPairDemo => PairInv(PairNames)
  BY PairInit
<1>4. Running = RelaxedCounterDemo => TallyInv("relaxed")
  BY TallyInit
<1>5. Running = AtomicCounterDemo => TallyInv("seq_cst")
  BY TallyInit
<1>6. Running = TwoCounters => TwoInv
  BY TwoInit
<1>7. Running = CasIncrementDemo => CasInv
  BY CasInit
<1>8. Running = BankTransferDemo => BankInv
  BY BankInit
<1>9. Running = CancellationGranularityDemo => CancelInv
  BY CancelInit
<1> QED
  BY <1>1, <1>2, <1>3, <1>4, <1>5, <1>6, <1>7, <1>8, <1>9 DEF LoopInv

\* every step of a thread keeps it,
LEMMA LoopThreadStep ==
    ASSUME LoopInv, Running' = Running, NEW t \in Threads, LibraryStep(t) \/ UnforcedStep(t)
    PROVE  LoopInv'
<1>1. (Running = MutexCounterDemo => MutexInv)'
  BY MutexStep DEF LoopInv
<1>2. (Running = ScopedLockDemo => PairInv(ScopedNames))'
  <2>1. Running = ScopedLockDemo => PairInv(ScopedNames)
    BY DEF LoopInv
  <2> DEFINE n == ScopedNames
  <2>2. Different(n) /\ n' = n
    BY NamesDiffer DEF ScopedNames
  <2> QED
    BY <2>1, <2>2, PairStep
<1>3. (Running = ScopedLockPairDemo => PairInv(PairNames))'
  <2>1. Running = ScopedLockPairDemo => PairInv(PairNames)
    BY DEF LoopInv
  <2> DEFINE n == PairNames
  <2>2. Different(n) /\ n' = n
    BY NamesDiffer DEF PairNames
  <2> QED
    BY <2>1, <2>2, PairStep
<1>4. (Running = RelaxedCounterDemo => TallyInv("relaxed"))'
  BY TallyStep DEF LoopInv
<1>5. (Running = AtomicCounterDemo => TallyInv("seq_cst"))'
  BY TallyStep DEF LoopInv
<1>6. (Running = TwoCounters => TwoInv)'
  BY TwoStep DEF LoopInv
<1>7. (Running = CasIncrementDemo => CasInv)'
  BY CasStep DEF LoopInv
<1>8. (Running = BankTransferDemo => BankInv)'
  BY BankStep DEF LoopInv
<1>9. (Running = CancellationGranularityDemo => CancelInv)'
  BY CancelStep DEF LoopInv
<1> QED
  BY <1>1, <1>2, <1>3, <1>4, <1>5, <1>6, <1>7, <1>8, <1>9 DEF LoopInv

\* so does a step that changes nothing,
LEMMA LoopStutter ==
    ASSUME LoopInv, Running' = Running, UNCHANGED syncVars
    PROVE  LoopInv'
<1>1. code' = code /\ mem' = mem /\ hb' = hb /\ asleep' = asleep
  BY DEF syncVars
<1>2. MutexInv' <=> MutexInv
  BY <1>1 DEF MutexInv, MutexBegun, MutexRunning, MutexJoined, MutexMemory, AllAwake, OnlyMain
<1>3. \A n : PairInv(n)' <=> PairInv(n)
  BY <1>1 DEF PairInv, PairBegun, PairRunning, PairJoined, PairMemory, PairLocks, PairCounts,
              PairAt, AllAwake, OnlyMain
<1>4. \A order : TallyInv(order)' <=> TallyInv(order)
  BY <1>1 DEF TallyInv, TallyBegun, TallyRunning, TallyJoined, AllAwake, OnlyMain
<1>5. TwoInv' <=> TwoInv
  BY <1>1 DEF TwoInv, TwoBegun, TwoRunning, TwoJoined, AllAwake, OnlyMain
<1>6. CasInv' <=> CasInv
  BY <1>1 DEF CasInv, CasBegun, CasRunning, CasJoined, CasMemory, CasOwn, CasAt, AllAwake, OnlyMain
<1>7. BankInv' <=> BankInv
  BY <1>1 DEF BankInv, BankBegun, BankRunning, BankJoined, BankMemory, BankLocks, BankCounts,
              BankAt, AllAwake, OnlyMain
<1>8. CancelInv' <=> CancelInv
  BY <1>1 DEF CancelInv, CancelBegun, CancelRunning, CancelMemory, CancelQuiet, CancelStopped,
              CancelCompleted, AllAwake, OnlyMain
<1> QED
  BY <1>2, <1>3, <1>4, <1>5, <1>6, <1>7, <1>8 DEF LoopInv

\* so every step does,
LEMMA LoopNext == LoopInv /\ [Next]_vars => LoopInv'
<1> SUFFICES ASSUME LoopInv, [Next]_vars PROVE LoopInv'
  OBVIOUS
<1>1. Running' = Running
  <2>1. demo' = demo
    BY DEF Next, Ended, vars
  <2> QED
    BY <2>1 DEF Running
<1>2. CASE \E t \in Threads : LibraryStep(t) \/ UnforcedStep(t)
  BY <1>1, <1>2, LoopThreadStep
<1>3. CASE UNCHANGED vars
  BY <1>1, <1>3, LoopStutter DEF vars
<1> QED
  BY <1>2, <1>3 DEF Next, Ended

\* and it always holds,
LEMMA LoopAlways == Spec => []LoopInv
<1> QED
  BY LoopInit, LoopNext, PTL DEF Spec

\* and says of each of these demos what it prints.
LEMMA LoopShows ==
    ASSUME LoopInv, Running \in LoopingDemos
    PROVE  RaceFree /\ AsPrinted /\ WithinLimits
<1> USE DEF LoopInv
<1>1. CASE Running = MutexCounterDemo
  BY <1>1, MutexShows
<1>2. CASE Running = ScopedLockDemo
  BY <1>2, ScopedShows
<1>3. CASE Running = ScopedLockPairDemo
  BY <1>3, PairDemoShows
<1>4. CASE Running = RelaxedCounterDemo
  BY <1>4, TallyShows
<1>5. CASE Running = AtomicCounterDemo
  BY <1>5, TallyShows
<1>6. CASE Running = TwoCounters
  BY <1>6, TwoShows
<1>7. CASE Running = CasIncrementDemo
  BY <1>7, CasShows
<1>8. CASE Running = BankTransferDemo
  BY <1>8, BankShows
<1>9. CASE Running = CancellationGranularityDemo
  BY <1>9, CancelShows
<1>10. FalseSharingDemo = TwoCounters /\ PaddedCounterDemo = TwoCounters
  BY DEF FalseSharingDemo, PaddedCounterDemo
<1> QED
  BY <1>1, <1>2, <1>3, <1>4, <1>5, <1>6, <1>7, <1>8, <1>9, <1>10 DEF LoopingDemos

\* However often the loops of a demo are repeated, every two accesses to an
\* ordinary variable, one of them a write, are ordered: the counter that the
\* two threads share under a mutex, the accounts and pairs that std::lock
\* guards, and each thread's own copy of the atomic counter.
THEOREM LoopsRaceFree == Spec => [](Running \in LoopingDemos => RaceFree)
<1>1. LoopInv => (Running \in LoopingDemos => RaceFree)
  BY LoopShows
<1> QED
  BY <1>1, LoopAlways, PTL

\* However often the loops are repeated, no increment is lost, whether a mutex,
\* std::lock, fetch_add or compare_exchange_weak protects it; both accounts end
\* with what they began with; a worker asked to stop says either that it was
\* stopped or that it completed, never both and never nothing.
THEOREM LoopsAsPrinted == Spec => [](Running \in LoopingDemos => AsPrinted)
<1>1. LoopInv => (Running \in LoopingDemos => AsPrinted)
  BY LoopShows
<1> QED
  BY <1>1, LoopAlways, PTL

\* However many transfers there are and in whatever order they interleave, no
\* account is overdrawn or holds more than both began with.
THEOREM LoopsWithinLimits == Spec => [](Running \in LoopingDemos => WithinLimits)
<1>1. LoopInv => (Running \in LoopingDemos => WithinLimits)
  BY LoopShows
<1> QED
  BY <1>1, LoopAlways, PTL

\* No demo deadlocks, however often the loops are repeated: until all is done
\* some thread has an operation to execute and waits neither for a mutex nor
\* for a thread.  With std::lock nobody keeps one mutex while it waits for the
\* other, also where the two threads name them in opposite orders.
THEOREM LoopsDoNotHang == Spec => [](Running \in LoopingDemos => SomeoneCanGo)
<1>1. LoopInv => (Running \in LoopingDemos => SomeoneCanGo)
  <2> SUFFICES ASSUME LoopInv, Running \in LoopingDemos
               PROVE  SomeoneCanGo
    OBVIOUS
  <2> USE DEF LoopInv
  <2>1. CASE Running = MutexCounterDemo
    BY <2>1, MutexGoes
  <2>2. CASE Running = ScopedLockDemo
    BY <2>2, PairGoesOn
  <2>3. CASE Running = ScopedLockPairDemo
    BY <2>3, PairGoesOn
  <2>4. CASE Running = RelaxedCounterDemo
    BY <2>4, TallyGoes
  <2>5. CASE Running = AtomicCounterDemo
    BY <2>5, TallyGoes
  <2>6. CASE Running = TwoCounters
    BY <2>6, TwoGoes
  <2>7. CASE Running = CasIncrementDemo
    BY <2>7, CasGoesOn
  <2>8. CASE Running = BankTransferDemo
    BY <2>8, BankGoesOn
  <2>9. CASE Running = CancellationGranularityDemo
    BY <2>9, CancelGoes
  <2>10. FalseSharingDemo = TwoCounters /\ PaddedCounterDemo = TwoCounters
    BY DEF FalseSharingDemo, PaddedCounterDemo
  <2> QED
    BY <2>1, <2>2, <2>3, <2>4, <2>5, <2>6, <2>7, <2>8, <2>9, <2>10 DEF LoopingDemos
<1> QED
  BY <1>1, LoopAlways, PTL

================================================================================
