------------------------------ MODULE StdSync ------------------------------
(***************************************************************************)
(* The C++ standard library's threads and synchronisation, as the programs *)
(* of code_traps/ use them: threads, mutexes, shared mutexes, condition    *)
(* variables, semaphores, latches, barriers, once flags, promises, stop    *)
(* tokens and atomics with their memory orders.  None of it is code of the *)
(* repository; the demo modules hold the programs that run on it.          *)
(*                                                                         *)
(* A thread is the list of operations it has still to do.  An object, of   *)
(* whatever kind, is a name with a value in mem.  Besides the values the   *)
(* model keeps what C++ calls happens-before: which accesses to ordinary   *)
(* variables each thread has before it, and which it hands on through each *)
(* object.  Two accesses to one variable, a write among them, that nothing *)
(* orders are a data race, whatever values they happened to see.           *)
(***************************************************************************)
EXTENDS Integers, Sequences, FiniteSets, TLC

CONSTANTS Main, A, B, C, D,   \* the main thread and the threads it starts
          Rounds              \* stands for the count of the programs' long loops

Threads == {Main, A, B, C, D}

ASSUME ThreadsAssumption == Cardinality(Threads) = 5
ASSUME RoundsAssumption == Rounds \in Nat

VARIABLES code,    (* what each thread has still to do                      *)
          mem,     (* the value of each object                              *)
          hb,      (* happens-before, see Before                            *)
          asleep   (* what each thread waits to be notified of, or Awake    *)

syncVars == <<code, mem, hb, asleep>>

-----------------------------------------------------------------------------
(* Happens-before.  An access is a thread, a variable and "read" or        *)
(* "write"; a later access of the same kind by the same thread takes the   *)
(* place of the earlier one, which whoever knows the later one knows too.  *)

\* known[t]: the accesses that happen before what thread t does next;
\* shown[o]: those that happen before what a thread does after it has
\* synchronised with object o; races: the variables with a data race.
Before(objects) == [known |-> [t \in Threads |-> {}],
                    shown |-> [o \in objects |-> {}],
                    races |-> {}]

Sees(h, t, o)  == [h EXCEPT !.known[t] = @ \cup h.shown[o]]
Shows(h, t, o) == [h EXCEPT !.shown[o] = @ \cup h.known[t]]

\* Thread t accesses, as pairs of a variable and a kind, what is in pairs.
Access(h, t, pairs) ==
    LET new    == {<<t, p[1], p[2]>> : p \in pairs}
        hidden == (UNION {h.known[u] : u \in Threads}) \ h.known[t]
    IN  [known |-> [u \in Threads |-> IF u = t THEN h.known[u] \cup new
                                      ELSE h.known[u] \ new],
         shown |-> [o \in DOMAIN h.shown |-> h.shown[o] \ new],
         races |-> h.races \cup {p[1] : p \in {q \in pairs :
                       \E a \in hidden : a[2] = q[1] /\ "write" \in {a[3], q[2]}}}]

Reads(h, t, variables) == Access(h, t, {<<x, "read">> : x \in variables})
Writes(h, t, x) == Access(h, t, {<<x, "write">>})

-----------------------------------------------------------------------------
(* Control *)

Awake == "awake"

Now(t) == Head(code[t])
At(t, op) == code[t] # <<>> /\ asleep[t] = Awake /\ Now(t).op = op

Goto(t, rest) == code' = [code EXCEPT ![t] = rest]
Instead(t, ops) == Goto(t, ops \o Tail(code[t]))
Proceed(t) == Instead(t, <<>>)

Becomes(x, v) == mem' = [mem EXCEPT ![x] = v]

\* The tests that the programs make, each a disjunction of these.
IsTrue(x)     == [kind |-> "true", var |-> x, arg |-> 0]
Always        == [kind |-> "always", var |-> "", arg |-> 0]
IsNot(x, v)   == [kind |-> "not", var |-> x, arg |-> v]
NonEmpty(x)   == IsNot(x, <<>>)
Shorter(x, n) == [kind |-> "shorter", var |-> x, arg |-> n]
Less(x, n)    == [kind |-> "less", var |-> x, arg |-> n]

Holds(test) ==
    \E i \in DOMAIN test :
        LET x == mem[test[i].var]
        IN  CASE test[i].kind = "always"  -> TRUE
              [] test[i].kind = "true"    -> x
              [] test[i].kind = "not"     -> x # test[i].arg
              [] test[i].kind = "shorter" -> Len(x) < test[i].arg
              [] test[i].kind = "less"    -> x < test[i].arg

Tested(test) == {test[i].var : i \in {j \in DOMAIN test : test[j].kind # "always"}}

\* if, with ordinary variables in the test.
If(test, yes, no) == [op |-> "if", test |-> test, yes |-> yes, no |-> no]

Branch(t) ==
    /\ At(t, "if")
    /\ Instead(t, IF Holds(Now(t).test) THEN Now(t).yes ELSE Now(t).no)
    /\ hb' = Reads(hb, t, Tested(Now(t).test))
    /\ UNCHANGED <<mem, asleep>>

\* while (true), and the return that leaves the thread's function.
Forever(body) == [op |-> "forever", body |-> body]
Return        == [op |-> "return"]

Loop(t) ==
    /\ At(t, "forever")
    /\ Goto(t, Now(t).body \o code[t])
    /\ UNCHANGED <<mem, hb, asleep>>

Leave(t) ==
    /\ At(t, "return")
    /\ Goto(t, <<>>)
    /\ UNCHANGED <<mem, hb, asleep>>

\* The same operations n times.
Times(n, ops) == [i \in 1 .. n * Len(ops) |-> ops[((i - 1) % Len(ops)) + 1]]

\* A line of output: mem[x] is the set of the threads that have printed x.
Note(x) == [op |-> "note", var |-> x]
Silent  == {}

Output(t) ==
    /\ At(t, "note")
    /\ Becomes(Now(t).var, mem[Now(t).var] \cup {t})
    /\ Proceed(t)
    /\ UNCHANGED <<hb, asleep>>

-----------------------------------------------------------------------------
(* std::thread *)

\* Threads begin with what their creator knows; programs maps each new
\* thread to what it does.
Start(programs) == [op |-> "start", programs |-> programs]
Join(who)       == [op |-> "join", who |-> who]

StartThreads(t) ==
    /\ At(t, "start")
    /\ LET new == Now(t).programs
       IN  /\ code' = [u \in Threads |-> IF u = t THEN Tail(code[t])
                                         ELSE IF u \in DOMAIN new THEN new[u] ELSE code[u]]
           /\ hb' = [hb EXCEPT !.known = [u \in Threads |->
                        IF u \in DOMAIN new THEN @[u] \cup @[t] ELSE @[u]]]
    /\ UNCHANGED <<mem, asleep>>

JoinThreads(t) ==
    /\ At(t, "join")
    /\ \A u \in Now(t).who : code[u] = <<>>
    /\ hb' = [hb EXCEPT !.known[t] = @ \cup UNION {hb.known[u] : u \in Now(t).who}]
    /\ Proceed(t)
    /\ UNCHANGED <<mem, asleep>>

-----------------------------------------------------------------------------
(* Ordinary variables *)

Read(x)           == [op |-> "read", var |-> x]
Assign(x, how, v) == [op |-> "assign", var |-> x, how |-> how, arg |-> v]
Write(x, v)       == Assign(x, "value", v)
Add(x, d)         == Assign(x, "plus", d)
Copy(y, x)        == Assign(x, "copy", y)
PushBack(x, v)    == Assign(x, "append", v)
Put(x, k, v)      == Assign(x, "put", <<k, v>>)
Emplace(x, k, v)  == Assign(x, "emplace", <<k, v>>)
Erase(x, k)       == Assign(x, "erase", k)

ReadVariable(t) ==
    /\ At(t, "read")
    /\ hb' = Reads(hb, t, {Now(t).var})
    /\ Proceed(t)
    /\ UNCHANGED <<mem, asleep>>

NewValue(x, how, v) ==
    CASE how = "value"  -> v
      [] how = "plus"   -> mem[x] + v
      [] how = "copy"   -> mem[v]
      [] how = "append" -> Append(mem[x], v)
      [] how = "put"    -> (v[1] :> v[2]) @@ mem[x]
      [] how = "emplace" -> mem[x] @@ (v[1] :> v[2])
      [] how = "erase"  -> [k \in DOMAIN mem[x] \ {v} |-> mem[x][k]]

AssignVariable(t) ==
    /\ At(t, "assign")
    /\ LET o == Now(t)
       IN  /\ Becomes(o.var, NewValue(o.var, o.how, o.arg))
           /\ hb' = Access(hb, t, {<<o.var, "write">>}
                                  \cup IF o.how = "copy" THEN {<<o.arg, "read">>} ELSE {})
    /\ Proceed(t)
    /\ UNCHANGED asleep

\* into = map.find(k), absent if there is none.
Find(x, k, into, absent) ==
    [op |-> "find", var |-> x, key |-> k, into |-> into, absent |-> absent]

FindKey(t) ==
    /\ At(t, "find")
    /\ LET o == Now(t)
       IN  /\ Becomes(o.into, IF o.key \in DOMAIN mem[o.var] THEN mem[o.var][o.key]
                              ELSE o.absent)
           /\ hb' = Access(hb, t, {<<o.var, "read">>, <<o.into, "write">>})
    /\ Proceed(t)
    /\ UNCHANGED asleep

\* into = queue.front(), queue.pop(); into collects what was taken.
Take(x, into) == [op |-> "take", var |-> x, into |-> into]

TakeFront(t) ==
    /\ At(t, "take")
    /\ LET o == Now(t)
       IN  /\ mem' = [mem EXCEPT ![o.var] = Tail(@), ![o.into] = Append(@, Head(mem[o.var]))]
           /\ hb' = Access(hb, t, {<<o.var, "write">>, <<o.into, "write">>})
    /\ Proceed(t)
    /\ UNCHANGED asleep

-----------------------------------------------------------------------------
(* std::mutex and std::shared_mutex.  A mutex is the set of its holders; a *)
(* shared mutex has a second object, the set of its readers.               *)

LockWith(m, readers) == [op |-> "lock", obj |-> m, readers |-> readers]
Lock(m)      == LockWith(m, {})
Unlock(m)    == [op |-> "unlock", obj |-> m]
Locked(m, ops) == <<Lock(m)>> \o ops \o <<Unlock(m)>>

LockMutex(t) ==
    /\ At(t, "lock")
    /\ LET o == Now(t)
       IN  /\ \A m \in {o.obj} \cup o.readers : mem[m] = {}
           /\ Becomes(o.obj, {t})
           /\ hb' = [hb EXCEPT !.known[t] =
                        @ \cup UNION {hb.shown[m] : m \in {o.obj} \cup o.readers}]
    /\ Proceed(t)
    /\ UNCHANGED asleep

UnlockMutex(t) ==
    /\ At(t, "unlock") /\ t \in mem[Now(t).obj]
    /\ Becomes(Now(t).obj, mem[Now(t).obj] \ {t})
    /\ hb' = Shows(hb, t, Now(t).obj)
    /\ Proceed(t)
    /\ UNCHANGED asleep

\* A shared lock waits for a writer and orders itself after writers only; it
\* is given back by Unlock of the readers' object.  With else it does not
\* wait (try_to_lock), and may fail whatever the mutex does.
LockShared(m, readers) ==
    [op |-> "lockShared", obj |-> m, readers |-> readers, yes |-> <<>>]
TryLockShared(m, readers, yes, no) ==
    [op |-> "tryLockShared", obj |-> m, readers |-> readers, yes |-> yes, no |-> no]
Shared(m, readers, ops) == <<LockShared(m, readers)>> \o ops \o <<Unlock(readers)>>

LockSharedMutex(t) ==
    /\ At(t, "lockShared") \/ At(t, "tryLockShared")
    /\ mem[Now(t).obj] = {}
    /\ Becomes(Now(t).readers, mem[Now(t).readers] \cup {t})
    /\ hb' = Sees(hb, t, Now(t).obj)
    /\ Instead(t, Now(t).yes)
    /\ UNCHANGED asleep

FailToLockShared(t) ==
    /\ At(t, "tryLockShared")
    /\ Instead(t, Now(t).no)
    /\ UNCHANGED <<mem, hb, asleep>>

\* std::lock of two mutexes waits for one of them, tries the other, and when
\* that fails gives the first back and waits for the other.  std::try_lock
\* tries both in order and gives up.
LockBoth(a, b) == [op |-> "lockBoth", first |-> a, second |-> b]
TryLockBoth(a, b, yes, no) ==
    [op |-> "tryLockBoth", first |-> a, second |-> b, yes |-> yes, no |-> no]
TrySecond(a, b, yes, no) ==
    [op |-> "trySecond", first |-> a, second |-> b, yes |-> yes, no |-> no]

LockFirst(t) ==
    /\ At(t, "lockBoth") \/ At(t, "tryLockBoth")
    /\ LET o == Now(t)
       IN  /\ mem[o.first] = {}
           /\ Becomes(o.first, {t})
           /\ hb' = Sees(hb, t, o.first)
           /\ Instead(t, <<IF o.op = "lockBoth"
                           THEN TrySecond(o.first, o.second, <<>>, <<LockBoth(o.second, o.first)>>)
                           ELSE TrySecond(o.first, o.second, o.yes, o.no)>>)
    /\ UNCHANGED asleep

FailFirst(t) ==
    /\ At(t, "tryLockBoth") /\ mem[Now(t).first] # {}
    /\ Instead(t, Now(t).no)
    /\ UNCHANGED <<mem, hb, asleep>>

LockSecond(t) ==
    /\ At(t, "trySecond")
    /\ LET o == Now(t)
       IN  \/ /\ mem[o.second] = {}
              /\ Becomes(o.second, {t})
              /\ hb' = Sees(hb, t, o.second)
              /\ Instead(t, o.yes)
           \/ /\ mem[o.second] # {}
              /\ Becomes(o.first, {})
              /\ hb' = Shows(hb, t, o.first)
              /\ Instead(t, o.no)
    /\ UNCHANGED asleep

-----------------------------------------------------------------------------
(* std::counting_semaphore, std::latch: a number that is waited for *)

Acquire(s)   == [op |-> "acquire", obj |-> s]
Release(s)   == [op |-> "change", obj |-> s, by |-> 1]
CountDown(l) == [op |-> "change", obj |-> l, by |-> -1]
Await(l)     == [op |-> "await", obj |-> l]

AcquirePermit(t) ==
    /\ At(t, "acquire") /\ mem[Now(t).obj] > 0
    /\ Becomes(Now(t).obj, mem[Now(t).obj] - 1)
    /\ hb' = Sees(hb, t, Now(t).obj)
    /\ Proceed(t)
    /\ UNCHANGED asleep

ChangeCount(t) ==
    /\ At(t, "change")
    /\ Becomes(Now(t).obj, mem[Now(t).obj] + Now(t).by)
    /\ hb' = Shows(hb, t, Now(t).obj)
    /\ Proceed(t)
    /\ UNCHANGED asleep

AwaitZero(t) ==
    /\ At(t, "await") /\ mem[Now(t).obj] = 0
    /\ hb' = Sees(hb, t, Now(t).obj)
    /\ Proceed(t)
    /\ UNCHANGED <<mem, asleep>>

-----------------------------------------------------------------------------
(* std::barrier: how many are expected in each phase, how many of them are *)
(* still to come, and the number of the phase.                             *)

Barrier(n) == [expected |-> n, pending |-> n, phase |-> 0]

ArriveAndWait(b, completion) ==
    [op |-> "arrive", obj |-> b, completion |-> completion, drop |-> 0]
ArriveAndDrop(b, completion) ==
    [op |-> "arrive", obj |-> b, completion |-> completion, drop |-> 1]

\* The last to arrive runs the completion step and opens the next phase.
Arrive(t) ==
    /\ At(t, "arrive")
    /\ LET o == Now(t)
           b == mem[o.obj]
           last == b.pending = 1
           h == Shows(hb, t, o.obj)
       IN  /\ Becomes(o.obj, [b EXCEPT !.pending = @ - 1, !.expected = @ - o.drop])
           /\ hb' = IF last THEN Sees(h, t, o.obj) ELSE h
           /\ Instead(t, (IF last THEN o.completion \o <<[op |-> "open", obj |-> o.obj]>>
                          ELSE <<>>)
                         \o (IF o.drop = 1 THEN <<>>
                             ELSE <<[op |-> "depart", obj |-> o.obj, phase |-> b.phase]>>))
    /\ UNCHANGED asleep

OpenPhase(t) ==
    /\ At(t, "open")
    /\ LET b == mem[Now(t).obj]
       IN  Becomes(Now(t).obj, [b EXCEPT !.pending = b.expected, !.phase = @ + 1])
    /\ hb' = Shows(hb, t, Now(t).obj)
    /\ Proceed(t)
    /\ UNCHANGED asleep

Depart(t) ==
    /\ At(t, "depart") /\ mem[Now(t).obj].phase > Now(t).phase
    /\ hb' = Sees(hb, t, Now(t).obj)
    /\ Proceed(t)
    /\ UNCHANGED <<mem, asleep>>

-----------------------------------------------------------------------------
(* std::atomic.  Values are those of an interleaving; what weak memory adds *)
(* is in hb: only an acquire load of what a release store wrote orders the  *)
(* two threads.  A relaxed store hands nothing on; a relaxed                *)
(* read-modify-write passes on what the object had to hand on.              *)

Load(x, into, order) == [op |-> "load", obj |-> x, into |-> into, order |-> order]
Store(x, v, order)   == [op |-> "store", obj |-> x, arg |-> v, order |-> order]
FetchAdd(x, d, order) == [op |-> "fetchAdd", obj |-> x, by |-> d, order |-> order]

Acquired(h, t, x, order) == IF order = "relaxed" THEN h ELSE Sees(h, t, x)
Released(h, t, x, order) == IF order = "relaxed" THEN h ELSE Shows(h, t, x)

LoadAtomic(t) ==
    /\ At(t, "load")
    /\ LET o == Now(t)
       IN  /\ Becomes(o.into, mem[o.obj])
           /\ hb' = Writes(Acquired(hb, t, o.obj, o.order), t, o.into)
    /\ Proceed(t)
    /\ UNCHANGED asleep

StoreAtomic(t) ==
    /\ At(t, "store")
    /\ LET o == Now(t)
       IN  /\ Becomes(o.obj, o.arg)
           /\ hb' = Released([hb EXCEPT !.shown[o.obj] = {}], t, o.obj, o.order)
    /\ Proceed(t)
    /\ UNCHANGED asleep

AddAtomic(t) ==
    /\ At(t, "fetchAdd")
    /\ LET o == Now(t)
       IN  /\ Becomes(o.obj, mem[o.obj] + o.by)
           /\ hb' = Released(Acquired(hb, t, o.obj, o.order), t, o.obj, o.order)
    /\ Proceed(t)
    /\ UNCHANGED asleep

\* while (x.load(order) != v): the rounds of the loop that find another value
\* change nothing.
SpinUntil(x, v, order) == [op |-> "spin", obj |-> x, arg |-> v, order |-> order]

Spin(t) ==
    /\ At(t, "spin") /\ mem[Now(t).obj] = Now(t).arg
    /\ hb' = Acquired(hb, t, Now(t).obj, Now(t).order)
    /\ Proceed(t)
    /\ UNCHANGED <<mem, asleep>>

\* compare_exchange: x becomes what how and v make of the expected value, a
\* variable, or expected becomes x.
CompareExchange(x, expected, how, v, order, yes, no) ==
    [op |-> "cas", obj |-> x, expected |-> expected, how |-> how, arg |-> v,
     order |-> order, yes |-> yes, no |-> no]

\* while (test && !x.compare_exchange_weak(expected, ..., order)) {}.  A weak
\* exchange that fails for no reason changes nothing and comes round again.
ExchangeWhile(test, x, expected, how, v, order) ==
    [op |-> "exchangeWhile", test |-> test,
     cas |-> CompareExchange(x, expected, how, v, order, <<>>, <<>>)]

Exchange(t) ==
    /\ At(t, "cas")
    /\ LET o == Now(t)
           h == Acquired(hb, t, o.obj, o.order)
       IN  \/ /\ mem[o.obj] = mem[o.expected]
              /\ Becomes(o.obj, NewValue(o.expected, o.how, o.arg))
              /\ hb' = Released(Reads(h, t, {o.expected}), t, o.obj, o.order)
              /\ Instead(t, o.yes)
           \/ /\ mem[o.obj] # mem[o.expected]
              /\ Becomes(o.expected, mem[o.obj])
              /\ hb' = Writes(h, t, o.expected)
              /\ Instead(t, o.no)
    /\ UNCHANGED asleep

ExchangeAgain(t) ==
    /\ At(t, "exchangeWhile")
    /\ LET o == Now(t)
       IN  /\ Instead(t, IF Holds(o.test) THEN <<[o.cas EXCEPT !.no = <<o>>]>> ELSE <<>>)
           /\ hb' = Reads(hb, t, Tested(o.test))
    /\ UNCHANGED <<mem, asleep>>

\* x.wait(v, order): sleeps while x is v.
WaitWhile(x, v, order) == [op |-> "atomicWait", obj |-> x, arg |-> v, order |-> order]

SleepOnAtomic(t) ==
    /\ At(t, "atomicWait")
    /\ LET o == Now(t)
       IN  IF mem[o.obj] = o.arg
           THEN asleep' = [asleep EXCEPT ![t] = o.obj] /\ UNCHANGED <<code, hb>>
           ELSE /\ hb' = Acquired(hb, t, o.obj, o.order)
                /\ Proceed(t)
                /\ UNCHANGED asleep
    /\ UNCHANGED mem

-----------------------------------------------------------------------------
(* std::condition_variable *)

\* c.wait(lock, test); and wait_for, which ends with yes or no.
Wait(c, m, test) ==
    [op |-> "wait", obj |-> c, mutex |-> m, test |-> test, timed |-> FALSE,
     yes |-> <<>>, no |-> <<>>]
WaitFor(c, m, test, yes, no) ==
    [op |-> "wait", obj |-> c, mutex |-> m, test |-> test, timed |-> TRUE,
     yes |-> yes, no |-> no]
NotifyOne(c) == [op |-> "notifyOne", obj |-> c]
NotifyAll(c) == [op |-> "notifyAll", obj |-> c]

\* The predicate is evaluated under the mutex, which falling asleep releases
\* and waking up takes again.
TestOrSleep(t) ==
    /\ At(t, "wait")
    /\ LET o == Now(t)
           h == Reads(hb, t, Tested(o.test))
       IN  \/ /\ Holds(o.test)
              /\ Instead(t, o.yes)
              /\ hb' = h
              /\ UNCHANGED <<mem, asleep>>
           \/ /\ ~Holds(o.test)
              /\ Becomes(o.mutex, {})
              /\ asleep' = [asleep EXCEPT ![t] = o.obj]
              /\ Goto(t, <<Lock(o.mutex)>> \o code[t])
              /\ hb' = Shows(h, t, o.mutex)

WakeSpuriously(t) ==
    /\ asleep[t] # Awake
    /\ asleep' = [asleep EXCEPT ![t] = Awake]
    /\ UNCHANGED <<code, mem, hb>>

\* The thread takes the mutex and looks at the predicate once more.
TimeOut(t) ==
    /\ asleep[t] # Awake /\ Len(code[t]) > 1
    /\ LET o == code[t][2]
       IN  /\ o.op = "wait" /\ o.timed
           /\ Goto(t, <<Now(t), If(o.test, o.yes, o.no)>> \o SubSeq(code[t], 3, Len(code[t])))
    /\ asleep' = [asleep EXCEPT ![t] = Awake]
    /\ UNCHANGED <<mem, hb>>

Sleepers(c) == {u \in Threads : asleep[u] = c}

NotifySleeper(t) ==
    /\ At(t, "notifyOne")
    /\ LET c == Now(t).obj
       IN  \/ /\ Sleepers(c) = {}
              /\ UNCHANGED asleep
           \/ \E u \in Sleepers(c) : asleep' = [asleep EXCEPT ![u] = Awake]
    /\ Proceed(t)
    /\ UNCHANGED <<mem, hb>>

NotifySleepers(t) ==
    /\ At(t, "notifyAll")
    /\ asleep' = [u \in Threads |-> IF asleep[u] = Now(t).obj THEN Awake ELSE asleep[u]]
    /\ Proceed(t)
    /\ UNCHANGED <<mem, hb>>

-----------------------------------------------------------------------------
(* std::call_once: a flag is "new", "running" or "done".  A throwing call  *)
(* leaves it "new", and the caller goes on with its handler.  The          *)
(* initialisation of a local static works alike.                           *)

CallOnce(f, body, handler) ==
    [op |-> "callOnce", obj |-> f, body |-> body, handler |-> handler]
ThrowInOnce == [op |-> "throwInOnce"]

EnterOnce(t) ==
    /\ At(t, "callOnce")
    /\ LET o == Now(t)
       IN  \/ /\ mem[o.obj] = "new"
              /\ Becomes(o.obj, "running")
              /\ Instead(t, o.body \o <<[op |-> "onceDone", obj |-> o.obj,
                                         handler |-> o.handler]>>)
           \/ /\ mem[o.obj] = "done"
              /\ Proceed(t)
              /\ UNCHANGED mem
    /\ hb' = Sees(hb, t, Now(t).obj)
    /\ UNCHANGED asleep

FinishOnce(t) ==
    /\ At(t, "onceDone")
    /\ Becomes(Now(t).obj, "done")
    /\ hb' = Shows(hb, t, Now(t).obj)
    /\ Proceed(t)
    /\ UNCHANGED asleep

AbandonOnce(t) ==
    /\ At(t, "throwInOnce")
    /\ LET done == CHOOSE i \in DOMAIN code[t] :
                       /\ code[t][i].op = "onceDone"
                       /\ \A j \in 1 .. i - 1 : code[t][j].op # "onceDone"
           o == code[t][done]
       IN  /\ Becomes(o.obj, "new")
           /\ hb' = Shows(hb, t, o.obj)
           /\ Goto(t, o.handler \o SubSeq(code[t], done + 1, Len(code[t])))
    /\ UNCHANGED asleep

-----------------------------------------------------------------------------
(* std::promise and std::future.  A promise is <<>> or <<outcome>>, a      *)
(* future the name of its promise or NoState; exceptions are outcomes.     *)

NoState == "none"

Fulfil(p, outcome)  == [op |-> "fulfil", obj |-> p, arg |-> outcome]
DestroyPromise(p, broken) == [op |-> "destroyPromise", obj |-> p, arg |-> broken]
Get(f, into)        == [op |-> "get", obj |-> f, into |-> into, keep |-> FALSE]
GetShared(f, into)  == [op |-> "get", obj |-> f, into |-> into, keep |-> TRUE]
WaitReady(f, yes, no) == [op |-> "waitReady", obj |-> f, yes |-> yes, no |-> no]

FulfilPromise(t) ==
    /\ At(t, "fulfil") /\ mem[Now(t).obj] = <<>>
    /\ Becomes(Now(t).obj, <<Now(t).arg>>)
    /\ hb' = Shows(hb, t, Now(t).obj)
    /\ Proceed(t)
    /\ UNCHANGED asleep

BreakPromise(t) ==
    /\ At(t, "destroyPromise")
    /\ IF mem[Now(t).obj] = <<>>
       THEN Becomes(Now(t).obj, <<Now(t).arg>>) /\ hb' = Shows(hb, t, Now(t).obj)
       ELSE UNCHANGED <<mem, hb>>
    /\ Proceed(t)
    /\ UNCHANGED asleep

GetOutcome(t) ==
    /\ At(t, "get")
    /\ LET o == Now(t)
           p == mem[o.obj]
       IN  /\ p # NoState /\ mem[p] # <<>>
           /\ mem' = [mem EXCEPT ![o.into] = Head(mem[p]), ![o.obj] = IF o.keep THEN @ ELSE NoState]
           /\ hb' = Access(Sees(hb, t, p), t,
                           {<<o.into, "write">>, <<o.obj, IF o.keep THEN "read" ELSE "write">>})
    /\ Proceed(t)
    /\ UNCHANGED asleep

\* wait_for(): ready, or a timeout before the outcome is there.
WaitForOutcome(t) ==
    /\ At(t, "waitReady")
    /\ LET p == mem[Now(t).obj]
       IN  IF mem[p] # <<>>
           THEN Instead(t, Now(t).yes) /\ hb' = Sees(hb, t, p)
           ELSE Instead(t, Now(t).no) /\ UNCHANGED hb
    /\ UNCHANGED <<mem, asleep>>

-----------------------------------------------------------------------------
(* std::stop_source and its tokens, with at most one callback registered.  *)

StopState == [requested |-> FALSE, callback |-> <<>>, running |-> FALSE]

RequestStop(s, into) == [op |-> "requestStop", obj |-> s, into |-> into]
AwaitStop(s)         == [op |-> "awaitStop", obj |-> s]
IfStopRequested(s, yes, no) == [op |-> "ifStop", obj |-> s, yes |-> yes, no |-> no]
RegisterCallback(s, ops) == [op |-> "register", obj |-> s, ops |-> ops]
DestroyCallback(s)   == [op |-> "deregister", obj |-> s]

\* The first request runs the callback, in the requesting thread; into says
\* whether this was the first.
RequestTheStop(t) ==
    /\ At(t, "requestStop")
    /\ LET o == Now(t)
           s == mem[o.obj]
       IN  /\ mem' = [mem EXCEPT ![o.obj] = IF s.requested THEN s
                                            ELSE [s EXCEPT !.requested = TRUE,
                                                           !.running = s.callback # <<>>],
                                 ![o.into] = ~s.requested]
           /\ hb' = Writes(Shows(Sees(hb, t, o.obj), t, o.obj), t, o.into)
           /\ Instead(t, IF s.requested \/ s.callback = <<>> THEN <<>>
                         ELSE s.callback \o <<[op |-> "callbackDone", obj |-> o.obj]>>)
    /\ UNCHANGED asleep

EndCallback(t) ==
    /\ At(t, "callbackDone")
    /\ Becomes(Now(t).obj, [mem[Now(t).obj] EXCEPT !.running = FALSE])
    /\ hb' = Shows(hb, t, Now(t).obj)
    /\ Proceed(t)
    /\ UNCHANGED asleep

\* while (!token.stop_requested()) sleeps; the rounds change nothing.
LeaveStopLoop(t) ==
    /\ At(t, "awaitStop") /\ mem[Now(t).obj].requested
    /\ hb' = Sees(hb, t, Now(t).obj)
    /\ Proceed(t)
    /\ UNCHANGED <<mem, asleep>>

TestStop(t) ==
    /\ At(t, "ifStop")
    /\ IF mem[Now(t).obj].requested
       THEN Instead(t, Now(t).yes) /\ hb' = Sees(hb, t, Now(t).obj)
       ELSE Instead(t, Now(t).no) /\ UNCHANGED hb
    /\ UNCHANGED <<mem, asleep>>

\* A callback registered after the request runs at once, where it is
\* registered; destroying one waits for it to end in another thread.
ConstructCallback(t) ==
    /\ At(t, "register")
    /\ LET o == Now(t)
       IN  IF mem[o.obj].requested
           THEN Instead(t, o.ops) /\ UNCHANGED mem
           ELSE Becomes(o.obj, [mem[o.obj] EXCEPT !.callback = o.ops]) /\ Proceed(t)
    /\ hb' = Shows(Sees(hb, t, Now(t).obj), t, Now(t).obj)
    /\ UNCHANGED asleep

RemoveCallback(t) ==
    /\ At(t, "deregister") /\ ~mem[Now(t).obj].running
    /\ Becomes(Now(t).obj, [mem[Now(t).obj] EXCEPT !.callback = <<>>])
    /\ hb' = Sees(hb, t, Now(t).obj)
    /\ Proceed(t)
    /\ UNCHANGED asleep

-----------------------------------------------------------------------------
(* A demo: its objects and their initial values, what main does, and what  *)
(* it says of itself: the values it may end with, those that some objects  *)
(* have at all times, and the lines of output that must wait for others.   *)

Demo(objects, main, final, always, gates) ==
    [objects |-> objects, main |-> main, final |-> final, always |-> always,
     gates |-> gates]

\* line is printed only after all threads of one of the sets printed needs.
AfterOneOf(line, needs, sets) == [line |-> line, needs |-> needs, by |-> sets]
After(line, needs, who) == AfterOneOf(line, needs, {who})

Nothing == <<>>

-----------------------------------------------------------------------------
(* What a scheduled thread does.  A shared lock may fail and a sleeper may *)
(* wake for no reason, but neither has to happen.                          *)

LibraryStep(t) ==
    \/ Branch(t) \/ Loop(t) \/ Leave(t) \/ Output(t)
    \/ StartThreads(t) \/ JoinThreads(t)
    \/ ReadVariable(t) \/ AssignVariable(t) \/ FindKey(t) \/ TakeFront(t)
    \/ LockMutex(t) \/ UnlockMutex(t) \/ LockSharedMutex(t)
    \/ LockFirst(t) \/ FailFirst(t) \/ LockSecond(t)
    \/ AcquirePermit(t) \/ ChangeCount(t) \/ AwaitZero(t)
    \/ Arrive(t) \/ OpenPhase(t) \/ Depart(t)
    \/ LoadAtomic(t) \/ StoreAtomic(t) \/ AddAtomic(t) \/ Spin(t)
    \/ Exchange(t) \/ ExchangeAgain(t) \/ SleepOnAtomic(t)
    \/ TestOrSleep(t) \/ TimeOut(t) \/ NotifySleeper(t) \/ NotifySleepers(t)
    \/ EnterOnce(t) \/ FinishOnce(t) \/ AbandonOnce(t)
    \/ FulfilPromise(t) \/ BreakPromise(t) \/ GetOutcome(t) \/ WaitForOutcome(t)
    \/ RequestTheStop(t) \/ EndCallback(t) \/ LeaveStopLoop(t) \/ TestStop(t)
    \/ ConstructCallback(t) \/ RemoveCallback(t)

UnforcedStep(t) == FailToLockShared(t) \/ WakeSpuriously(t)

=============================================================================
