----------------------------- MODULE SyncDemos -----------------------------
(***************************************************************************)
(* The concurrent demo programs, each a behaviour of its own: main begins  *)
(* alone, and what the demo says of itself is checked at every step and    *)
(* when no thread has anything left to do.                                 *)
(***************************************************************************)
EXTENDS PhaseDemos, OnceDemos, FutureDemos, AtomicDemos, LockDemos, CacheDemos,
        StopDemos, ConditionDemos

\* What the main functions call, and single demos of other files.
ConcurrencyProgram ==
    <<BasicThreadDemo, ArgumentCopyDemo, ArgumentReferenceDemo, MutexCounterDemo,
      AtomicCounterDemo, LockGuardExceptionDemo, UniqueLockDemo, ScopedLockPairDemo,
      AtomicFlagDemo, VectorPushMutexDemo>>

Programs ==
    PhaseProgram \o OnceProgram \o FutureProgram \o AtomicProgram \o CasProgram
    \o <<FalseSharingDemo, PaddedCounterDemo>> \o LockOrderProgram \o ConcurrencyProgram
    \o <<SemaphoreLimitDemo, LockGuardDemo, MutexRaiiDemo>> \o CacheProgram \o StopProgram
    \o ConditionProgram

VARIABLE demo   \* the number of the demo that runs

vars == <<demo, syncVars>>

Running == Programs[demo]

Init ==
    /\ demo \in DOMAIN Programs
    /\ mem = Running.objects
    /\ code = [t \in Threads |-> IF t = Main THEN Running.main ELSE <<>>]
    /\ hb = Before(DOMAIN Running.objects)
    /\ asleep = [t \in Threads |-> Awake]

Done == \A t \in Threads : code[t] = <<>>

\* A demo that has ended stays as it is.
Ended == Done /\ UNCHANGED vars

Next ==
    \/ \E t \in Threads : (LibraryStep(t) \/ UnforcedStep(t)) /\ UNCHANGED demo
    \/ Ended

\* While some thread can go on, one of them does, whichever; and only
\* finitely many times does a thread wake without a notification.  Nothing
\* more is asked of the scheduler.
Fairness ==
    /\ WF_vars(\E t \in Threads : LibraryStep(t) /\ UNCHANGED demo)
    /\ <>[][code' # code]_vars

Spec == Init /\ [][Next]_vars /\ Fairness

-----------------------------------------------------------------------------

\* Every two accesses to an ordinary variable, one of them a write, are
\* ordered by the locks, joins, latches, promises and release and acquire
\* operations around them: no demo has a data race.
RaceFree == hb.races = {}

\* A demo ends with the values its output claims: no increment is lost, every
\* item is taken once and in order, the initialiser ran once, both accounts
\* have their money, the two callers of the lazy cache got one value.
AsPrinted ==
    Done => \E f \in Running.final : \A x \in DOMAIN f : mem[x] = f[x]

\* At no time are more than two threads in the region with two slots, more
\* than two items in the queue with room for two, or an account overdrawn.
WithinLimits == \A x \in DOMAIN Running.always : mem[x] \in Running.always[x]

\* A line that tells that others have arrived, finished or asked is printed
\* after they have said so: no thread is a phase ahead, no callback is left
\* behind.
NoLineEarly ==
    \A g \in Running.gates :
        mem[g.line] # {} => \E who \in g.by : who \subseteq mem[g.needs]

\* Every demo ends: no thread waits for a mutex, a notification, a phase or
\* an outcome that never comes.
DemosEnd == <>[]Done

=============================================================================
