----------------------------- MODULE CacheDemos -----------------------------
(***************************************************************************)
(* shared_mutex_reader_writer_lock.cpp: caches that several threads read   *)
(* at once and one writes.                                                 *)
(***************************************************************************)
EXTENDS StdSync

\* shared_lock and unique_lock of the mutex every class and demo here has.
Reading(ops) == Shared("mutex", "readers", ops)
Writing(ops) == <<LockWith("mutex", {"readers"})>> \o ops \o <<Unlock("mutex")>>

Missing == 0

-----------------------------------------------------------------------------
(* ThreadSafeCache *)

CacheGet(key, value) == Reading(<<Find("data", key, value, Missing)>>)
CachePut(key, value) == Writing(<<Put("data", key, value)>>)
CacheErase(key)      == Writing(<<Erase("data", key)>>)
CacheSize            == Reading(<<Read("data")>>)

\* Two of the four readers; a key's value is its number.
CacheDemo ==
    LET reader(v1, v2, v3) == CacheGet(1, v1) \o CacheGet(2, v2) \o CacheGet(3, v3)
        writer == CachePut(3, 3) \o CacheErase(1)
    IN  Demo([mutex |-> {}, readers |-> {}, data |-> Nothing,
              a1 |-> Missing, a2 |-> Missing, a3 |-> Missing,
              b1 |-> Missing, b2 |-> Missing, b3 |-> Missing],
             CachePut(1, 1) \o CachePut(2, 2)
             \o <<Start(A :> reader("a1", "a2", "a3") @@ B :> reader("b1", "b2", "b3") @@
                        C :> writer),
                  Join({A, B, C})>> \o CacheSize,
             [data : {2 :> 2 @@ 3 :> 3}, a1 : {1, Missing}, a2 : {2}, a3 : {3, Missing},
              b1 : {1, Missing}, b2 : {2}, b3 : {3, Missing}],
             Nothing,
             {})

-----------------------------------------------------------------------------
(* LazyCache.  What expensiveCompute returns is told apart by its caller.  *)

\* Mutation of GetOrCompute: it writes what it computed over what has come in
\* the meantime.
GetOrOverwrite(key, computed, value) ==
    Reading(<<Find("data", key, value, Missing)>>)
    \o <<If(<<IsNot(value, Missing)>>, <<>>,
            Writing(<<Put("data", key, computed), Find("data", key, value, Missing)>>))>>

\* The computation is between the two locks, so the second looks again.
GetOrCompute(key, computed, value) ==
    Reading(<<Find("data", key, value, Missing)>>)
    \o <<If(<<IsNot(value, Missing)>>, <<>>,
            Writing(<<Emplace("data", key, computed), Find("data", key, value, Missing)>>))>>

\* The two callers agree on one value.
LockUpgradeDemo ==
    Demo([mutex |-> {}, readers |-> {}, data |-> Nothing, result1 |-> Missing,
          result2 |-> Missing],
         <<Start(A :> GetOrCompute(5, 51, "result1") @@ B :> GetOrCompute(5, 52, "result2")),
           Join({A, B})>>,
         {[data |-> 5 :> v, result1 |-> v, result2 |-> v] : v \in {51, 52}},
         Nothing,
         {})

-----------------------------------------------------------------------------
(* Demos of shared_mutex itself *)

BasicReaderWriterDemo ==
    LET reader(seen) == Reading(<<Copy("value", seen)>>)
        writer == Writing(<<Write("value", 20)>>)
    IN  Demo([mutex |-> {}, readers |-> {}, value |-> 10, seen1 |-> 0, seen2 |-> 0, seen3 |-> 0],
             <<Start(A :> reader("seen1") @@ B :> reader("seen2") @@ C :> reader("seen3") @@
                     D :> writer),
               Join({A, B, C, D}), Read("value")>>,
             [value : {20}, seen1 : {10, 20}, seen2 : {10, 20}, seen3 : {10, 20}],
             Nothing,
             {})

\* The reader tries once, while main may or may not still be the writer.
TrySharedLockDemo ==
    Demo([mutex |-> {}, readers |-> {}, value |-> 42, sees |-> Silent, couldNot |-> Silent],
         <<LockWith("mutex", {"readers"}),
           Start(A :> <<TryLockShared("mutex", "readers",
                                      <<Read("value"), Note("sees"), Unlock("readers")>>,
                                      <<Note("couldNot")>>)>>),
           Unlock("mutex"), Join({A})>>,
         {[sees |-> {A}, couldNot |-> Silent], [sees |-> Silent, couldNot |-> {A}]},
         Nothing,
         {})

CacheProgram == <<BasicReaderWriterDemo, CacheDemo, LockUpgradeDemo, TrySharedLockDemo>>

=============================================================================
