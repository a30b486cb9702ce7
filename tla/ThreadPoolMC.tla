---------------------------- MODULE ThreadPoolMC ----------------------------
(***************************************************************************)
(* The demos of thread_pool_future_shutdown.cpp, and two clients that race *)
(* for the pool, on two workers, for TLC.                                  *)
(***************************************************************************)
EXTENDS ThreadPool, TLC

CONSTANTS main, other, outer, inner, third

Do(op, k) == [op |-> op, task |-> k]
Leave == Do("shutdown", NoTask)

\* The nested submission of the warning: the outer task waits for the inner
\* one.  The file says a second worker is needed, and here there is one.
NestedBody == (outer :> <<Do("submit", inner), Do("get", inner)>>)
              @@ (inner :> <<>>) @@ (third :> <<>>)

Client(mine, theirs) == (main :> mine) @@ (other :> theirs)

\* concurrentTasksDemo (and those with a single task); gracefulShutdownDemo;
\* submitAfterShutdownDemo; a second client that submits, waits and shuts the
\* pool down while main does.
DemoScripts ==
    {Client(<<Do("submit", outer), Do("submit", third), Do("get", outer),
              Do("get", third), Leave>>, <<>>),
     Client(<<Do("submit", outer), Do("submit", third), Leave,
              Do("get", outer), Do("get", third)>>, <<>>),
     Client(<<Leave, Do("submit", third), Do("get", third), Leave>>, <<>>),
     Client(<<Do("submit", outer), Leave>>,
            <<Do("submit", third), Do("get", third), Leave>>)}

=============================================================================
