----------------------------- MODULE OnceDemos -----------------------------
(***************************************************************************)
(* call_once_thread_local.cpp: initialisation by the first of several      *)
(* threads, with an initialiser that throws, and variables that each       *)
(* thread has for itself.                                                  *)
(***************************************************************************)
EXTENDS StdSync

InitializeService == <<CallOnce("initializationFlag", <<Note("executed")>>, <<>>)>>

\* Four of the five threads.  The initialiser runs in one of them, and all
\* return after it.
CallOnceBasicDemo ==
    LET threads == {A, B, C, D}
    IN  Demo([initializationFlag |-> "new", executed |-> Silent, returned |-> Silent],
             <<Start([t \in threads |-> InitializeService \o <<Note("returned")>>]),
               Join(threads)>>,
             [executed : {{t} : t \in threads}, returned : {threads}],
             Nothing,
             {AfterOneOf("returned", "executed", {{t} : t \in threads})})

\* The first attempt throws; its thread catches that, and the next one tries
\* again.
CallOnceExceptionDemo ==
    LET initialize(currentAttempt) ==
            <<CallOnce("flag",
                       Locked("outputMutex", <<Add("attempts", 1), Copy("attempts", currentAttempt)>>)
                       \o <<If(<<Less(currentAttempt, 2)>>, <<ThrowInOnce>>, <<>>),
                            Note("succeeded")>>,
                       Locked("outputMutex", <<Note("caught")>>))>>
    IN  Demo([flag |-> "new", outputMutex |-> {}, attempts |-> 0, current1 |-> 0,
              current2 |-> 0, current3 |-> 0, succeeded |-> Silent, caught |-> Silent],
             <<Start(A :> initialize("current1")), Join({A}),
               Start(B :> initialize("current2")), Join({B}),
               Start(C :> initialize("current3")), Join({C}), Read("attempts")>>,
             [attempts : {2}, caught : {{A}}, succeeded : {{B}}],
             Nothing,
             {})

\* static Config config: its first use constructs it, guarded like call_once.
GetConfig == <<CallOnce("configGuard", <<Write("config", 42), Note("constructed")>>, <<>>)>>

LocalStaticDemo ==
    LET threads == {A, B, C, D}
    IN  Demo([configGuard |-> "new", config |-> 0, constructed |-> Silent, sees |-> Silent],
             <<Start([t \in threads |-> GetConfig \o <<Read("config"), Note("sees")>>]),
               Join(threads)>>,
             [config : {42}, constructed : {{t} : t \in threads}],
             Nothing,
             {AfterOneOf("sees", "constructed", {{t} : t \in threads})})

\* A thread_local variable is one object for each thread that uses it.
IncrementPerThreadCounter(perThreadCounter) == Times(3, <<Add(perThreadCounter, 1)>>)

ThreadLocalCounterDemo ==
    Demo([counterOfMain |-> 0, counterOfA |-> 0, counterOfB |-> 0],
         <<Start(A :> IncrementPerThreadCounter("counterOfA") @@
                 B :> IncrementPerThreadCounter("counterOfB")),
           Join({A, B}), Read("counterOfMain")>>,
         [counterOfMain : {0}, counterOfA : {3}, counterOfB : {3}],
         Nothing,
         {})

FunctionLocalThreadLocalDemo ==
    LET function(callCount) == <<Add(callCount, 1)>>
    IN  Demo([callCountOfA |-> 0, callCountOfB |-> 0],
             <<Start(A :> Times(3, function("callCountOfA")) @@
                     B :> Times(2, function("callCountOfB"))),
               Join({A, B})>>,
             [callCountOfA : {3}, callCountOfB : {2}],
             Nothing,
             {})

\* RequestContextGuard: keeps the request that was there and puts it back.
WithRequestContext(id, ops) ==
    <<Copy("requestId", "previous"), Write("requestId", id)>> \o ops
    \o <<Copy("previous", "requestId")>>

ProcessRequest(id, printed) == WithRequestContext(id, <<Copy("requestId", printed)>>)

ThreadLocalContextDemo ==
    Demo([requestId |-> "", previous |-> "", duringA |-> "", afterA |-> "",
          duringB |-> "", afterB |-> ""],
         <<Start(A :> ProcessRequest("request-A", "duringA") \o <<Copy("requestId", "afterA")>>
                      \o ProcessRequest("request-B", "duringB") \o <<Copy("requestId", "afterB")>>),
           Join({A})>>,
         [duringA : {"request-A"}, afterA : {""}, duringB : {"request-B"}, afterB : {""}],
         Nothing,
         {})

PerThreadBufferDemo ==
    LET format(buffer, value) == <<Write(buffer, value)>>
    IN  Demo([bufferOfA |-> 0, bufferOfB |-> 0],
             <<Start(A :> format("bufferOfA", 100) \o <<Read("bufferOfA")>> @@
                     B :> format("bufferOfB", 200) \o <<Read("bufferOfB")>>),
               Join({A, B})>>,
             [bufferOfA : {100}, bufferOfB : {200}],
             Nothing,
             {})

OnceProgram ==
    <<CallOnceBasicDemo, CallOnceExceptionDemo, LocalStaticDemo, ThreadLocalCounterDemo,
     FunctionLocalThreadLocalDemo, ThreadLocalContextDemo, PerThreadBufferDemo>>

=============================================================================
