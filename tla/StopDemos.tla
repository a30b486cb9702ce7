----------------------------- MODULE StopDemos -----------------------------
(***************************************************************************)
(* jthread_stop_token_cancellation.cpp without its queue worker, which is  *)
(* the module CancellableQueueWorker: workers that poll a stop token, and  *)
(* who asks them to stop.                                                  *)
(***************************************************************************)
EXTENDS StdSync

\* Mutation of DestroyJthread: the thread is asked but not joined.
AskOnly(t) == <<RequestStop("source", "first")>>

\* The destructor of a jthread asks its thread to stop and joins it.
DestroyJthread(t) == <<RequestStop("source", "first"), Join({t})>>

BasicJthreadDemo ==
    Demo([source |-> StopState, first |-> FALSE, running |-> Silent, joined |-> Silent],
         <<Start(A :> <<Note("running")>>)>> \o DestroyJthread(A) \o <<Note("joined")>>,
         [running : {{A}}],
         Nothing,
         {After("joined", "running", {A})})

StopTokenLoopDemo ==
    Demo([source |-> StopState, first |-> FALSE, requesting |-> Silent, observed |-> Silent,
          joined |-> Silent],
         <<Start(A :> <<AwaitStop("source"), Note("observed")>>), Note("requesting"),
           RequestStop("source", "first"), Join({A}), Note("joined")>>
         \o DestroyJthread(A),
         [observed : {{A}}],
         Nothing,
         {After("observed", "requesting", {Main}), After("joined", "observed", {A})})

AutomaticDestructorStopDemo ==
    Demo([source |-> StopState, first |-> FALSE, leaving |-> Silent, requested |-> Silent,
          joined |-> Silent],
         <<Start(A :> <<AwaitStop("source"), Note("requested")>>), Note("leaving")>>
         \o DestroyJthread(A) \o <<Note("joined")>>,
         [first : {TRUE}],
         Nothing,
         {After("requested", "leaving", {Main}), After("joined", "requested", {A})})

\* Two workers share the token of one source, which only the first request
\* stops.  They are joined in the reverse order of their construction.
StopSourceDemo ==
    LET worker == <<AwaitStop("source"), Note("stopped")>>
    IN  Demo([source |-> StopState, first |-> FALSE, second |-> FALSE, stopped |-> Silent],
             <<Start(A :> worker @@ B :> worker), RequestStop("source", "first"),
               RequestStop("source", "second"), Join({B}), Join({A})>>,
             [first : {TRUE}, second : {FALSE}, stopped : {{A, B}}],
             Nothing,
             {})

\* The callback runs in the thread that asks, or where it is registered when
\* that comes later; the worker does not leave while it runs.
StopCallbackDemo ==
    Demo([source |-> StopState, first |-> FALSE, executed |-> Silent, exiting |-> Silent,
          joined |-> Silent],
         <<Start(A :> <<RegisterCallback("source", <<Note("executed")>>), AwaitStop("source"),
                        Note("exiting"), DestroyCallback("source")>>),
           RequestStop("source", "first")>>
         \o DestroyJthread(A) \o <<Note("joined")>>,
         [executed : {{Main}, {A}}],
         Nothing,
         {AfterOneOf("joined", "executed", {{Main}, {A}})})

\* Rounds of the hundred chunks; the token is looked at before each.
CancellationGranularityDemo ==
    LET chunk == <<IfStopRequested("source", <<Note("stoppedBefore"), Return>>, <<>>)>>
    IN  Demo([source |-> StopState, first |-> FALSE, stoppedBefore |-> Silent,
              completed |-> Silent],
             <<Start([t \in {A} |-> Times(Rounds, chunk) \o <<Note("completed")>>]),
               RequestStop("source", "first")>> \o DestroyJthread(A),
             {[stoppedBefore |-> {A}, completed |-> Silent],
              [stoppedBefore |-> Silent, completed |-> {A}]},
             Nothing,
             {})

StopProgram ==
    <<BasicJthreadDemo, StopTokenLoopDemo, AutomaticDestructorStopDemo, StopSourceDemo,
      StopCallbackDemo, CancellationGranularityDemo>>

=============================================================================
