-------------------- MODULE CancellableQueueWorkerProofs --------------------
(***************************************************************************)
(* Proofs about the worker of jthread_stop_token_cancellation.cpp, for     *)
(* every number of clients, all tasks and all scripts.                     *)
(***************************************************************************)
EXTENDS CancellableQueueWorker, SequenceTheorems, TLAPS

-----------------------------------------------------------------------------
(* Types *)

LEMMA CallTypes ==
    ASSUME TypeOK, NEW c \in Clients, NEW op, NEW rest \in Seq(Rest), Call(c, op, rest)
    PROVE  /\ script' \in [Clients -> Seq(Steps)] /\ call' \in [Clients -> Seq(Rest)]
           /\ op = "submit" => Head(script[c]).task \in Tasks
<1>1. script[c] \in Seq(Steps) /\ script[c] # <<>> /\ Head(script[c]).op = op
  BY DEF Call, TypeOK
<1>2. Head(script[c]) \in Steps /\ Tail(script[c]) \in Seq(Steps)
  BY <1>1, HeadTailProperties
<1>3. op = "submit" => Head(script[c]).task \in Tasks
  BY <1>1, <1>2 DEF Steps
<1> QED BY <1>2, <1>3 DEF Call, TypeOK

LEMMA ContinueTypes ==
    ASSUME TypeOK, NEW c \in Clients, NEW what, Continue(c, what)
    PROVE  call' \in [Clients -> Seq(Rest)]
<1>1. call[c] \in Seq(Rest) /\ call[c] # <<>>
  BY DEF Continue, At, TypeOK
<1>2. Tail(call[c]) \in Seq(Rest)
  BY <1>1, HeadTailProperties
<1> QED BY <1>2 DEF Continue, TypeOK

LEMMA RestLists ==
    /\ <<"notifyOne">> \in Seq(Rest) /\ <<"callback">> \in Seq(Rest)
    /\ <<"notifyAll">> \in Seq(Rest) /\ <<"notifyAll", "join">> \in Seq(Rest)
    /\ <<"callback">> \o <<"notifyAll">> \in Seq(Rest)
    /\ <<"callback">> \o <<"notifyAll", "join">> \in Seq(Rest)
BY DEF Rest

LEMMA TypesStep == TypeOK /\ [Next]_vars => TypeOK'
<1> SUFFICES ASSUME TypeOK, [Next]_vars PROVE TypeOK'
  OBVIOUS
<1>1. CASE Register
  BY <1>1 DEF Register, record, TypeOK
<1>2. CASE Test
  <2>1. queue # <<>> => Head(queue) \in Tasks /\ Tail(queue) \in Seq(Tasks)
    BY HeadTailProperties DEF TypeOK
  <2> QED BY <1>2, <2>1 DEF Test, Take, TypeOK
<1>3. CASE Block \/ SpuriousWakeup \/ Processed
  BY <1>3 DEF Block, SpuriousWakeup, Processed, Goto, record, TypeOK
<1>4. CASE Return
  BY <1>4 DEF Return, record, TypeOK
<1>5. ASSUME NEW c \in Clients, Submit(c) PROVE TypeOK'
  <2>1. /\ Call(c, "submit", <<"notifyOne">>) /\ Push(Head(script[c]).task)
    BY <1>5 DEF Submit
  <2>2. /\ script' \in [Clients -> Seq(Steps)] /\ call' \in [Clients -> Seq(Rest)]
        /\ Head(script[c]).task \in Tasks
    BY <2>1, CallTypes, RestLists
  <2>3. queue' \in Seq(Tasks) /\ late' \subseteq Tasks
    BY <2>1, <2>2, AppendProperties DEF Push, TypeOK
  <2> QED BY <2>1, <2>2, <2>3 DEF Push, TypeOK
<1>6. ASSUME NEW c \in Clients, Notify(c) PROVE TypeOK'
  <2>1. call' \in [Clients -> Seq(Rest)]
    BY <1>6, ContinueTypes DEF Notify
  <2> QED BY <1>6, <2>1 DEF Notify, record, TypeOK
<1>7. ASSUME NEW c \in Clients, RequestStop(c) \/ Destroy(c) PROVE TypeOK'
  <2>1. script' \in [Clients -> Seq(Steps)] /\ call' \in [Clients -> Seq(Rest)]
    BY <1>7, CallTypes, RestLists DEF RequestStop, Destroy, Request
  <2>2. stopped' \in BOOLEAN /\ UNCHANGED <<queue, registered, pc, record>>
    BY <1>7, Zenon DEF RequestStop, Destroy, Request
  <2> QED BY <2>1, <2>2 DEF record, TypeOK
<1>8. ASSUME NEW c \in Clients, Join(c) PROVE TypeOK'
  <2>1. call' \in [Clients -> Seq(Rest)]
    BY <1>8, ContinueTypes DEF Join
  <2> QED BY <1>8, <2>1 DEF Join, record, TypeOK
<1>9. CASE UNCHANGED vars
  BY <1>9 DEF vars, record, TypeOK
<1> QED BY <1>1, <1>2, <1>3, <1>4, <1>5, <1>6, <1>7, <1>8, <1>9 DEF Next, Step, Worker

\* The stop_callback exists exactly while run() is between its construction
\* and its return; scripts, calls and queue stay what they should be.
THEOREM WorkerTypeCorrect == Spec => []TypeOK
<1>1. Init => TypeOK
  <2> SUFFICES ASSUME Init PROVE TypeOK
    OBVIOUS
  <2>1. /\ queue \in Seq(Tasks) /\ script \in [Clients -> Seq(Steps)]
        /\ call \in [Clients -> Seq(Rest)]
    BY WorkerAssumption, EmptySeq DEF Init
  <2>2. stopped \in BOOLEAN
    BY Zenon DEF Init
  <2>3. registered = (pc \notin {"start", "ended"})
    BY DEF Init
  <2> QED BY <2>1, <2>2, <2>3 DEF Init, TypeOK
<1> QED BY <1>1, TypesStep, PTL DEF Spec

-----------------------------------------------------------------------------
(* The stop *)

\* "queue worker stopping": the worker ends only with the queue drained, but
\* for what was submitted after the stop request.
THEOREM WorkerDrains == Spec => []DrainedBeforeStop
<1>1. Init => DrainedBeforeStop
  BY DEF Init, DrainedBeforeStop
<1>2. TypeOK /\ DrainedBeforeStop /\ [Next]_vars => DrainedBeforeStop'
  <2> SUFFICES ASSUME TypeOK, DrainedBeforeStop, [Next]_vars PROVE DrainedBeforeStop'
    OBVIOUS
  <2>1. CASE Test
    BY <2>1 DEF Test, Take, TypeOK, DrainedBeforeStop
  <2>2. CASE Register \/ Block \/ SpuriousWakeup \/ Processed \/ Return
    BY <2>2 DEF Register, Block, SpuriousWakeup, Processed, Goto, Return, record,
                DrainedBeforeStop
  <2>3. ASSUME NEW c \in Clients, Submit(c) PROVE DrainedBeforeStop'
    <3>1. PICK k : k = Head(script[c]).task
      OBVIOUS
    <3>2. Push(k)
      BY <2>3, <3>1 DEF Submit
    <3>3. \A i \in DOMAIN queue' : queue'[i] = k \/ (i \in DOMAIN queue /\ queue'[i] = queue[i])
      BY <3>2 DEF Push, TypeOK
    <3> QED BY <3>2, <3>3 DEF Push, DrainedBeforeStop
  <2>4. ASSUME NEW c \in Clients, Notify(c) PROVE DrainedBeforeStop'
    BY <2>4 DEF Notify, record, DrainedBeforeStop
  <2>5. ASSUME NEW c \in Clients, RequestStop(c) \/ Destroy(c) \/ Join(c)
        PROVE  DrainedBeforeStop'
    BY <2>5 DEF RequestStop, Destroy, Request, Join, record, DrainedBeforeStop
  <2>6. CASE UNCHANGED vars
    BY <2>6 DEF vars, record, DrainedBeforeStop
  <2> QED BY <2>1, <2>2, <2>3, <2>4, <2>5, <2>6 DEF Next, Step, Worker
<1> QED BY <1>1, <1>2, WorkerTypeCorrect, PTL DEF Spec

-----------------------------------------------------------------------------
(* The queue *)

\* Who sleeps has found the queue empty: nothing gets between the test and
\* the sleep, since submit() needs the mutex.
SleepInv == NoTaskSleptOn /\ (pc = "blocking" => queue = <<>>)

Notes == {"notifyOne", "callback", "notifyAll"}

\* A call that begins, and one that only joins, leaves the others' notes.
LEMMA NotesRemain ==
    ASSUME TypeOK, NEW c \in Clients, UNCHANGED <<queue, pc>>,
           \/ \E op, rest : Call(c, op, rest)
           \/ Continue(c, "join"),
           NoTaskSleptOn
    PROVE  NoTaskSleptOn'
<1> SUFFICES ASSUME pc = "waiting", queue # <<>>
             PROVE  \E d \in Clients : \E i \in DOMAIN call'[d] : call'[d][i] \in Notes
  BY DEF NoTaskSleptOn, Notes
<1>1. PICK d \in Clients : \E i \in DOMAIN call[d] : call[d][i] \in Notes
  BY DEF NoTaskSleptOn, Notes
<1>2. CASE d # c
  <2>1. call'[d] = call[d]
    BY <1>2 DEF Call, Continue, TypeOK
  <2> QED BY <1>1, <2>1
<1>3. CASE d = c
  <2>1. PICK i \in DOMAIN call[c] : call[c][i] \in Notes
    BY <1>1, <1>3
  <2>2. call[c] \in Seq(Rest)
    BY DEF TypeOK
  <2>3. Continue(c, "join")
    BY <2>1, <2>2 DEF Call
  <2>4. call[c][1] = "join" /\ call'[c] = Tail(call[c])
    BY <2>2, <2>3 DEF Continue, At, TypeOK
  <2>5. i # 1
    BY <2>1, <2>4 DEF Notes
  <2>6. i - 1 \in DOMAIN Tail(call[c]) /\ Tail(call[c])[i - 1] = call[c][i]
    BY <2>1, <2>2, <2>5
  <2> QED BY <2>1, <2>4, <2>6
<1> QED BY <1>2, <1>3

\* The worker never sleeps on a task that nobody is about to wake it for.
THEOREM WorkerNotForgotten == Spec => []NoTaskSleptOn
<1>1. Init => SleepInv
  BY DEF Init, SleepInv, NoTaskSleptOn
<1>2. TypeOK /\ SleepInv /\ [Next]_vars => SleepInv'
  <2> SUFFICES ASSUME TypeOK, SleepInv, [Next]_vars PROVE SleepInv'
    OBVIOUS
  <2>1. CASE Register \/ Test \/ Processed \/ SpuriousWakeup \/ Return
    BY <2>1 DEF Register, Test, Take, Processed, SpuriousWakeup, Goto, Return,
                SleepInv, NoTaskSleptOn
  <2>2. CASE Block
    BY <2>2 DEF Block, Goto, SleepInv, NoTaskSleptOn
  <2>3. ASSUME NEW c \in Clients, Submit(c) PROVE SleepInv'
    <3>1. pc # "blocking" /\ pc' = pc
      BY <2>3 DEF Submit, Push
    <3>2. call'[c] = <<"notifyOne">>
      BY <2>3 DEF Submit, Call, TypeOK
    <3>3. 1 \in DOMAIN call'[c] /\ call'[c][1] \in Notes
      BY <3>2 DEF Notes
    <3> QED BY <3>1, <3>3 DEF SleepInv, NoTaskSleptOn, Notes
  <2>4. ASSUME NEW c \in Clients, Notify(c) PROVE SleepInv'
    BY <2>4 DEF Notify, SleepInv, NoTaskSleptOn
  <2>5. ASSUME NEW c \in Clients, RequestStop(c) \/ Destroy(c) \/ Join(c) PROVE SleepInv'
    <3>1. /\ UNCHANGED <<queue, pc>>
          /\ (\E op, rest : Call(c, op, rest)) \/ Continue(c, "join")
      BY <2>5 DEF RequestStop, Destroy, Request, Join
    <3>2. NoTaskSleptOn'
      BY <3>1, NotesRemain DEF SleepInv
    <3> QED BY <3>1, <3>2 DEF SleepInv
  <2>6. CASE UNCHANGED vars
    BY <2>6 DEF vars, SleepInv, NoTaskSleptOn
  <2> QED BY <2>1, <2>2, <2>3, <2>4, <2>5, <2>6 DEF Next, Step, Worker
<1>3. SleepInv => NoTaskSleptOn
  BY DEF SleepInv
<1> QED BY <1>1, <1>2, <1>3, WorkerTypeCorrect, PTL DEF Spec

=============================================================================
