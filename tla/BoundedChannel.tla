--------------------------- MODULE BoundedChannel ---------------------------
(***************************************************************************)
(* What a bounded blocking queue promises its callers, with no mutex, no   *)
(* condition variable and no notification: a call that cannot be answered  *)
(* yet is pending, and takes effect in one step as soon as it can.         *)
(***************************************************************************)
EXTENDS Integers, Sequences

CONSTANTS Threads, Values, NoValue, Capacity, Calls

VARIABLES buf,      (* the accepted items nobody has taken, oldest first      *)
          closed,   (* no item is accepted any more                           *)
          phase,    (* idle; a pending call; answered, not yet returned       *)
          item,     (* the item of a pending push, or of an answered pop      *)
          answer    (* what the thread's latest call answers                  *)

vars == <<buf, closed, phase, item, answer>>

Init == /\ buf = <<>>
        /\ closed = FALSE
        /\ phase = [t \in Threads |-> "idle"]
        /\ item = [t \in Threads |-> NoValue]
        /\ answer = [t \in Threads |-> FALSE]

-----------------------------------------------------------------------------
Enter(t, next, v, a) == /\ phase' = [phase EXCEPT ![t] = next]
                        /\ item' = [item EXCEPT ![t] = v]
                        /\ answer' = [answer EXCEPT ![t] = a]

\* A push takes effect: the item goes to the back, or the channel is closed.
Accept(t, v) == \/ /\ ~closed /\ Len(buf) < Capacity
                   /\ buf' = Append(buf, v)
                   /\ Enter(t, "answered", NoValue, TRUE)
                   /\ UNCHANGED closed
                \/ /\ closed
                   /\ Enter(t, "idle", NoValue, FALSE)
                   /\ UNCHANGED <<buf, closed>>

\* A push that may not wait, or not longer, fails on a full channel.
Fail(t) == /\ ~closed /\ Len(buf) = Capacity
           /\ Enter(t, "idle", NoValue, FALSE)
           /\ UNCHANGED <<buf, closed>>

\* A pop takes effect: the oldest item, or nothing of a closed drained one.
Take(t) == \/ /\ buf # <<>>
              /\ buf' = Tail(buf)
              /\ Enter(t, "answered", Head(buf), TRUE)
              /\ UNCHANGED closed
           \/ /\ buf = <<>> /\ closed
              /\ Enter(t, "idle", NoValue, FALSE)
              /\ UNCHANGED <<buf, closed>>

\* A call that cannot be answered waits.
Wait(t, next, v) == /\ Enter(t, next, v, answer[t])
                    /\ UNCHANGED <<buf, closed>>

-----------------------------------------------------------------------------
Call(t) ==
    /\ phase[t] = "idle"
    /\ \/ /\ Calls[t] \cap {"push", "pushFor", "tryPush"} # {}
          /\ \E v \in Values : Accept(t, v)
       \/ "tryPush" \in Calls[t] /\ Fail(t)
       \/ /\ ~closed /\ Len(buf) = Capacity
          /\ \/ "push" \in Calls[t] /\ \E v \in Values : Wait(t, "pushing", v)
             \/ "pushFor" \in Calls[t] /\ \E v \in Values : Wait(t, "pushingFor", v)
       \/ "pop" \in Calls[t] /\ Take(t)
       \/ /\ "pop" \in Calls[t]
          /\ ~closed /\ buf = <<>>
          /\ Wait(t, "popping", NoValue)
       \/ /\ "close" \in Calls[t]
          /\ closed' = TRUE
          /\ phase' \in {[phase EXCEPT ![t] = "answered"], phase}
          /\ UNCHANGED <<buf, item, answer>>

\* The deadline of a pending pushFor has passed.
Expire(t) == /\ phase[t] = "pushingFor"
             /\ phase' = [phase EXCEPT ![t] = "lastTry"]
             /\ UNCHANGED <<buf, closed, item, answer>>

CompletePush(t) == \/ /\ phase[t] \in {"pushing", "pushingFor", "lastTry"}
                      /\ Accept(t, item[t])
                   \/ phase[t] = "lastTry" /\ Fail(t)

CompletePop(t) == phase[t] = "popping" /\ Take(t)

Return(t) == /\ phase[t] = "answered"
             /\ Enter(t, "idle", NoValue, answer[t])
             /\ UNCHANGED <<buf, closed>>

Next == \E t \in Threads : \/ Call(t) \/ Expire(t)
                           \/ CompletePush(t) \/ CompletePop(t) \/ Return(t)

\* While some pending push could be accepted, one is, sooner or later; the
\* same for pops.  Nothing is promised to one caller: others may overtake it.
Fairness == /\ WF_vars(\E t \in Threads : CompletePush(t))
            /\ WF_vars(\E t \in Threads : CompletePop(t))
            /\ \A t \in Threads : WF_vars(Return(t)) /\ WF_vars(Expire(t))

\* What the channel may do, and with Fairness what it has to do.
Safety == Init /\ [][Next]_vars

Spec == Safety /\ Fairness

=============================================================================
