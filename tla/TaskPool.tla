------------------------------ MODULE TaskPool ------------------------------
(***************************************************************************)
(* What a pool promises about tasks, with no workers, queues or counters:  *)
(* a task that is accepted runs exactly once, a task is refused only when  *)
(* the pool is closing, and the pool is joined only when every task it     *)
(* accepted has ended.  Then it accepts nothing any more.                  *)
(***************************************************************************)
CONSTANT Tasks

VARIABLES status,    (* of each task: new, accepted, refused, running, done  *)
          closing,   (* shutdown has begun                                   *)
          joined     (* every worker has ended                               *)

vars == <<status, closing, joined>>

Init == /\ status = [k \in Tasks |-> "new"]
        /\ closing = FALSE
        /\ joined = FALSE

Becomes(k, s) == /\ status' = [status EXCEPT ![k] = s]
                 /\ UNCHANGED <<closing, joined>>

Accept(k) == status[k] = "new" /\ ~joined /\ Becomes(k, "accepted")
Refuse(k) == status[k] = "new" /\ closing /\ Becomes(k, "refused")
Start(k)  == status[k] = "accepted" /\ Becomes(k, "running")
Finish(k) == status[k] = "running" /\ Becomes(k, "done")

Close == closing' = TRUE /\ UNCHANGED <<status, joined>>

Join == /\ closing /\ ~joined
        /\ \A k \in Tasks : status[k] \notin {"accepted", "running"}
        /\ joined' = TRUE
        /\ UNCHANGED <<status, closing>>

Next == \/ \E k \in Tasks : Accept(k) \/ Refuse(k) \/ Start(k) \/ Finish(k)
        \/ Close \/ Join

\* Accepted tasks are run, and a pool that is closing is joined in the end.
Fairness == /\ \A k \in Tasks : WF_vars(Start(k)) /\ WF_vars(Finish(k))
            /\ WF_vars(Join)

Safety == Init /\ [][Next]_vars

Spec == Safety /\ Fairness

=============================================================================
