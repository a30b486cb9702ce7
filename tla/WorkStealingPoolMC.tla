------------------------- MODULE WorkStealingPoolMC -------------------------
(***************************************************************************)
(* Instances of the work-stealing pool for TLC.                            *)
(***************************************************************************)
EXTENDS WorkStealingPool, TLC

CONSTANTS main, other, parent, child, sibling, second

\* nestedTaskDemo with an external task beside the parent's: one worker can
\* have two children in its deque while the other steals.  Both clients wait
\* for the pool to be idle if they like, and main shuts it down.
NestedProgram == (main :> <<parent>>) @@ (other :> <<second>>)
NestedChildren == (parent :> <<child, sibling>>) @@ (child :> <<>>)
                  @@ (sibling :> <<>>) @@ (second :> <<>>)

=============================================================================
