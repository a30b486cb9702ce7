----------------------------- MODULE AtomicStack -----------------------------
(***************************************************************************)
(* A stack whose operations take effect at once, for threads that push     *)
(* nodes and record what their pops return: the specification that a       *)
(* linearizable stack implements.                                          *)
(***************************************************************************)
EXTENDS Sequences

CONSTANTS Threads, Nodes, Null

VARIABLES contents,  (* top of the stack first                              *)
          got        (* what each thread's pops have returned, Null if empty *)

vars == <<contents, got>>

Init == /\ contents = <<>>
        /\ got = [t \in Threads |-> <<>>]

Push(n) == contents' = <<n>> \o contents /\ UNCHANGED got

Answer(t, n) == got' = [got EXCEPT ![t] = Append(@, n)]

Pop(t) == /\ contents # <<>>
          /\ contents' = Tail(contents)
          /\ Answer(t, Head(contents))

PopEmpty(t) == contents = <<>> /\ Answer(t, Null) /\ UNCHANGED contents

Next == \/ \E n \in Nodes : Push(n)
        \/ \E t \in Threads : Pop(t) \/ PopEmpty(t)

Spec == Init /\ [][Next]_vars

=============================================================================
