-------------------------- MODULE DemoLockFreeStack --------------------------
(***************************************************************************)
(* DemoLockFreeStack of code_traps/lock_free_cas_aba.cpp: a linked list    *)
(* whose head is changed by compare-and-swap, and a vector of every node   *)
(* that was ever allocated, which keeps the nodes until the destructor     *)
(* deletes them.                                                           *)
(*                                                                         *)
(* Each access to shared memory is a step: the loads and CASes of head_,   *)
(* the read of a node's next, and the two halves of push_back on the       *)
(* vector, which nothing protects.  A compare_exchange_weak that fails     *)
(* without a reason leaves its thread where it is, a stuttering step.      *)
(* A node stands for the value it carries.                                 *)
(*                                                                         *)
(* The memory is sequentially consistent here: that a failed CAS of pop()  *)
(* loads the head relaxed, and oldHead->next is then read without an       *)
(* acquire, is not seen.  Nor is what a push_back() destroys that writes   *)
(* outside the vector's storage: of it is only known that it happened.     *)
(***************************************************************************)
EXTENDS Integers, Sequences, FiniteSets

CONSTANTS Threads,
          Nodes, Null,
          Program    (* Program[t]: the operations thread t calls           *)

ASSUME StackAssumption ==
    /\ IsFiniteSet(Nodes) /\ Null \notin Nodes
    /\ Program \in [Threads -> Seq({"push", "pop"})]

VARIABLES head,       (* head_                                              *)
          next,       (* the next of each node                              *)
          allocated,  (* allocatedNodes_: the cells of its storage          *)
          storage,    (* allocatedNodes_: which storage that is             *)
          size,       (* allocatedNodes_: its size                          *)
          stray,      (* something was written outside its storage          *)
          pc,         (* where each thread is in push or pop                *)
          node,       (* push's node, pop's oldHead                         *)
          seen,       (* pop's next                                         *)
          place,      (* what push_back has read of the vector              *)
          todo,       (* what each thread has still to call                 *)
          used,       (* the nodes that were allocated                      *)
          got         (* what each thread's pops have returned              *)

vector == <<allocated, storage, size, stray>>
vars == <<head, next, vector, pc, node, seen, place, todo, used, got>>

NoPlace == [storage |-> 0, size |-> 0, full |-> FALSE]

Init == /\ head = Null
        /\ next = [n \in Nodes |-> Null]
        /\ allocated = <<>> /\ storage = 0 /\ size = 0 /\ stray = FALSE
        /\ pc = [t \in Threads |-> "idle"]
        /\ node = [t \in Threads |-> Null]
        /\ seen = [t \in Threads |-> Null]
        /\ place = [t \in Threads |-> NoPlace]
        /\ todo = Program
        /\ used = {}
        /\ got = [t \in Threads |-> <<>>]

Calls(t, op) == pc[t] = "idle" /\ todo[t] # <<>> /\ Head(todo[t]) = op

\* Thread t moves on; a thread that has returned forgets its locals.
Goto(t, location, n, s, z) ==
    /\ pc' = [pc EXCEPT ![t] = location]
    /\ node' = [node EXCEPT ![t] = n]
    /\ seen' = [seen EXCEPT ![t] = s]
    /\ place' = [place EXCEPT ![t] = z]
    /\ todo' = IF location = "idle" THEN [todo EXCEPT ![t] = Tail(@)] ELSE todo

Return(t) == Goto(t, "idle", Null, Null, NoPlace)

-----------------------------------------------------------------------------
(* push *)

\* Where the next element goes, and whether there is room for it.
Position == [storage |-> storage, size |-> size, full |-> size = Len(allocated)]

\* new Node at address n, and push_back reads the vector.
AllocateAt(t, n) ==
    /\ Calls(t, "push")
    /\ Goto(t, "record", n, Null, Position)
    /\ next' = [next EXCEPT ![n] = Null]
    /\ used' = used \cup {n}
    /\ UNCHANGED <<head, vector, got>>

\* Mutation of Allocate: pop deletes its node, and new returns to a thread
\* the memory it has freed first.
AllocateReused(t) ==
    AllocateAt(t, IF got[t] # <<>> /\ got[t][1] # Null
                  THEN got[t][1] ELSE CHOOSE n \in Nodes : n \notin used)

\* Which of the addresses that are free is no matter.  Nodes bounds the
\* number of pushes: those beyond it do not happen.
Allocate(t) == /\ Nodes \ used # {}
               /\ AllocateAt(t, CHOOSE n \in Nodes : n \notin used)

\* Undefined behaviour: the vector is not followed any further.
Stray == allocated' = <<>> /\ storage' = 0 /\ size' = 0 /\ stray' = TRUE

\* The position p is in the storage that the vector has now.
InStorage(p) == p.storage = storage /\ p.size <= Len(allocated)

\* One element more, at p; an update is lost when two calls overlap.
Write(n, p) ==
    IF InStorage(p) /\ p.size < Len(allocated)
    THEN /\ allocated' = [allocated EXCEPT ![p.size + 1] = n]
         /\ size' \in {p.size + 1, size + 1}
         /\ UNCHANGED <<storage, stray>>
    ELSE Stray

\* Twice the storage, with the elements before p and the new one; the old
\* storage is given back, which it must not have been before.
Reallocate(n, p) ==
    IF InStorage(p)
    THEN /\ allocated' = [i \in 1 .. IF p.size = 0 THEN 1 ELSE 2 * p.size |->
                             IF i <= p.size THEN allocated[i] ELSE IF i = p.size + 1 THEN n ELSE Null]
         /\ storage' = storage + 1
         /\ size' = p.size + 1
         /\ UNCHANGED stray
    ELSE Stray

\* push_back goes on as it was decided when the vector was read, at the
\* position it has read or at the one that it finds by now.
Record(t) ==
    /\ pc[t] = "record"
    /\ \/ stray /\ UNCHANGED vector
       \/ /\ ~stray
          /\ \E p \in {place[t], Position} :
                IF place[t].full THEN Reallocate(node[t], p) ELSE Write(node[t], p)
    /\ Goto(t, "link", node[t], Null, NoPlace)
    /\ UNCHANGED <<head, next, used, got>>

Link(t) ==
    /\ pc[t] = "link"
    /\ next' = [next EXCEPT ![node[t]] = head]
    /\ Goto(t, "pushCas", node[t], Null, NoPlace)
    /\ UNCHANGED <<head, vector, used, got>>

\* Mutation of PushCas: a failure does not load the head again.
PushCasStale(t) ==
    /\ pc[t] = "pushCas"
    /\ next[node[t]] = head
    /\ head' = node[t]
    /\ Return(t)
    /\ UNCHANGED <<next, vector, used, got>>

\* A failure puts the current head into node->next.
PushCas(t) ==
    /\ pc[t] = "pushCas"
    /\ \/ /\ next[node[t]] = head
          /\ head' = node[t]
          /\ Return(t)
          /\ UNCHANGED next
       \/ /\ next[node[t]] # head
          /\ next' = [next EXCEPT ![node[t]] = head]
          /\ UNCHANGED <<head, pc, node, seen, place, todo>>
    /\ UNCHANGED <<vector, used, got>>

-----------------------------------------------------------------------------
(* pop *)

Answer(t, n) == got' = [got EXCEPT ![t] = Append(@, n)]

\* Mutation of Look: a null head is not looked for.
LookUnchecked(t) == Goto(t, "popRead", head, Null, NoPlace) /\ UNCHANGED got

\* oldHead is the current head: none is the end of the loop.
Look(t) ==
    \/ head = Null /\ Return(t) /\ Answer(t, Null)
    \/ head # Null /\ Goto(t, "popRead", head, Null, NoPlace) /\ UNCHANGED got

PopLoad(t) ==
    /\ Calls(t, "pop")
    /\ Look(t)
    /\ UNCHANGED <<head, next, vector, used>>

PopRead(t) ==
    /\ pc[t] = "popRead"
    /\ Goto(t, "popCas", node[t], next[node[t]], NoPlace)
    /\ UNCHANGED <<head, next, vector, used, got>>

\* A failure puts the current head into oldHead.
PopCas(t) ==
    /\ pc[t] = "popCas"
    /\ \/ /\ head = node[t]
          /\ head' = seen[t]
          /\ Return(t) /\ Answer(t, node[t])
       \/ head # node[t] /\ Look(t) /\ UNCHANGED head
    /\ UNCHANGED <<next, vector, used>>

-----------------------------------------------------------------------------
Step(t) == \/ Allocate(t) \/ Record(t) \/ Link(t) \/ PushCas(t)
           \/ PopLoad(t) \/ PopRead(t) \/ PopCas(t)

Finished == \A t \in Threads : todo[t] = <<>>

Next == \/ \E t \in Threads : Step(t)
        \/ Finished /\ UNCHANGED vars

\* A thread that can run does.
Fairness == \A t \in Threads : WF_vars(Step(t))

Spec == Init /\ [][Next]_vars /\ Fairness

-----------------------------------------------------------------------------
(* Properties *)

\* Types; who holds which node: a push its own that is not in the list yet,
\* a pop any.
TypeOK ==
    /\ head \in Nodes \cup {Null}
    /\ next \in [Nodes -> Nodes \cup {Null}]
    /\ allocated \in Seq(Nodes \cup {Null}) /\ storage \in Nat /\ size \in Nat /\ stray \in BOOLEAN
    /\ pc \in [Threads -> {"idle", "record", "link", "pushCas", "popRead", "popCas"}]
    /\ node \in [Threads -> Nodes \cup {Null}]
    /\ seen \in [Threads -> Nodes \cup {Null}]
    /\ place \in [Threads -> [storage : Nat, size : Nat, full : BOOLEAN]]
    /\ todo \in [Threads -> Seq({"push", "pop"})]
    /\ used \subseteq Nodes
    /\ got \in [Threads -> Seq(Nodes \cup {Null})]
    /\ \A t \in Threads : node[t] = Null <=> pc[t] = "idle"

\* The list from head_ on.  A list without a cycle ends within Nodes.
Nth[i \in 0 .. Cardinality(Nodes)] ==
    IF i = 0 THEN head ELSE IF Nth[i - 1] = Null THEN Null ELSE next[Nth[i - 1]]
List == LET length == Cardinality({i \in DOMAIN Nth : Nth[i] # Null})
        IN  [i \in 1 .. length |-> Nth[i - 1]]

\* The stack is linearizable: a push takes effect with its CAS, a pop with its
\* CAS, or with the load of a null head.  There is no ABA, because a node that
\* was popped is not allocated again while the stack lives.
Stack == INSTANCE AtomicStack WITH contents <- List

ImplementsStack == Stack!Spec

\* The CAS loops end: a failed CAS means that another thread's succeeded.
OperationsEnd == <>Finished

\* "They are retained until stack destruction": when the threads are done,
\* even if no push_back has written outside the vector's storage, the vector
\* holds each node once, so the destructor deletes each node once.
NodesRetained ==
    Finished /\ ~stray => /\ size = Cardinality(used) /\ size <= Len(allocated)
                          /\ used = {allocated[i] : i \in 1 .. size}

=============================================================================
