------------------------ MODULE DemoLockFreeStackProofs ------------------------
(***************************************************************************)
(* Proof that the stack of lock_free_cas_aba.cpp is linearizable: for any  *)
(* threads and programs, and however many nodes there are, it implements   *)
(* the stack whose operations take effect at once.                         *)
(***************************************************************************)
EXTENDS DemoLockFreeStack, FiniteSetTheorems, WellFoundedInduction, TLAPS

-----------------------------------------------------------------------------
(* Induction over the natural numbers, as a fact about sets of them        *)

LEMMA LeastNatural ==
    ASSUME NEW S, S \subseteq Nat, S # {}
    PROVE  \E m \in S : \A n \in S : m <= n
<1> DEFINE R == OpToRel(<, Nat)
<1>1. IsWellFoundedOn(R, Nat)
  BY NatLessThanWellFounded
<1>2. \A m, n \in Nat : m < n => <<m, n>> \in R
  BY DEF OpToRel
<1> HIDE DEF R
<1>3. PICK m \in S : \A n \in S : <<n, m>> \notin R
  BY <1>1, WFMin
<1>4. \A n \in S : ~(n < m)
  BY <1>2, <1>3
<1> QED BY <1>3, <1>4

LEMMA Induction ==
    ASSUME NEW S, 0 \in S, \A n \in Nat : n \in S => n + 1 \in S
    PROVE  \A n \in Nat : n \in S
<1> SUFFICES ASSUME Nat \ S # {} PROVE FALSE
  OBVIOUS
<1>1. PICK m \in Nat \ S : \A n \in Nat \ S : m <= n
  BY LeastNatural
<1>2. m # 0 /\ m - 1 \in Nat
  BY <1>1
<1>3. m - 1 \in S
  BY <1>1, <1>2
<1> QED BY <1>1, <1>2, <1>3

-----------------------------------------------------------------------------
(* The list                                                                *)

\* L is the list from h on.
IsList(L, h, nxt) ==
    /\ L \in Seq(Nodes)
    /\ \A i, j \in 1 .. Len(L) : L[i] = L[j] => i = j
    /\ h = IF L = <<>> THEN Null ELSE L[1]
    /\ \A i \in 1 .. Len(L) : nxt[L[i]] = IF i = Len(L) THEN Null ELSE L[i + 1]

LEMMA ListFits ==
    ASSUME NEW L \in Seq(Nodes), \A i, j \in 1 .. Len(L) : L[i] = L[j] => i = j
    PROVE  Len(L) <= Cardinality(Nodes) /\ Cardinality(Nodes) \in Nat
<1>1. L \in Injection(1 .. Len(L), Nodes)
  BY DEF Injection, IsInjective
<1>2. Cardinality(1 .. Len(L)) <= Cardinality(Nodes)
  BY <1>1, StackAssumption, FS_Injection
<1>3. Cardinality(1 .. Len(L)) = Len(L)
  BY FS_Interval
<1> QED BY <1>2, <1>3, StackAssumption, FS_CardinalityType

\* Whatever list there is, the recursion finds it.
LEMMA NthIs ==
    ASSUME NEW L, IsList(L, head, next)
    PROVE  Nth = [i \in 0 .. Cardinality(Nodes) |-> IF i < Len(L) THEN L[i + 1] ELSE Null]
<1> DEFINE N == Cardinality(Nodes)
           f == [i \in 0 .. N |-> IF i < Len(L) THEN L[i + 1] ELSE Null]
           Solves(g) == g = [i \in 0 .. N |-> IF i = 0 THEN head
                                              ELSE IF g[i - 1] = Null THEN Null ELSE next[g[i - 1]]]
<1>1. L \in Seq(Nodes) /\ Len(L) \in Nat /\ N \in Nat /\ \A i \in 1 .. Len(L) : L[i] # Null
  BY ListFits, StackAssumption DEF IsList
<1> HIDE DEF N
<1>2. Solves(f)
  <2> SUFFICES ASSUME NEW i \in 0 .. N
               PROVE  f[i] = IF i = 0 THEN head ELSE IF f[i - 1] = Null THEN Null ELSE next[f[i - 1]]
    OBVIOUS
  <2>1. CASE i = 0
    BY <1>1, <2>1 DEF IsList
  <2>2. CASE i # 0 /\ i - 1 < Len(L)
    <3>1. f[i - 1] = L[i] /\ i \in 1 .. Len(L) /\ f[i - 1] # Null
      BY <1>1, <2>2
    <3>2. next[L[i]] = f[i]
      BY <1>1, <2>2, <3>1 DEF IsList
    <3> QED BY <2>2, <3>1, <3>2
  <2>3. CASE i # 0 /\ ~(i - 1 < Len(L))
    BY <1>1, <2>3
  <2> QED BY <2>1, <2>2, <2>3
<1>3. ASSUME NEW e, NEW g, Solves(e), Solves(g) PROVE g = e
  <2> DEFINE S == {n \in Nat : n <= N => g[n] = e[n]}
  <2>1. 0 \in 0 .. N /\ \A n \in Nat : n + 1 <= N => n \in 0 .. N /\ n + 1 \in 0 .. N
    BY <1>1
  <2>2. 0 \in S
    <3>1. g[0] = head /\ e[0] = head
      BY <1>3, <2>1
    <3> QED BY <3>1
  <2>3. ASSUME NEW n \in Nat, n \in S PROVE n + 1 \in S
    <3>1. CASE n + 1 <= N
      <4>1. /\ g[n + 1] = IF g[n] = Null THEN Null ELSE next[g[n]]
            /\ e[n + 1] = IF e[n] = Null THEN Null ELSE next[e[n]]
        BY <1>3, <2>1, <3>1
      <4>2. g[n] = e[n]
        BY <1>1, <2>3, <3>1
      <4> QED BY <4>1, <4>2
    <3> QED BY <1>1, <3>1
  <2> HIDE DEF S
  <2>4. \A n \in Nat : n \in S
    BY <2>2, <2>3, Induction
  <2>5. \A n \in 0 .. N : g[n] = e[n]
    BY <1>1, <2>4 DEF S
  <2> QED BY <1>3, <2>5
<1>4. Nth = CHOOSE g : Solves(g)
  BY DEF Nth, N
<1> HIDE DEF f, Solves
<1>5. Nth = f
  BY <1>2, <1>3, <1>4
<1> QED BY <1>5 DEF f, N

ListFound == \A L : IsList(L, head, next) => List = L

LEMMA ListIs == ListFound
<1> SUFFICES ASSUME NEW L, IsList(L, head, next) PROVE List = L
  BY DEF ListFound
<1> DEFINE N == Cardinality(Nodes)
<1>1. /\ L \in Seq(Nodes) /\ Len(L) \in Nat /\ N \in Nat /\ Len(L) <= N
      /\ \A i \in 1 .. Len(L) : L[i] # Null
  BY ListFits, StackAssumption DEF IsList
<1>2. Nth = [i \in 0 .. N |-> IF i < Len(L) THEN L[i + 1] ELSE Null]
  BY NthIs
<1> HIDE DEF N
<1>3. {i \in DOMAIN Nth : Nth[i] # Null} = 0 .. Len(L) - 1
  BY <1>1, <1>2
<1>4. Cardinality(0 .. Len(L) - 1) = Len(L)
  <2>1. PICK n \in Int : n = Len(L) - 1
    BY <1>1
  <2>2. Cardinality(0 .. n) = IF 0 > n THEN 0 ELSE n - 0 + 1
    BY FS_Interval
  <2> QED BY <1>1, <2>1, <2>2
<1>5. List = [i \in 1 .. Len(L) |-> Nth[i - 1]]
  BY <1>3, <1>4 DEF List
<1>6. \A i \in 1 .. Len(L) : Nth[i - 1] = L[i]
  BY <1>1, <1>2
<1> QED BY <1>1, <1>5, <1>6

-----------------------------------------------------------------------------
(* Who holds which node                                                    *)

Own(t) == pc[t] \in {"record", "link", "pushCas"}

\* A node is published by the CAS of its push.  Its next does not change then.
Published(n) == n \in used /\ \A t \in Threads : Own(t) => node[t] # n

NodeInv ==
    /\ \A t \in Threads : pc[t] # "idle" => todo[t] # <<>>
    /\ \A t \in Threads : Own(t) => node[t] \in used
    /\ \A t, u \in Threads : Own(t) /\ Own(u) /\ node[t] = node[u] => t = u
    /\ \A t \in Threads : pc[t] \in {"popRead", "popCas"} => Published(node[t])
    /\ \A t \in Threads : pc[t] = "popCas" => seen[t] = next[node[t]]

\* The nodes of L are published and were not popped.
InStack(L) == \A i \in 1 .. Len(L) :
    /\ Published(L[i])
    /\ \A t \in Threads : \A j \in DOMAIN got[t] : got[t][j] # L[i]

ListInv == \E L : IsList(L, head, next) /\ InStack(L)

\* Nothing is popped twice.
PoppedOnce ==
    \A t, u \in Threads : \A i \in DOMAIN got[t], j \in DOMAIN got[u] :
        got[t][i] # Null /\ got[t][i] = got[u][j] => t = u /\ i = j

GotInv == /\ PoppedOnce
          /\ \A t \in Threads : \A i \in DOMAIN got[t] : got[t][i] # Null => Published(got[t][i])

StackInv == TypeOK /\ NodeInv /\ ListInv /\ GotInv

-----------------------------------------------------------------------------
(* Types                                                                   *)

Positions == [storage : Nat, size : Nat, full : BOOLEAN]

VectorTypes == /\ allocated \in Seq(Nodes \cup {Null}) /\ storage \in Nat /\ size \in Nat
               /\ stray \in BOOLEAN

LEMMA PositionsRead == TypeOK => Position \in Positions /\ NoPlace \in Positions
BY DEF TypeOK, Position, NoPlace, Positions

\* What a push_back leaves of the vector.
LEMMA RecordTypes ==
    ASSUME TypeOK, NEW n \in Nodes, NEW p \in Positions, Write(n, p) \/ Reallocate(n, p)
    PROVE  VectorTypes'
<1>1. /\ allocated \in Seq(Nodes \cup {Null}) /\ storage \in Nat /\ size \in Nat
      /\ p.size \in Nat /\ Len(allocated) \in Nat
  BY DEF TypeOK, Positions
<1>2. CASE Stray
  BY <1>2 DEF Stray, VectorTypes
<1>3. CASE Write(n, p) /\ InStorage(p) /\ p.size < Len(allocated)
  <2>1. allocated' \in Seq(Nodes \cup {Null})
    BY <1>1, <1>3 DEF Write
  <2>2. size' \in Nat /\ storage' \in Nat /\ stray' = stray
    BY <1>1, <1>3 DEF Write
  <2> QED BY <2>1, <2>2 DEF VectorTypes, TypeOK
<1>4. CASE Reallocate(n, p) /\ InStorage(p)
  <2> DEFINE c == IF p.size = 0 THEN 1 ELSE 2 * p.size
  <2>1. c \in Nat /\ \A i \in 1 .. c : i <= p.size => allocated[i] \in Nodes \cup {Null}
    BY <1>1, <1>4 DEF InStorage
  <2>2. allocated' = [i \in 1 .. c |->
                        IF i <= p.size THEN allocated[i] ELSE IF i = p.size + 1 THEN n ELSE Null]
    BY <1>4 DEF Reallocate
  <2> HIDE DEF c
  <2>3. allocated' \in Seq(Nodes \cup {Null})
    BY <2>1, <2>2
  <2>4. size' \in Nat /\ storage' \in Nat /\ stray' = stray
    BY <1>1, <1>4 DEF Reallocate
  <2> QED BY <2>3, <2>4 DEF VectorTypes, TypeOK
<1> QED BY <1>2, <1>3, <1>4 DEF Write, Reallocate

LEMMA TypeStep ==
    ASSUME TypeOK, NodeInv, NEW t \in Threads, Step(t)
    PROVE  TypeOK'
<1>1. TypeOK /\ Null \notin Nodes /\ Position \in Positions /\ NoPlace \in Positions
  BY PositionsRead, StackAssumption
<1>2. ASSUME NEW l \in {"record", "link", "pushCas", "popRead", "popCas"}, NEW n \in Nodes, NEW m \in Nodes \cup {Null},
             NEW z \in Positions, Goto(t, l, n, m, z)
      PROVE  /\ pc' \in [Threads -> {"idle", "record", "link", "pushCas", "popRead", "popCas"}]
             /\ node' \in [Threads -> Nodes \cup {Null}]
             /\ seen' \in [Threads -> Nodes \cup {Null}]
             /\ place' \in [Threads -> Positions]
             /\ todo' \in [Threads -> Seq({"push", "pop"})]
             /\ \A u \in Threads : node'[u] = Null <=> pc'[u] = "idle"
  BY <1>1, <1>2 DEF Goto, TypeOK, Positions
<1>3. ASSUME Return(t), todo[t] # <<>>
      PROVE  /\ pc' \in [Threads -> {"idle", "record", "link", "pushCas", "popRead", "popCas"}]
             /\ node' \in [Threads -> Nodes \cup {Null}]
             /\ seen' \in [Threads -> Nodes \cup {Null}]
             /\ place' \in [Threads -> Positions]
             /\ todo' \in [Threads -> Seq({"push", "pop"})]
             /\ \A u \in Threads : node'[u] = Null <=> pc'[u] = "idle"
  BY <1>1, <1>3 DEF Return, Goto, TypeOK, Positions
<1>4. \A u \in Threads : pc[u] # "idle" => todo[u] # <<>> /\ node[u] \in Nodes
  BY DEF NodeInv, TypeOK
<1>5. CASE Allocate(t)
  <2>1. PICK n \in Nodes : AllocateAt(t, n)
    BY <1>5 DEF Allocate
  <2>2. Goto(t, "record", n, Null, Position)
    BY <2>1 DEF AllocateAt
  <2> QED BY <1>1, <1>2, <2>1, <2>2 DEF AllocateAt, TypeOK, Positions, vector
<1>6. CASE Record(t)
  <2>1. Goto(t, "link", node[t], Null, NoPlace) /\ node[t] \in Nodes /\ place[t] \in Positions
    BY <1>1, <1>4, <1>6 DEF Record, TypeOK, Positions
  <2>2. VectorTypes'
    <3>1. CASE UNCHANGED vector
      BY <3>1 DEF VectorTypes, TypeOK, vector
    <3>2. CASE ~UNCHANGED vector
      <4>1. PICK p \in {place[t], Position} : Write(node[t], p) \/ Reallocate(node[t], p)
        BY <1>6, <3>2 DEF Record
      <4>2. p \in Positions
        BY <1>1, <2>1
      <4> QED BY <2>1, <4>1, <4>2, RecordTypes
    <3> QED BY <3>1, <3>2
  <2>3. UNCHANGED <<head, next, used, got>>
    BY <1>6 DEF Record
  <2> QED BY <1>1, <1>2, <2>1, <2>2, <2>3 DEF TypeOK, VectorTypes, Positions
<1>7. CASE Link(t)
  <2>1. Goto(t, "pushCas", node[t], Null, NoPlace) /\ node[t] \in Nodes
    BY <1>1, <1>4, <1>7 DEF Link
  <2> QED BY <1>1, <1>2, <1>7, <2>1 DEF Link, TypeOK, Positions, vector
<1>8. CASE PushCas(t)
  <2>1. todo[t] # <<>> /\ node[t] \in Nodes
    BY <1>4, <1>8 DEF PushCas
  <2>2. head' \in Nodes \cup {Null} /\ next' \in [Nodes -> Nodes \cup {Null}] /\ UNCHANGED <<vector, used, got>>
    <3>1. head \in Nodes \cup {Null} /\ next \in [Nodes -> Nodes \cup {Null}]
      BY DEF TypeOK
    <3> QED BY <1>8, <2>1, <3>1 DEF PushCas
  <2>3. CASE Return(t)
    BY <1>3, <2>1, <2>2, <2>3 DEF TypeOK, Positions, vector
  <2>4. CASE UNCHANGED <<head, pc, node, seen, place, todo>>
    BY <2>2, <2>4 DEF TypeOK, Positions, vector
  <2> QED BY <1>8, <2>3, <2>4 DEF PushCas
<1>9. ASSUME Look(t), todo[t] # <<>>, UNCHANGED <<head, next, vector, used>> PROVE TypeOK'
  <2>1. CASE head = Null /\ Return(t) /\ Answer(t, Null)
    <3>1. got' \in [Threads -> Seq(Nodes \cup {Null})]
      BY <2>1 DEF Answer, TypeOK
    <3> QED BY <1>3, <1>9, <2>1, <3>1 DEF TypeOK, Positions, vector
  <2>2. CASE head # Null /\ Goto(t, "popRead", head, Null, NoPlace) /\ UNCHANGED got
    <3>1. head \in Nodes
      BY <1>1, <2>2 DEF TypeOK
    <3> QED BY <1>1, <1>2, <1>9, <2>2, <3>1 DEF TypeOK, Positions, vector
  <2> QED BY <1>9, <2>1, <2>2 DEF Look
<1>10. CASE PopLoad(t)
  BY <1>9, <1>10 DEF PopLoad, Calls
<1>11. CASE PopRead(t)
  <2>1. /\ Goto(t, "popCas", node[t], next[node[t]], NoPlace) /\ node[t] \in Nodes
        /\ next[node[t]] \in Nodes \cup {Null}
    BY <1>1, <1>4, <1>11 DEF PopRead, TypeOK
  <2> QED BY <1>1, <1>2, <1>11, <2>1 DEF PopRead, TypeOK, Positions, vector
<1>12. CASE PopCas(t)
  <2>1. todo[t] # <<>> /\ node[t] \in Nodes
    BY <1>4, <1>12 DEF PopCas
  <2>2. CASE Look(t) /\ UNCHANGED head
    BY <1>9, <1>12, <2>1, <2>2 DEF PopCas
  <2>3. CASE head' = seen[t] /\ Return(t) /\ Answer(t, node[t])
    <3>1. got' \in [Threads -> Seq(Nodes \cup {Null})]
      BY <2>1, <2>3 DEF Answer, TypeOK
    <3>2. UNCHANGED <<next, vector, used>> /\ head' \in Nodes \cup {Null}
      BY <1>12, <2>3 DEF PopCas, TypeOK
    <3> QED BY <1>3, <2>1, <2>3, <3>1, <3>2 DEF TypeOK, Positions, vector
  <2> QED BY <1>12, <2>2, <2>3 DEF PopCas
<1> QED BY <1>5, <1>6, <1>7, <1>8, <1>10, <1>11, <1>12 DEF Step

-----------------------------------------------------------------------------
(* The nodes                                                               *)

\* A step is of its thread's locals alone.
LEMMA OthersStay ==
    ASSUME TypeOK, NEW t \in Threads, Step(t), NEW u \in Threads, u # t
    PROVE  pc'[u] = pc[u] /\ node'[u] = node[u] /\ seen'[u] = seen[u] /\ todo'[u] = todo[u]
<1>1. \/ \E l, n, s, z : Goto(t, l, n, s, z)
      \/ UNCHANGED <<pc, node, seen, todo>>
  <2>1. CASE Allocate(t) \/ Record(t) \/ Link(t) \/ PopRead(t)
    BY <2>1 DEF Allocate, AllocateAt, Record, Link, PopRead
  <2>2. CASE PushCas(t)
    BY <2>2 DEF PushCas, Return
  <2>3. CASE PopLoad(t) \/ PopCas(t)
    BY <2>3 DEF PopLoad, PopCas, Look, Return
  <2> QED BY <2>1, <2>2, <2>3 DEF Step
<1>2. CASE UNCHANGED <<pc, node, seen, todo>>
  BY <1>2
<1>3. ASSUME NEW l, NEW n, NEW s, NEW z, Goto(t, l, n, s, z)
      PROVE  pc'[u] = pc[u] /\ node'[u] = node[u] /\ seen'[u] = seen[u] /\ todo'[u] = todo[u]
  BY <1>3 DEF Goto, TypeOK
<1> QED BY <1>1, <1>2, <1>3

\* A node that is published stays so, with the next it has.
LEMMA PublishedStays ==
    ASSUME TypeOK, NodeInv, NEW t \in Threads, Step(t), NEW n \in Nodes, Published(n)
    PROVE  Published(n)' /\ next'[n] = next[n]
<1>1. n \in used' /\ next'[n] = next[n]
  <2>1. CASE Allocate(t)
    <3>1. PICK m \in Nodes : m \notin used /\ AllocateAt(t, m)
      BY <2>1 DEF Allocate
    <3> QED BY <3>1 DEF AllocateAt, TypeOK, Published
  <2>2. CASE Link(t) \/ PushCas(t)
    BY <2>2 DEF Link, PushCas, Published, Own, TypeOK
  <2>3. CASE Record(t) \/ PopLoad(t) \/ PopRead(t) \/ PopCas(t)
    BY <2>3 DEF Record, PopLoad, PopRead, PopCas, Published
  <2> QED BY <2>1, <2>2, <2>3 DEF Step
<1>2. ASSUME NEW u \in Threads, Own(u)' PROVE node'[u] # n
  <2>1. CASE u # t
    <3>1. pc'[u] = pc[u] /\ node'[u] = node[u]
      BY <2>1, OthersStay
    <3> QED BY <1>2, <3>1 DEF Published, Own
  <2>2. CASE u = t /\ Allocate(t)
    BY <2>2 DEF Allocate, AllocateAt, Goto, Published, TypeOK
  <2>3. CASE u = t /\ (Record(t) \/ Link(t))
    BY <2>3 DEF Record, Link, Goto, Published, Own, TypeOK
  <2>4. CASE u = t /\ PushCas(t)
    BY <1>2, <2>4 DEF PushCas, Return, Goto, Published, Own, TypeOK
  <2>5. CASE u = t /\ (PopLoad(t) \/ PopRead(t) \/ PopCas(t))
    BY <1>2, <2>5 DEF PopLoad, PopRead, PopCas, Look, Return, Goto, Own, TypeOK
  <2> QED BY <2>1, <2>2, <2>3, <2>4, <2>5 DEF Step
<1> QED BY <1>1, <1>2 DEF Published

LEMMA NodeStep ==
    ASSUME TypeOK, NodeInv, ListInv, NEW t \in Threads, Step(t)
    PROVE  NodeInv'
<1>1. \A u \in Threads \ {t} : /\ pc'[u] = pc[u] /\ node'[u] = node[u] /\ seen'[u] = seen[u]
                               /\ todo'[u] = todo[u]
  BY OthersStay
<1>2. \A u \in Threads : pc[u] \in {"popRead", "popCas"} =>
         \E n \in Nodes : n = node[u] /\ Published(n)' /\ next'[n] = next[n]
  <2> SUFFICES ASSUME NEW u \in Threads, pc[u] \in {"popRead", "popCas"}
               PROVE  \E n \in Nodes : n = node[u] /\ Published(n)' /\ next'[n] = next[n]
    OBVIOUS
  <2>1. PICK n \in Nodes : n = node[u] /\ Published(n)
    BY StackAssumption DEF NodeInv, TypeOK
  <2> QED BY <2>1, PublishedStays
<1>3. /\ \A u \in Threads : pc'[u] # "idle" => todo'[u] # <<>>
      /\ \A u \in Threads : Own(u)' => node'[u] \in used' /\ (u = t => node'[t] = node[t] \/ node'[t] \notin used)
      /\ Own(t)' /\ ~Own(t) => node'[t] \notin used
  <2>1. CASE Allocate(t)
    BY <1>1, <2>1 DEF Allocate, AllocateAt, Calls, Goto, NodeInv, Own, TypeOK
  <2>2. CASE Record(t) \/ Link(t)
    BY <1>1, <2>2 DEF Record, Link, Goto, NodeInv, Own, TypeOK
  <2>3. CASE PushCas(t)
    BY <1>1, <2>3 DEF PushCas, Return, Goto, NodeInv, Own, TypeOK
  <2>4. CASE PopLoad(t) \/ PopRead(t) \/ PopCas(t)
    BY <1>1, <2>4 DEF PopLoad, PopRead, PopCas, Look, Calls, Return, Goto, NodeInv, Own, TypeOK
  <2> QED BY <2>1, <2>2, <2>3, <2>4 DEF Step
<1>4. \A u, v \in Threads : Own(u)' /\ Own(v)' /\ node'[u] = node'[v] => u = v
  BY <1>1, <1>3 DEF NodeInv, Own
<1>5. ASSUME NEW u \in Threads, pc'[u] \in {"popRead", "popCas"}
      PROVE  Published(node[u])' /\ (pc'[u] = "popCas" => seen'[u] = next'[node'[u]])
  <2>1. CASE u # t
    BY <1>1, <1>2, <1>5, <2>1 DEF NodeInv, Published, Own
  <2>2. CASE u = t /\ (PopLoad(t) \/ PopCas(t))
    <3>1. /\ head \in Nodes /\ pc'[t] = "popRead" /\ node'[t] = head
      BY <1>5, <2>2 DEF PopLoad, PopCas, Look, Return, Goto, TypeOK
    <3>2. PICK n \in Nodes : n = head /\ Published(n)
      BY <3>1, StackAssumption DEF ListInv, IsList, InStack
    <3>3. Published(n)'
      BY <3>2, PublishedStays
    <3> QED BY <2>2, <3>1, <3>2, <3>3 DEF Published, Own
  <2>3. CASE u = t /\ PopRead(t)
    <3>1. /\ pc[t] = "popRead" /\ node'[t] = node[t] /\ seen'[t] = next[node[t]] /\ next' = next
      BY <2>3 DEF PopRead, Goto, TypeOK
    <3> QED BY <1>2, <2>3, <3>1 DEF Published, Own
  <2>4. CASE u = t /\ (Allocate(t) \/ Record(t) \/ Link(t) \/ PushCas(t))
    BY <1>5, <2>4 DEF Allocate, AllocateAt, Record, Link, PushCas, Return, Goto, TypeOK
  <2> QED BY <2>1, <2>2, <2>3, <2>4 DEF Step
<1> QED BY <1>3, <1>4, <1>5 DEF NodeInv

-----------------------------------------------------------------------------
(* The list                                                                *)

\* What a step does to the list L and to what was popped.
Keeps(L)    == /\ IsList(L, head, next)' /\ got' = got
Pushes(L)   == \E n \in Nodes : /\ ~Published(n) /\ Published(n)' /\ got' = got
                                /\ IsList(<<n>> \o L, head, next)'
Pops(L, t)  == /\ L # <<>> /\ IsList(Tail(L), head, next)'
               /\ got' = [got EXCEPT ![t] = Append(@, Head(L))]
Misses(L, t) == /\ L = <<>> /\ IsList(L, head, next)'
                /\ got' = [got EXCEPT ![t] = Append(@, Null)]

LEMMA ListKept ==
    ASSUME NEW L, NEW h, NEW f, IsList(L, h, f), NEW g,
           \A i \in 1 .. Len(L) : g[L[i]] = f[L[i]]
    PROVE  IsList(L, h, g)
BY DEF IsList

LEMMA ListPushed ==
    ASSUME NEW L, NEW h, NEW f, IsList(L, h, f), NEW n \in Nodes, f[n] = h,
           \A i \in 1 .. Len(L) : L[i] # n
    PROVE  IsList(<<n>> \o L, n, f)
<1> DEFINE M == <<n>> \o L
<1>1. L \in Seq(Nodes) /\ Len(L) \in Nat
  BY DEF IsList
<1>2. /\ M \in Seq(Nodes) /\ Len(M) = Len(L) + 1 /\ M[1] = n
      /\ \A i \in 1 .. Len(L) + 1 : i # 1 => i - 1 \in 1 .. Len(L) /\ M[i] = L[i - 1]
  BY <1>1
<1> HIDE DEF M
<1>3. ASSUME NEW i \in 1 .. Len(M), NEW j \in 1 .. Len(M), M[i] = M[j] PROVE i = j
  <2>1. \A k \in 1 .. Len(M) : k # 1 => M[k] # n
    BY <1>1, <1>2
  <2>2. CASE i = 1 \/ j = 1
    BY <1>2, <1>3, <2>1, <2>2
  <2>3. CASE i # 1 /\ j # 1
    <3>1. /\ i - 1 \in 1 .. Len(L) /\ j - 1 \in 1 .. Len(L)
          /\ L[i - 1] = L[j - 1]
      BY <1>1, <1>2, <1>3, <2>3
    <3>2. i - 1 = j - 1
      BY <3>1 DEF IsList
    <3> QED BY <1>1, <1>2, <3>2
  <2> QED BY <2>2, <2>3
<1>4. ASSUME NEW i \in 1 .. Len(M) PROVE f[M[i]] = IF i = Len(M) THEN Null ELSE M[i + 1]
  <2>1. CASE i = 1
    <3>1. f[M[i]] = IF L = <<>> THEN Null ELSE L[1]
      BY <1>2, <2>1 DEF IsList
    <3> QED BY <1>1, <1>2, <2>1, <3>1
  <2>2. CASE i # 1
    <3>1. i - 1 \in 1 .. Len(L) /\ M[i] = L[i - 1] /\ (i - 1) + 1 = i
      BY <1>1, <1>2, <2>2
    <3>2. f[L[i - 1]] = IF i - 1 = Len(L) THEN Null ELSE L[i]
      BY <3>1 DEF IsList
    <3>3. i # Len(M) => M[i + 1] = L[i]
      BY <1>1, <1>2
    <3> QED BY <1>1, <1>2, <3>1, <3>2, <3>3
  <2> QED BY <2>1, <2>2
<1>5. M # <<>>
  BY <1>1, <1>2
<1> QED BY <1>2, <1>3, <1>4, <1>5 DEF IsList, M

LEMMA ListPopped ==
    ASSUME NEW L, NEW h, NEW f, IsList(L, h, f), L # <<>>
    PROVE  h = Head(L) /\ h \in Nodes /\ IsList(Tail(L), f[h], f)
<1>1. L \in Seq(Nodes) /\ Len(L) \in Nat /\ Len(L) >= 1 /\ h = L[1]
  BY DEF IsList
<1>2. PICK M : M = Tail(L)
  OBVIOUS
<1>3. /\ M \in Seq(Nodes) /\ Len(M) = Len(L) - 1
      /\ \A i \in 1 .. Len(M) : i + 1 \in 1 .. Len(L) /\ M[i] = L[i + 1]
  BY <1>1, <1>2
<1>4. \A i, j \in 1 .. Len(M) : M[i] = M[j] => i = j
  BY <1>1, <1>3 DEF IsList
<1>5. f[h] = IF M = <<>> THEN Null ELSE M[1]
  <2>1. f[h] = IF 1 = Len(L) THEN Null ELSE L[2]
    <3>1. 1 \in 1 .. Len(L) /\ 1 + 1 = 2
      BY <1>1
    <3> QED BY <1>1, <3>1 DEF IsList
  <2>2. M = <<>> <=> Len(L) = 1
    BY <1>1, <1>3
  <2>3. Len(L) # 1 => M[1] = L[2]
    BY <1>1, <1>3
  <2> QED BY <2>1, <2>2, <2>3
<1>6. ASSUME NEW i \in 1 .. Len(M) PROVE f[M[i]] = IF i = Len(M) THEN Null ELSE M[i + 1]
  <2>1. f[L[i + 1]] = IF i + 1 = Len(L) THEN Null ELSE L[(i + 1) + 1]
    BY <1>3 DEF IsList
  <2>2. i # Len(M) => M[i + 1] = L[(i + 1) + 1]
    BY <1>1, <1>3
  <2> QED BY <1>1, <1>3, <2>1, <2>2
<1>7. IsList(M, f[h], f)
  BY <1>3, <1>4, <1>5, <1>6 DEF IsList
<1> QED BY <1>1, <1>2, <1>7

\* Every step leaves the list alone, or is the one that a push or a pop takes
\* effect with.
LEMMA ListStep ==
    ASSUME TypeOK, NodeInv, NEW t \in Threads, Step(t), NEW L, IsList(L, head, next), InStack(L)
    PROVE  Keeps(L) \/ Pushes(L) \/ Pops(L, t) \/ Misses(L, t)
<1>1. \A i \in 1 .. Len(L) : L[i] \in Nodes /\ next'[L[i]] = next[L[i]]
  <2> SUFFICES ASSUME NEW i \in 1 .. Len(L) PROVE L[i] \in Nodes /\ next'[L[i]] = next[L[i]]
    OBVIOUS
  <2>1. PICK n \in Nodes : n = L[i] /\ Published(n)
    BY DEF IsList, InStack
  <2> QED BY <2>1, PublishedStays
<1>2. PICK h, f, g : h = head /\ f = next /\ g = next'
  OBVIOUS
<1>3. IsList(L, h, g)
  BY <1>1, <1>2, ListKept
<1>4. ASSUME head' = head, got' = got PROVE Keeps(L)
  BY <1>2, <1>3, <1>4 DEF Keeps, IsList
<1>5. CASE Allocate(t) \/ Record(t) \/ Link(t) \/ PopRead(t)
  BY <1>4, <1>5 DEF Allocate, AllocateAt, Record, Link, PopRead
<1>6. CASE PushCas(t)
  <2>1. CASE next[node[t]] = head /\ head' = node[t] /\ Return(t) /\ UNCHANGED next
    <3>1. PICK n \in Nodes : n = node[t] /\ Own(t) /\ n \in used
      BY <1>6 DEF PushCas, Own, NodeInv, TypeOK
    <3>2. ~Published(n)
      BY <3>1 DEF Published
    <3>3. used' = used /\ pc'[t] = "idle" /\ \A u \in Threads \ {t} : pc'[u] = pc[u] /\ node'[u] = node[u]
      BY <1>6, <2>1 DEF PushCas, Return, Goto, TypeOK
    <3>4. Published(n)'
      BY <3>1, <3>3 DEF Published, NodeInv, Own
    <3>5. \A i \in 1 .. Len(L) : L[i] # n
      BY <3>2 DEF InStack
    <3>6. f[n] = h /\ IsList(L, h, f)
      BY <1>2, <2>1, <3>1
    <3>7. IsList(<<n>> \o L, n, f)
      BY <3>5, <3>6, ListPushed
    <3>8. IsList(<<n>> \o L, head, next)'
      BY <1>2, <2>1, <3>1, <3>7 DEF IsList
    <3>9. got' = got
      BY <1>6 DEF PushCas
    <3> QED BY <3>2, <3>4, <3>8, <3>9 DEF Pushes
  <2>2. CASE head' = head
    BY <1>4, <1>6, <2>2 DEF PushCas
  <2> QED BY <1>6, <2>1, <2>2 DEF PushCas
<1>7. ASSUME Look(t), head' = head PROVE Keeps(L) \/ Misses(L, t)
  <2>1. CASE head # Null
    BY <1>4, <1>7, <2>1 DEF Look
  <2>2. CASE head = Null
    <3>1. L = <<>>
      BY <2>2, StackAssumption DEF IsList
    <3>2. got' = [got EXCEPT ![t] = Append(@, Null)]
      BY <1>7, <2>2 DEF Look, Answer
    <3>3. IsList(L, head, next)'
      BY <1>2, <1>3, <1>7 DEF IsList
    <3> QED BY <3>1, <3>2, <3>3 DEF Misses
  <2> QED BY <2>1, <2>2
<1>8. CASE PopLoad(t)
  BY <1>7, <1>8 DEF PopLoad
<1>9. CASE PopCas(t)
  <2>1. CASE head = node[t] /\ head' = seen[t] /\ Answer(t, node[t])
    <3>1. node[t] \in Nodes /\ seen[t] = next[node[t]] /\ next' = next
      BY <1>9 DEF PopCas, NodeInv, TypeOK
    <3>2. L # <<>>
      BY <2>1, <3>1, StackAssumption DEF IsList
    <3>3. h = Head(L) /\ IsList(Tail(L), f[h], f)
      <4>1. IsList(L, h, f)
        BY <1>2
      <4> QED BY <3>2, <4>1, ListPopped, SMTT(30)
    <3>4. IsList(Tail(L), head, next)'
      BY <1>2, <2>1, <3>1, <3>3 DEF IsList
    <3>5. got' = [got EXCEPT ![t] = Append(@, Head(L))]
      BY <1>2, <2>1, <3>3 DEF Answer
    <3> QED BY <3>2, <3>4, <3>5 DEF Pops
  <2>2. CASE Look(t) /\ UNCHANGED head
    BY <1>7, <2>2
  <2> QED BY <1>9, <2>1, <2>2 DEF PopCas
<1> QED BY <1>5, <1>6, <1>8, <1>9 DEF Step

\* What a thread's answer adds.
LEMMA Answered ==
    ASSUME TypeOK, NEW t \in Threads, NEW x, got' = [got EXCEPT ![t] = Append(@, x)]
    PROVE  \A u \in Threads : \A i \in DOMAIN got'[u] :
              \/ i \in DOMAIN got[u] /\ got'[u][i] = got[u][i]
              \/ u = t /\ i = Len(got[t]) + 1 /\ got'[u][i] = x
BY DEF TypeOK

LEMMA InvStep ==
    ASSUME StackInv, NEW t \in Threads, Step(t)
    PROVE  StackInv'
<1>1. TypeOK' /\ NodeInv'
  BY TypeStep, NodeStep DEF StackInv
<1>2. \A n \in Nodes : Published(n) => Published(n)'
  BY PublishedStays DEF StackInv
<1>3. PICK L : IsList(L, head, next) /\ InStack(L)
  BY DEF StackInv, ListInv
<1>4. /\ L \in Seq(Nodes) /\ Len(L) \in Nat
      /\ \A i \in 1 .. Len(L) : L[i] \in Nodes /\ Published(L[i])'
  BY <1>2, <1>3 DEF IsList, InStack
<1>5. \A u \in Threads : \A i \in DOMAIN got[u] :
         got[u][i] # Null => got[u][i] \in Nodes /\ Published(got[u][i]) /\ \E n \in Nodes : n = got[u][i] /\ Published(n)'
  BY <1>2 DEF StackInv, GotInv, TypeOK
<1>6. CASE Keeps(L)
  <2>1. InStack(L)'
    BY <1>3, <1>4, <1>6 DEF InStack, Keeps
  <2>2. GotInv'
    BY <1>5, <1>6 DEF Keeps, StackInv, GotInv, PoppedOnce, Published, Own
  <2> QED BY <1>1, <1>6, <2>1, <2>2 DEF Keeps, StackInv, ListInv
<1>7. CASE Pushes(L)
  <2>1. PICK n \in Nodes : ~Published(n) /\ Published(n)' /\ got' = got /\ IsList(<<n>> \o L, head, next)'
    BY <1>7 DEF Pushes
  <2>2. PICK M : M = <<n>> \o L
    OBVIOUS
  <2>3. \A i \in 1 .. Len(M) : M[i] = n \/ \E j \in 1 .. Len(L) : M[i] = L[j]
    <3>1. /\ Len(M) = Len(L) + 1 /\ M[1] = n
          /\ \A i \in 1 .. Len(L) + 1 : i # 1 => i - 1 \in 1 .. Len(L) /\ M[i] = L[i - 1]
      BY <1>4, <2>2
    <3> QED BY <3>1
  <2>4. InStack(M)'
    <3>1. \A u \in Threads : \A j \in DOMAIN got'[u] : got'[u][j] # n
      BY <1>5, <2>1, StackAssumption
    <3>2. \A i \in 1 .. Len(L) : \A u \in Threads : \A j \in DOMAIN got'[u] : got'[u][j] # L[i]
      BY <1>3, <2>1 DEF InStack
    <3> QED BY <1>4, <2>1, <2>3, <3>1, <3>2 DEF InStack
  <2>5. GotInv'
    BY <1>5, <2>1 DEF StackInv, GotInv, PoppedOnce, Published, Own
  <2>6. IsList(M, head, next)'
    BY <2>1, <2>2
  <2> QED BY <1>1, <2>4, <2>5, <2>6 DEF StackInv, ListInv
<1>8. CASE Pops(L, t)
  <2>1. PICK n, M : n = Head(L) /\ M = Tail(L)
    OBVIOUS
  <2>2. /\ got' = [got EXCEPT ![t] = Append(@, n)] /\ n = L[1] /\ 1 \in 1 .. Len(L) /\ Len(M) = Len(L) - 1
        /\ \A i \in 1 .. Len(M) : i + 1 \in 1 .. Len(L) /\ M[i] = L[i + 1]
    BY <1>4, <1>8, <2>1 DEF Pops
  <2>3. \A u \in Threads : \A i \in DOMAIN got'[u] :
           \/ i \in DOMAIN got[u] /\ got'[u][i] = got[u][i]
           \/ u = t /\ i = Len(got[t]) + 1 /\ got'[u][i] = n
    BY <2>2, Answered DEF StackInv
  <2>4. \A u \in Threads : \A j \in DOMAIN got[u] : got[u][j] # n
    BY <1>3, <2>2 DEF InStack
  <2>5. InStack(M)'
    <3>1. \A i \in 1 .. Len(M) : M[i] # n
      BY <1>3, <1>4, <2>2 DEF IsList
    <3>2. \A i \in 1 .. Len(M) : \E j \in 1 .. Len(L) : M[i] = L[j]
      BY <2>2
    <3>3. \A i \in 1 .. Len(M) : Published(M[i])'
      BY <1>4, <3>2
    <3>4. ASSUME NEW i \in 1 .. Len(M), NEW u \in Threads, NEW j \in DOMAIN got'[u] PROVE got'[u][j] # M[i]
      <4>1. CASE got'[u][j] = n
        BY <3>1, <4>1
      <4>2. CASE j \in DOMAIN got[u] /\ got'[u][j] = got[u][j]
        BY <1>3, <3>2, <4>2 DEF InStack
      <4> QED BY <2>3, <4>1, <4>2
    <3> QED BY <3>3, <3>4 DEF InStack
  <2>6. PoppedOnce'
    BY <2>3, <2>4 DEF StackInv, GotInv, PoppedOnce
  <2>7. \A u \in Threads : \A i \in DOMAIN got'[u] : got'[u][i] # Null => Published(got[u][i])'
    BY <1>4, <1>5, <2>2, <2>3 DEF Published, Own
  <2>8. IsList(M, head, next)'
    BY <1>8, <2>1 DEF Pops
  <2> QED BY <1>1, <2>5, <2>6, <2>7, <2>8 DEF StackInv, ListInv, GotInv
<1>9. CASE Misses(L, t)
  <2>1. got' = [got EXCEPT ![t] = Append(@, Null)] /\ L = <<>>
    BY <1>9 DEF Misses
  <2>2. \A u \in Threads : \A i \in DOMAIN got'[u] :
           \/ i \in DOMAIN got[u] /\ got'[u][i] = got[u][i]
           \/ u = t /\ i = Len(got[t]) + 1 /\ got'[u][i] = Null
    BY <2>1, Answered DEF StackInv
  <2>3. InStack(L)'
    BY <2>1 DEF InStack
  <2>4. PoppedOnce'
    BY <2>2 DEF StackInv, GotInv, PoppedOnce
  <2>5. \A u \in Threads : \A i \in DOMAIN got'[u] : got'[u][i] # Null => Published(got[u][i])'
    BY <1>5, <2>2 DEF Published, Own
  <2> QED BY <1>1, <1>9, <2>3, <2>4, <2>5 DEF Misses, StackInv, ListInv, GotInv
<1> QED BY <1>3, <1>6, <1>7, <1>8, <1>9, ListStep DEF StackInv

LEMMA StackInvInit == Init => StackInv
<1> SUFFICES ASSUME Init PROVE StackInv
  OBVIOUS
<1> USE StackAssumption DEF Init
<1>1. TypeOK
  <2>1. allocated \in Seq(Nodes \cup {Null}) /\ storage \in Nat /\ size \in Nat
    OBVIOUS
  <2>2. stray \in BOOLEAN
    BY Zenon
  <2>3. place \in [Threads -> [storage : Nat, size : Nat, full : BOOLEAN]]
    BY DEF NoPlace
  <2>4. got \in [Threads -> Seq(Nodes \cup {Null})]
    OBVIOUS
  <2> QED BY <2>1, <2>2, <2>3, <2>4 DEF TypeOK
<1>2. NodeInv
  BY DEF NodeInv, Own
<1>3. IsList(<<>>, head, next) /\ InStack(<<>>)
  BY DEF IsList, InStack
<1>4. GotInv
  BY DEF GotInv, PoppedOnce
<1> QED BY <1>1, <1>2, <1>3, <1>4 DEF StackInv, ListInv

LEMMA StackInvKept == StackInv /\ [Next]_vars => StackInv'
<1> SUFFICES ASSUME StackInv, [Next]_vars PROVE StackInv'
  OBVIOUS
<1>1. CASE \E t \in Threads : Step(t)
  BY <1>1, InvStep
<1>2. CASE UNCHANGED vars
  <2> USE <1>2 DEF vars, vector
  <2>1. TypeOK' /\ NodeInv'
    <3>1. TypeOK'
      BY DEF StackInv, TypeOK
    <3>2. NodeInv'
      BY DEF StackInv, NodeInv, Own, Published
    <3> QED BY <3>1, <3>2
  <2>2. PICK L : IsList(L, head, next) /\ InStack(L)
    BY DEF StackInv, ListInv
  <2>3. IsList(L, head, next)' /\ InStack(L)'
    BY <2>2 DEF IsList, InStack, Published, Own
  <2>4. GotInv'
    BY DEF StackInv, GotInv, PoppedOnce, Published, Own
  <2> QED BY <2>1, <2>3, <2>4 DEF StackInv, ListInv
<1> QED BY <1>1, <1>2 DEF Next

LEMMA StackInvariant == Spec => []StackInv
<1>1. Init => StackInv
  BY StackInvInit
<1>2. StackInv /\ [Next]_vars => StackInv'
  BY StackInvKept
<1> QED BY <1>1, <1>2, PTL DEF Spec

-----------------------------------------------------------------------------
(* Theorems                                                                *)

\* Types, and who holds which node: a thread inside push() or pop() always
\* has one, also after a failed CAS has loaded the head again.
THEOREM StackTypeCorrect == Spec => []TypeOK
<1>1. StackInv => TypeOK
  BY DEF StackInv
<1> QED BY <1>1, StackInvariant, PTL

\* No two pops return the same node: the CAS of pop() succeeds only for the
\* thread that takes the node, whatever became of the head since it was read.
THEOREM NodesPoppedOnce == Spec => []PoppedOnce
<1>1. StackInv => PoppedOnce
  BY DEF StackInv, GotInv
<1> QED BY <1>1, StackInvariant, PTL

LEMMA ListIsNext == ListFound'
BY ListIs, PTL

LEMMA StackInit == Init => Stack!Init
<1> SUFFICES ASSUME Init PROVE Stack!Init
  OBVIOUS
<1>1. IsList(<<>>, head, next)
  BY DEF Init, IsList
<1>2. List = <<>>
  BY <1>1, ListIs DEF ListFound
<1> QED BY <1>2 DEF Init, Stack!Init

LEMMA StackStep == StackInv /\ [Next]_vars => [Stack!Next]_(Stack!vars)
<1> SUFFICES ASSUME StackInv, [Next]_vars PROVE [Stack!Next]_(Stack!vars)
  OBVIOUS
<1>1. PICK L : IsList(L, head, next) /\ InStack(L)
  BY DEF StackInv, ListInv
<1>2. List = L /\ L \in Seq(Nodes)
  BY <1>1, ListIs DEF ListFound, IsList
<1>3. \A M : IsList(M, head, next)' => List' = M
  BY ListIsNext DEF ListFound
<1>4. ASSUME NEW t \in Threads, Step(t) PROVE [Stack!Next]_(Stack!vars)
  <2>1. Keeps(L) \/ Pushes(L) \/ Pops(L, t) \/ Misses(L, t)
    BY <1>1, <1>4, ListStep DEF StackInv
  <2>2. CASE Keeps(L)
    <3>1. List' = L /\ got' = got
      BY <1>3, <2>2 DEF Keeps
    <3> QED BY <1>2, <3>1 DEF Stack!vars
  <2>3. CASE Pushes(L)
    <3>1. PICK n \in Nodes : got' = got /\ IsList(<<n>> \o L, head, next)'
      BY <2>3 DEF Pushes
    <3>2. List' = <<n>> \o L
      BY <1>3, <3>1
    <3> QED BY <1>2, <3>1, <3>2 DEF Stack!Next, Stack!Push
  <2>4. CASE Pops(L, t)
    <3>1. List' = Tail(L)
      BY <1>3, <2>4 DEF Pops
    <3> QED BY <1>2, <2>4, <3>1 DEF Pops, Stack!Next, Stack!Pop, Stack!Answer
  <2>5. CASE Misses(L, t)
    <3>1. List' = L
      BY <1>3, <2>5 DEF Misses
    <3> QED BY <1>2, <2>5, <3>1 DEF Misses, Stack!Next, Stack!PopEmpty, Stack!Answer
  <2> QED BY <2>1, <2>2, <2>3, <2>4, <2>5
<1>5. CASE UNCHANGED vars
  <2>1. IsList(L, head, next)' /\ got' = got
    BY <1>1, <1>5 DEF vars, vector, IsList
  <2>2. List' = L
    BY <1>3, <2>1
  <2> QED BY <1>2, <2>1, <2>2 DEF Stack!vars
<1> QED BY <1>4, <1>5 DEF Next

\* The stack is linearizable: push() takes effect with its CAS, pop() with its
\* CAS or with the load of a null head, and the answers of the pops are those
\* of a stack whose operations happen at once.
THEOREM StackIsLinearizable == Spec => ImplementsStack
<1>1. Init => Stack!Init
  BY StackInit
<1>2. StackInv /\ [Next]_vars => [Stack!Next]_(Stack!vars)
  BY StackStep
<1> QED BY <1>1, <1>2, StackInvariant, PTL DEF Spec, ImplementsStack, Stack!Spec

-----------------------------------------------------------------------------
(* The vector, where push_back is not called by two threads at once        *)

MayPush(s) == \E i \in DOMAIN s : s[i] = "push"

\* Only one thread of the program ever pushes.
OnePusher == \A t, u \in Threads : MayPush(Program[t]) /\ MayPush(Program[u]) => t = u

\* The nodes whose push is inside push_back.
Recording == {n \in used : \E t \in Threads : pc[t] = "record" /\ node[t] = n}

Recorded == {allocated[i] : i \in 1 .. size}

RetainInv ==
    /\ \A t, u \in Threads : MayPush(todo[t]) /\ MayPush(todo[u]) => t = u
    /\ \A t \in Threads : Own(t) => MayPush(todo[t])
    /\ \A t \in Threads : pc[t] = "record" => place[t] = Position
    /\ ~stray /\ size <= Len(allocated)
    /\ size + Cardinality(Recording) = Cardinality(used)
    /\ Recorded = used \ Recording

LEMMA Counted ==
    ASSUME TypeOK
    PROVE  /\ IsFiniteSet(used) /\ IsFiniteSet(Recording)
           /\ Cardinality(used) \in Nat /\ Cardinality(Recording) \in Nat /\ Cardinality(Nodes) \in Nat
           /\ Cardinality(used) <= Cardinality(Nodes)
<1>1. IsFiniteSet(used) /\ Cardinality(used) <= Cardinality(Nodes)
  BY StackAssumption, FS_Subset DEF TypeOK
<1>2. IsFiniteSet(Recording)
  BY <1>1, FS_Subset DEF Recording
<1> QED BY <1>1, <1>2, StackAssumption, FS_CardinalityType

LEMMA RecordingGrows ==
    ASSUME TypeOK, NEW t \in Threads, Allocate(t)
    PROVE  \E n \in Nodes : /\ n \notin used /\ used' = used \cup {n} /\ Recording' = Recording \cup {n}
                            /\ Cardinality(used') = Cardinality(used) + 1
                            /\ Cardinality(Recording') = Cardinality(Recording) + 1
<1>1. PICK n \in Nodes : n = (CHOOSE m \in Nodes : m \notin used) /\ n \notin used
  BY DEF Allocate
<1>2. /\ used' = used \cup {n} /\ pc[t] = "idle"
      /\ pc' = [pc EXCEPT ![t] = "record"] /\ node' = [node EXCEPT ![t] = n]
  BY <1>1 DEF Allocate, AllocateAt, Calls, Goto
<1>3. Recording' = Recording \cup {n}
  BY <1>1, <1>2 DEF Recording, TypeOK
<1>4. n \notin Recording
  BY <1>1 DEF Recording
<1> QED BY <1>1, <1>2, <1>3, <1>4, Counted, FS_AddElement

LEMMA RecordingShrinks ==
    ASSUME TypeOK, NodeInv, NEW t \in Threads, Record(t)
    PROVE  /\ used' = used
           /\ Cardinality(Recording) >= 1
           /\ Cardinality(Recording') = Cardinality(Recording) - 1
<1>1. /\ used' = used /\ pc[t] = "record"
      /\ pc' = [pc EXCEPT ![t] = "link"] /\ node' = [node EXCEPT ![t] = node[t]]
  BY DEF Record, Goto
<1>2. node[t] \in Recording
  BY <1>1 DEF Recording, NodeInv, Own
<1>3. Recording' = Recording \ {node[t]}
  BY <1>1 DEF Recording, NodeInv, Own, TypeOK
<1>4. Cardinality(Recording \ {node[t]}) = Cardinality(Recording) - 1 /\ IsFiniteSet(Recording \ {node[t]})
  BY <1>2, Counted, FS_RemoveElement
<1>5. Cardinality(Recording \ {node[t]}) \in Nat
  BY <1>4, FS_CardinalityType
<1> QED BY <1>1, <1>3, <1>4, <1>5, Counted

\* The other steps are not of push_back.
Elsewhere(t) == \/ Link(t) \/ PushCas(t) \/ PopLoad(t) \/ PopRead(t) \/ PopCas(t)

LEMMA ElsewhereKeeps ==
    ASSUME TypeOK, NEW t \in Threads, Elsewhere(t)
    PROVE  /\ UNCHANGED <<used, vector>> /\ Recording' = Recording
           /\ \A u \in Threads : pc'[u] = "record" => pc[u] = "record" /\ place'[u] = place[u]
<1>1. /\ UNCHANGED <<used, vector>> /\ pc[t] # "record"
      /\ \/ \E l \in {"idle", "pushCas", "popRead", "popCas"} : \E n, s : Goto(t, l, n, s, NoPlace)
         \/ UNCHANGED <<pc, node, place>>
  BY DEF Elsewhere, Link, PushCas, PopLoad, PopRead, PopCas, Look, Return, Calls, vector
<1>2. CASE UNCHANGED <<pc, node, place>>
  BY <1>1, <1>2 DEF Recording
<1>3. ASSUME NEW l \in {"idle", "pushCas", "popRead", "popCas"}, NEW n, NEW s, Goto(t, l, n, s, NoPlace)
      PROVE  /\ Recording' = Recording
             /\ \A u \in Threads : pc'[u] = "record" => pc[u] = "record" /\ place'[u] = place[u]
  BY <1>1, <1>3 DEF Goto, Recording, TypeOK
<1> QED BY <1>1, <1>2, <1>3

\* What a thread may still push it might have pushed before.
LEMMA PushersStay ==
    ASSUME StackInv, RetainInv, NEW t \in Threads, Step(t)
    PROVE  /\ \A u, w \in Threads : MayPush(todo'[u]) /\ MayPush(todo'[w]) => u = w
           /\ \A u \in Threads : Own(u)' => MayPush(todo'[u])
<1>1. /\ todo \in [Threads -> Seq({"push", "pop"})] /\ pc \in [Threads -> {"idle", "record", "link", "pushCas", "popRead", "popCas"}]
      /\ pc[t] # "idle" => todo[t] # <<>>
  BY DEF StackInv, TypeOK, NodeInv
<1>2. \/ UNCHANGED <<todo, pc>>
      \/ /\ todo' = todo /\ \A u \in Threads \ {t} : pc'[u] = pc[u]
         /\ pc'[t] \in {"record", "link", "pushCas"} => Own(t) \/ (todo[t] # <<>> /\ Head(todo[t]) = "push")
      \/ /\ todo[t] # <<>> /\ todo' = [todo EXCEPT ![t] = Tail(@)] /\ pc' = [pc EXCEPT ![t] = "idle"]
  BY <1>1 DEF Step, Allocate, AllocateAt, Record, Link, PushCas, PopLoad, PopRead, PopCas, Look, Return, Goto, Calls, Own
<1>3. CASE UNCHANGED <<todo, pc>>
  BY <1>3 DEF RetainInv, Own
<1>4. CASE /\ todo' = todo /\ \A u \in Threads \ {t} : pc'[u] = pc[u]
           /\ pc'[t] \in {"record", "link", "pushCas"} => Own(t) \/ (todo[t] # <<>> /\ Head(todo[t]) = "push")
  <2>1. todo[t] # <<>> /\ Head(todo[t]) = "push" => MayPush(todo[t])
    <3>1. todo[t] # <<>> => 1 \in DOMAIN todo[t] /\ Head(todo[t]) = todo[t][1]
      BY <1>1
    <3> QED BY <3>1 DEF MayPush
  <2> QED BY <1>4, <2>1 DEF RetainInv, Own
<1>5. CASE todo[t] # <<>> /\ todo' = [todo EXCEPT ![t] = Tail(@)] /\ pc' = [pc EXCEPT ![t] = "idle"]
  <2>1. PICK s, r : s = todo[t] /\ r = Tail(s)
    OBVIOUS
  <2>2. s \in Seq({"push", "pop"}) /\ s # <<>> /\ \A i \in DOMAIN r : i + 1 \in DOMAIN s /\ r[i] = s[i + 1]
    BY <1>1, <1>5, <2>1
  <2>3. MayPush(r) => MayPush(s)
    BY <2>2 DEF MayPush
  <2>4. todo'[t] = r /\ \A u \in Threads \ {t} : todo'[u] = todo[u] /\ pc'[u] = pc[u]
    BY <1>1, <1>5, <2>1
  <2>5. \A u \in Threads : MayPush(todo'[u]) => MayPush(todo[u])
    BY <2>1, <2>3, <2>4
  <2>6. pc'[t] = "idle"
    BY <1>1, <1>5
  <2> QED BY <2>4, <2>5, <2>6 DEF RetainInv, Own
<1> QED BY <1>2, <1>3, <1>4, <1>5

\* A push_back that nobody disturbs, with and without a reallocation.
LEMMA Undisturbed ==
    ASSUME TypeOK, ~stray, size <= Len(allocated), NEW t \in Threads, pc[t] = "record",
           place[t] = Position, Record(t)
    PROVE  /\ ~stray' /\ size' = size + 1 /\ size + 1 <= Len(allocated')
           /\ \A i \in 1 .. size + 1 : allocated'[i] = IF i = size + 1 THEN node[t] ELSE allocated[i]
<1>1. allocated \in Seq(Nodes \cup {Null}) /\ Len(allocated) \in Nat /\ size \in Nat
  BY DEF TypeOK
<1>2. /\ Position.size = size /\ Position.storage = storage /\ InStorage(Position)
      /\ Position.full <=> size = Len(allocated)
  BY DEF Position, InStorage
<1>3. IF size = Len(allocated) THEN Reallocate(node[t], Position) ELSE Write(node[t], Position)
  BY <1>2 DEF Record
<1>4. CASE size = Len(allocated)
  <2> DEFINE c == IF size = 0 THEN 1 ELSE 2 * size
  <2>1. allocated' = [i \in 1 .. c |->
                        IF i <= size THEN allocated[i] ELSE IF i = size + 1 THEN node[t] ELSE Null]
    BY <1>2, <1>3, <1>4 DEF Reallocate
  <2>2. size' = size + 1 /\ stray' = stray
    BY <1>2, <1>3, <1>4 DEF Reallocate
  <2>3. c \in Nat /\ size + 1 <= c
    BY <1>1
  <2> HIDE DEF c
  <2>4. Len(allocated') = c
    BY <2>1, <2>3
  <2>5. \A i \in 1 .. size + 1 : i \in 1 .. c /\ (i = size + 1 <=> ~(i <= size))
    BY <1>1, <2>3
  <2> QED BY <2>1, <2>2, <2>3, <2>4, <2>5
<1>5. CASE size # Len(allocated)
  <2>1. /\ allocated' = [allocated EXCEPT ![size + 1] = node[t]]
        /\ size' = size + 1 /\ stray' = stray
    BY <1>1, <1>2, <1>3, <1>5 DEF Write
  <2>2. \A i \in 1 .. size + 1 : i \in DOMAIN allocated
    BY <1>1, <1>5
  <2>3. size + 1 <= Len(allocated) /\ Len(allocated') = Len(allocated)
    BY <1>1, <1>5, <2>1
  <2> QED BY <2>1, <2>2, <2>3
<1> QED BY <1>4, <1>5

LEMMA RetainStep ==
    ASSUME StackInv, RetainInv, NEW t \in Threads, Step(t)
    PROVE  RetainInv'
<1>0. /\ TypeOK /\ NodeInv /\ size \in Nat /\ allocated \in Seq(Nodes \cup {Null})
      /\ Cardinality(used) \in Nat /\ Cardinality(Recording) \in Nat
  BY Counted DEF StackInv, TypeOK
<1>1. SUFFICES /\ \A u \in Threads : pc'[u] = "record" => place'[u] = Position'
               /\ ~stray' /\ size' <= Len(allocated')
               /\ size' + Cardinality(Recording') = Cardinality(used')
               /\ Recorded' = used' \ Recording'
  BY PushersStay DEF RetainInv
<1>2. CASE Allocate(t)
  <2>1. PICK n \in Nodes : /\ n \notin used /\ used' = used \cup {n} /\ Recording' = Recording \cup {n}
                           /\ Cardinality(used') = Cardinality(used) + 1
                           /\ Cardinality(Recording') = Cardinality(Recording) + 1
    BY <1>0, <1>2, RecordingGrows
  <2>2. /\ UNCHANGED vector /\ place' = [place EXCEPT ![t] = Position]
        /\ pc[t] = "idle" /\ pc' = [pc EXCEPT ![t] = "record"] /\ todo' = todo
    BY <1>2 DEF Allocate, AllocateAt, Goto, Calls
  <2>3. MayPush(todo'[t])
    <3>1. Own(t)'
      BY <1>0, <2>2 DEF Own, TypeOK
    <3> QED BY <3>1, PushersStay
  <2>4. \A u \in Threads \ {t} : pc[u] # "record"
    BY <2>2, <2>3 DEF RetainInv, Own
  <2>5. /\ Recorded' = Recorded /\ Position' = Position
        /\ size' = size /\ allocated' = allocated /\ stray' = stray
    BY <2>2 DEF Recorded, Position, vector
  <2>6. \A u \in Threads : pc'[u] = "record" => place'[u] = Position'
    BY <1>0, <2>2, <2>4, <2>5 DEF TypeOK
  <2> QED BY <1>0, <2>1, <2>5, <2>6 DEF RetainInv
<1>3. CASE Record(t)
  <2>1. /\ used' = used
        /\ Cardinality(Recording) >= 1
        /\ Cardinality(Recording') = Cardinality(Recording) - 1
    BY <1>0, <1>3, RecordingShrinks
  <2>2. /\ pc[t] = "record" /\ place[t] = Position
        /\ pc' = [pc EXCEPT ![t] = "link"] /\ node' = [node EXCEPT ![t] = node[t]]
    BY <1>3 DEF Record, Goto, RetainInv
  <2>3. \A u \in Threads : pc'[u] # "record"
    BY <1>0, <2>2 DEF RetainInv, Own, TypeOK
  <2>4. /\ ~stray' /\ size' = size + 1 /\ size + 1 <= Len(allocated')
        /\ \A i \in 1 .. size + 1 : allocated'[i] = IF i = size + 1 THEN node[t] ELSE allocated[i]
    BY <1>0, <1>3, <2>2, Undisturbed DEF RetainInv
  <2>5. Recorded' = Recorded \cup {node[t]}
    <3>1. \A i \in 1 .. size + 1 : i \in 1 .. size \/ i = size + 1
      BY <1>0
    <3>2. \A i \in 1 .. size : i \in 1 .. size + 1 /\ i # size + 1
      BY <1>0
    <3>3. size + 1 \in 1 .. size + 1
      BY <1>0
    <3> QED BY <2>4, <3>1, <3>2, <3>3 DEF Recorded
  <2>6. Recording' = {} /\ Recording = {node[t]} /\ node[t] \in used
    <3>1. \A u \in Threads : pc[u] = "record" => u = t
      BY <2>2 DEF RetainInv, Own
    <3>2. node[t] \in used
      BY <1>0, <2>2 DEF NodeInv, Own
    <3> QED BY <2>2, <2>3, <3>1, <3>2 DEF Recording
  <2> QED BY <1>0, <2>1, <2>3, <2>4, <2>5, <2>6 DEF RetainInv
<1>4. CASE Elsewhere(t)
  <2>1. /\ UNCHANGED <<used, vector>> /\ Recording' = Recording
        /\ \A u \in Threads : pc'[u] = "record" => pc[u] = "record" /\ place'[u] = place[u]
    BY <1>0, <1>4, ElsewhereKeeps
  <2> QED BY <2>1 DEF RetainInv, Recorded, Position, vector
<1> QED BY <1>2, <1>3, <1>4 DEF Step, Elsewhere

\* "They are retained until stack destruction" is true of a program in which
\* one thread pushes, whoever pops: nothing is ever written outside the
\* vector's storage, and when the threads are done it holds every node once.
\* With two that push it is not, as TLC shows.
THEOREM RetainedWithOnePusher == OnePusher /\ Spec => [](~stray /\ NodesRetained)
<1>1. OnePusher /\ Init => RetainInv
  <2> SUFFICES ASSUME OnePusher, Init PROVE RetainInv
    OBVIOUS
  <2>1. Recording = {} /\ Recorded = {} /\ used = {} /\ size = 0 /\ todo = Program
        /\ ~stray /\ Len(allocated) = 0
    BY DEF Init, Recording, Recorded
  <2>2. Cardinality({}) = 0
    BY FS_EmptySet
  <2>3. \A t \in Threads : pc[t] = "idle"
    BY DEF Init
  <2> QED BY <2>1, <2>2, <2>3 DEF OnePusher, RetainInv, Own
<1>2. StackInv /\ RetainInv /\ [Next]_vars => RetainInv'
  <2> SUFFICES ASSUME StackInv, RetainInv, [Next]_vars PROVE RetainInv'
    OBVIOUS
  <2>1. CASE \E t \in Threads : Step(t)
    BY <2>1, RetainStep
  <2>2. CASE UNCHANGED vars
    <3>1. UNCHANGED <<todo, pc, place, node, used, allocated, storage, size, stray>>
      BY <2>2 DEF vars, vector
    <3>2. Recording' = Recording /\ Recorded' = Recorded /\ Position' = Position
      BY <3>1 DEF Recording, Recorded, Position
    <3> QED BY <3>1, <3>2 DEF RetainInv, Own
  <2> QED BY <2>1, <2>2 DEF Next
<1>3. StackInv /\ RetainInv => ~stray /\ NodesRetained
  <2> SUFFICES ASSUME StackInv, RetainInv, Finished
               PROVE  size = Cardinality(used) /\ used = {allocated[i] : i \in 1 .. size}
    BY DEF NodesRetained, RetainInv
  <2>1. Recording = {}
    BY DEF Recording, Finished, StackInv, NodeInv
  <2>2. Cardinality({}) = 0 /\ size \in Nat
    BY FS_EmptySet DEF StackInv, TypeOK
  <2> QED BY <2>1, <2>2 DEF RetainInv, Recorded
<1>4. OnePusher /\ Spec => []RetainInv
  BY <1>1, <1>2, StackInvariant, PTL DEF Spec
<1> QED BY <1>3, <1>4, StackInvariant, PTL

=============================================================================
