-------------------------- MODULE SimpleVectorProofs --------------------------
(***************************************************************************)
(* Proofs that the vectors of generic_container_rule_of_five.cpp construct *)
(* and destroy every object once and give back all storage, and that a     *)
(* call that throws has changed no element (of a push_back() whose         *)
(* elements can neither be copied nor moved safely: that it has emptied no *)
(* others than the first ones), for every number of vectors, any values,   *)
(* any sizes and any element type.                                         *)
(***************************************************************************)
EXTENDS SimpleVector, SequenceTheorems, TLAPS

-----------------------------------------------------------------------------
(* Stores that nobody has misused *)

Objects == Values \cup {Moved}
Cells   == Objects \cup {Raw}
Heaps == [Blocks -> Seq(Cells)]
Sound(h) == [heap |-> h, sound |-> TRUE]

\* A block of c cells, the first n of them with objects.
Full(h, b, n, c) == /\ Len(h[b]) = c
                    /\ \A i \in 1 .. c : IF i <= n THEN h[b][i] \in Objects ELSE h[b][i] = Raw

Occupied(h, b, n, c) == /\ Len(h[b]) = c
                        /\ \A i \in 1 .. c : h[b][i] # Raw <=> i <= n

Elsewhere(g, h, b) == \A c \in Blocks : c # b => g[c] = h[c]

LEMMA FullIsOccupied ==
    ASSUME NEW h, NEW b, NEW n, NEW c, Full(h, b, n, c)
    PROVE  Occupied(h, b, n, c)
BY VectorAssumption DEF Full, Occupied, Objects

LEMMA AllocateStore ==
    ASSUME NEW h \in Heaps, NEW b \in Blocks, NEW n \in Nat
    PROVE  \E g \in Heaps : /\ Allocate(Sound(h), b, n) = Sound(g)
                            /\ Elsewhere(g, h, b) /\ Full(g, b, 0, n)
<1> DEFINE raw == [i \in 1 .. n |-> Raw]
           g == [h EXCEPT ![b] = raw]
<1>1. raw \in Seq(Cells) /\ Len(raw) = n
  BY DEF Cells
<1>2. g \in Heaps /\ g[b] = raw /\ Elsewhere(g, h, b)
  BY <1>1 DEF Heaps, Elsewhere
<1>3. Full(g, b, 0, n)
  BY <1>1, <1>2 DEF Full
<1>4. Allocate(Sound(h), b, n) = [Sound(h) EXCEPT !.heap[b] = raw]
  BY DEF Allocate
<1> HIDE DEF raw
<1>5. Allocate(Sound(h), b, n) = Sound(g)
  BY <1>4 DEF Sound
<1> QED BY <1>2, <1>3, <1>5

LEMMA ConstructStore ==
    ASSUME NEW h \in Heaps, NEW b \in Blocks, NEW c \in Nat, NEW n \in Nat, n < c,
           Full(h, b, n, c), NEW x \in Objects
    PROVE  \E g \in Heaps : /\ Construct(Sound(h), b, n + 1, x) = Sound(g)
                            /\ Elsewhere(g, h, b) /\ Full(g, b, n + 1, c)
                            /\ \A i \in 1 .. c : g[b][i] = IF i = n + 1 THEN x ELSE h[b][i]
<1> DEFINE g == [h EXCEPT ![b][n + 1] = x]
<1>1. h[b] \in Seq(Cells) /\ Len(h[b]) = c /\ n + 1 \in DOMAIN h[b] /\ h[b][n + 1] = Raw
  BY DEF Heaps, Full
<1>2. /\ g[b] = [h[b] EXCEPT ![n + 1] = x] /\ g[b] \in Seq(Cells) /\ Len(g[b]) = c
      /\ g \in Heaps /\ Elsewhere(g, h, b)
  BY <1>1 DEF Heaps, Elsewhere, Cells
<1>3. \A i \in 1 .. c : g[b][i] = IF i = n + 1 THEN x ELSE h[b][i]
  BY <1>1, <1>2
<1>4. Full(g, b, n + 1, c)
  BY <1>2, <1>3 DEF Full
<1>5. b # Null /\ x # Raw
  BY VectorAssumption DEF Null, Objects
<1>6. Construct(Sound(h), b, n + 1, x) = Sound(g)
  BY <1>1, <1>5 DEF Construct, Sound
<1> QED BY <1>2, <1>3, <1>4, <1>6

LEMMA DestroyStore ==
    ASSUME NEW h \in Heaps, NEW b \in Blocks, NEW c \in Nat, NEW n \in 0 .. c, Occupied(h, b, n, c)
    PROVE  \E g \in Heaps : /\ DestroyFirst(Sound(h), b, n) = Sound(g)
                            /\ Elsewhere(g, h, b) /\ Full(g, b, 0, c)
<1>1. h[b] \in Seq(Cells) /\ Len(h[b]) = c /\ DOMAIN h[b] = 1 .. c /\ b # Null
  BY VectorAssumption DEF Heaps, Occupied, Null
<1>2. CASE n = 0
  <2>1. DestroyFirst(Sound(h), b, n) = Sound(h)
    BY <1>2 DEF DestroyFirst
  <2>2. Full(h, b, 0, c) /\ Elsewhere(h, h, b)
    BY <1>1, <1>2 DEF Occupied, Full, Elsewhere
  <2> QED BY <2>1, <2>2
<1>3. CASE n # 0
  <2> DEFINE cells == [i \in DOMAIN h[b] |-> IF i <= n THEN Raw ELSE h[b][i]]
             g == [h EXCEPT ![b] = cells]
  <2>1. cells = [i \in 1 .. c |-> Raw]
    BY <1>1 DEF Occupied
  <2>2. cells \in Seq(Cells) /\ Len(cells) = c
    BY <2>1 DEF Cells
  <2>3. g \in Heaps /\ g[b] = cells /\ Elsewhere(g, h, b)
    BY <2>2 DEF Heaps, Elsewhere
  <2>4. Full(g, b, 0, c)
    BY <2>1, <2>2, <2>3 DEF Full
  <2>5. \A i \in 1 .. n : Live(Sound(h), b, i)
    BY <1>1 DEF Live, Sound, Occupied
  <2>6. DestroyFirst(Sound(h), b, n) = Sound(g)
    BY <1>3, <2>5 DEF DestroyFirst, Sound
  <2> QED BY <2>3, <2>4, <2>6
<1> QED BY <1>2, <1>3

LEMMA ReleaseStore ==
    ASSUME NEW h \in Heaps, NEW b \in Blocks, NEW c \in Nat, NEW n \in 0 .. c, Occupied(h, b, n, c)
    PROVE  \E g \in Heaps : /\ Deallocate(DestroyFirst(Sound(h), b, n), b, c) = Sound(g)
                            /\ Elsewhere(g, h, b) /\ g[b] = <<>>
<1>1. PICK f \in Heaps : /\ DestroyFirst(Sound(h), b, n) = Sound(f)
                         /\ Elsewhere(f, h, b) /\ Full(f, b, 0, c)
  BY DestroyStore
<1> DEFINE g == [f EXCEPT ![b] = <<>>]
<1>2. g \in Heaps /\ g[b] = <<>> /\ Elsewhere(g, h, b)
  BY <1>1 DEF Heaps, Elsewhere
<1>3. Len(f[b]) = c /\ \A i \in 1 .. c : ~Live(Sound(f), b, i)
  BY <1>1 DEF Full, Live, Sound
<1>4. b # Null
  BY VectorAssumption DEF Null
<1>5. Deallocate(Sound(f), b, c) = Sound(g)
  BY <1>3, <1>4 DEF Deallocate, Sound
<1> QED BY <1>1, <1>2, <1>5

\* ~SimpleVector(), the swapped-out copy, and the storage grow() replaces.
LEMMA DestroyOne ==
    ASSUME NEW h \in Heaps,
           NEW x \in [data : Blocks \cup {Null}, size : Nat, capacity : Nat],
           x.size <= x.capacity, x.data = Null <=> x.capacity = 0,
           x.data # Null => Occupied(h, x.data, x.size, x.capacity)
    PROVE  \E g \in Heaps : /\ Destroy(Sound(h), x) = Sound(g)
                            /\ Elsewhere(g, h, x.data)
                            /\ x.data # Null => g[x.data] = <<>>
<1>1. CASE x.data = Null
  <2>1. x.size = 0
    BY <1>1
  <2>2. Destroy(Sound(h), x) = Sound(h)
    BY <1>1, <2>1 DEF Destroy, Clear, DestroyFirst, Deallocate
  <2> QED BY <1>1, <2>2 DEF Elsewhere
<1>2. CASE x.data # Null
  <2>1. x.data \in Blocks /\ x.size \in 0 .. x.capacity /\ x.capacity \in Nat
    BY <1>2
  <2> QED BY <1>2, <2>1, ReleaseStore DEF Destroy, Clear
<1> QED BY <1>1, <1>2

-----------------------------------------------------------------------------
(* Where a call is *)

Growth  == {"transfer", "undoGrow"}
Copying == {"copyElements", "undoCopy"}
Pushing == {"pushBack", "grow", "place"} \cup Growth

CallInv ==
    /\ alive \subseteq Vectors
    /\ pc \in {"idle", "create", "copy", "assign", "swap", "move", "moveAssign", "clear", "destroy"}
              \cup Pushing \cup Copying
    /\ pc = "create" => call.this \in Vectors \ alive
    /\ pc \in Pushing => call.this \in alive /\ call.value \in Values
    /\ pc \in {"copy"} \cup Copying =>
          /\ call.from \in alive
          /\ \/ call.call = "copy" /\ call.this \in Vectors \ alive
             \/ call.call = "assign" /\ call.this \in alive /\ call.this # call.from
    /\ pc \in {"assign", "swap"} => call.call = "assign" /\ call.this \in alive
    /\ pc = "assign" => call.from \in alive
    /\ pc = "move" => call.this \in Vectors \ alive /\ call.from \in alive
    /\ pc = "moveAssign" => call.this \in alive /\ call.from \in alive
    /\ pc \in {"clear", "destroy"} => call.this \in alive

LEMMA CallStep == CallInv /\ [Next]_vars => CallInv'
<1> SUFFICES ASSUME CallInv, [Next]_vars PROVE CallInv'
  OBVIOUS
<1> USE DEF Growth, Copying, Pushing
<1>1. CASE Begin
  <2>1. CASE call' \in {Request("create", v, v, Raw) : v \in Vectors \ alive}
    BY <1>1, <2>1 DEF Begin, Request, CallInv
  <2>2. CASE call' \in {Request("pushBack", v, v, x) :
                           v \in {u \in alive : vec[u].size < MaxSize}, x \in Values}
    BY <1>1, <2>2 DEF Begin, Request, CallInv
  <2>3. CASE call' \in {Request(c, v, w, Raw) : c \in {"copy", "move"}, v \in Vectors \ alive, w \in alive}
    BY <1>1, <2>3 DEF Begin, Request, CallInv
  <2>4. CASE call' \in {Request(c, v, w, Raw) : c \in {"assign", "moveAssign"}, v \in alive, w \in alive}
    BY <1>1, <2>4 DEF Begin, Request, CallInv
  <2>5. CASE call' \in {Request(c, v, v, Raw) : c \in {"clear", "destroy"}, v \in alive}
    BY <1>1, <2>5 DEF Begin, Request, CallInv
  <2> QED BY <1>1, <2>1, <2>2, <2>3, <2>4, <2>5 DEF Begin, Calls
<1>2. ASSUME NEW V, V \subseteq Vectors, End(V) PROVE CallInv'
  BY <1>2 DEF End, CallInv
<1>3. CASE PushBack \/ Grow \/ Transfer \/ UndoGrow \/ Grown \/ Place
  <2>1. CASE Return \/ Throw
    BY <1>2, <2>1 DEF Return, Throw, CallInv
  <2>2. CASE ~(Return \/ Throw)
    BY <1>3, <2>2 DEF PushBack, Grow, Transfer, TransferBy, UndoGrow, Grown, Place, Goto, Same, CallInv
  <2> QED BY <2>1, <2>2
<1>4. CASE Copy \/ CopyElement \/ UndoCopy \/ CopyComplete \/ Assign \/ Swap
  <2>1. CASE Return \/ Throw
    BY <1>2, <2>1 DEF Return, Throw, CallInv
  <2>2. CASE Copied /\ pc \in {"copy", "copyElements"}
    <3>1. CASE call.call = "assign"
      BY <2>2, <3>1 DEF Copied, Goto, Same, CallInv
    <3>2. CASE call.call # "assign"
      <4>1. End(alive \cup {call.this})
        BY <2>2, <3>2 DEF Copied
      <4>2. alive \cup {call.this} \subseteq Vectors
        BY <2>2, <3>2 DEF CallInv
      <4> QED BY <1>2, <4>1, <4>2
    <3> QED BY <3>1, <3>2
  <2>3. CASE Copy /\ ~Throw
    <3>1. CASE Copied
      BY <2>2, <2>3, <3>1 DEF Copy
    <3>2. CASE ~Copied
      BY <2>3, <3>2 DEF Copy, Goto, Same, CallInv
    <3> QED BY <3>1, <3>2
  <2>4. CASE CopyElement
    BY <2>4 DEF CopyElement, Goto, Same, CallInv
  <2>5. CASE CopyComplete
    BY <2>2, <2>5 DEF CopyComplete
  <2>6. CASE Assign /\ ~Return
    BY <2>6 DEF Assign, Goto, Same, CallInv
  <2>7. UndoCopy \/ Swap => Return \/ Throw
    BY Zenon DEF UndoCopy, Swap
  <2> QED BY <1>4, <2>1, <2>3, <2>4, <2>5, <2>6, <2>7
<1>5. CASE Create \/ Move \/ MoveAssign \/ ClearVector \/ DestroyVector
  <2>1. alive \cup {call.this} \subseteq Vectors \/ pc \notin {"create", "move"}
    BY DEF CallInv
  <2>2. alive \subseteq Vectors /\ alive \ {call.this} \subseteq Vectors
    BY DEF CallInv
  <2> QED BY <1>2, <1>5, <2>1, <2>2
          DEF Create, Move, MoveAssign, ClearVector, DestroyVector, Return
<1>6. CASE UNCHANGED vars
  BY <1>6 DEF vars, CallInv
<1> QED BY <1>1, <1>3, <1>4, <1>5, <1>6 DEF Next, Step

-----------------------------------------------------------------------------
(* Vectors that share a store, each block its own.                         *)

Owners  == Vectors \cup {Temp}
Records == [data : Blocks \cup {Null}, size : Nat, capacity : Nat]

Settled(h, V) ==
    /\ V \in [Owners -> Records]
    /\ \A u \in Owners : V[u].size <= V[u].capacity /\ (V[u].data = Null <=> V[u].capacity = 0)
    /\ \A u, v \in Owners : u # v /\ V[u].data = V[v].data => V[u].data = Null
    /\ \A u \in Owners : V[u].data # Null => Full(h, V[u].data, V[u].size, V[u].capacity)
    /\ \A b \in Blocks : h[b] # <<>> => \E u \in Owners : V[u].data = b

\* What happens to one block leaves the others filled.
LEMMA FullElsewhere ==
    ASSUME NEW h, NEW g, NEW b, NEW a \in Blocks, a # b, Elsewhere(g, h, b),
           NEW n, NEW c, Full(h, a, n, c)
    PROVE  Full(g, a, n, c)
BY DEF Full, Elsewhere

\* A vector gives back its storage.
LEMMA SettledRelease ==
    ASSUME NEW h \in Heaps, NEW g \in Heaps, NEW V, Settled(h, V),
           NEW u \in Owners,
           Elsewhere(g, h, V[u].data), V[u].data # Null => g[V[u].data] = <<>>
    PROVE  Settled(g, [V EXCEPT ![u] = NoVector])
<1> DEFINE W == [V EXCEPT ![u] = NoVector]
<1>1. W \in [Owners -> Records] /\ W[u] = NoVector /\ \A v \in Owners \ {u} : W[v] = V[v]
  BY DEF Settled, Records, NoVector
<1> HIDE DEF W
<1>2. \A v \in Owners : W[v].size <= W[v].capacity /\ (W[v].data = Null <=> W[v].capacity = 0)
  BY <1>1 DEF Settled, NoVector
<1>3. \A t, v \in Owners : t # v /\ W[t].data = W[v].data => W[t].data = Null
  BY <1>1 DEF Settled, NoVector
<1>4. ASSUME NEW v \in Owners, W[v].data # Null
      PROVE  Full(g, W[v].data, W[v].size, W[v].capacity)
  <2>1. v # u /\ W[v] = V[v]
    BY <1>1, <1>4 DEF NoVector
  <2>2. V[v].data \in Blocks /\ V[v].data # V[u].data
    BY <1>1, <1>4, <2>1 DEF Settled, Records
  <2>3. Full(h, V[v].data, V[v].size, V[v].capacity)
    BY <1>4, <2>1 DEF Settled
  <2>4. Full(g, V[v].data, V[v].size, V[v].capacity)
    BY <2>2, <2>3, FullElsewhere
  <2> QED BY <2>1, <2>4
<1>5. ASSUME NEW b \in Blocks, g[b] # <<>> PROVE \E v \in Owners : W[v].data = b
  <2>1. b # V[u].data
    BY <1>5, VectorAssumption DEF Null
  <2>2. PICK v \in Owners : V[v].data = b
    BY <1>5, <2>1 DEF Settled, Elsewhere
  <2> QED BY <1>1, <2>1, <2>2
<1>6. Settled(g, W)
  BY <1>1, <1>2, <1>3, <1>4, <1>5 DEF Settled
<1> QED BY <1>6 DEF W

LEMMA SettledDestroy ==
    ASSUME NEW h \in Heaps, NEW V, Settled(h, V),
           NEW u \in Owners
    PROVE  \E g \in Heaps : /\ Destroy(Sound(h), V[u]) = Sound(g) /\ Elsewhere(g, h, V[u].data)
                            /\ Settled(g, [V EXCEPT ![u] = NoVector])
<1>1. PICK v : v = V[u]
  OBVIOUS
<1>2. /\ v \in Records /\ v.size <= v.capacity /\ (v.data = Null <=> v.capacity = 0)
      /\ v.data # Null => Occupied(h, v.data, v.size, v.capacity)
  BY <1>1, FullIsOccupied DEF Settled
<1>3. PICK g \in Heaps : /\ Destroy(Sound(h), v) = Sound(g)
                         /\ Elsewhere(g, h, v.data)
                         /\ v.data # Null => g[v.data] = <<>>
  BY <1>2, DestroyOne DEF Records
<1>4. Settled(g, [V EXCEPT ![u] = NoVector])
  BY <1>1, <1>3, SettledRelease
<1> QED BY <1>1, <1>3, <1>4

\* A vector without storage takes over that of another.
LEMMA SettledHandOver ==
    ASSUME NEW h, NEW V, Settled(h, V),
           NEW u \in Owners, NEW v \in Owners, u # v, V[u] = NoVector
    PROVE  Settled(h, [V EXCEPT ![u] = V[v], ![v] = NoVector])
<1> DEFINE W == [V EXCEPT ![u] = V[v], ![v] = NoVector]
<1>1. /\ W \in [Owners -> Records] /\ W[u] = V[v] /\ W[v] = NoVector
      /\ \A t \in Owners \ {u, v} : W[t] = V[t]
  BY DEF Settled, Records, NoVector
<1> HIDE DEF W
<1>2. \A t \in Owners : W[t].size <= W[t].capacity /\ (W[t].data = Null <=> W[t].capacity = 0)
  BY <1>1 DEF Settled, NoVector
<1>3. \A s, t \in Owners : s # t /\ W[s].data = W[t].data => W[s].data = Null
  BY <1>1 DEF Settled, NoVector
<1>4. \A t \in Owners : W[t].data # Null =>
         Full(h, W[t].data, W[t].size, W[t].capacity)
  BY <1>1 DEF Settled, NoVector
<1>5. \A b \in Blocks : h[b] # <<>> => \E t \in Owners : W[t].data = b
  BY <1>1, VectorAssumption DEF Settled, NoVector, Null
<1>6. Settled(h, W)
  BY <1>1, <1>2, <1>3, <1>4, <1>5 DEF Settled
<1> QED BY <1>6 DEF W

\* A vector without storage gets a block.
LEMMA SettledAcquire ==
    ASSUME NEW h \in Heaps, NEW g \in Heaps, NEW V, Settled(h, V),
           NEW u \in Owners, V[u] = NoVector, NEW b \in Blocks, h[b] = <<>>,
           NEW c \in Nat \ {0}, Full(g, b, 0, c), Elsewhere(g, h, b)
    PROVE  Settled(g, [V EXCEPT ![u] = [data |-> b, size |-> 0, capacity |-> c]])
<1> DEFINE W == [V EXCEPT ![u] = [data |-> b, size |-> 0, capacity |-> c]]
<1>1. /\ W \in [Owners -> Records] /\ W[u] = [data |-> b, size |-> 0, capacity |-> c]
      /\ \A t \in Owners \ {u} : W[t] = V[t]
  BY DEF Settled, Records, NoVector
<1> HIDE DEF W
<1>2. b # Null
  BY VectorAssumption DEF Null
<1>3. \A t \in Owners : V[t].data # b
  <2> SUFFICES ASSUME NEW t \in Owners, V[t].data = b PROVE FALSE
    OBVIOUS
  <2>1. Len(h[b]) = V[t].capacity /\ V[t].capacity \in Nat \ {0}
    BY <1>2 DEF Settled, Full, Records
  <2> QED BY <2>1
<1>4. \A t \in Owners : W[t].size <= W[t].capacity /\ (W[t].data = Null <=> W[t].capacity = 0)
  BY <1>1, <1>2 DEF Settled
<1>5. \A s, t \in Owners : s # t /\ W[s].data = W[t].data => W[s].data = Null
  BY <1>1, <1>3 DEF Settled
<1>6. ASSUME NEW t \in Owners, W[t].data # Null
      PROVE  Full(g, W[t].data, W[t].size, W[t].capacity)
  <2>1. CASE t = u
    BY <1>1, <2>1
  <2>2. CASE t # u
    <3>1. W[t] = V[t] /\ V[t].data \in Blocks /\ V[t].data # b
      BY <1>1, <1>3, <1>6, <2>2 DEF Settled, Records
    <3>2. Full(h, V[t].data, V[t].size, V[t].capacity)
      BY <1>6, <3>1 DEF Settled
    <3> QED BY <3>1, <3>2, FullElsewhere
  <2> QED BY <2>1, <2>2
<1>7. \A a \in Blocks : g[a] # <<>> => \E t \in Owners : W[t].data = a
  <2> SUFFICES ASSUME NEW a \in Blocks, g[a] # <<>>, a # b PROVE \E t \in Owners : W[t].data = a
    BY <1>1
  <2>1. PICK t \in Owners : V[t].data = a
    BY DEF Settled, Elsewhere
  <2>2. t # u
    BY <2>1, VectorAssumption DEF NoVector, Null
  <2> QED BY <1>1, <2>1, <2>2
<1>8. Settled(g, W)
  BY <1>1, <1>4, <1>5, <1>6, <1>7 DEF Settled
<1> QED BY <1>8 DEF W

\* A vector has more elements, or none.
LEMMA SettledResize ==
    ASSUME NEW h \in Heaps, NEW g \in Heaps, NEW V, Settled(h, V),
           NEW u \in Owners, NEW n \in 0 .. V[u].capacity,
           V[u].data # Null => Full(g, V[u].data, n, V[u].capacity),
           Elsewhere(g, h, V[u].data)
    PROVE  Settled(g, [V EXCEPT ![u].size = n])
<1> DEFINE W == [V EXCEPT ![u].size = n]
<1>1. V \in [Owners -> Records] /\ V[u].capacity \in Nat
  BY DEF Settled, Records
<1>2. W \in [Owners -> Records] /\ \A t \in Owners \ {u} : W[t] = V[t]
  BY <1>1 DEF Records
<1>3. W[u].size = n /\ W[u].data = V[u].data /\ W[u].capacity = V[u].capacity
  BY <1>1 DEF Records
<1> HIDE DEF W
<1>4. \A t \in Owners : W[t].size <= W[t].capacity /\ (W[t].data = Null <=> W[t].capacity = 0)
  BY <1>1, <1>2, <1>3 DEF Settled
<1>5. \A s, t \in Owners : s # t /\ W[s].data = W[t].data => W[s].data = Null
  BY <1>2, <1>3 DEF Settled
<1>6. ASSUME NEW t \in Owners, W[t].data # Null
      PROVE  Full(g, W[t].data, W[t].size, W[t].capacity)
  <2>1. CASE t = u
    <3>1. Full(g, V[u].data, n, V[u].capacity)
      BY <1>3, <1>6, <2>1
    <3> QED BY <1>3, <2>1, <3>1
  <2>2. CASE t # u
    <3>1. W[t] = V[t] /\ V[t].data \in Blocks /\ V[t].data # V[u].data
      BY <1>2, <1>6, <2>2 DEF Settled, Records
    <3>2. Full(h, V[t].data, V[t].size, V[t].capacity)
      BY <1>6, <3>1 DEF Settled
    <3> QED BY <3>1, <3>2, FullElsewhere
  <2> QED BY <2>1, <2>2
<1>7. \A a \in Blocks : g[a] # <<>> => \E t \in Owners : W[t].data = a
  <2> SUFFICES ASSUME NEW a \in Blocks, g[a] # <<>>, a # V[u].data
               PROVE  \E t \in Owners : W[t].data = a
    BY <1>3
  <2>1. PICK t \in Owners : V[t].data = a
    BY DEF Settled, Elsewhere
  <2> QED BY <1>2, <1>3, <2>1
<1>8. Settled(g, W)
  BY <1>2, <1>4, <1>5, <1>6, <1>7 DEF Settled
<1> QED BY <1>8 DEF W

\* An object of w is moved away.
LEMMA SettledHusk ==
    ASSUME NEW h \in Heaps, NEW V, NEW w \in Owners, Settled(h, V), NEW k \in 1 .. V[w].size,
           NEW b, b = V[w].data
    PROVE  [h EXCEPT ![b][k] = Moved] \in Heaps /\ Settled([h EXCEPT ![b][k] = Moved], V)
<1> DEFINE g == [h EXCEPT ![b][k] = Moved]
<1>1. b \in Blocks /\ b # Null /\ V[w].capacity \in Nat /\ V[w].size \in Nat /\ V[w].size <= V[w].capacity
  BY DEF Settled, Records
<1>2. Full(h, b, V[w].size, V[w].capacity)
  BY <1>1 DEF Settled
<1>3. h[b] \in Seq(Cells) /\ k \in DOMAIN h[b] /\ Moved \in Cells
  BY <1>1, <1>2 DEF Heaps, Full, Cells, Objects
<1>4. /\ g[b] = [h[b] EXCEPT ![k] = Moved] /\ g[b] \in Seq(Cells) /\ Len(g[b]) = Len(h[b])
      /\ g \in Heaps /\ Elsewhere(g, h, b)
  <2>1. PICK q : q = [h[b] EXCEPT ![k] = Moved]
    OBVIOUS
  <2>2. q \in Seq(Cells) /\ Len(q) = Len(h[b])
    BY <1>3, <2>1
  <2>3. g = [h EXCEPT ![b] = q]
    BY <2>1
  <2> HIDE DEF g
  <2> QED BY <1>1, <2>1, <2>2, <2>3 DEF Heaps, Elsewhere
<1>5. \A i \in 1 .. V[w].capacity : g[b][i] = IF i = k THEN Moved ELSE h[b][i]
  BY <1>2, <1>3, <1>4 DEF Full
<1>6. Full(g, b, V[w].size, V[w].capacity)
  BY <1>1, <1>2, <1>4, <1>5 DEF Full, Objects
<1> HIDE DEF g
<1>7. ASSUME NEW t \in Owners, V[t].data # Null
      PROVE  Full(g, V[t].data, V[t].size, V[t].capacity)
  <2>1. CASE t = w
    BY <1>6, <2>1
  <2>2. CASE t # w
    <3>1. V[t].data \in Blocks /\ V[t].data # b
      BY <1>7, <2>2 DEF Settled, Records
    <3>2. Full(h, V[t].data, V[t].size, V[t].capacity)
      BY <1>7 DEF Settled
    <3> QED BY <1>4, <3>1, <3>2, FullElsewhere
  <2> QED BY <2>1, <2>2
<1>8. \A a \in Blocks : g[a] # <<>> => \E t \in Owners : V[t].data = a
  BY <1>4 DEF Settled, Elsewhere
<1>9. Settled(g, V)
  BY <1>7, <1>8 DEF Settled
<1> QED BY <1>4, <1>9 DEF g

-----------------------------------------------------------------------------
(* The invariant.  A block that a call is filling counts as a vector with  *)
(* the elements constructed so far: grow()'s as the local one, which has   *)
(* nothing then, a copy's as the target, whose size_ still says 0.         *)

Held == IF pc \in Growth
        THEN [vec EXCEPT ![Temp] = [data |-> block, size |-> constructed, capacity |-> NewCapacity]]
        ELSE IF pc \in Copying THEN [vec EXCEPT ![Target].size = constructed]
        ELSE vec

VectorsInv ==
    /\ vec \in [Owners -> Records]
    /\ \A u \in Owners \ alive : \/ vec[u] = NoVector
                                 \/ u = Target /\ pc \in {"swap"} \cup Copying
    /\ pc = "grow" => This.size = This.capacity
    /\ pc = "place" => This.size < This.capacity
    /\ pc \in Growth => /\ block \in Blocks
                        /\ This.size = This.capacity
                        /\ constructed \in 0 .. This.size
                        /\ pc = "undoGrow" => ~T.noexceptMove /\ constructed < This.size
    /\ pc \in Copying => /\ block \in Blocks
                         /\ vec[Target] = [data |-> block, size |-> 0, capacity |-> From.size]
                         /\ constructed \in 0 .. From.size

HeapInv == \E h \in Heaps : store = Sound(h) /\ Settled(h, Held)

Inv == CallInv /\ VectorsInv /\ HeapInv

\* The next state has all its storage in vectors.
LEMMA CalmNext ==
    ASSUME NEW g \in Heaps, store' = Sound(g), Settled(g, vec'),
           pc' \notin Growth \cup Copying,
           \A u \in Owners \ alive' : vec'[u] = NoVector \/ (u = Target' /\ pc' = "swap"),
           pc' = "grow" => This'.size = This'.capacity,
           pc' = "place" => This'.size < This'.capacity
    PROVE  VectorsInv' /\ HeapInv'
<1>1. Held' = vec'
  BY DEF Held, Growth, Copying
<1>2. HeapInv'
  BY <1>1 DEF HeapInv
<1>3. VectorsInv'
  BY DEF VectorsInv, Settled
<1> QED BY <1>2, <1>3

LEMMA EndNext ==
    ASSUME NEW V, End(V), NEW g \in Heaps, store' = Sound(g), Settled(g, vec'),
           \A u \in Owners \ V : vec'[u] = NoVector
    PROVE  VectorsInv' /\ HeapInv'
<1>1. pc' = "idle" /\ alive' = V
  BY DEF End
<1>2. pc' \notin Growth \cup Copying /\ pc' # "grow" /\ pc' # "place"
  BY <1>1 DEF Growth, Copying
<1> QED BY <1>1, <1>2, CalmNext

-----------------------------------------------------------------------------
(* push_back() *)

LEMMA FreshBlock ==
    ASSUME NEW h \in Heaps, store = Sound(h), Free # {}
    PROVE  Fresh \in Blocks /\ h[Fresh] = <<>>
BY DEF Free, Fresh, Sound

\* Between the moments when a block is being filled.
LEMMA HeldByVectors ==
    ASSUME Inv, pc \notin Growth \cup Copying
    PROVE  \E h \in Heaps : store = Sound(h) /\ Settled(h, vec)
<1>1. PICK h \in Heaps : store = Sound(h) /\ Settled(h, Held)
  BY DEF Inv, HeapInv
<1>2. Settled(h, vec)
  BY <1>1 DEF Held, Growth, Copying
<1> QED BY <1>1, <1>2

LEMMA GrowStep == Inv /\ Grow => VectorsInv' /\ HeapInv'
<1> SUFFICES ASSUME Inv, Grow PROVE VectorsInv' /\ HeapInv'
  OBVIOUS
<1>1. pc = "grow" /\ pc \notin Growth \cup Copying \cup {"swap"} /\ pc \in Pushing
  BY DEF Grow, Growth, Copying, Pushing
<1>2. PICK h \in Heaps : store = Sound(h) /\ Settled(h, vec)
  BY <1>1, HeldByVectors
<1>3. \A u \in Owners \ alive : vec[u] = NoVector
  BY <1>1 DEF Inv, VectorsInv
<1>4. /\ call.this \in alive /\ call.this \in Owners /\ call.this # Temp
      /\ Temp \in Owners \ alive /\ vec[Temp] = NoVector
  BY <1>1, <1>3, VectorAssumption DEF Inv, CallInv, Owners
<1>5. CASE UNCHANGED <<store, vec>> /\ Throw
  <2>1. End(alive) /\ store' = Sound(h) /\ vec' = vec
    BY <1>2, <1>5 DEF Throw
  <2>2. Settled(h, vec')
    BY <1>2, <2>1
  <2> QED BY <1>3, <2>1, <2>2, EndNext
<1>6. CASE /\ Free # {}
           /\ store' = Allocate(store, Fresh, NewCapacity)
           /\ UNCHANGED vec
           /\ block' = Fresh /\ constructed' = 0
           /\ Goto("transfer") /\ Same
  <2>1. PICK b \in Blocks : b = Fresh /\ h[b] = <<>>
    BY <1>2, <1>6, FreshBlock
  <2>2. PICK c \in Nat \ {0} : c = NewCapacity
    BY <1>4 DEF NewCapacity, This, Inv, VectorsInv, Records
  <2>3. PICK g \in Heaps : /\ Allocate(Sound(h), b, c) = Sound(g)
                           /\ Elsewhere(g, h, b) /\ Full(g, b, 0, c)
    BY AllocateStore
  <2>4. store' = Sound(g) /\ vec' = vec /\ pc' = "transfer" /\ call' = call /\ alive' = alive
    BY <1>2, <1>6, <2>1, <2>2, <2>3 DEF Goto, Same
  <2>5. NewCapacity' = c /\ This' = This
    BY <2>2, <2>4 DEF NewCapacity, This
  <2> DEFINE W == [vec EXCEPT ![Temp] = [data |-> b, size |-> 0, capacity |-> c]]
  <2>6. Settled(g, W)
    BY <1>2, <1>4, <2>1, <2>3, SettledAcquire
  <2>7. Held' = W
    BY <1>6, <2>1, <2>4, <2>5 DEF Held, Growth
  <2> HIDE DEF W
  <2>8. Settled(g, Held')
    BY <2>6, <2>7
  <2>9. HeapInv'
    BY <2>4, <2>8 DEF HeapInv
  <2>10. vec \in [Owners -> Records] /\ This.size = This.capacity /\ This.size \in Nat
    BY <1>1, <1>4 DEF VectorsInv, Inv, This, Records
  <2>11. block' \in Blocks /\ constructed' \in 0 .. This'.size /\ This'.size = This'.capacity
    BY <1>6, <2>1, <2>5, <2>10
  <2>12. VectorsInv'
    BY <1>3, <2>4, <2>10, <2>11 DEF VectorsInv, Growth, Copying
  <2> QED BY <2>9, <2>12
<1> QED BY <1>5, <1>6 DEF Grow

LEMMA GrowthHolds ==
    ASSUME Inv, pc \in Growth
    PROVE  /\ call.this \in alive /\ call.this \in Owners /\ call.this # Temp
           /\ \A u \in Owners \ alive : vec[u] = NoVector
           /\ Temp \in Owners \ alive
           /\ Held[call.this] = This
           /\ Held[Temp] = [data |-> block, size |-> constructed, capacity |-> NewCapacity]
           /\ constructed \in Nat /\ This.size \in Nat /\ NewCapacity \in Nat
           /\ constructed <= This.size /\ This.size < NewCapacity
<1>1. pc \notin Copying \cup {"swap"} /\ pc \in Pushing
  BY DEF Growth, Copying, Pushing
<1>2. \A u \in Owners \ alive : vec[u] = NoVector
  BY <1>1 DEF Inv, VectorsInv
<1>3. call.this \in alive /\ call.this \in Owners /\ call.this # Temp /\ Temp \in Owners \ alive
  BY <1>1, VectorAssumption DEF Inv, CallInv, Owners
<1>4. vec \in [Owners -> Records]
  BY DEF Inv, VectorsInv
<1>5. /\ Held[call.this] = This
      /\ Held[Temp] = [data |-> block, size |-> constructed, capacity |-> NewCapacity]
  BY <1>3, <1>4 DEF Held, This
<1>6. /\ constructed \in Nat /\ This.size \in Nat /\ NewCapacity \in Nat
      /\ constructed <= This.size /\ This.size < NewCapacity
  BY <1>3, <1>4 DEF NewCapacity, This, Inv, VectorsInv, Records
<1> QED BY <1>2, <1>3, <1>5, <1>6

\* While a block is being filled, as far as that concerns what vectors hold.
LEMMA StillGrowing ==
    ASSUME Inv, pc \in Growth, vec' = vec, call' = call, alive' = alive, block' = block,
           pc' \in Growth, constructed' \in 0 .. This.size,
           pc' = "undoGrow" => ~T'.noexceptMove /\ constructed' < This.size
    PROVE  /\ VectorsInv'
           /\ Held' = [Held EXCEPT ![Temp].size = constructed']
<1>1. This' = This /\ NewCapacity' = NewCapacity
  BY DEF This, NewCapacity
<1>2. \A u \in Owners \ alive : vec[u] = NoVector
  BY GrowthHolds
<1>3. VectorsInv'
  BY <1>1, <1>2 DEF VectorsInv, Inv, Growth, Copying
<1> DEFINE x == [data |-> block, size |-> constructed, capacity |-> NewCapacity]
           y == [data |-> block, size |-> constructed', capacity |-> NewCapacity]
<1>4. Held = [vec EXCEPT ![Temp] = x] /\ Held' = [vec EXCEPT ![Temp] = y]
  BY <1>1 DEF Held
<1>5. Temp \in DOMAIN vec
  BY GrowthHolds DEF Inv, VectorsInv
<1>6. y = [x EXCEPT !.size = constructed']
  OBVIOUS
<1> HIDE DEF x, y
<1>7. Held' = [Held EXCEPT ![Temp].size = constructed']
  BY <1>4, <1>5, <1>6
<1> QED BY <1>3, <1>7

LEMMA TransferStep == Inv /\ Transfer => VectorsInv' /\ HeapInv'
<1> SUFFICES ASSUME Inv, Transfer PROVE VectorsInv' /\ HeapInv'
  OBVIOUS
<1>1. pc = "transfer" /\ pc \in Growth /\ constructed < This.size
      /\ vec' = vec /\ alive' = alive /\ block' = block /\ call' = call /\ T' = T
  BY DEF Transfer, TransferBy, Growth, Same, Goto
<1>2. PICK h \in Heaps : store = Sound(h) /\ Settled(h, Held)
  BY DEF Inv, HeapInv
<1>3. PICK w, V, d, n, b, c, m :
         /\ w = call.this /\ V = Held /\ d = This.data /\ n = This.size
         /\ b = block /\ c = NewCapacity /\ m = constructed
  OBVIOUS
<1>4. /\ w \in Owners /\ w # Temp /\ V[w].data = d /\ V[w].size = n /\ Temp \in Owners
      /\ V[Temp] = [data |-> b, size |-> m, capacity |-> c]
      /\ m \in Nat /\ n \in Nat /\ c \in Nat /\ m < n /\ n < c /\ b \in Blocks /\ b # Null
  BY <1>1, <1>3, GrowthHolds, VectorAssumption DEF Inv, VectorsInv, Null
<1>5. Settled(h, V)
  BY <1>2, <1>3
<1>6. Full(h, b, m, c)
  BY <1>4, <1>5 DEF Settled
<1>7. d \in Blocks /\ h[d][m + 1] \in Objects
  <2>1. V[w] \in Records /\ d # Null /\ n <= V[w].capacity
    BY <1>4, <1>5 DEF Settled, Records
  <2>2. Full(h, d, n, V[w].capacity) /\ d \in Blocks /\ V[w].capacity \in Nat
    BY <1>4, <1>5, <2>1 DEF Settled, Records
  <2> QED BY <1>4, <2>1, <2>2 DEF Full
\* Moved from or not, the objects are in the same cells.
<1>8. ASSUME NEW f \in Heaps, NEW W, Settled(f, W), W[w] = V[w],
             store' \in {Sound(f), [Sound(f) EXCEPT !.heap[d][m + 1] = Moved]}
      PROVE  \E g \in Heaps : store' = Sound(g) /\ Settled(g, W)
  <2>1. PICK k : k = m + 1
    OBVIOUS
  <2>2. d = W[w].data /\ k \in 1 .. W[w].size
    BY <1>4, <1>8, <2>1
  <2> DEFINE g == [f EXCEPT ![d][k] = Moved]
  <2>3. g \in Heaps /\ Settled(g, W)
    BY <1>4, <1>8, <2>2, SettledHusk
  <2>4. store' = Sound(f) \/ store' = Sound(g)
    BY <1>8, <2>1 DEF Sound
  <2> HIDE DEF g
  <2> QED BY <1>8, <2>3, <2>4
<1>9. CASE /\ ~T.noexceptMove
           /\ store' \in {store, [store EXCEPT !.heap[This.data][constructed + 1] = Moved]}
           /\ Goto("undoGrow") /\ UNCHANGED constructed
  <2>1. pc' = "undoGrow" /\ constructed' = constructed
    BY <1>9 DEF Goto
  <2>2. VectorsInv' /\ Held' = [Held EXCEPT ![Temp].size = constructed']
    BY <1>1, <1>3, <1>4, <1>9, <2>1, StillGrowing DEF Growth
  <2>3. Held' = V
    BY <1>1, <1>3, <2>1 DEF Held, Growth, NewCapacity, This
  <2>4. PICK W : W = V
    OBVIOUS
  <2>5. W[w] = V[w] /\ Settled(h, W) /\ store' \in {Sound(h), [Sound(h) EXCEPT !.heap[d][m + 1] = Moved]}
    BY <1>2, <1>3, <1>5, <1>9, <2>4
  <2>6. \E g \in Heaps : store' = Sound(g) /\ Settled(g, V)
    BY <1>8, <2>4, <2>5
  <2> QED BY <2>2, <2>3, <2>6 DEF HeapInv
<1>10. CASE LET placed == Construct(store, block, constructed + 1, store.heap[This.data][constructed + 1])
            IN  /\ store' \in {placed, [placed EXCEPT !.heap[This.data][constructed + 1] = Moved]}
                /\ constructed' = constructed + 1
                /\ Goto("transfer")
  <2>1. PICK g \in Heaps : /\ Construct(Sound(h), b, m + 1, h[d][m + 1]) = Sound(g)
                           /\ Elsewhere(g, h, b) /\ Full(g, b, m + 1, c)
    BY <1>4, <1>6, <1>7, ConstructStore
  <2> DEFINE W == [V EXCEPT ![Temp].size = m + 1]
  <2>2. Settled(g, W)
    <3>1. PICK k \in Nat : k = m + 1
      BY <1>4
    <3>2. Elsewhere(g, h, V[Temp].data) /\ Full(g, V[Temp].data, k, V[Temp].capacity)
          /\ V[Temp].data # Null /\ k <= V[Temp].capacity
      BY <1>4, <2>1, <3>1
    <3> QED BY <1>4, <1>5, <3>1, <3>2, SettledResize
  <2>3. W[w] = V[w]
    BY <1>4, <1>5 DEF Settled
  <2>4. /\ pc' = "transfer" /\ constructed' = m + 1
        /\ store' \in {Sound(g), [Sound(g) EXCEPT !.heap[d][m + 1] = Moved]}
    BY <1>2, <1>3, <1>10, <2>1 DEF Goto, Sound
  <2>5. VectorsInv' /\ Held' = W
    BY <1>1, <1>3, <1>4, <2>4, StillGrowing DEF Growth
  <2> HIDE DEF W
  <2>6. \E f \in Heaps : store' = Sound(f) /\ Settled(f, W)
    BY <1>8, <2>2, <2>3, <2>4
  <2> QED BY <2>5, <2>6 DEF HeapInv
<1> QED BY <1>9, <1>10 DEF Transfer, TransferBy

LEMMA UndoGrowStep == Inv /\ UndoGrow => VectorsInv' /\ HeapInv'
<1> SUFFICES ASSUME Inv, UndoGrow PROVE VectorsInv' /\ HeapInv'
  OBVIOUS
<1>1. /\ pc = "undoGrow" /\ pc \in Growth /\ vec' = vec /\ End(alive)
      /\ \A u \in Owners \ alive : vec[u] = NoVector
  BY GrowthHolds DEF UndoGrow, Growth, Throw
<1>2. PICK h \in Heaps : store = Sound(h) /\ Settled(h, Held)
  BY <1>1 DEF Inv, HeapInv
<1>3. PICK V, b, c, m : V = Held /\ b = block /\ c = NewCapacity /\ m = constructed
  OBVIOUS
<1>4. /\ Temp \in Owners /\ V[Temp] = [data |-> b, size |-> m, capacity |-> c] /\ vec[Temp] = NoVector
      /\ m \in 0 .. c /\ c \in Nat /\ b \in Blocks /\ b # Null
  BY <1>1, <1>3, GrowthHolds, VectorAssumption DEF Inv, VectorsInv, Null
<1>5. Settled(h, V)
  BY <1>2, <1>3
<1>6. Occupied(h, b, m, c)
  BY <1>4, <1>5, FullIsOccupied DEF Settled
<1>7. PICK g \in Heaps : /\ Deallocate(DestroyFirst(Sound(h), b, m), b, c) = Sound(g)
                         /\ Elsewhere(g, h, b) /\ g[b] = <<>>
  BY <1>4, <1>6, ReleaseStore
<1>8. store' = Sound(g)
  BY <1>2, <1>3, <1>7 DEF UndoGrow
<1>9. Settled(g, [V EXCEPT ![Temp] = NoVector])
  BY <1>4, <1>5, <1>7, SettledRelease
<1>10. vec' = [V EXCEPT ![Temp] = NoVector]
  BY <1>1, <1>3, <1>4 DEF Held, Inv, VectorsInv
<1>11. Settled(g, vec')
  BY <1>9, <1>10
<1> QED BY <1>1, <1>8, <1>11, EndNext

LEMMA GrownStep == Inv /\ Grown => VectorsInv' /\ HeapInv'
<1> SUFFICES ASSUME Inv, Grown PROVE VectorsInv' /\ HeapInv'
  OBVIOUS
<1>1. /\ pc = "transfer" /\ pc \in Growth /\ constructed = This.size
      /\ alive' = alive /\ call' = call /\ pc' = "place"
      /\ \A u \in Owners \ alive : vec[u] = NoVector
  BY GrowthHolds DEF Grown, Growth, Same, Goto
<1>2. PICK h \in Heaps : store = Sound(h) /\ Settled(h, Held)
  BY DEF Inv, HeapInv
<1>3. PICK w, V, x, b, c, m :
         w = call.this /\ V = Held /\ x = This /\ b = block /\ c = NewCapacity /\ m = constructed
  OBVIOUS
<1>4. /\ w \in alive /\ w \in Owners /\ w # Temp /\ V[w] = x /\ Temp \in Owners
      /\ V[Temp] = [data |-> b, size |-> m, capacity |-> c] /\ vec[Temp] = NoVector
      /\ m \in Nat /\ c \in Nat /\ m < c /\ m = x.size
  BY <1>1, <1>3, GrowthHolds
<1>5. Settled(h, V)
  BY <1>2, <1>3
<1> DEFINE W == [V EXCEPT ![w] = NoVector]
<1>6. PICK g \in Heaps : Destroy(Sound(h), x) = Sound(g) /\ Settled(g, W)
  BY <1>4, <1>5, SettledDestroy
<1>8. store' = Sound(g)
  BY <1>2, <1>3, <1>6 DEF Grown
<1>9. x \in Records
  BY <1>4, <1>5 DEF Settled
<1>10. V \in [Owners -> Records] /\ vec \in [Owners -> Records]
  BY <1>5 DEF Settled, Inv, VectorsInv
<1>11. W[w] = NoVector /\ W[Temp] = V[Temp]
  BY <1>4, <1>10
<1>12. Settled(g, [W EXCEPT ![w] = W[Temp], ![Temp] = NoVector])
  BY <1>4, <1>6, <1>11, SettledHandOver
<1> DEFINE y == [data |-> b, size |-> m, capacity |-> c]
<1>13. V = [vec EXCEPT ![Temp] = y]
  BY <1>1, <1>3 DEF Held
<1>14. vec[w] = x /\ y = [data |-> b, size |-> x.size, capacity |-> c]
  BY <1>3, <1>4 DEF This
<1>15. vec' = [vec EXCEPT ![w] = y]
  <2>1. vec' = [vec EXCEPT ![w].data = b, ![w].capacity = c]
    BY <1>3 DEF Grown
  <2>2. [[vec EXCEPT ![w].data = b] EXCEPT ![w].capacity = c] = [vec EXCEPT ![w] = y]
    BY <1>4, <1>9, <1>10, <1>14 DEF Records
  <2> QED BY <2>1, <2>2
<1>16. [W EXCEPT ![w] = W[Temp], ![Temp] = NoVector] = [vec EXCEPT ![w] = y]
  BY <1>4, <1>10, <1>11, <1>13
<1> HIDE DEF W
<1>17. Settled(g, vec')
  BY <1>12, <1>15, <1>16
<1>18. This'.size < This'.capacity
  <2>1. This' = y
    BY <1>1, <1>3, <1>4, <1>10, <1>15 DEF This
  <2> QED BY <1>4, <2>1
<1>19. \A u \in Owners \ alive' : vec'[u] = NoVector
  BY <1>1, <1>4, <1>10, <1>15
<1>20. pc' \notin Growth \cup Copying /\ pc' # "grow"
  BY <1>1 DEF Growth, Copying
<1> QED BY <1>8, <1>17, <1>18, <1>19, <1>20, CalmNext

LEMMA PlaceStep == Inv /\ Place => VectorsInv' /\ HeapInv'
<1> SUFFICES ASSUME Inv, Place PROVE VectorsInv' /\ HeapInv'
  OBVIOUS
<1>1. pc = "place" /\ pc \notin Growth \cup Copying \cup {"swap"} /\ pc \in Pushing /\ End(alive)
  BY DEF Place, Growth, Copying, Pushing, Throw, Return
<1>2. PICK h \in Heaps : store = Sound(h) /\ Settled(h, vec)
  BY <1>1, HeldByVectors
<1>3. \A u \in Owners \ alive : vec[u] = NoVector
  BY <1>1 DEF Inv, VectorsInv
<1>4. CASE UNCHANGED <<store, vec>>
  <2>1. store' = Sound(h) /\ vec' = vec
    BY <1>2, <1>4
  <2>2. Settled(h, vec')
    BY <1>2, <2>1
  <2> QED BY <1>1, <1>3, <2>1, <2>2, EndNext
<1>5. CASE /\ store' = Construct(store, This.data, This.size + 1, call.value)
           /\ vec' = [vec EXCEPT ![call.this].size = @ + 1]
  <2>1. PICK w, x : w = call.this /\ x = This
    OBVIOUS
  <2>2. w \in alive /\ w \in Owners /\ vec[w] = x /\ x.size < x.capacity /\ call.value \in Values
    BY <1>1, <2>1 DEF Inv, CallInv, VectorsInv, Owners, This
  <2>3. x \in Records /\ x.data \in Blocks /\ x.data # Null
    BY <1>2, <2>2 DEF Settled, Records
  <2>4. x.size \in Nat /\ x.capacity \in Nat
    BY <2>3 DEF Records
  <2>6. Full(h, x.data, x.size, x.capacity) /\ call.value \in Objects
    BY <1>2, <2>2, <2>3 DEF Settled, Objects
  <2>7. PICK g \in Heaps : /\ Construct(Sound(h), x.data, x.size + 1, call.value) = Sound(g)
                           /\ Elsewhere(g, h, x.data) /\ Full(g, x.data, x.size + 1, x.capacity)
    BY <2>2, <2>3, <2>4, <2>6, ConstructStore
  <2>8. store' = Sound(g)
    BY <1>2, <1>5, <2>1, <2>7
  <2>9. Settled(g, [vec EXCEPT ![w].size = x.size + 1])
    <3>1. PICK n, V : n = x.size + 1 /\ V = vec
      OBVIOUS
    <3>2. n \in 0 .. V[w].capacity
      BY <2>2, <2>4, <3>1
    <3>3. /\ Settled(h, V) /\ w \in Owners /\ Elsewhere(g, h, V[w].data)
          /\ Full(g, V[w].data, n, V[w].capacity)
      BY <1>2, <2>2, <2>7, <3>1
    <3>4. Settled(g, [V EXCEPT ![w].size = n])
      BY <3>2, <3>3, SettledResize
    <3> QED BY <3>1, <3>4
  <2>10. vec' = [vec EXCEPT ![w].size = x.size + 1]
    BY <1>5, <2>1, <2>2 DEF Inv, VectorsInv
  <2>11. Settled(g, vec')
    BY <2>9, <2>10
  <2>12. \A u \in Owners \ alive : vec'[u] = NoVector
    BY <1>3, <2>2, <2>10 DEF Inv, VectorsInv
  <2> QED BY <1>1, <2>8, <2>11, <2>12, EndNext
<1> QED BY <1>4, <1>5 DEF Place

\* A step between two calms that leaves the vectors and the store.
LEMMA QuietStep ==
    ASSUME Inv, pc \notin Growth \cup Copying \cup {"swap"}, UNCHANGED <<store, vec, alive>>,
           pc' \notin Growth \cup Copying,
           pc' = "grow" => This'.size = This'.capacity,
           pc' = "place" => This'.size < This'.capacity
    PROVE  VectorsInv' /\ HeapInv'
<1>1. PICK h \in Heaps : store = Sound(h) /\ Settled(h, vec)
  BY HeldByVectors
<1>2. store' = Sound(h) /\ vec' = vec /\ alive' = alive
  BY <1>1
<1>3. Settled(h, vec')
  BY <1>1, <1>2
<1>4. \A u \in Owners \ alive' : vec'[u] = NoVector
  BY <1>2 DEF Inv, VectorsInv
<1> QED BY <1>2, <1>3, <1>4, CalmNext

LEMMA PushBackStep == Inv /\ PushBack => VectorsInv' /\ HeapInv'
<1> SUFFICES ASSUME Inv, PushBack PROVE VectorsInv' /\ HeapInv'
  OBVIOUS
<1>1. /\ pc = "pushBack" /\ pc \notin Growth \cup Copying \cup {"swap"} /\ pc \in Pushing
      /\ UNCHANGED <<store, vec, alive, call>>
      /\ pc' = IF This.size = This.capacity THEN "grow" ELSE "place"
  BY DEF PushBack, Growth, Copying, Pushing, Goto, Same
<1>2. PICK h \in Heaps : store = Sound(h) /\ Settled(h, vec)
  BY <1>1, HeldByVectors
<1>3. call.this \in Owners
  BY <1>1 DEF Inv, CallInv, Owners
<1>4. This.size <= This.capacity /\ This.size \in Nat /\ This.capacity \in Nat
  BY <1>2, <1>3 DEF Settled, This, Records
<1>5. This' = This
  BY <1>1 DEF This
<1>6. /\ pc' \notin Growth \cup Copying
      /\ pc' = "grow" => This'.size = This'.capacity
      /\ pc' = "place" => This'.size < This'.capacity
  BY <1>1, <1>4, <1>5 DEF Growth, Copying
<1> QED BY <1>1, <1>6, QuietStep

-----------------------------------------------------------------------------
(* Copies *)

LEMMA TargetHolds ==
    ASSUME Inv, pc \in {"copy"} \cup Copying
    PROVE  /\ Target \in Owners \ alive
           /\ call.from \in alive /\ call.from \in Owners /\ call.from # Target
           /\ This \in Records /\ From \in Records
           /\ \A u \in Owners \ alive : vec[u] = NoVector \/ (u = Target /\ pc \in Copying)
<1>1. Target \in Owners \ alive /\ call.from \in alive /\ call.from \in Owners /\ call.this \in Owners
  BY VectorAssumption DEF Inv, CallInv, Target, Owners
<1>2. \A u \in Owners \ alive : vec[u] = NoVector \/ (u = Target /\ pc \in Copying)
  BY DEF Inv, VectorsInv, Copying
<1> QED BY <1>1, <1>2 DEF This, From, Inv, VectorsInv

LEMMA CopiedNext ==
    ASSUME Inv, pc \in {"copy"} \cup Copying, Copied,
           NEW g \in Heaps, store' = Sound(g), Settled(g, vec'),
           \A u \in Owners \ alive : vec'[u] = NoVector \/ u = Target
    PROVE  VectorsInv' /\ HeapInv'
<1>1. CASE call.call = "assign"
  <2>1. pc' = "swap" /\ call' = call /\ alive' = alive
    BY <1>1 DEF Copied, Goto, Same
  <2>2. Target' = Target
    BY <2>1 DEF Target
  <2>3. \A u \in Owners \ alive' : vec'[u] = NoVector \/ (u = Target' /\ pc' = "swap")
    BY <2>1, <2>2
  <2>4. pc' \notin Growth \cup Copying /\ pc' # "grow" /\ pc' # "place"
    BY <2>1 DEF Growth, Copying
  <2> QED BY <2>3, <2>4, CalmNext
<1>2. CASE call.call # "assign"
  <2>1. End(alive \cup {call.this}) /\ Target = call.this
    BY <1>2 DEF Copied, Target
  <2>2. \A u \in Owners \ (alive \cup {call.this}) : vec'[u] = NoVector
    BY <2>1
  <2> QED BY <2>1, <2>2, EndNext
<1> QED BY <1>1, <1>2

LEMMA CopyStep == Inv /\ Copy => VectorsInv' /\ HeapInv'
<1> SUFFICES ASSUME Inv, Copy PROVE VectorsInv' /\ HeapInv'
  OBVIOUS
<1>1. pc = "copy" /\ pc \notin Growth \cup Copying
  BY DEF Copy, Growth, Copying
<1>2. PICK h \in Heaps : store = Sound(h) /\ Settled(h, vec)
  BY <1>1, HeldByVectors
<1>3. PICK t, x : t = Target /\ x = From
  OBVIOUS
<1>4. /\ t \in Owners \ alive /\ \A u \in Owners \ alive : vec[u] = NoVector
      /\ x \in Records /\ call.from \in Owners /\ call.from # t
  BY <1>1, <1>3, TargetHolds
<1>5. vec \in [Owners -> Records]
  BY DEF Inv, VectorsInv
<1>6. CASE From.size = 0 /\ vec' = [vec EXCEPT ![Target] = NoVector] /\ UNCHANGED store /\ Copied
  <2>1. vec' = vec /\ store' = Sound(h)
    BY <1>2, <1>3, <1>4, <1>5, <1>6
  <2>2. Settled(h, vec')
    BY <1>2, <2>1
  <2> QED BY <1>1, <1>4, <1>6, <2>1, <2>2, CopiedNext
<1>7. CASE UNCHANGED <<store, vec>> /\ Throw
  <2>1. vec' = vec /\ store' = Sound(h) /\ End(alive)
    BY <1>2, <1>7 DEF Throw
  <2>2. Settled(h, vec')
    BY <1>2, <2>1
  <2> QED BY <1>4, <2>1, <2>2, EndNext
<1>8. CASE /\ From.size > 0 /\ Free # {}
           /\ store' = Allocate(store, Fresh, From.size)
           /\ vec' = [vec EXCEPT ![Target] = [data |-> Fresh, size |-> 0, capacity |-> From.size]]
           /\ block' = Fresh /\ constructed' = 0
           /\ Goto("copyElements") /\ Same
  <2>1. PICK b \in Blocks : b = Fresh /\ h[b] = <<>>
    BY <1>2, <1>8, FreshBlock
  <2>2. PICK c \in Nat \ {0} : c = From.size
    BY <1>3, <1>4, <1>8 DEF Records
  <2>3. PICK g \in Heaps : /\ Allocate(Sound(h), b, c) = Sound(g)
                           /\ Elsewhere(g, h, b) /\ Full(g, b, 0, c)
    BY AllocateStore
  <2> DEFINE y == [data |-> b, size |-> 0, capacity |-> c]
             W == [vec EXCEPT ![t] = y]
  <2>4. Settled(g, W)
    BY <1>2, <1>4, <2>1, <2>3, SettledAcquire
  <2>5. /\ store' = Sound(g) /\ vec' = W /\ pc' = "copyElements" /\ call' = call /\ alive' = alive
        /\ block' = b /\ constructed' = 0
    BY <1>2, <1>3, <1>8, <2>1, <2>2, <2>3 DEF Goto, Same
  <2>6. y \in Records /\ [y EXCEPT !.size = 0] = y
    BY <2>1, <2>2 DEF Records
  <2> HIDE DEF y
  <2>7. W \in [Owners -> Records] /\ W[t] = y /\ \A u \in Owners \ {t} : W[u] = vec[u]
    BY <1>4, <1>5, <2>6
  <2>8. Target' = t /\ From' = From
    BY <1>3, <1>4, <2>5, <2>7 DEF Target, From
  <2>9. [W EXCEPT ![t].size = 0] = W
    BY <2>6, <2>7
  <2>10. Held' = W
    BY <2>5, <2>8, <2>9 DEF Held, Growth, Copying
  <2>11. VectorsInv'
    BY <1>4, <2>2, <2>5, <2>7, <2>8 DEF VectorsInv, Growth, Copying, y
  <2> HIDE DEF W
  <2>12. Settled(g, Held')
    BY <2>4, <2>10
  <2> QED BY <2>5, <2>11, <2>12 DEF HeapInv
<1> QED BY <1>6, <1>7, <1>8 DEF Copy

LEMMA CopyingHolds ==
    ASSUME Inv, pc \in Copying, NEW t, t = Target, NEW m, m = constructed, NEW b, b = block,
           NEW c, c = From.size
    PROVE  /\ t \in Owners \ alive /\ vec \in [Owners -> Records]
           /\ m \in 0 .. c /\ c \in Nat /\ b \in Blocks /\ b # Null
           /\ Held = [vec EXCEPT ![t].size = m]
           /\ Held[t] = [data |-> b, size |-> m, capacity |-> c]
           /\ \A u \in Owners \ {t} : Held[u] = vec[u]
<1>1. t \in Owners \ alive /\ vec \in [Owners -> Records] /\ c \in Nat
  BY TargetHolds DEF Inv, VectorsInv, Records
<1>2. m \in 0 .. c /\ b \in Blocks /\ b # Null /\ vec[t] = [data |-> b, size |-> 0, capacity |-> c]
  BY VectorAssumption DEF Inv, VectorsInv, Null
<1>3. Held = [vec EXCEPT ![t].size = m]
  BY DEF Held, Growth, Copying
<1> QED BY <1>1, <1>2, <1>3

LEMMA CopyElementStep == Inv /\ CopyElement => VectorsInv' /\ HeapInv'
<1> SUFFICES ASSUME Inv, CopyElement PROVE VectorsInv' /\ HeapInv'
  OBVIOUS
<1>1. /\ pc = "copyElements" /\ pc \in Copying /\ constructed < From.size
      /\ vec' = vec /\ alive' = alive /\ block' = block /\ call' = call
  BY DEF CopyElement, Copying, Same, Goto
<1>2. PICK h \in Heaps : store = Sound(h) /\ Settled(h, Held)
  BY DEF Inv, HeapInv
<1>3. PICK V, t, w, m, b, c, d : /\ V = Held /\ t = Target /\ w = call.from /\ m = constructed
                                 /\ b = block /\ c = From.size /\ d = From.data
  OBVIOUS
<1>4. /\ t \in Owners \ alive /\ m \in Nat /\ c \in Nat /\ m < c /\ b \in Blocks /\ b # Null
      /\ V[t] = [data |-> b, size |-> m, capacity |-> c] /\ V = [vec EXCEPT ![t].size = m]
      /\ vec \in [Owners -> Records]
  BY <1>1, <1>3, CopyingHolds
<1>5. w \in Owners /\ w # t /\ V[w].size = c /\ V[w].data = d
  BY <1>1, <1>3, CopyingHolds, TargetHolds DEF From
<1>6. Settled(h, V)
  BY <1>2, <1>3
<1>7. Full(h, b, m, c)
  BY <1>4, <1>6 DEF Settled
<1>8. h[d][m + 1] \in Objects
  <2>1. V[w] \in Records /\ d # Null /\ c <= V[w].capacity /\ V[w].capacity \in Nat
    BY <1>4, <1>5, <1>6 DEF Settled, Records
  <2>2. Full(h, d, c, V[w].capacity)
    BY <1>5, <1>6, <2>1 DEF Settled
  <2> QED BY <1>4, <2>1, <2>2 DEF Full
<1>9. Target' = t /\ From' = From
  BY <1>1, <1>3 DEF Target, From
<1>10. ASSUME pc' \in Copying, constructed' \in 0 .. c,
              NEW g \in Heaps, store' = Sound(g), Settled(g, [V EXCEPT ![t].size = constructed'])
       PROVE  VectorsInv' /\ HeapInv'
  <2>1. VectorsInv'
    BY <1>1, <1>3, <1>9, <1>10 DEF VectorsInv, Inv, Copying, Growth
  <2>2. [V EXCEPT ![t].size = constructed'] = [vec EXCEPT ![t].size = constructed']
    BY <1>4 DEF Records
  <2>3. Held' = [V EXCEPT ![t].size = constructed']
    BY <1>1, <1>9, <1>10, <2>2 DEF Held, Growth, Copying
  <2> QED BY <1>10, <2>1, <2>3 DEF HeapInv
<1>11. CASE Goto("undoCopy") /\ UNCHANGED <<store, constructed>>
  <2>1. [V EXCEPT ![t].size = m] = V
    BY <1>4 DEF Records
  <2>2. constructed' = m /\ store' = Sound(h) /\ pc' \in Copying
    BY <1>2, <1>3, <1>11 DEF Goto, Copying
  <2>3. Settled(h, [V EXCEPT ![t].size = constructed'])
    BY <1>6, <2>1, <2>2
  <2> QED BY <1>4, <1>10, <2>2, <2>3
<1>12. CASE /\ store' = Construct(store, block, constructed + 1, store.heap[From.data][constructed + 1])
            /\ constructed' = constructed + 1
            /\ Goto("copyElements")
  <2>1. PICK g \in Heaps : /\ Construct(Sound(h), b, m + 1, h[d][m + 1]) = Sound(g)
                           /\ Elsewhere(g, h, b) /\ Full(g, b, m + 1, c)
    BY <1>4, <1>7, <1>8, ConstructStore
  <2>2. constructed' = m + 1 /\ store' = Sound(g) /\ pc' \in Copying
    BY <1>2, <1>3, <1>12, <2>1 DEF Goto, Copying, Sound
  <2>3. Settled(g, [V EXCEPT ![t].size = m + 1])
    BY <1>4, <1>6, <2>1, SettledResize
  <2>4. Settled(g, [V EXCEPT ![t].size = constructed'])
    BY <2>2, <2>3
  <2> QED BY <1>4, <1>10, <2>2, <2>4
<1> QED BY <1>11, <1>12 DEF CopyElement

LEMMA UndoCopyStep == Inv /\ UndoCopy => VectorsInv' /\ HeapInv'
<1> SUFFICES ASSUME Inv, UndoCopy PROVE VectorsInv' /\ HeapInv'
  OBVIOUS
<1>1. pc = "undoCopy" /\ pc \in Copying /\ End(alive)
  BY DEF UndoCopy, Copying, Throw
<1>2. PICK h \in Heaps : store = Sound(h) /\ Settled(h, Held)
  BY DEF Inv, HeapInv
<1>3. PICK V, t, m, b, c : V = Held /\ t = Target /\ m = constructed /\ b = block /\ c = From.size
  OBVIOUS
<1>4. /\ t \in Owners \ alive /\ m \in 0 .. c /\ c \in Nat /\ b \in Blocks /\ b # Null
      /\ V[t] = [data |-> b, size |-> m, capacity |-> c] /\ V = [vec EXCEPT ![t].size = m]
      /\ vec \in [Owners -> Records]
  BY <1>1, <1>3, CopyingHolds
<1>5. Settled(h, V)
  BY <1>2, <1>3
<1>6. Occupied(h, b, m, c)
  BY <1>4, <1>5, FullIsOccupied DEF Settled
<1>7. PICK g \in Heaps : /\ Deallocate(DestroyFirst(Sound(h), b, m), b, c) = Sound(g)
                         /\ Elsewhere(g, h, b) /\ g[b] = <<>>
  BY <1>4, <1>6, ReleaseStore
<1>8. vec[t].capacity = c
  BY <1>1, <1>3 DEF Inv, VectorsInv
<1>9. store' = Sound(g)
  BY <1>2, <1>3, <1>7, <1>8 DEF UndoCopy
<1>10. Settled(g, [V EXCEPT ![t] = NoVector])
  BY <1>4, <1>5, <1>7, SettledRelease
<1>11. vec' = [vec EXCEPT ![t] = NoVector]
  BY <1>3 DEF UndoCopy
<1>12. vec' = [V EXCEPT ![t] = NoVector]
  BY <1>4, <1>11
<1>13. Settled(g, vec')
  BY <1>10, <1>12
<1>14. \A u \in Owners \ alive : vec'[u] = NoVector
  BY <1>1, <1>3, <1>4, <1>11, TargetHolds
<1> QED BY <1>1, <1>9, <1>13, <1>14, EndNext

LEMMA CopyCompleteStep == Inv /\ CopyComplete => VectorsInv' /\ HeapInv'
<1> SUFFICES ASSUME Inv, CopyComplete PROVE VectorsInv' /\ HeapInv'
  OBVIOUS
<1>1. /\ pc \in Copying /\ constructed = From.size /\ Copied
      /\ vec' = [vec EXCEPT ![Target].size = From.size] /\ store' = store
  BY DEF CopyComplete, Copying
<1>2. PICK h \in Heaps : store = Sound(h) /\ Settled(h, Held)
  BY DEF Inv, HeapInv
<1>3. PICK t, m, b, c : t = Target /\ m = constructed /\ b = block /\ c = From.size
  OBVIOUS
<1>4. Held = [vec EXCEPT ![t].size = m] /\ vec \in [Owners -> Records]
  BY <1>1, <1>3, CopyingHolds
<1>5. vec' = Held
  BY <1>1, <1>3, <1>4
<1>6. Settled(h, vec')
  BY <1>2, <1>5
<1>7. \A u \in Owners \ alive : vec'[u] = NoVector \/ u = Target
  BY <1>1, <1>4, TargetHolds
<1> QED BY <1>1, <1>2, <1>6, <1>7, CopiedNext

\* The vector u gives back its storage and takes over v's.
LEMMA SettledReplace ==
    ASSUME NEW h \in Heaps, NEW V, Settled(h, V),
           NEW u \in Owners, NEW v \in Owners, u # v
    PROVE  \E g \in Heaps : /\ Destroy(Sound(h), V[u]) = Sound(g) /\ Elsewhere(g, h, V[u].data)
                            /\ Settled(g, [V EXCEPT ![u] = V[v], ![v] = NoVector])
<1> DEFINE W == [V EXCEPT ![u] = NoVector]
<1>1. PICK g \in Heaps : /\ Destroy(Sound(h), V[u]) = Sound(g) /\ Elsewhere(g, h, V[u].data)
                         /\ Settled(g, W)
  BY SettledDestroy
<1>2. V \in [Owners -> Records]
  BY DEF Settled
<1>3. W[u] = NoVector /\ W[v] = V[v]
  BY <1>2
<1>4. Settled(g, [W EXCEPT ![u] = W[v], ![v] = NoVector])
  <2> HIDE DEF W
  <2> QED BY <1>1, <1>3, SettledHandOver
<1>5. [W EXCEPT ![u] = W[v], ![v] = NoVector] = [V EXCEPT ![u] = V[v], ![v] = NoVector]
  BY <1>2, <1>3
<1> QED BY <1>1, <1>4, <1>5

LEMMA SwapStep == Inv /\ Swap => VectorsInv' /\ HeapInv'
<1> SUFFICES ASSUME Inv, Swap PROVE VectorsInv' /\ HeapInv'
  OBVIOUS
<1>1. pc = "swap" /\ pc \notin Growth \cup Copying /\ End(alive)
  BY DEF Swap, Growth, Copying, Return
<1>2. PICK h \in Heaps : store = Sound(h) /\ Settled(h, vec)
  BY <1>1, HeldByVectors
<1>3. PICK u, x : u = call.this /\ x = This
  OBVIOUS
<1>4. /\ u \in alive /\ u \in Owners /\ Temp \in Owners /\ u # Temp /\ Target = Temp
      /\ x = vec[u] /\ vec \in [Owners -> Records]
      /\ \A v \in Owners \ alive : vec[v] = NoVector \/ v = Temp
  BY <1>1, <1>3, VectorAssumption DEF Inv, CallInv, VectorsInv, Owners, Target, This
<1>5. PICK g \in Heaps : /\ Destroy(Sound(h), x) = Sound(g)
                         /\ Settled(g, [vec EXCEPT ![u] = vec[Temp], ![Temp] = NoVector])
  BY <1>2, <1>4, SettledReplace
<1>6. store' = Sound(g) /\ vec' = [vec EXCEPT ![u] = vec[Temp], ![Temp] = NoVector]
  BY <1>2, <1>3, <1>5 DEF Swap
<1>7. Settled(g, vec')
  BY <1>5, <1>6
<1>8. \A v \in Owners \ alive : vec'[v] = NoVector
  BY <1>4, <1>6
<1> QED BY <1>1, <1>6, <1>7, <1>8, EndNext

LEMMA AssignStep == Inv /\ Assign => VectorsInv' /\ HeapInv'
<1> SUFFICES ASSUME Inv, Assign PROVE VectorsInv' /\ HeapInv'
  OBVIOUS
<1>1. pc \notin Growth \cup Copying \cup {"swap"} /\ UNCHANGED <<store, vec>>
  BY DEF Assign, Growth, Copying
<1>2. alive' = alive /\ pc' \in {"idle", "copy"}
  BY DEF Assign, Return, End, Goto, Same
<1>3. pc' \notin Growth \cup Copying /\ pc' # "grow" /\ pc' # "place"
  BY <1>2 DEF Growth, Copying
<1> QED BY <1>1, <1>2, <1>3, QuietStep

-----------------------------------------------------------------------------
(* The calls of one step *)

LEMMA CreateStep == Inv /\ Create => VectorsInv' /\ HeapInv'
<1> SUFFICES ASSUME Inv, Create PROVE VectorsInv' /\ HeapInv'
  OBVIOUS
<1>1. pc = "create" /\ pc \notin Growth \cup Copying \cup {"swap"} /\ End(alive \cup {call.this})
  BY DEF Create, Growth, Copying
<1>2. PICK h \in Heaps : store = Sound(h) /\ Settled(h, vec)
  BY <1>1, HeldByVectors
<1>3. call.this \in Owners \ alive /\ \A u \in Owners \ alive : vec[u] = NoVector
  BY <1>1 DEF Inv, CallInv, VectorsInv, Owners
<1>4. vec' = vec /\ store' = Sound(h)
  BY <1>2, <1>3 DEF Create, Inv, VectorsInv
<1>5. Settled(h, vec')
  BY <1>2, <1>4
<1>6. \A u \in Owners \ (alive \cup {call.this}) : vec'[u] = NoVector
  BY <1>3, <1>4
<1> QED BY <1>1, <1>4, <1>5, <1>6, EndNext

LEMMA MoveStep == Inv /\ Move => VectorsInv' /\ HeapInv'
<1> SUFFICES ASSUME Inv, Move PROVE VectorsInv' /\ HeapInv'
  OBVIOUS
<1>1. pc = "move" /\ pc \notin Growth \cup Copying \cup {"swap"} /\ End(alive \cup {call.this})
  BY DEF Move, Growth, Copying
<1>2. PICK h \in Heaps : store = Sound(h) /\ Settled(h, vec)
  BY <1>1, HeldByVectors
<1>3. PICK u, v : u = call.this /\ v = call.from
  OBVIOUS
<1>4. /\ u \in Owners /\ u \notin alive /\ v \in alive /\ v \in Owners
      /\ vec \in [Owners -> Records] /\ \A w \in Owners \ alive : vec[w] = NoVector
  BY <1>1, <1>3 DEF Inv, CallInv, VectorsInv, Owners
<1>5. vec' = [vec EXCEPT ![u] = vec[v], ![v] = NoVector] /\ store' = Sound(h)
  BY <1>2, <1>3 DEF Move, From
<1>6. Settled(h, [vec EXCEPT ![u] = vec[v], ![v] = NoVector])
  <2>1. u # v /\ vec[u] = NoVector
    BY <1>4
  <2> QED BY <1>2, <1>4, <2>1, SettledHandOver
<1>7. Settled(h, vec')
  BY <1>5, <1>6
<1>8. \A w \in Owners \ (alive \cup {u}) : vec'[w] = NoVector
  BY <1>4, <1>5
<1> QED BY <1>1, <1>3, <1>5, <1>7, <1>8, EndNext

LEMMA MoveAssignStep == Inv /\ MoveAssign => VectorsInv' /\ HeapInv'
<1> SUFFICES ASSUME Inv, MoveAssign PROVE VectorsInv' /\ HeapInv'
  OBVIOUS
<1>1. pc = "moveAssign" /\ pc \notin Growth \cup Copying \cup {"swap"} /\ End(alive)
  BY DEF MoveAssign, Growth, Copying, Return
<1>2. PICK h \in Heaps : store = Sound(h) /\ Settled(h, vec)
  BY <1>1, HeldByVectors
<1>3. PICK u, v, x : u = call.this /\ v = call.from /\ x = This
  OBVIOUS
<1>4. /\ u \in alive /\ u \in Owners /\ v \in alive /\ v \in Owners /\ x = vec[u]
      /\ vec \in [Owners -> Records] /\ \A w \in Owners \ alive : vec[w] = NoVector
  BY <1>1, <1>3 DEF Inv, CallInv, VectorsInv, Owners, This
<1>5. CASE UNCHANGED <<store, vec>>
  <2>1. store' = Sound(h) /\ vec' = vec
    BY <1>2, <1>5
  <2>2. Settled(h, vec')
    BY <1>2, <2>1
  <2> QED BY <1>1, <1>4, <2>1, <2>2, EndNext
<1>6. CASE /\ u # v
           /\ store' = Destroy(store, This)
           /\ vec' = [vec EXCEPT ![call.this] = From, ![call.from] = NoVector]
  <2>1. PICK g \in Heaps : /\ Destroy(Sound(h), x) = Sound(g)
                           /\ Settled(g, [vec EXCEPT ![u] = vec[v], ![v] = NoVector])
    BY <1>2, <1>4, <1>6, SettledReplace
  <2>2. store' = Sound(g) /\ vec' = [vec EXCEPT ![u] = vec[v], ![v] = NoVector]
    BY <1>2, <1>3, <1>6, <2>1 DEF From
  <2>3. Settled(g, vec')
    BY <2>1, <2>2
  <2>4. \A w \in Owners \ alive : vec'[w] = NoVector
    BY <1>4, <2>2
  <2> QED BY <1>1, <2>2, <2>3, <2>4, EndNext
<1> QED BY <1>3, <1>5, <1>6 DEF MoveAssign

LEMMA ClearStep == Inv /\ ClearVector => VectorsInv' /\ HeapInv'
<1> SUFFICES ASSUME Inv, ClearVector PROVE VectorsInv' /\ HeapInv'
  OBVIOUS
<1>1. pc = "clear" /\ pc \notin Growth \cup Copying \cup {"swap"} /\ End(alive)
  BY DEF ClearVector, Growth, Copying, Return
<1>2. PICK h \in Heaps : store = Sound(h) /\ Settled(h, vec)
  BY <1>1, HeldByVectors
<1>3. PICK u, x : u = call.this /\ x = This
  OBVIOUS
<1>4. /\ u \in alive /\ u \in Owners /\ x = vec[u]
      /\ vec \in [Owners -> Records] /\ \A w \in Owners \ alive : vec[w] = NoVector
  BY <1>1, <1>3 DEF Inv, CallInv, VectorsInv, Owners, This
<1>5. vec' = [vec EXCEPT ![u].size = 0]
  BY <1>3 DEF ClearVector
<1>6. x.size \in Nat /\ x.capacity \in Nat /\ x.size <= x.capacity
  BY <1>2, <1>4 DEF Settled, Records
<1>7. PICK g \in Heaps : /\ Clear(Sound(h), x) = Sound(g) /\ Elsewhere(g, h, x.data)
                         /\ x.data # Null => Full(g, x.data, 0, x.capacity)
  <2>1. CASE x.data = Null
    <3>1. x.size = 0
      BY <1>2, <1>4, <1>6, <2>1 DEF Settled
    <3> QED BY <2>1, <3>1 DEF Clear, DestroyFirst, Elsewhere
  <2>2. CASE x.data # Null
    <3>1. x.data \in Blocks /\ Occupied(h, x.data, x.size, x.capacity)
      BY <1>2, <1>4, <2>2, FullIsOccupied DEF Settled, Records
    <3> QED BY <1>6, <3>1, DestroyStore DEF Clear
  <2> QED BY <2>1, <2>2
<1>8. Settled(g, [vec EXCEPT ![u].size = 0])
  <2>1. PICK V, n : V = vec /\ n = 0 /\ n \in 0 .. x.capacity
    BY <1>6
  <2>2. /\ Settled(h, V) /\ V[u] = x
    BY <1>2, <1>4, <2>1
  <2>3. Settled(g, [V EXCEPT ![u].size = n])
    BY <1>4, <1>7, <2>1, <2>2, SettledResize
  <2> QED BY <2>1, <2>3
<1>9. Settled(g, vec') /\ store' = Sound(g)
  BY <1>2, <1>3, <1>5, <1>7, <1>8 DEF ClearVector
<1>10. \A w \in Owners \ alive : vec'[w] = NoVector
  BY <1>4, <1>5
<1> QED BY <1>1, <1>9, <1>10, EndNext

LEMMA DestroyStep == Inv /\ DestroyVector => VectorsInv' /\ HeapInv'
<1> SUFFICES ASSUME Inv, DestroyVector PROVE VectorsInv' /\ HeapInv'
  OBVIOUS
<1>1. pc = "destroy" /\ pc \notin Growth \cup Copying \cup {"swap"} /\ End(alive \ {call.this})
  BY DEF DestroyVector, Growth, Copying
<1>2. PICK h \in Heaps : store = Sound(h) /\ Settled(h, vec)
  BY <1>1, HeldByVectors
<1>3. PICK u, x : u = call.this /\ x = This
  OBVIOUS
<1>4. /\ u \in Owners /\ x = vec[u]
      /\ vec \in [Owners -> Records] /\ \A w \in Owners \ alive : vec[w] = NoVector
  BY <1>1, <1>3 DEF Inv, CallInv, VectorsInv, Owners, This
<1>5. PICK g \in Heaps : /\ Destroy(Sound(h), x) = Sound(g)
                         /\ Settled(g, [vec EXCEPT ![u] = NoVector])
  BY <1>2, <1>4, SettledDestroy
<1>6. store' = Sound(g) /\ vec' = [vec EXCEPT ![u] = NoVector]
  BY <1>2, <1>3, <1>5 DEF DestroyVector
<1>7. Settled(g, vec')
  BY <1>5, <1>6
<1>8. \A w \in Owners \ (alive \ {u}) : vec'[w] = NoVector
  BY <1>4, <1>6
<1> QED BY <1>1, <1>3, <1>6, <1>7, <1>8, EndNext

LEMMA BeginStep == Inv /\ Begin => VectorsInv' /\ HeapInv'
<1> SUFFICES ASSUME Inv, Begin PROVE VectorsInv' /\ HeapInv'
  OBVIOUS
<1>1. /\ pc \notin Growth \cup Copying \cup {"swap"} /\ UNCHANGED <<store, vec, alive>>
      /\ pc' = call'.call /\ call' \in Calls
  BY DEF Begin, Growth, Copying
<1>2. call'.call \in {"create", "pushBack", "copy", "move", "assign", "moveAssign", "clear", "destroy"}
  BY <1>1 DEF Calls, Request
<1>3. pc' \notin Growth \cup Copying /\ pc' # "grow" /\ pc' # "place"
  BY <1>1, <1>2 DEF Growth, Copying
<1> QED BY <1>1, <1>3, QuietStep

-----------------------------------------------------------------------------
LEMMA InvHoldsAtFirst == Init => Inv
<1> SUFFICES ASSUME Init PROVE Inv
  OBVIOUS
<1> DEFINE h == [b \in Blocks |-> <<>>]
<1>1. store = Sound(h) /\ h \in Heaps
  BY DEF Init, Sound, Heaps
<1>2. pc = "idle" /\ pc \notin Growth \cup Copying /\ alive = {} /\ vec = [v \in Owners |-> NoVector]
  BY DEF Init, Growth, Copying, Owners
<1>3. NoVector \in Records
  BY DEF NoVector, Records
<1>4. Held = vec
  BY <1>2 DEF Held, Growth
<1>5. Settled(h, vec)
  BY <1>2, <1>3 DEF Settled, NoVector
<1>6. CallInv /\ VectorsInv
  BY <1>2, <1>3 DEF CallInv, VectorsInv, Pushing, Growth, Copying
<1> HIDE DEF h
<1> QED BY <1>1, <1>4, <1>5, <1>6 DEF Inv, HeapInv

LEMMA InvKept == Inv /\ [Next]_vars => Inv'
<1> SUFFICES ASSUME Inv, [Next]_vars PROVE Inv'
  OBVIOUS
<1>1. CallInv'
  BY CallStep DEF Inv
<1>2. CASE UNCHANGED vars
  BY <1>1, <1>2 DEF vars, Inv, VectorsInv, HeapInv, Held, This, From, Target, NewCapacity
<1>3. CASE Next
  <2>1. VectorsInv' /\ HeapInv'
    BY <1>3, BeginStep, CreateStep, PushBackStep, GrowStep, TransferStep, UndoGrowStep, GrownStep,
       PlaceStep, CopyStep, CopyElementStep, UndoCopyStep, CopyCompleteStep, AssignStep, SwapStep,
       MoveStep, MoveAssignStep, ClearStep, DestroyStep DEF Next, Step
  <2> QED BY <1>1, <2>1 DEF Inv
<1> QED BY <1>2, <1>3

-----------------------------------------------------------------------------
(* What the vectors hold: between the calls what is seen, in a call what   *)
(* was seen last, except for the husks that grow() has left behind.        *)

\* The first n objects are the elements s, of which the first m are emptied.
Agree(h, b, s, m, n) == \A i \in 1 .. n : h[b][i] = IF i <= m THEN Moved ELSE s[i]

\* How many elements grow() has emptied: when a move has thrown, maybe that
\* one's source too.
Husks == IF MoveIfNoexcept /\ pc = "transfer" THEN {constructed}
         ELSE IF MoveIfNoexcept /\ pc = "undoGrow" THEN {constructed, constructed + 1}
         ELSE {0}

LEMMA ElementsAreObjects == Elements \subseteq Objects
BY DEF Elements, Objects

\* The vectors V hold what s says.
Shows(s, V, h, W) ==
    /\ s = [v \in V |-> s[v]]
    /\ \A v \in V : /\ s[v] \in Seq(Elements) /\ Len(s[v]) = W[v].size
                    /\ Agree(h, W[v].data, s[v], 0, W[v].size)

NameInv ==
    /\ pc = "idle" => call = NoCall
    /\ pc \in Pushing => call.call = "pushBack"
    /\ pc \in {"create", "move", "moveAssign", "clear", "destroy"} => call.call = pc
    /\ pc = "swap" => call.from \in alive /\ call.from # call.this

ContentsInv ==
    /\ seen = [v \in alive |-> seen[v]]
    /\ \A v \in alive : seen[v] \in Seq(Elements) /\ Len(seen[v]) = vec[v].size
    /\ \E k \in Husks : \A v \in alive :
          Agree(store.heap, vec[v].data, seen[v], IF v = call.this THEN k ELSE 0, vec[v].size)
    /\ pc \in Growth => Agree(store.heap, block, seen[call.this], 0, constructed)
    /\ pc \in Copying => Agree(store.heap, block, seen[call.from], 0, constructed)
    /\ pc = "swap" =>
          /\ vec[Temp].size = Len(seen[call.from])
          /\ Agree(store.heap, vec[Temp].data, seen[call.from], 0, vec[Temp].size)

LEMMA NameStep == CallInv /\ NameInv /\ [Next]_vars => NameInv'
<1> SUFFICES ASSUME CallInv, NameInv, [Next]_vars PROVE NameInv'
  OBVIOUS
<1> USE DEF Growth, Copying, Pushing
<1>1. CASE Begin
  <2>1. call'.call \in {"create", "pushBack", "copy", "move", "assign", "moveAssign", "clear", "destroy"}
    BY <1>1 DEF Begin, Calls, Request
  <2>2. pc' = call'.call
    BY <1>1 DEF Begin
  <2> QED BY <2>1, <2>2 DEF NameInv
<1>2. ASSUME NEW V, End(V) PROVE NameInv'
  BY <1>2 DEF End, NameInv
<1>3. CASE ~(Return \/ Throw) /\ (PushBack \/ Grow \/ Transfer \/ UndoGrow \/ Grown \/ Place)
  BY <1>3 DEF PushBack, Grow, Transfer, TransferBy, UndoGrow, Grown, Place, Goto, Same, NameInv
<1>4. CASE Copied /\ pc \in {"copy", "copyElements"}
  <2>1. CASE call.call = "assign"
    BY <1>4, <2>1 DEF Copied, Goto, Same, NameInv, CallInv
  <2>2. CASE call.call # "assign"
    BY <1>2, <1>4, <2>2 DEF Copied
  <2> QED BY <2>1, <2>2
<1>5. CASE ~(Return \/ Throw) /\ (Copy \/ CopyElement \/ UndoCopy \/ CopyComplete \/ Assign \/ Swap)
  <2>1. CASE Copy /\ ~Copied
    BY <1>5, <2>1 DEF Copy, Goto, Same, NameInv
  <2>2. CASE (Copy /\ Copied) \/ CopyComplete
    BY <1>4, <2>2 DEF Copy, CopyComplete
  <2>3. CASE CopyElement \/ UndoCopy \/ Assign \/ Swap
    BY <1>5, <2>3 DEF CopyElement, UndoCopy, Assign, Swap, Goto, Same, NameInv
  <2> QED BY <1>5, <2>1, <2>2, <2>3
<1>6. CASE Create \/ Move \/ MoveAssign \/ ClearVector \/ DestroyVector
  BY <1>2, <1>6 DEF Create, Move, MoveAssign, ClearVector, DestroyVector, Return
<1>7. CASE Return \/ Throw
  BY <1>2, <1>7 DEF Return, Throw
<1>8. CASE UNCHANGED vars
  BY <1>8 DEF vars, NameInv
<1> QED BY <1>1, <1>3, <1>5, <1>6, <1>7, <1>8 DEF Next, Step

LEMMA AgreeElsewhere ==
    ASSUME NEW e, NEW V, Settled(e, V), NEW h, NEW g, NEW u \in Owners,
           Elsewhere(g, h, V[u].data)
    PROVE  \A v \in Owners \ {u} : \A s, k :
              Agree(h, V[v].data, s, k, V[v].size) => Agree(g, V[v].data, s, k, V[v].size)
<1> SUFFICES ASSUME NEW v \in Owners \ {u}, NEW s, NEW k, Agree(h, V[v].data, s, k, V[v].size)
             PROVE  Agree(g, V[v].data, s, k, V[v].size)
  OBVIOUS
<1>1. CASE V[v].data = Null
  <2>1. V[v].size = 0
    BY <1>1 DEF Settled, Records
  <2> QED BY <2>1 DEF Agree
<1>2. CASE V[v].data # Null
  <2>1. V[v].data \in Blocks /\ V[v].data # V[u].data
    BY <1>2 DEF Settled, Records
  <2> QED BY <2>1 DEF Agree, Elsewhere
<1> QED BY <1>1, <1>2

\* One vector is new or holds something else, the others what they held.
LEMMA ShowsEnd ==
    ASSUME Elements' = Elements, NEW V, End(V), NEW s, Shows(s, V, store'.heap, vec')
    PROVE  seen' = s /\ ContentsInv'
<1>1. \A v \in V : Contents(store', vec'[v]) = s[v]
  <2> SUFFICES ASSUME NEW v \in V PROVE Contents(store', vec'[v]) = s[v]
    OBVIOUS
  <2>1. PICK n : n = vec'[v].size
    OBVIOUS
  <2>2. s[v] \in Seq(Elements) /\ Len(s[v]) = n /\ n \in Nat
    BY <2>1 DEF Shows
  <2>3. \A i \in 1 .. n : store'.heap[vec'[v].data][i] = s[v][i]
    BY <2>1, <2>2 DEF Shows, Agree
  <2>4. s[v] = [i \in 1 .. n |-> s[v][i]]
    BY <2>2
  <2> QED BY <2>1, <2>3, <2>4 DEF Contents
<1>2. seen' = s
  BY <1>1 DEF End, Shows
<1>3. pc' = "idle" /\ alive' = V /\ Husks' = {0}
  BY DEF End, Husks
<1>4. ContentsInv'
  BY <1>2, <1>3 DEF ContentsInv, Shows, Growth, Copying
<1> QED BY <1>2, <1>4

LEMMA ThrowNext ==
    ASSUME Elements' = Elements, End(alive), call.call \in {"pushBack", "copy", "assign"},
           Shows(seen, alive, store'.heap, vec')
    PROVE  ContentsInv' /\ Calling!Throw
<1>1. PICK s, V : s = seen /\ V = alive
  OBVIOUS
<1>2. seen' = s /\ ContentsInv'
  BY <1>1, ShowsEnd
<1>3. call # NoCall
  BY DEF NoCall, Request
<1> QED BY <1>1, <1>2, <1>3 DEF Calling!Throw, End

LEMMA ReturnNext ==
    ASSUME Elements' = Elements, NEW V, End(V), call.call # "none", NEW s, Shows(s, V, store'.heap, vec'),
           Calling!Result(call) = s
    PROVE  ContentsInv' /\ Calling!Return
<1>1. seen' = s /\ ContentsInv'
  BY ShowsEnd
<1>2. call # NoCall
  BY DEF NoCall, Request
<1> QED BY <1>1, <1>2 DEF Calling!Return, End

\* What holds before each step of a call.
LEMMA ContentsHold ==
    ASSUME Inv, ContentsInv, Husks = {0}
    PROVE  /\ Shows(seen, alive, store.heap, vec) /\ DOMAIN seen = alive
           /\ alive \subseteq Owners /\ Temp \notin alive /\ vec \in [Owners -> Records]
BY VectorAssumption DEF Inv, CallInv, VectorsInv, ContentsInv, Shows, Owners

\* A call goes on, and what it has seen stays.
Silent == UNCHANGED <<seen, call>>

LEMMA SilentNext ==
    ASSUME Elements' = Elements, UNCHANGED <<seen, alive>>, ContentsInv, Husks' = {0}, pc' \notin Growth \cup Copying \cup {"swap"},
           \A v \in alive : /\ vec'[v].size = vec[v].size
                            /\ Agree(store'.heap, vec'[v].data, seen[v], 0, vec[v].size)
    PROVE  ContentsInv'
BY DEF ContentsInv

\* A step that touches neither the vectors nor the store.
LEMMA StillShows ==
    ASSUME Inv, ContentsInv, Husks = {0}, UNCHANGED <<store, vec>>
    PROVE  Shows(seen, alive, store'.heap, vec')
BY ContentsHold DEF Shows

Tells == ContentsInv' /\ (Silent \/ Calling!Request \/ Calling!Return \/ Calling!Throw)

TellInv == Inv /\ NameInv /\ ContentsInv

-----------------------------------------------------------------------------
(* push_back(): what the vectors hold *)

\* A block that is allocated was nobody's.
LEMMA AgreeFresh ==
    ASSUME NEW h, NEW V, Settled(h, V), NEW b \in Blocks, h[b] = <<>>,
           NEW g, Elsewhere(g, h, b)
    PROVE  \A v \in Owners : \A s :
              Agree(h, V[v].data, s, 0, V[v].size) => Agree(g, V[v].data, s, 0, V[v].size)
<1> SUFFICES ASSUME NEW v \in Owners, NEW s, Agree(h, V[v].data, s, 0, V[v].size)
             PROVE  Agree(g, V[v].data, s, 0, V[v].size)
  OBVIOUS
<1>1. CASE V[v].data = Null
  BY <1>1 DEF Settled, Agree, Records
<1>2. CASE V[v].data # Null
  <2>1. V[v].data \in Blocks /\ Len(h[V[v].data]) # 0
    BY <1>2 DEF Settled, Records, Full
  <2>2. V[v].data # b
    BY <2>1
  <2> QED BY <2>1, <2>2 DEF Agree, Elsewhere
<1> QED BY <1>1, <1>2

LEMMA PushBackTells == TellInv /\ PushBack /\ Elements' = Elements => Tells
<1> SUFFICES ASSUME TellInv, PushBack, Elements' = Elements PROVE Tells
  OBVIOUS
<1>1. /\ UNCHANGED <<store, vec, alive, seen, call>> /\ pc' \in {"grow", "place"}
      /\ Husks = {0} /\ Husks' = {0}
  BY DEF PushBack, Goto, Same, Husks
<1>2. Shows(seen, alive, store'.heap, vec')
  BY <1>1, StillShows DEF TellInv
<1>3. ContentsInv'
  BY <1>1, <1>2, SilentNext DEF Shows, Silent, TellInv, Growth, Copying
<1> QED BY <1>1, <1>3 DEF Tells, Silent

LEMMA GrowTells == TellInv /\ Grow /\ Elements' = Elements => Tells
<1> SUFFICES ASSUME TellInv, Grow, Elements' = Elements PROVE Tells
  OBVIOUS
<1>1. /\ pc = "grow" /\ pc \in Pushing /\ pc \notin Growth \cup Copying /\ call.call = "pushBack"
      /\ Husks = {0}
  BY DEF Grow, Pushing, Growth, Copying, TellInv, NameInv, Husks
<1>2. CASE UNCHANGED <<store, vec>> /\ Throw
  BY <1>1, <1>2, StillShows, ThrowNext DEF Throw, Tells, TellInv
<1>3. CASE /\ Free # {}
           /\ store' = Allocate(store, Fresh, NewCapacity)
           /\ UNCHANGED vec
           /\ block' = Fresh /\ constructed' = 0
           /\ Goto("transfer") /\ Same
  <2>1. PICK h \in Heaps : store = Sound(h) /\ Settled(h, vec)
    BY <1>1, HeldByVectors DEF TellInv
  <2>2. PICK b \in Blocks : b = Fresh /\ h[b] = <<>>
    BY <1>3, <2>1, FreshBlock
  <2>3. PICK c \in Nat \ {0} : c = NewCapacity
    BY <1>1 DEF NewCapacity, This, TellInv, Inv, CallInv, VectorsInv, Owners, Records
  <2>4. PICK g \in Heaps : /\ Allocate(Sound(h), b, c) = Sound(g)
                           /\ Elsewhere(g, h, b) /\ Full(g, b, 0, c)
    BY AllocateStore
  <2>5. store.heap = h /\ store'.heap = g
    BY <1>3, <2>1, <2>2, <2>3, <2>4 DEF Sound
  <2>6. Shows(seen, alive, h, vec) /\ alive \subseteq Owners /\ vec \in [Owners -> Records]
    BY <1>1, <2>5, ContentsHold DEF TellInv
  <2>7. ASSUME NEW v \in alive
        PROVE  Agree(g, vec[v].data, seen[v], 0, vec[v].size)
    BY <2>1, <2>2, <2>4, <2>6, AgreeFresh DEF Shows
  <2>8. pc' = "transfer" /\ constructed' = 0 /\ UNCHANGED <<vec, alive, seen, call>> /\ Husks' = {0}
    BY <1>3 DEF Goto, Same, Husks
  <2>9. ContentsInv'
    BY <2>5, <2>6, <2>7, <2>8 DEF ContentsInv, Shows, Growth, Copying, Agree
  <2> QED BY <2>8, <2>9 DEF Tells, Silent
<1> QED BY <1>2, <1>3 DEF Grow

\* While grow() fills its block.
LEMMA GrowthShows ==
    ASSUME TellInv, pc \in Growth
    PROVE  /\ alive \subseteq Owners \ {Temp} /\ \A v \in alive : Held[v] = vec[v]
           /\ call.this \in alive /\ call.call = "pushBack"
           /\ \E k \in Husks : \A v \in alive :
                 Agree(store.heap, Held[v].data, seen[v], IF v = call.this THEN k ELSE 0, Held[v].size)
           /\ Agree(store.heap, block, seen[call.this], 0, constructed)
<1>1. alive \subseteq Owners \ {Temp} /\ vec \in [Owners -> Records]
  BY VectorAssumption DEF TellInv, Inv, CallInv, VectorsInv, Owners
<1>2. \A v \in alive : Held[v] = vec[v]
  BY <1>1 DEF Held
<1>3. call.this \in alive /\ call.call = "pushBack"
  BY GrowthHolds DEF TellInv, NameInv, Pushing
<1>4. PICK k \in Husks : \A v \in alive :
         Agree(store.heap, vec[v].data, seen[v], IF v = call.this THEN k ELSE 0, vec[v].size)
  BY DEF TellInv, ContentsInv
<1> QED BY <1>1, <1>2, <1>3, <1>4 DEF TellInv, ContentsInv

LEMMA TransferTells == TellInv /\ Transfer /\ Elements' = Elements => Tells
<1> SUFFICES ASSUME TellInv, Transfer, Elements' = Elements PROVE Tells
  OBVIOUS
<1>1. pc = "transfer" /\ pc \in Growth /\ constructed < This.size
      /\ UNCHANGED <<vec, alive, block, call, T, seen>> /\ Inv
  BY DEF Transfer, TransferBy, Growth, Same, Goto, TellInv
<1>2. PICK h \in Heaps : store = Sound(h) /\ Settled(h, Held)
  BY <1>1 DEF Inv, HeapInv
<1>3. PICK w, V, d, n, b, c, m, s, A :
         /\ w = call.this /\ V = Held /\ d = This.data /\ n = This.size
         /\ b = block /\ c = NewCapacity /\ m = constructed /\ s = seen /\ A = alive
  OBVIOUS
<1>4. /\ w \in Owners /\ w # Temp /\ V[w].data = d /\ V[w].size = n /\ Temp \in Owners
      /\ V[Temp] = [data |-> b, size |-> m, capacity |-> c]
      /\ m \in Nat /\ n \in Nat /\ c \in Nat /\ m < n /\ n < c /\ b \in Blocks /\ b # Null
  BY <1>1, <1>3, GrowthHolds, VectorAssumption DEF Inv, VectorsInv, Null
<1>5. Settled(h, V) /\ store.heap = h
  BY <1>2, <1>3 DEF Sound
<1>6. /\ A \subseteq Owners \ {Temp} /\ w \in A /\ \A v \in A : vec[v] = V[v]
      /\ Agree(h, b, s[w], 0, m)
  BY <1>1, <1>3, <1>5, GrowthShows
<1>7. PICK r \in Husks : \A v \in A : Agree(h, V[v].data, s[v], IF v = w THEN r ELSE 0, V[v].size)
  BY <1>1, <1>3, <1>5, GrowthShows
<1>8. r = IF MoveIfNoexcept THEN m ELSE 0
  BY <1>1, <1>3 DEF Husks
<1>9. /\ seen = [v \in A |-> s[v]]
      /\ \A v \in A : s[v] \in Seq(Elements) /\ Len(s[v]) = V[v].size
  BY <1>3, <1>6 DEF TellInv, ContentsInv
<1>10. ASSUME pc' \in Growth, NEW k \in Husks',
              \A v \in A : Agree(store'.heap, V[v].data, s[v], IF v = w THEN k ELSE 0, V[v].size),
              Agree(store'.heap, b, s[w], 0, constructed')
       PROVE  Tells
  <2>1. pc' \notin Copying /\ pc' # "swap"
    BY <1>10 DEF Growth, Copying
  <2>2. UNCHANGED <<seen, alive, call, block>> /\ \A v \in A : vec'[v] = V[v]
    BY <1>1, <1>6
  <2> QED BY <1>3, <1>9, <1>10, <2>1, <2>2 DEF Tells, Silent, ContentsInv
<1>11. /\ d \in Blocks /\ d # b /\ V[w].capacity \in Nat /\ n <= V[w].capacity
       /\ Len(h[d]) = V[w].capacity /\ h[d] \in Seq(Cells)
  BY <1>4, <1>5 DEF Settled, Records, Full, Heaps
\* The source is emptied.
<1>12. ASSUME NEW g \in Heaps, g[d] = h[d], NEW q, Agree(g, b, s[w], 0, q),
              \A v \in A : Agree(g, V[v].data, s[v], IF v = w THEN m ELSE 0, V[v].size),
              NEW f, f = [g EXCEPT ![d][m + 1] = Moved]
       PROVE  /\ \A v \in A : Agree(f, V[v].data, s[v], IF v = w THEN m + 1 ELSE 0, V[v].size)
              /\ Agree(f, b, s[w], 0, q)
  <2>1. Elsewhere(f, g, d) /\ f[b] = g[b] /\ f[d] = [h[d] EXCEPT ![m + 1] = Moved]
    BY <1>4, <1>11, <1>12 DEF Elsewhere, Heaps
  <2>2. Agree(f, d, s[w], m + 1, n)
    <3>1. \A i \in 1 .. n : f[d][i] = IF i = m + 1 THEN Moved ELSE h[d][i]
      BY <1>4, <1>11, <2>1
    <3>2. Agree(g, d, s[w], m, n)
      BY <1>4, <1>6, <1>12
    <3> QED BY <1>4, <1>12, <3>1, <3>2 DEF Agree
  <2>3. ASSUME NEW v \in A, v # w PROVE Agree(f, V[v].data, s[v], 0, V[v].size)
    <3>1. Agree(g, V[v].data, s[v], 0, V[v].size)
      BY <1>12, <2>3
    <3>2. Elsewhere(f, g, V[w].data)
      BY <1>4, <2>1
    <3>3. \A u \in Owners \ {w} : \A p, k :
             Agree(g, V[u].data, p, k, V[u].size) => Agree(f, V[u].data, p, k, V[u].size)
      BY <1>4, <1>5, <3>2, AgreeElsewhere
    <3> QED BY <1>6, <2>3, <3>1, <3>3
  <2>4. Agree(f, b, s[w], 0, q)
    BY <1>12, <2>1 DEF Agree
  <2> QED BY <1>4, <2>2, <2>3, <2>4
<1>13. CASE /\ ~T.noexceptMove
            /\ store' \in {store, IF MoveIfNoexcept
                                  THEN [store EXCEPT !.heap[This.data][constructed + 1] = Moved] ELSE store}
            /\ Goto("undoGrow") /\ UNCHANGED constructed
  <2>1. pc' = "undoGrow" /\ pc' \in Growth /\ constructed' = m /\ (MoveIfNoexcept' <=> MoveIfNoexcept)
    BY <1>1, <1>3, <1>13 DEF Growth, Goto, MoveIfNoexcept
  <2>2. Husks' = IF MoveIfNoexcept THEN {m, m + 1} ELSE {0}
    BY <2>1 DEF Husks
  <2>3. CASE store' = store
    BY <1>5, <1>6, <1>7, <1>8, <1>10, <2>1, <2>2, <2>3
  <2>4. CASE MoveIfNoexcept /\ store' = [store EXCEPT !.heap[This.data][constructed + 1] = Moved]
    <3> DEFINE f == [h EXCEPT ![d][m + 1] = Moved]
    <3>1. store'.heap = f
      BY <1>2, <1>3, <2>4 DEF Sound
    <3>2. /\ \A v \in A : Agree(f, V[v].data, s[v], IF v = w THEN m + 1 ELSE 0, V[v].size)
          /\ Agree(f, b, s[w], 0, m)
      BY <1>6, <1>7, <1>8, <1>12, <2>4
    <3> HIDE DEF f
    <3>3. PICK k \in Husks' : k = m + 1
      BY <2>2, <2>4
    <3> QED BY <1>10, <2>1, <3>1, <3>2, <3>3
  <2> QED BY <1>13, <2>3, <2>4
<1>14. CASE LET placed == Construct(store, block, constructed + 1, store.heap[This.data][constructed + 1])
            IN  /\ store' = IF MoveIfNoexcept
                            THEN [placed EXCEPT !.heap[This.data][constructed + 1] = Moved] ELSE placed
                /\ constructed' = constructed + 1
                /\ Goto("transfer")
  <2>1. Full(h, b, m, c)
    BY <1>4, <1>5 DEF Settled
  <2>2. h[d][m + 1] = s[w][m + 1] /\ s[w][m + 1] \in Objects
    <3>1. Agree(h, d, s[w], r, n) /\ s[w] \in Seq(Elements) /\ Len(s[w]) = n
      BY <1>4, <1>6, <1>7, <1>9
    <3>2. h[d][m + 1] = s[w][m + 1]
      BY <1>4, <1>8, <3>1 DEF Agree
    <3>3. s[w][m + 1] \in Elements
      BY <1>4, <3>1
    <3> QED BY <3>2, <3>3, ElementsAreObjects
  <2>3. PICK g \in Heaps : /\ Construct(Sound(h), b, m + 1, h[d][m + 1]) = Sound(g)
                           /\ Elsewhere(g, h, b) /\ Full(g, b, m + 1, c)
                           /\ \A i \in 1 .. c : g[b][i] = IF i = m + 1 THEN h[d][m + 1] ELSE h[b][i]
    BY <1>4, <2>1, <2>2, ConstructStore
  <2>4. Agree(g, b, s[w], 0, m + 1) /\ g[d] = h[d]
    BY <1>4, <1>6, <1>11, <2>2, <2>3 DEF Agree, Elsewhere
  <2>5. \A v \in A : Agree(g, V[v].data, s[v], IF v = w THEN r ELSE 0, V[v].size)
    <3>1. Elsewhere(g, h, V[Temp].data)
      BY <1>4, <2>3
    <3>2. \A v \in Owners \ {Temp} : \A q, k :
             Agree(h, V[v].data, q, k, V[v].size) => Agree(g, V[v].data, q, k, V[v].size)
      BY <1>4, <1>5, <3>1, AgreeElsewhere
    <3> QED BY <1>6, <1>7, <3>2
  <2>6. /\ pc' = "transfer" /\ pc' \in Growth /\ constructed' = m + 1
        /\ store' = IF MoveIfNoexcept THEN [Sound(g) EXCEPT !.heap[d][m + 1] = Moved] ELSE Sound(g)
    BY <1>2, <1>3, <1>14, <2>3 DEF Goto, Sound, Growth
  <2>7. Husks' = IF MoveIfNoexcept THEN {m + 1} ELSE {0}
    BY <1>1, <2>6 DEF Husks, MoveIfNoexcept
  <2>8. CASE ~MoveIfNoexcept
    <3>1. r \in Husks' /\ store'.heap = g
      BY <1>8, <2>6, <2>7, <2>8 DEF Sound
    <3> QED BY <1>10, <2>4, <2>5, <2>6, <3>1
  <2>9. CASE MoveIfNoexcept
    <3> DEFINE f == [g EXCEPT ![d][m + 1] = Moved]
    <3>1. store'.heap = f
      BY <2>6, <2>9 DEF Sound
    <3>2. /\ \A v \in A : Agree(f, V[v].data, s[v], IF v = w THEN m + 1 ELSE 0, V[v].size)
          /\ Agree(f, b, s[w], 0, m + 1)
      BY <1>8, <1>12, <2>4, <2>5, <2>9
    <3> HIDE DEF f
    <3>3. PICK k \in Husks' : k = m + 1
      BY <2>7, <2>9
    <3> QED BY <1>10, <2>6, <3>1, <3>2, <3>3
  <2> QED BY <2>8, <2>9
<1> QED BY <1>13, <1>14 DEF Transfer, TransferBy

LEMMA UndoGrowTells == TellInv /\ UndoGrow /\ Elements' = Elements => Tells
<1> SUFFICES ASSUME TellInv, UndoGrow, Elements' = Elements PROVE Tells
  OBVIOUS
<1>1. pc = "undoGrow" /\ pc \in Growth /\ vec' = vec /\ End(alive) /\ Inv
  BY DEF UndoGrow, Growth, Throw, TellInv
<1>2. PICK h \in Heaps : store = Sound(h) /\ Settled(h, Held)
  BY <1>1 DEF Inv, HeapInv
<1>3. PICK V, b, c, m, s, A, w, U :
         /\ V = Held /\ b = block /\ c = NewCapacity /\ m = constructed /\ s = seen /\ A = alive
         /\ w = call.this /\ U = vec'
  OBVIOUS
<1>4. /\ Temp \in Owners /\ V[Temp] = [data |-> b, size |-> m, capacity |-> c]
      /\ m \in 0 .. c /\ c \in Nat /\ b \in Blocks /\ b # Null
  BY <1>1, <1>3, GrowthHolds, VectorAssumption DEF Inv, VectorsInv, Null
<1>5. Settled(h, V) /\ store.heap = h
  BY <1>2, <1>3 DEF Sound
<1>6. Occupied(h, b, m, c)
  BY <1>4, <1>5, FullIsOccupied DEF Settled
<1>7. PICK g \in Heaps : /\ Deallocate(DestroyFirst(Sound(h), b, m), b, c) = Sound(g)
                         /\ Elsewhere(g, h, b) /\ g[b] = <<>>
  BY <1>4, <1>6, ReleaseStore
<1>8. store'.heap = g
  BY <1>2, <1>3, <1>7 DEF UndoGrow, Sound
<1>9. /\ A \subseteq Owners \ {Temp} /\ w \in A /\ \A v \in A : V[v] = U[v]
      /\ call.call = "pushBack"
  BY <1>1, <1>3, <1>5, GrowthShows DEF TellInv
<1>10. PICK k \in Husks : \A v \in A : Agree(h, V[v].data, s[v], IF v = w THEN k ELSE 0, V[v].size)
  BY <1>1, <1>3, <1>5, GrowthShows DEF TellInv
<1>11. \A v \in A : Agree(g, U[v].data, s[v], IF v = w THEN k ELSE 0, U[v].size)
  <2>1. Elsewhere(g, h, V[Temp].data)
    BY <1>4, <1>7
  <2>2. \A v \in Owners \ {Temp} : \A q, i :
           Agree(h, V[v].data, q, i, V[v].size) => Agree(g, V[v].data, q, i, V[v].size)
    BY <1>4, <1>5, <2>1, AgreeElsewhere
  <2> QED BY <1>9, <1>10, <2>2
<1>12. s = [v \in A |-> s[v]] /\ \A v \in A : s[v] \in Seq(Elements) /\ Len(s[v]) = U[v].size
  BY <1>1, <1>3 DEF TellInv, ContentsInv
<1>13. CASE k = 0
  <2>1. Shows(s, A, g, U)
    BY <1>11, <1>12, <1>13 DEF Shows
  <2> QED BY <1>1, <1>3, <1>8, <1>9, <2>1, ThrowNext DEF Tells
<1>14. CASE k # 0
  <2>1. /\ ~Calling!Strong /\ Moved \in Elements
        /\ k \in 1 .. Len(s[w])
    <3>1. MoveIfNoexcept /\ (k = m \/ k = m + 1) /\ ~T.noexceptMove /\ m < This.size
      BY <1>1, <1>3, <1>10, <1>14 DEF Husks, Inv, VectorsInv
    <3>2. Len(s[w]) = This.size /\ m \in Nat
      BY <1>1, <1>3, <1>4, <1>9, <1>12 DEF This
    <3>3. k \in 1 .. Len(s[w])
      BY <1>14, <3>1, <3>2
    <3> QED BY <3>1, <3>3 DEF MoveIfNoexcept, Calling!Strong, Elements
  <2> DEFINE e == Calling!Emptied(s[w], k)
  <2>2. /\ e \in Seq(Elements) /\ Len(e) = Len(s[w])
        /\ \A i \in 1 .. Len(e) : e[i] = IF i <= k THEN Moved ELSE s[w][i]
    BY <1>9, <1>12, <2>1 DEF Calling!Emptied
  <2> HIDE DEF e
  <2>3. Agree(g, U[w].data, e, 0, U[w].size) /\ Len(e) = U[w].size
    BY <1>9, <1>11, <1>12, <2>1, <2>2 DEF Agree
  <2> DEFINE t == [v \in A \cup {w} |-> IF v = w THEN e ELSE s[v]]
  <2>4. Shows(t, A, g, U) /\ A \cup {w} = A
    BY <1>9, <1>11, <1>12, <2>2, <2>3 DEF Shows
  <2>5. Calling!With(call.this, Calling!Emptied(seen[call.this], k)) = t
    BY <1>3, <1>12 DEF Calling!With, e
  <2> HIDE DEF t
  <2>6. End(A) /\ Shows(t, A, store'.heap, vec')
    BY <1>1, <1>3, <1>8, <2>4
  <2>7. seen' = t /\ ContentsInv'
    BY <2>6, ShowsEnd
  <2>8. call # NoCall /\ call' = NoCall
    BY <1>1, <1>9 DEF NoCall, Request, End
  <2>9. Calling!Throw
    BY <1>3, <1>9, <2>1, <2>5, <2>7, <2>8 DEF Calling!Throw
  <2> QED BY <2>7, <2>9 DEF Tells
<1> QED BY <1>13, <1>14

LEMMA GrownTells == TellInv /\ Grown /\ Elements' = Elements => Tells
<1> SUFFICES ASSUME TellInv, Grown, Elements' = Elements PROVE Tells
  OBVIOUS
<1>1. /\ pc = "transfer" /\ pc \in Growth /\ constructed = This.size /\ Inv
      /\ UNCHANGED <<alive, call, seen>> /\ pc' = "place" /\ Husks' = {0}
  BY DEF Grown, Growth, Same, Goto, TellInv, Husks
<1>2. PICK h \in Heaps : store = Sound(h) /\ Settled(h, Held)
  BY <1>1 DEF Inv, HeapInv
<1>3. PICK w, V, x, b, c, m, s, A :
         /\ w = call.this /\ V = Held /\ x = This /\ b = block /\ c = NewCapacity /\ m = constructed
         /\ s = seen /\ A = alive
  OBVIOUS
<1>4. /\ w \in Owners /\ w # Temp /\ V[w] = x /\ Temp \in Owners
      /\ V[Temp] = [data |-> b, size |-> m, capacity |-> c] /\ m = x.size
  BY <1>1, <1>3, GrowthHolds
<1>5. Settled(h, V) /\ store.heap = h
  BY <1>2, <1>3 DEF Sound
<1>6. PICK g \in Heaps : Destroy(Sound(h), x) = Sound(g) /\ Elsewhere(g, h, x.data)
  BY <1>4, <1>5, SettledDestroy
<1>7. store'.heap = g
  BY <1>2, <1>3, <1>6 DEF Grown, Sound
<1>8. /\ A \subseteq Owners \ {Temp} /\ w \in A /\ \A v \in A : vec[v] = V[v]
      /\ \A v \in A : v # w => Agree(h, V[v].data, s[v], 0, V[v].size)
      /\ Agree(h, V[Temp].data, s[w], 0, V[Temp].size)
  BY <1>1, <1>3, <1>4, <1>5, GrowthShows DEF TellInv
<1>9. vec \in [Owners -> Records]
  BY <1>1 DEF Inv, VectorsInv
<1>10. vec'[w].data = b /\ vec'[w].size = m /\ \A v \in A : v # w => vec'[v] = vec[v]
  BY <1>3, <1>4, <1>8, <1>9 DEF Grown, Records
<1>11. \A v \in Owners \ {w} : \A q, k :
          Agree(h, V[v].data, q, k, V[v].size) => Agree(g, V[v].data, q, k, V[v].size)
  <2>1. Elsewhere(g, h, V[w].data)
    BY <1>4, <1>6
  <2> QED BY <1>4, <1>5, <2>1, AgreeElsewhere
<1>12. /\ Agree(g, V[Temp].data, s[w], 0, V[Temp].size)
       /\ \A v \in A : v # w => Agree(g, V[v].data, s[v], 0, V[v].size)
  BY <1>4, <1>8, <1>11
<1>13. \A v \in alive : /\ vec'[v].size = vec[v].size
                        /\ Agree(store'.heap, vec'[v].data, seen[v], 0, vec[v].size)
  BY <1>3, <1>4, <1>7, <1>8, <1>10, <1>12
<1>14. ContentsInv'
  BY <1>1, <1>13, SilentNext DEF Silent, TellInv, Growth, Copying
<1> QED BY <1>1, <1>14 DEF Tells, Silent

LEMMA PlaceTells == TellInv /\ Place /\ Elements' = Elements => Tells
<1> SUFFICES ASSUME TellInv, Place, Elements' = Elements PROVE Tells
  OBVIOUS
<1>1. /\ pc = "place" /\ pc \in Pushing /\ pc \notin Growth \cup Copying /\ End(alive)
      /\ call.call = "pushBack" /\ Husks = {0} /\ Inv
  BY DEF Place, Growth, Copying, Pushing, Throw, Return, Husks, TellInv, NameInv
<1>2. CASE UNCHANGED <<store, vec>>
  BY <1>1, <1>2, StillShows, ThrowNext DEF Tells, TellInv
<1>3. CASE /\ store' = Construct(store, This.data, This.size + 1, call.value)
           /\ vec' = [vec EXCEPT ![call.this].size = @ + 1]
  <2>1. PICK h \in Heaps : store = Sound(h) /\ Settled(h, vec)
    BY <1>1, HeldByVectors
  <2>2. PICK w, x, y, s, A, W, U : /\ w = call.this /\ x = This /\ y = call.value /\ s = seen
                                   /\ A = alive /\ W = vec /\ U = vec'
    OBVIOUS
  <2>3. w \in A /\ W[w] = x /\ x.size < x.capacity /\ y \in Objects /\ y \in Elements
    BY <1>1, <2>2 DEF Inv, CallInv, VectorsInv, This, Objects, Elements
  <2>4. store.heap = h /\ Settled(h, W)
    BY <2>1, <2>2 DEF Sound
  <2>5. Shows(s, A, h, W) /\ A \subseteq Owners /\ W \in [Owners -> Records]
    BY <1>1, <2>2, <2>4, ContentsHold DEF TellInv
  <2>6. /\ x.size \in Nat /\ x.capacity \in Nat /\ x.data \in Blocks
        /\ Full(h, x.data, x.size, x.capacity)
    BY <2>3, <2>4, <2>5 DEF Settled, Records
  <2>7. PICK g \in Heaps : /\ Construct(Sound(h), x.data, x.size + 1, y) = Sound(g)
                           /\ Elsewhere(g, h, x.data)
                           /\ \A i \in 1 .. x.capacity :
                                 g[x.data][i] = IF i = x.size + 1 THEN y ELSE h[x.data][i]
    BY <2>3, <2>6, ConstructStore
  <2>8. store'.heap = g
    BY <1>3, <2>1, <2>2, <2>7 DEF Sound
  <2>9. U[w].data = x.data /\ U[w].size = x.size + 1 /\ \A v \in A \ {w} : U[v] = W[v]
    BY <1>3, <2>2, <2>3, <2>5 DEF Records
  <2> DEFINE z == Append(s[w], y)
  <2>10. /\ s[w] \in Seq(Elements) /\ Len(s[w]) = x.size
         /\ \A i \in 1 .. x.size : h[x.data][i] = s[w][i]
    BY <2>3, <2>5, <2>6 DEF Shows, Agree
  <2>11. /\ z \in Seq(Elements) /\ Len(z) = x.size + 1
         /\ \A i \in 1 .. x.size + 1 : z[i] = IF i = x.size + 1 THEN y ELSE s[w][i]
    BY <2>3, <2>6, <2>10
  <2> HIDE DEF z
  <2>12. Agree(g, x.data, z, 0, x.size + 1)
    <3> SUFFICES ASSUME NEW i \in 1 .. x.size + 1 PROVE g[x.data][i] = z[i]
      BY DEF Agree
    <3>1. CASE i = x.size + 1
      BY <2>3, <2>6, <2>7, <2>11, <3>1
    <3>2. CASE i # x.size + 1
      <4>1. i \in 1 .. x.size /\ i \in 1 .. x.capacity
        BY <2>3, <2>6, <3>2
      <4> QED BY <2>7, <2>10, <2>11, <3>2, <4>1
    <3> QED BY <3>1, <3>2
  <2>13. \A v \in A \ {w} : Agree(g, W[v].data, s[v], 0, W[v].size)
    <3>1. Elsewhere(g, h, W[w].data) /\ w \in Owners
      BY <2>3, <2>5, <2>7
    <3>2. \A v \in Owners \ {w} : \A q, k :
             Agree(h, W[v].data, q, k, W[v].size) => Agree(g, W[v].data, q, k, W[v].size)
      BY <2>4, <3>1, AgreeElsewhere
    <3> QED BY <2>5, <3>2 DEF Shows
  <2> DEFINE t == [v \in A \cup {w} |-> IF v = w THEN z ELSE s[v]]
  <2>14. Shows(t, A \cup {w}, g, U)
    <3>1. /\ \A v \in A \ {w} : U[v] = W[v] /\ Agree(g, W[v].data, s[v], 0, W[v].size)
          /\ U[w].size = Len(z) /\ Agree(g, U[w].data, z, 0, Len(z)) /\ z \in Seq(Elements)
      BY <2>9, <2>11, <2>12, <2>13
    <3>2. DOMAIN t = A \cup {w} /\ t = [v \in A \cup {w} |-> t[v]] /\ t[w] = z
      OBVIOUS
    <3>3. \A v \in A \ {w} : t[v] = s[v]
      OBVIOUS
    <3> HIDE DEF t
    <3>4. ASSUME NEW v \in A \ {w}
          PROVE  /\ t[v] \in Seq(Elements) /\ Len(t[v]) = U[v].size
                 /\ Agree(g, U[v].data, t[v], 0, U[v].size)
      BY <2>5, <3>1, <3>3, <3>4 DEF Shows
    <3>5. /\ t[w] \in Seq(Elements) /\ Len(t[w]) = U[w].size
          /\ Agree(g, U[w].data, t[w], 0, U[w].size)
      BY <3>1, <3>2
    <3> QED BY <3>2, <3>4, <3>5 DEF Shows
  <2>15. Calling!Result(call) = t
    <3>1. DOMAIN seen = A
      BY <1>1, <2>2, ContentsHold DEF TellInv
    <3> QED BY <1>1, <2>2, <3>1 DEF Calling!Result, Calling!With, z
  <2> HIDE DEF t
  <2>16. A \cup {w} = alive
    BY <2>2, <2>3
  <2>17. Shows(t, alive, store'.heap, vec')
    BY <2>2, <2>8, <2>14, <2>16
  <2>18. ContentsInv' /\ Calling!Return
    <3>1. PICK B : B = alive
      OBVIOUS
    <3> QED BY <1>1, <2>15, <2>17, <3>1, ReturnNext
  <2> QED BY <2>18 DEF Tells
<1> QED BY <1>2, <1>3 DEF Place

-----------------------------------------------------------------------------
(* Copies: what the vectors hold *)

LEMMA CopiedTells ==
    ASSUME Elements' = Elements, TellInv, pc \in {"copy"} \cup Copying, Copied,
           Shows(seen, alive, store'.heap, vec'),
           vec'[Target].size = Len(seen[call.from]),
           Agree(store'.heap, vec'[Target].data, seen[call.from], 0, vec'[Target].size)
    PROVE  Tells
<1>1. /\ call.from \in alive
      /\ call.call = "assign" \/ (call.call = "copy" /\ call.this \notin alive)
  BY DEF TellInv, Inv, CallInv
<1>2. CASE call.call = "assign"
  <2>1. pc' = "swap" /\ UNCHANGED <<alive, seen, call>> /\ Target = Temp /\ Husks' = {0}
    BY <1>2 DEF Copied, Goto, Same, Target, Husks
  <2>2. ContentsInv'
    BY <2>1 DEF ContentsInv, Shows, Growth, Copying
  <2> QED BY <2>1, <2>2 DEF Tells, Silent
<1>3. CASE call.call # "assign"
  <2>1. End(alive \cup {call.this}) /\ Target = call.this /\ call.call = "copy"
    BY <1>1, <1>3 DEF Copied, Target
  <2>2. PICK u, v, s, A, U, g : /\ u = call.this /\ v = call.from /\ s = seen /\ A = alive /\ U = vec'
                                /\ g = store'.heap
    OBVIOUS
  <2>3. /\ Shows(s, A, g, U) /\ u \notin A /\ v \in A /\ s[v] \in Seq(Elements)
        /\ U[u].size = Len(s[v]) /\ Agree(g, U[u].data, s[v], 0, Len(s[v]))
    BY <1>1, <2>1, <2>2 DEF Shows
  <2>4. \A w \in A \ {u} : U[w] = U[w] /\ Agree(g, U[w].data, s[w], 0, U[w].size)
    BY <2>3 DEF Shows
  <2> DEFINE t == [w \in A \cup {u} |-> IF w = u THEN s[v] ELSE s[w]]
  <2>5. Shows(t, A \cup {u}, g, U)
    BY <2>3 DEF Shows
  <2>6. Calling!Result(call) = t
    <3>1. DOMAIN seen = A
      BY <2>2, <2>3 DEF Shows
    <3> QED BY <2>1, <2>2, <3>1 DEF Calling!Result, Calling!With
  <2> HIDE DEF t
  <2>7. PICK B : B = A \cup {u}
    OBVIOUS
  <2>8. End(B) /\ Shows(t, B, store'.heap, vec')
    BY <2>1, <2>2, <2>5, <2>7
  <2>9. ContentsInv' /\ Calling!Return
    BY <2>1, <2>6, <2>8, ReturnNext
  <2> QED BY <2>9 DEF Tells
<1> QED BY <1>2, <1>3

LEMMA CopyTells == TellInv /\ Copy /\ Elements' = Elements => Tells
<1> SUFFICES ASSUME TellInv, Copy, Elements' = Elements PROVE Tells
  OBVIOUS
<1>1. pc = "copy" /\ pc \notin Growth \cup Copying /\ Husks = {0} /\ Inv
  BY DEF Copy, Growth, Copying, Husks, TellInv
<1>2. /\ Target \in Owners \ alive /\ vec[Target] = NoVector /\ call.from \in alive
      /\ call.call \in {"copy", "assign"}
  BY <1>1, TargetHolds DEF Inv, CallInv
<1>3. Shows(seen, alive, store.heap, vec) /\ alive \subseteq Owners /\ vec \in [Owners -> Records]
  BY <1>1, ContentsHold DEF TellInv
<1>4. CASE From.size = 0 /\ vec' = [vec EXCEPT ![Target] = NoVector] /\ UNCHANGED store /\ Copied
  <2>1. vec' = vec
    BY <1>2, <1>3, <1>4
  <2>2. Shows(seen, alive, store'.heap, vec')
    BY <1>3, <1>4, <2>1
  <2>3. vec'[Target].size = 0 /\ Len(seen[call.from]) = 0
    BY <1>2, <1>3, <1>4, <2>1 DEF NoVector, From, Shows
  <2>4. Agree(store'.heap, vec'[Target].data, seen[call.from], 0, vec'[Target].size)
    BY <2>3 DEF Agree
  <2> QED BY <1>1, <1>4, <2>2, <2>3, <2>4, CopiedTells
<1>5. CASE UNCHANGED <<store, vec>> /\ Throw
  BY <1>1, <1>2, <1>5, StillShows, ThrowNext DEF Throw, Tells, TellInv
<1>6. CASE /\ From.size > 0 /\ Free # {}
           /\ store' = Allocate(store, Fresh, From.size)
           /\ vec' = [vec EXCEPT ![Target] = [data |-> Fresh, size |-> 0, capacity |-> From.size]]
           /\ block' = Fresh /\ constructed' = 0
           /\ Goto("copyElements") /\ Same
  <2>1. PICK h \in Heaps : store = Sound(h) /\ Settled(h, vec)
    BY <1>1, HeldByVectors
  <2>2. PICK b \in Blocks : b = Fresh /\ h[b] = <<>>
    BY <1>6, <2>1, FreshBlock
  <2>3. PICK c \in Nat : c = From.size
    BY <1>2, <1>3 DEF From, Records
  <2>4. PICK g \in Heaps : Allocate(Sound(h), b, c) = Sound(g) /\ Elsewhere(g, h, b)
    BY AllocateStore
  <2>5. store.heap = h /\ store'.heap = g
    BY <1>6, <2>1, <2>2, <2>3, <2>4 DEF Sound
  <2>6. \A v \in alive : Agree(g, vec[v].data, seen[v], 0, vec[v].size)
    BY <1>3, <2>1, <2>2, <2>4, <2>5, AgreeFresh, ZenonT(60) DEF Shows
  <2>7. \A v \in alive : vec'[v] = vec[v]
    BY <1>2, <1>3, <1>6
  <2>8. pc' = "copyElements" /\ constructed' = 0 /\ UNCHANGED <<alive, seen, call>> /\ Husks' = {0}
    BY <1>6 DEF Goto, Same, Husks
  <2>9. ContentsInv'
    BY <1>3, <2>5, <2>6, <2>7, <2>8 DEF ContentsInv, Shows, Growth, Copying, Agree
  <2> QED BY <2>8, <2>9 DEF Tells, Silent
<1> QED BY <1>4, <1>5, <1>6 DEF Copy

\* While a copy is being filled, the vectors hold what they held.
LEMMA CopyingShows ==
    ASSUME TellInv, pc \in Copying
    PROVE  /\ Husks = {0} /\ Shows(seen, alive, store.heap, vec)
           /\ alive \subseteq Owners /\ Target \in Owners \ alive /\ call.from \in alive
           /\ call.call \in {"copy", "assign"}
           /\ \A v \in alive : Held[v] = vec[v]
           /\ Agree(store.heap, block, seen[call.from], 0, constructed)
<1>1. Husks = {0} /\ Inv
  BY DEF Husks, Copying, TellInv
<1>2. /\ Target \in Owners \ alive /\ call.from \in alive /\ \A u \in Owners \ {Target} : Held[u] = vec[u]
      /\ call.call \in {"copy", "assign"}
  BY <1>1, CopyingHolds, TargetHolds DEF Inv, CallInv
<1>3. Shows(seen, alive, store.heap, vec) /\ alive \subseteq Owners
  BY <1>1, ContentsHold DEF TellInv
<1> QED BY <1>1, <1>2, <1>3 DEF TellInv, ContentsInv

LEMMA CopyElementTells == TellInv /\ CopyElement /\ Elements' = Elements => Tells
<1> SUFFICES ASSUME TellInv, CopyElement, Elements' = Elements PROVE Tells
  OBVIOUS
<1>1. /\ pc = "copyElements" /\ pc \in Copying /\ constructed < From.size
      /\ UNCHANGED <<vec, alive, block, call, seen>> /\ Inv
  BY DEF CopyElement, Copying, Same, Goto, TellInv
<1>2. PICK h \in Heaps : store = Sound(h) /\ Settled(h, Held)
  BY <1>1 DEF Inv, HeapInv
<1>3. PICK V, t, w, m, b, c, d, s, A, z :
         /\ V = Held /\ t = Target /\ w = call.from /\ m = constructed /\ z = call.this
         /\ b = block /\ c = From.size /\ d = From.data /\ s = seen /\ A = alive
  OBVIOUS
<1>4. /\ t \in Owners \ A /\ m \in Nat /\ c \in Nat /\ m < c /\ b \in Blocks /\ b # Null
      /\ V[t] = [data |-> b, size |-> m, capacity |-> c] /\ Husks = {0}
  BY <1>1, <1>3, CopyingHolds, CopyingShows
<1>5. Settled(h, V) /\ store.heap = h
  BY <1>2, <1>3, <1>4 DEF Sound
<1>6. /\ A \subseteq Owners /\ w \in A /\ \A v \in A : vec[v] = V[v]
      /\ Shows(s, A, h, vec) /\ Agree(h, b, s[w], 0, m)
  BY <1>1, <1>3, <1>5, CopyingShows
<1>7. d = V[w].data /\ c = V[w].size
  BY <1>3, <1>6 DEF From
<1>8. ASSUME pc' \in Copying, \A v \in A : Agree(store'.heap, V[v].data, s[v], 0, V[v].size),
             Agree(store'.heap, b, s[w], 0, constructed')
      PROVE  Tells
  <2>1. Husks' = {0} /\ pc' \notin Growth /\ pc' # "swap"
    BY <1>8 DEF Husks, Copying, Growth
  <2> QED BY <1>1, <1>3, <1>6, <1>8, <2>1 DEF Tells, Silent, ContentsInv, Shows
<1>9. CASE Goto("undoCopy") /\ UNCHANGED <<store, constructed>>
  BY <1>3, <1>5, <1>6, <1>8, <1>9 DEF Goto, Copying, Shows
<1>10. CASE /\ store' = Construct(store, block, constructed + 1, store.heap[From.data][constructed + 1])
            /\ constructed' = constructed + 1
            /\ Goto("copyElements")
  <2>1. Full(h, b, m, c)
    BY <1>4, <1>5 DEF Settled
  <2>2. h[d][m + 1] = s[w][m + 1] /\ s[w][m + 1] \in Objects
    <3>1. /\ s[w] \in Seq(Elements) /\ Len(s[w]) = vec[w].size
          /\ Agree(h, vec[w].data, s[w], 0, vec[w].size)
      BY <1>6 DEF Shows
    <3>2. Len(s[w]) = c /\ Agree(h, d, s[w], 0, c)
      BY <1>6, <1>7, <3>1
    <3>3. m + 1 \in 1 .. c /\ m + 1 > 0
      BY <1>4
    <3>4. h[d][m + 1] = s[w][m + 1]
      BY <3>2, <3>3 DEF Agree
    <3> QED BY <3>1, <3>2, <3>3, <3>4, ElementsAreObjects
  <2>3. PICK g \in Heaps : /\ Construct(Sound(h), b, m + 1, h[d][m + 1]) = Sound(g)
                           /\ Elsewhere(g, h, b)
                           /\ \A i \in 1 .. c : g[b][i] = IF i = m + 1 THEN h[d][m + 1] ELSE h[b][i]
    BY <1>4, <2>1, <2>2, ConstructStore
  <2>4. Agree(g, b, s[w], 0, m + 1)
    BY <1>4, <1>6, <2>2, <2>3 DEF Agree
  <2>5. \A v \in A : Agree(g, V[v].data, s[v], 0, V[v].size)
    <3>1. Elsewhere(g, h, V[t].data)
      BY <1>4, <2>3
    <3>2. \A v \in Owners \ {t} : \A q, k :
             Agree(h, V[v].data, q, k, V[v].size) => Agree(g, V[v].data, q, k, V[v].size)
      BY <1>4, <1>5, <3>1, AgreeElsewhere
    <3> QED BY <1>4, <1>6, <3>2 DEF Shows
  <2>6. constructed' = m + 1 /\ store'.heap = g /\ pc' \in Copying
    BY <1>2, <1>3, <1>10, <2>3 DEF Goto, Copying, Sound
  <2> QED BY <1>8, <2>4, <2>5, <2>6
<1> QED BY <1>9, <1>10 DEF CopyElement

LEMMA UndoCopyTells == TellInv /\ UndoCopy /\ Elements' = Elements => Tells
<1> SUFFICES ASSUME TellInv, UndoCopy, Elements' = Elements PROVE Tells
  OBVIOUS
<1>1. pc = "undoCopy" /\ pc \in Copying /\ End(alive) /\ Inv
  BY DEF UndoCopy, Copying, Throw, TellInv
<1>2. PICK h \in Heaps : store = Sound(h) /\ Settled(h, Held)
  BY <1>1 DEF Inv, HeapInv
<1>3. PICK V, t, m, b, c, s, A, z :
         /\ V = Held /\ t = Target /\ m = constructed /\ b = block /\ c = From.size
         /\ s = seen /\ A = alive /\ z = call.this
  OBVIOUS
<1>4. /\ t \in Owners \ A /\ m \in 0 .. c /\ c \in Nat /\ b \in Blocks /\ b # Null
      /\ V[t] = [data |-> b, size |-> m, capacity |-> c] /\ vec \in [Owners -> Records] /\ Husks = {0}
  BY <1>1, <1>3, CopyingHolds, CopyingShows
<1>5. Settled(h, V) /\ store.heap = h
  BY <1>2, <1>3, <1>4 DEF Sound
<1>6. Occupied(h, b, m, c)
  <2>1. Full(h, b, m, c)
    BY <1>4, <1>5 DEF Settled
  <2> QED BY <2>1, FullIsOccupied
<1>7. PICK g \in Heaps : /\ Deallocate(DestroyFirst(Sound(h), b, m), b, c) = Sound(g)
                         /\ Elsewhere(g, h, b)
  BY <1>4, <1>6, ReleaseStore
<1>8. store'.heap = g
  <2>1. vec[t].capacity = c
    BY <1>1, <1>3 DEF Inv, VectorsInv
  <2> QED BY <1>2, <1>3, <1>7, <2>1 DEF UndoCopy, Sound
<1>9. /\ A \subseteq Owners /\ \A v \in A : vec[v] = V[v]
      /\ Shows(s, A, h, vec) /\ call.call \in {"copy", "assign"}
  BY <1>1, <1>3, <1>5, CopyingShows
<1>10. \A v \in A : Agree(g, V[v].data, s[v], 0, V[v].size)
  <2>1. Elsewhere(g, h, V[t].data)
    BY <1>4, <1>7
  <2>2. \A v \in Owners \ {t} : \A q, k :
           Agree(h, V[v].data, q, k, V[v].size) => Agree(g, V[v].data, q, k, V[v].size)
    BY <1>4, <1>5, <2>1, AgreeElsewhere
  <2> QED BY <1>4, <1>9, <2>2 DEF Shows
<1>11. \A v \in A : vec'[v] = vec[v]
  BY <1>3, <1>4, <1>9 DEF UndoCopy
<1>12. Shows(seen, alive, store'.heap, vec')
  BY <1>3, <1>8, <1>9, <1>10, <1>11 DEF Shows
<1> QED BY <1>1, <1>9, <1>12, ThrowNext DEF Tells

LEMMA CopyCompleteTells == TellInv /\ CopyComplete /\ Elements' = Elements => Tells
<1> SUFFICES ASSUME TellInv, CopyComplete, Elements' = Elements PROVE Tells
  OBVIOUS
<1>1. /\ pc \in Copying /\ constructed = From.size /\ Copied /\ Inv
      /\ vec' = [vec EXCEPT ![Target].size = From.size] /\ store' = store
  BY DEF CopyComplete, Copying, TellInv
<1>2. /\ Shows(seen, alive, store.heap, vec)
      /\ alive \subseteq Owners /\ Target \in Owners \ alive /\ call.from \in alive
      /\ Agree(store.heap, block, seen[call.from], 0, constructed)
  BY <1>1, CopyingShows
<1>3. vec[Target] = [data |-> block, size |-> 0, capacity |-> From.size] /\ vec \in [Owners -> Records]
  BY <1>1 DEF Inv, VectorsInv
<1>4. /\ vec'[Target].size = constructed /\ vec'[Target].data = block
      /\ \A v \in alive : vec'[v] = vec[v]
  BY <1>1, <1>2, <1>3
<1>5. Len(seen[call.from]) = constructed
  BY <1>1, <1>2 DEF Shows, From
<1>6. Shows(seen, alive, store'.heap, vec')
  BY <1>1, <1>2, <1>4 DEF Shows
<1> QED BY <1>1, <1>2, <1>4, <1>5, <1>6, CopiedTells


LEMMA AssignTells == TellInv /\ Assign /\ Elements' = Elements => Tells
<1> SUFFICES ASSUME TellInv, Assign, Elements' = Elements PROVE Tells
  OBVIOUS
<1>1. /\ pc = "assign" /\ Husks = {0} /\ Inv /\ UNCHANGED <<store, vec>>
      /\ call.call = "assign" /\ call.this \in alive /\ call.from \in alive
  BY DEF Assign, Growth, Husks, TellInv, Inv, CallInv
<1>2. Shows(seen, alive, store'.heap, vec')
  BY <1>1, StillShows DEF TellInv
<1>3. CASE call.this = call.from /\ Return
  <2>1. PICK V, s : V = alive /\ s = seen
    OBVIOUS
  <2>2. End(V) /\ Shows(s, V, store'.heap, vec')
    BY <1>2, <1>3, <2>1 DEF Return
  <2>3. Calling!Result(call) = s
    <3>1. seen = [v \in alive |-> seen[v]] /\ DOMAIN seen = alive
      BY <1>2 DEF Shows
    <3> QED BY <1>1, <1>3, <2>1, <3>1 DEF Calling!Result, Calling!With
  <2>4. ContentsInv' /\ Calling!Return
    BY <1>1, <2>2, <2>3, ReturnNext
  <2> QED BY <2>4 DEF Tells
<1>4. CASE Goto("copy") /\ Same
  <2>1. UNCHANGED <<alive, seen, call>> /\ pc' = "copy" /\ Husks' = {0}
    BY <1>4 DEF Goto, Same, Husks
  <2>2. ContentsInv'
    BY <1>1, <1>2, <2>1, SilentNext DEF TellInv, Shows, Silent, Growth, Copying
  <2> QED BY <2>1, <2>2 DEF Tells, Silent
<1> QED BY <1>3, <1>4 DEF Assign

LEMMA SwapTells == TellInv /\ Swap /\ Elements' = Elements => Tells
<1> SUFFICES ASSUME TellInv, Swap, Elements' = Elements PROVE Tells
  OBVIOUS
<1>1. /\ pc = "swap" /\ pc \notin Growth \cup Copying /\ End(alive) /\ Husks = {0} /\ Inv
      /\ call.call = "assign" /\ call.this \in alive /\ call.from \in alive
  BY DEF Swap, Growth, Copying, Return, Husks, TellInv, NameInv, Inv, CallInv
<1>2. PICK h \in Heaps : store = Sound(h) /\ Settled(h, vec)
  BY <1>1, HeldByVectors
<1>3. PICK u, v, W, U, s, A, x : /\ u = call.this /\ v = call.from /\ W = vec /\ U = vec'
                                 /\ s = seen /\ A = alive /\ x = This
  OBVIOUS
<1>4. store.heap = h /\ Settled(h, W)
  BY <1>2, <1>3 DEF Sound
<1>5. /\ Shows(s, A, h, W) /\ A \subseteq Owners /\ Temp \notin A /\ W \in [Owners -> Records]
      /\ u \in A /\ v \in A /\ x = W[u] /\ Temp \in Owners /\ DOMAIN s = A
  BY <1>1, <1>3, <1>4, ContentsHold DEF TellInv, This, Owners
<1>6. W[Temp].size = Len(s[v]) /\ Agree(h, W[Temp].data, s[v], 0, W[Temp].size) /\ s[v] \in Seq(Elements)
  BY <1>1, <1>3, <1>4, <1>5 DEF TellInv, ContentsInv, Shows
<1>7. PICK g \in Heaps : Destroy(Sound(h), x) = Sound(g) /\ Elsewhere(g, h, W[u].data)
  BY <1>4, <1>5, SettledDestroy
<1>8. store'.heap = g
  BY <1>2, <1>3, <1>7 DEF Swap, Sound
<1>9. U[u] = W[Temp] /\ \A w \in A \ {u} : U[w] = W[w]
  BY <1>3, <1>5 DEF Swap
<1>10. \A w \in Owners \ {u} : \A q, k :
          Agree(h, W[w].data, q, k, W[w].size) => Agree(g, W[w].data, q, k, W[w].size)
  BY <1>4, <1>5, <1>7, AgreeElsewhere
<1>11. /\ \A w \in A \ {u} : U[w] = W[w] /\ Agree(g, W[w].data, s[w], 0, W[w].size)
       /\ U[u].size = Len(s[v]) /\ Agree(g, U[u].data, s[v], 0, Len(s[v]))
  <2>1. \A w \in A \ {u} : Agree(g, W[w].data, s[w], 0, W[w].size)
    BY <1>5, <1>10 DEF Shows
  <2>2. Temp # u /\ Agree(g, W[Temp].data, s[v], 0, W[Temp].size)
    BY <1>5, <1>6, <1>10
  <2> QED BY <1>6, <1>9, <2>1, <2>2
<1> DEFINE t == [w \in A \cup {u} |-> IF w = u THEN s[v] ELSE s[w]]
<1>12. Shows(t, A \cup {u}, g, U)
  <2>1. PICK y \in Seq(Elements) : y = s[v]
    BY <1>6
  <2>2. /\ \A w \in A \ {u} : U[w] = W[w] /\ Agree(g, W[w].data, s[w], 0, W[w].size)
        /\ U[u].size = Len(y) /\ Agree(g, U[u].data, y, 0, Len(y))
    BY <1>11, <2>1
  <2>3. Shows([w \in A \cup {u} |-> IF w = u THEN y ELSE s[w]], A \cup {u}, g, U)
    BY <1>5, <2>2 DEF Shows
  <2> QED BY <2>1, <2>3
<1>13. Calling!Result(call) = t
  BY <1>1, <1>3, <1>5 DEF Calling!Result, Calling!With
<1> HIDE DEF t
<1>14. End(A) /\ Shows(t, A, store'.heap, vec')
  <2>1. A \cup {u} = A
    BY <1>5
  <2> QED BY <1>1, <1>3, <1>8, <1>12, <2>1
<1>15. ContentsInv' /\ Calling!Return
  BY <1>1, <1>13, <1>14, ReturnNext
<1> QED BY <1>15 DEF Tells

-----------------------------------------------------------------------------
(* The calls of one step: what the vectors hold *)

LEMMA CreateTells == TellInv /\ Create /\ Elements' = Elements => Tells
<1> SUFFICES ASSUME TellInv, Create, Elements' = Elements PROVE Tells
  OBVIOUS
<1>1. /\ pc = "create" /\ Husks = {0} /\ Inv /\ store' = store /\ End(alive \cup {call.this})
      /\ vec' = [vec EXCEPT ![call.this] = NoVector] /\ call.this \notin alive /\ call.call = "create"
  BY DEF Create, Growth, Husks, TellInv, NameInv, Inv, CallInv
<1>2. Shows(seen, alive, store.heap, vec) /\ vec \in [Owners -> Records] /\ DOMAIN seen = alive
  BY <1>1, ContentsHold DEF TellInv
<1>3. call.this \in Owners
  BY <1>1 DEF TellInv, Inv, CallInv, Owners
<1>4. PICK u, A, s, U, g : u = call.this /\ A = alive /\ s = seen /\ U = vec' /\ g = store'.heap
  OBVIOUS
<1>5. /\ Shows(s, A, g, U) /\ u \notin A /\ U[u].size = 0
  BY <1>1, <1>2, <1>3, <1>4 DEF Shows, NoVector
<1> DEFINE t == [w \in A \cup {u} |-> IF w = u THEN <<>> ELSE s[w]]
<1>6. Shows(t, A \cup {u}, g, U)
  BY <1>5 DEF Shows, Agree
<1>7. Calling!Result(call) = t
  BY <1>1, <1>2, <1>4 DEF Calling!Result, Calling!With
<1> HIDE DEF t
<1>8. PICK B : B = A \cup {u}
  OBVIOUS
<1>9. End(B) /\ Shows(t, B, store'.heap, vec')
  BY <1>1, <1>4, <1>6, <1>8
<1>10. ContentsInv' /\ Calling!Return
  BY <1>1, <1>7, <1>9, ReturnNext
<1> QED BY <1>10 DEF Tells

\* One vector takes over what another holds.
LEMMA ShowsMoved ==
    ASSUME NEW s, NEW A, NEW g, NEW W, NEW u, NEW v, NEW U, NEW t,
           /\ \A w \in A \ {u} : /\ s[w] \in Seq(Elements) /\ Len(s[w]) = W[w].size
                                 /\ Agree(g, W[w].data, s[w], 0, W[w].size)
           /\ v \in A /\ u # v
           /\ U[u] = W[v] /\ U[v] = NoVector /\ \A w \in A \ {u, v} : U[w] = W[w]
           /\ t = [w \in A \cup {u} |-> t[w]]
           /\ t[u] = s[v] /\ t[v] = <<>> /\ \A w \in A \ {u, v} : t[w] = s[w]
    PROVE  Shows(t, A \cup {u}, g, U)
<1>1. NoVector.size = 0 /\ <<>> \in Seq(Elements) /\ Len(<<>>) = 0 /\ Agree(g, NoVector.data, <<>>, 0, 0)
  BY DEF NoVector, Agree
<1>2. ASSUME NEW w \in A \cup {u}
      PROVE  t[w] \in Seq(Elements) /\ Len(t[w]) = U[w].size /\ Agree(g, U[w].data, t[w], 0, U[w].size)
  <2>1. CASE w = u
    BY <2>1
  <2>2. CASE w = v
    BY <1>1, <2>2
  <2>3. CASE w \in A \ {u, v}
    BY <2>3
  <2> QED BY <2>1, <2>2, <2>3
<1> QED BY <1>2 DEF Shows

LEMMA MoveTells == TellInv /\ Move /\ Elements' = Elements => Tells
<1> SUFFICES ASSUME TellInv, Move, Elements' = Elements PROVE Tells
  OBVIOUS
<1>1. /\ pc = "move" /\ Husks = {0} /\ Inv /\ store' = store /\ End(alive \cup {call.this})
      /\ call.call = "move" /\ call.this \notin alive /\ call.this \in Owners /\ call.from \in alive
  BY DEF Move, Growth, Husks, TellInv, NameInv, Inv, CallInv, Owners
<1>2. /\ Shows(seen, alive, store.heap, vec) /\ vec \in [Owners -> Records] /\ DOMAIN seen = alive
      /\ alive \subseteq Owners
  BY <1>1, ContentsHold DEF TellInv
<1>3. PICK u, v, A, s, W, U, g : /\ u = call.this /\ v = call.from /\ A = alive /\ s = seen
                                 /\ W = vec /\ U = vec' /\ g = store.heap
  OBVIOUS
<1>4. /\ U = [W EXCEPT ![u] = W[v], ![v] = NoVector] /\ Shows(s, A, g, W) /\ A \subseteq Owners
      /\ W \in [Owners -> Records] /\ u \in Owners /\ v \in A /\ u # v
  BY <1>1, <1>2, <1>3 DEF Move, From
<1> DEFINE t == [[w \in A \cup {u} |-> IF w = u THEN s[v] ELSE s[w]] EXCEPT ![v] = <<>>]
<1>5. Shows(t, A \cup {u}, g, U)
  <2>1. /\ \A w \in A \ {u} : /\ s[w] \in Seq(Elements) /\ Len(s[w]) = W[w].size
                              /\ Agree(g, W[w].data, s[w], 0, W[w].size)
        /\ v \in A /\ u # v
        /\ U[u] = W[v] /\ U[v] = NoVector /\ \A w \in A \ {u, v} : U[w] = W[w]
    BY <1>4 DEF Shows
  <2>2. /\ t = [w \in A \cup {u} |-> t[w]]
        /\ t[u] = s[v] /\ t[v] = <<>> /\ \A w \in A \ {u, v} : t[w] = s[w]
    BY <1>4
  <2> HIDE DEF t
  <2> QED BY <2>1, <2>2, ShowsMoved, ZenonT(60)
<1>6. Calling!Result(call) = t
  BY <1>1, <1>2, <1>3, <1>4 DEF Calling!Result, Calling!With
<1> HIDE DEF t
<1>7. PICK B : B = A \cup {u}
  OBVIOUS
<1>8. End(B) /\ Shows(t, B, store'.heap, vec')
  BY <1>1, <1>3, <1>5, <1>7
<1>9. ContentsInv' /\ Calling!Return
  BY <1>1, <1>6, <1>8, ReturnNext
<1> QED BY <1>9 DEF Tells

LEMMA MoveAssignTells == TellInv /\ MoveAssign /\ Elements' = Elements => Tells
<1> SUFFICES ASSUME TellInv, MoveAssign, Elements' = Elements PROVE Tells
  OBVIOUS
<1>1. /\ pc = "moveAssign" /\ pc \notin Growth \cup Copying /\ Husks = {0} /\ Inv /\ End(alive)
      /\ call.call = "moveAssign" /\ call.this \in alive /\ call.from \in alive
  BY DEF MoveAssign, Return, Growth, Copying, Husks, TellInv, NameInv, Inv, CallInv
<1>2. /\ Shows(seen, alive, store.heap, vec) /\ vec \in [Owners -> Records] /\ DOMAIN seen = alive
      /\ alive \subseteq Owners
  BY <1>1, ContentsHold DEF TellInv
<1>3. PICK u, v, A, s, W, U : /\ u = call.this /\ v = call.from /\ A = alive /\ s = seen
                              /\ W = vec /\ U = vec'
  OBVIOUS
<1>4. CASE u = v /\ UNCHANGED <<store, vec>>
  <2>1. Shows(s, A, store'.heap, vec') /\ End(A)
    BY <1>1, <1>2, <1>3, <1>4
  <2>2. Calling!Result(call) = s
    BY <1>1, <1>3, <1>4 DEF Calling!Result
  <2>3. ContentsInv' /\ Calling!Return
    BY <1>1, <2>1, <2>2, ReturnNext
  <2> QED BY <2>3 DEF Tells
<1>5. CASE /\ u # v
           /\ store' = Destroy(store, This)
           /\ U = [W EXCEPT ![u] = W[v], ![v] = NoVector]
  <2>1. PICK h \in Heaps : store = Sound(h) /\ Settled(h, vec)
    BY <1>1, HeldByVectors
  <2>2. store.heap = h /\ Settled(h, W) /\ This = W[u]
    BY <1>3, <2>1 DEF Sound, This
  <2>3. PICK g \in Heaps : Destroy(Sound(h), W[u]) = Sound(g) /\ Elsewhere(g, h, W[u].data)
    BY <1>1, <1>2, <1>3, <2>2, SettledDestroy
  <2>4. store'.heap = g
    BY <1>5, <2>1, <2>2, <2>3 DEF Sound
  <2>5. /\ Shows(s, A, h, W) /\ A \subseteq Owners /\ W \in [Owners -> Records] /\ u \in A /\ v \in A
        /\ DOMAIN s = A
    BY <1>1, <1>2, <1>3, <2>2
  <2>6. \A w \in Owners \ {u} : \A q, k :
           Agree(h, W[w].data, q, k, W[w].size) => Agree(g, W[w].data, q, k, W[w].size)
    BY <2>2, <2>3, <2>5, AgreeElsewhere
  <2> DEFINE t == [[w \in A \cup {u} |-> IF w = u THEN s[v] ELSE s[w]] EXCEPT ![v] = <<>>]
  <2>7. Shows(t, A, g, U)
    <3>1. /\ \A w \in A \ {u} : /\ s[w] \in Seq(Elements) /\ Len(s[w]) = W[w].size
                                /\ Agree(g, W[w].data, s[w], 0, W[w].size)
          /\ v \in A /\ u # v
          /\ U[u] = W[v] /\ U[v] = NoVector /\ \A w \in A \ {u, v} : U[w] = W[w]
      BY <1>5, <2>5, <2>6 DEF Shows
    <3>2. /\ t = [w \in A \cup {u} |-> t[w]]
          /\ t[u] = s[v] /\ t[v] = <<>> /\ \A w \in A \ {u, v} : t[w] = s[w]
      BY <1>5, <2>5
    <3> HIDE DEF t
    <3>3. Shows(t, A \cup {u}, g, U)
      BY <3>1, <3>2, ShowsMoved
    <3>4. A \cup {u} = A
      BY <2>5
    <3> QED BY <3>3, <3>4
  <2>8. Calling!Result(call) = t
    BY <1>1, <1>3, <1>5, <2>5 DEF Calling!Result, Calling!With
  <2> HIDE DEF t
  <2>9. End(A) /\ Shows(t, A, store'.heap, vec')
    BY <1>1, <1>3, <2>4, <2>7
  <2>10. ContentsInv' /\ Calling!Return
    BY <1>1, <2>8, <2>9, ReturnNext
  <2> QED BY <2>10 DEF Tells
<1> QED BY <1>3, <1>4, <1>5 DEF MoveAssign, From

LEMMA ClearTells == TellInv /\ ClearVector /\ Elements' = Elements => Tells
<1> SUFFICES ASSUME TellInv, ClearVector, Elements' = Elements PROVE Tells
  OBVIOUS
<1>1. /\ pc = "clear" /\ pc \notin Growth \cup Copying /\ Husks = {0} /\ Inv /\ End(alive)
      /\ call.call = "clear" /\ call.this \in alive
      /\ store' = Clear(store, This) /\ vec' = [vec EXCEPT ![call.this].size = 0]
  BY DEF ClearVector, Return, Growth, Copying, Husks, TellInv, NameInv, Inv, CallInv
<1>2. PICK h \in Heaps : store = Sound(h) /\ Settled(h, vec)
  BY <1>1, HeldByVectors
<1>3. PICK u, A, s, W, U, x : /\ u = call.this /\ A = alive /\ s = seen /\ W = vec /\ U = vec'
                              /\ x = This
  OBVIOUS
<1>4. /\ store.heap = h /\ Settled(h, W) /\ x = W[u] /\ u \in A
      /\ Shows(s, A, h, W) /\ W \in [Owners -> Records] /\ DOMAIN s = A /\ A \subseteq Owners
  BY <1>1, <1>2, <1>3, ContentsHold DEF TellInv, Sound, This
<1>5. PICK g \in Heaps : Clear(Sound(h), x) = Sound(g) /\ Elsewhere(g, h, W[u].data)
  <2>1. x \in Records /\ x.size <= x.capacity /\ (x.data = Null <=> x.capacity = 0)
    BY <1>4 DEF Settled
  <2>2. CASE x.data = Null
    <3>1. x.size = 0
      BY <2>1, <2>2 DEF Records
    <3> QED BY <2>2, <3>1 DEF Clear, DestroyFirst, Elsewhere
  <2>3. CASE x.data # Null
    <3>1. x.data \in Blocks /\ Occupied(h, x.data, x.size, x.capacity)
      BY <1>4, <2>1, <2>3, FullIsOccupied DEF Settled, Records
    <3>2. x.size \in 0 .. x.capacity /\ x.capacity \in Nat
      BY <2>1 DEF Records
    <3> QED BY <1>4, <3>1, <3>2, DestroyStore DEF Clear
  <2> QED BY <2>2, <2>3
<1>6. store'.heap = g
  BY <1>1, <1>2, <1>3, <1>5 DEF Sound
<1>7. U[u].size = 0 /\ \A w \in A \ {u} : U[w] = W[w]
  BY <1>1, <1>3, <1>4 DEF Records
<1>8. \A w \in Owners \ {u} : \A q, k :
         Agree(h, W[w].data, q, k, W[w].size) => Agree(g, W[w].data, q, k, W[w].size)
  BY <1>4, <1>5, AgreeElsewhere
<1> DEFINE t == [w \in A \cup {u} |-> IF w = u THEN <<>> ELSE s[w]]
<1>9. Shows(t, A \cup {u}, g, U)
  <2>1. \A w \in A \ {u} : U[w] = W[w] /\ Agree(g, W[w].data, s[w], 0, W[w].size)
    BY <1>4, <1>7, <1>8 DEF Shows
  <2>2. U[u].size = Len(<<>>) /\ <<>> \in Seq(Elements) /\ Agree(g, U[u].data, <<>>, 0, Len(<<>>))
    BY <1>7 DEF Agree
  <2>3. PICK y : y = <<>>
    OBVIOUS
  <2>4. Shows([w \in A \cup {u} |-> IF w = u THEN y ELSE s[w]], A \cup {u}, g, U)
    BY <1>4, <2>1, <2>2, <2>3 DEF Shows
  <2> QED BY <2>3, <2>4
<1>10. Calling!Result(call) = t
  BY <1>1, <1>3, <1>4 DEF Calling!Result, Calling!With
<1> HIDE DEF t
<1>11. End(A) /\ Shows(t, A, store'.heap, vec')
  <2>1. A \cup {u} = A
    BY <1>4
  <2> QED BY <1>1, <1>3, <1>6, <1>9, <2>1
<1>12. ContentsInv' /\ Calling!Return
  BY <1>1, <1>10, <1>11, ReturnNext
<1> QED BY <1>12 DEF Tells

LEMMA DestroyTells == TellInv /\ DestroyVector /\ Elements' = Elements => Tells
<1> SUFFICES ASSUME TellInv, DestroyVector, Elements' = Elements PROVE Tells
  OBVIOUS
<1>1. /\ pc = "destroy" /\ pc \notin Growth \cup Copying /\ Husks = {0} /\ Inv
      /\ End(alive \ {call.this}) /\ call.call = "destroy" /\ call.this \in alive
      /\ store' = Destroy(store, This) /\ vec' = [vec EXCEPT ![call.this] = NoVector]
  BY DEF DestroyVector, Growth, Copying, Husks, TellInv, NameInv, Inv, CallInv
<1>2. PICK h \in Heaps : store = Sound(h) /\ Settled(h, vec)
  BY <1>1, HeldByVectors
<1>3. PICK u, A, s, W, U, x, B : /\ u = call.this /\ A = alive /\ s = seen /\ W = vec /\ U = vec'
                                 /\ x = This /\ B = A \ {u}
  OBVIOUS
<1>4. /\ store.heap = h /\ Settled(h, W) /\ x = W[u] /\ u \in A
      /\ Shows(s, A, h, W) /\ W \in [Owners -> Records] /\ DOMAIN s = A /\ A \subseteq Owners
  BY <1>1, <1>2, <1>3, ContentsHold DEF TellInv, Sound, This
<1>5. PICK g \in Heaps : Destroy(Sound(h), x) = Sound(g) /\ Elsewhere(g, h, W[u].data)
  BY <1>4, SettledDestroy
<1>6. store'.heap = g
  BY <1>1, <1>2, <1>3, <1>5 DEF Sound
<1>7. \A w \in B : U[w] = W[w]
  BY <1>1, <1>3, <1>4
<1>8. \A w \in Owners \ {u} : \A q, k :
         Agree(h, W[w].data, q, k, W[w].size) => Agree(g, W[w].data, q, k, W[w].size)
  BY <1>4, <1>5, AgreeElsewhere
<1> DEFINE t == [w \in B |-> s[w]]
<1>9. Shows(t, B, g, U)
  BY <1>3, <1>4, <1>7, <1>8, ZenonT(60) DEF Shows
<1>10. Calling!Result(call) = t
  BY <1>1, <1>3, <1>4 DEF Calling!Result, Calling!Without
<1> HIDE DEF t
<1>11. End(B) /\ Shows(t, B, store'.heap, vec')
  BY <1>1, <1>3, <1>6, <1>9
<1>12. ContentsInv' /\ Calling!Return
  BY <1>1, <1>10, <1>11, ReturnNext
<1> QED BY <1>12 DEF Tells

LEMMA BeginTells == TellInv /\ Begin /\ Elements' = Elements => Tells
<1> SUFFICES ASSUME TellInv, Begin, Elements' = Elements PROVE Tells
  OBVIOUS
<1>1. /\ pc = "idle" /\ call' \in Calls /\ Husks = {0} /\ Inv /\ call = NoCall
      /\ UNCHANGED <<store, vec, alive, seen>> /\ pc' = call'.call
  BY DEF Begin, Growth, Husks, TellInv, NameInv
<1>2. call'.call \in {"create", "pushBack", "copy", "move", "assign", "moveAssign", "clear", "destroy"}
  BY <1>1 DEF Calls, Request
<1>3. Husks' = {0} /\ pc' \notin Growth \cup Copying \cup {"swap"}
  BY <1>1, <1>2 DEF Husks, Growth, Copying
<1>4. Shows(seen, alive, store'.heap, vec')
  BY <1>1, StillShows DEF TellInv
<1>5. ContentsInv'
  BY <1>1, <1>3, <1>4, SilentNext DEF Shows, TellInv
<1>6. call' \in [call : {"create", "pushBack", "copy", "move", "assign", "moveAssign", "clear", "destroy"},
                this : Vectors, from : Vectors, value : Values \cup {Raw}]
  <2>1. alive \subseteq Vectors
    BY <1>1 DEF Inv, CallInv
  <2>2. CASE call' \in {Request("create", v, v, Raw) : v \in Vectors \ alive}
    <3>1. PICK v \in Vectors \ alive : call' = Request("create", v, v, Raw)
      BY <2>2
    <3> QED BY <2>1, <3>1 DEF Request
  <2>3. CASE call' \in {Request("pushBack", v, v, x) :
                           v \in {u \in alive : vec[u].size < MaxSize}, x \in Values}
    <3>1. PICK v \in alive, x \in Values : call' = Request("pushBack", v, v, x)
      BY <2>3
    <3> QED BY <2>1, <3>1 DEF Request
  <2>4. CASE call' \in {Request(c, v, w, Raw) : c \in {"copy", "move"}, v \in Vectors \ alive, w \in alive}
    <3>1. PICK c \in {"copy", "move"}, v \in Vectors, w \in alive : call' = Request(c, v, w, Raw)
      BY <2>4
    <3> QED BY <2>1, <3>1 DEF Request
  <2>5. CASE call' \in {Request(c, v, w, Raw) : c \in {"assign", "moveAssign"}, v \in alive, w \in alive}
    <3>1. PICK c \in {"assign", "moveAssign"}, v \in alive, w \in alive : call' = Request(c, v, w, Raw)
      BY <2>5
    <3> QED BY <2>1, <3>1 DEF Request
  <2>6. CASE call' \in {Request(c, v, v, Raw) : c \in {"clear", "destroy"}, v \in alive}
    <3>1. PICK c \in {"clear", "destroy"}, v \in alive : call' = Request(c, v, v, Raw)
      BY <2>6
    <3> QED BY <2>1, <3>1 DEF Request
  <2> QED BY <1>1, <2>2, <2>3, <2>4, <2>5, <2>6 DEF Calls
<1> QED BY <1>1, <1>5, <1>6 DEF Tells, Calling!Request

-----------------------------------------------------------------------------
LEMMA TellsAtFirst == Init => NameInv /\ ContentsInv /\ Calling!Init
<1> SUFFICES ASSUME Init PROVE NameInv /\ ContentsInv /\ Calling!Init
  OBVIOUS
<1>1. pc = "idle" /\ alive = {} /\ seen = <<>> /\ call = NoCall /\ T \in Types
  BY DEF Init
<1>2. seen = [v \in alive |-> seen[v]]
  BY <1>1
<1> QED BY <1>1, <1>2 DEF NameInv, ContentsInv, Husks, Types, Calling!Init, Pushing, Growth, Copying

LEMMA SameType == [Next]_vars => T' = T
BY DEF Next, Step, vars, Begin, Create, PushBack, Grow, Transfer, TransferBy, UndoGrow, Grown, Place,
       Copy, CopyElement, UndoCopy, CopyComplete, Assign, Swap, Move, MoveAssign, ClearVector, DestroyVector

LEMMA StepTells == TellInv /\ [Next]_vars => ContentsInv' /\ [Calling!Next]_Calling!vars
<1> SUFFICES ASSUME TellInv, [Next]_vars PROVE ContentsInv' /\ [Calling!Next]_Calling!vars
  OBVIOUS
<1>1. T' = T /\ Elements' = Elements
  BY SameType DEF Elements
<1>2. CASE UNCHANGED vars
  BY <1>2 DEF vars, TellInv, ContentsInv, Husks, MoveIfNoexcept, Elements, Calling!vars
<1>3. CASE Next
  <2>1. Tells
    BY <1>1, <1>3, BeginTells, CreateTells, PushBackTells, GrowTells, TransferTells, UndoGrowTells,
       GrownTells, PlaceTells, CopyTells, CopyElementTells, UndoCopyTells, CopyCompleteTells, AssignTells,
       SwapTells, MoveTells, MoveAssignTells, ClearTells, DestroyTells DEF Next, Step
  <2> QED BY <1>1, <2>1 DEF Tells, Silent, Calling!Next, Calling!Answer, Calling!vars
<1> QED BY <1>2, <1>3

LEMMA TellInvHolds == Spec => []TellInv
<1>1. Init => TellInv
  BY InvHoldsAtFirst, TellsAtFirst DEF TellInv
<1>2. TellInv /\ [Next]_vars => TellInv'
  BY InvKept, NameStep, StepTells DEF TellInv, Inv
<1> QED BY <1>1, <1>2, PTL DEF Spec

\* The guarantees, for every number of vectors, any values, any sizes and any
\* element type: what the vectors hold between the calls changes by a call's
\* whole effect or, when it throws, not at all, but for the first elements of
\* the vector whose push_back() has to move what may throw then and cannot be
\* copied; and only push_back and what copies throw.
THEOREM CallsKeepGuarantee == Spec => Calling!Safety
<1>1. Init => Calling!Init
  BY TellsAtFirst
<1>2. TellInv /\ [Next]_vars => [Calling!Next]_Calling!vars
  BY StepTells
<1> QED BY <1>1, <1>2, TellInvHolds, PTL DEF Spec, Calling!Safety

-----------------------------------------------------------------------------
LEMMA TellInvAccounts == TellInv => ObjectsAccounted
<1> SUFFICES ASSUME TellInv PROVE ObjectsAccounted
  OBVIOUS
<1>1. store.sound
  BY DEF TellInv, Inv, HeapInv, Sound
<1>2. ASSUME pc = "idle"
      PROVE  /\ \A v \in alive :
                   LET x == vec[v]
                   IN  /\ x.size <= x.capacity
                       /\ (x.data = Null) <=> (x.capacity = 0)
                       /\ x.data # Null =>
                             /\ Len(store.heap[x.data]) = x.capacity
                             /\ \A i \in 1 .. x.capacity :
                                   IF i <= x.size THEN store.heap[x.data][i] \in Elements
                                   ELSE store.heap[x.data][i] = Raw
             /\ \A v, w \in alive : v # w /\ vec[v].data = vec[w].data => vec[v].data = Null
             /\ Blocks \ Free = {vec[v].data : v \in alive} \ {Null}
  <2>1. pc \notin Growth \cup Copying \cup {"swap"} /\ Husks = {0} /\ Inv
    BY <1>2 DEF Growth, Copying, Husks, TellInv
  <2>2. PICK h \in Heaps : store = Sound(h) /\ Settled(h, vec)
    BY <2>1, HeldByVectors
  <2>3. alive \subseteq Owners /\ \A u \in Owners \ alive : vec[u].data = Null
    BY <2>1 DEF Inv, CallInv, VectorsInv, Owners, NoVector
  <2>4. store.heap = h
    BY <2>2 DEF Sound
  <2>5. \A v \in Owners : /\ vec[v].size <= vec[v].capacity
                          /\ (vec[v].data = Null) <=> (vec[v].capacity = 0)
                          /\ vec[v].capacity \in Nat
                          /\ vec[v].data # Null => vec[v].data \in Blocks
    BY <2>2 DEF Settled, Records
  <2>6. ASSUME NEW v \in Owners, vec[v].data # Null
        PROVE  Full(h, vec[v].data, vec[v].size, vec[v].capacity)
    BY <2>2, <2>6 DEF Settled
  <2>7. \A b \in Blocks : h[b] # <<>> <=> \E v \in alive : vec[v].data = b
    <3> SUFFICES ASSUME NEW b \in Blocks PROVE h[b] # <<>> <=> \E v \in alive : vec[v].data = b
      OBVIOUS
    <3>1. b # Null
      BY VectorAssumption DEF Null
    <3>2. h[b] # <<>> => \E v \in alive : vec[v].data = b
      BY <2>2, <2>3, <3>1 DEF Settled
    <3>3. ASSUME NEW v \in alive, vec[v].data = b PROVE h[b] # <<>>
      <4>1. Len(h[b]) = vec[v].capacity /\ vec[v].capacity # 0
        BY <2>3, <2>5, <2>6, <3>1, <3>3 DEF Full
      <4> QED BY <4>1
    <3> QED BY <3>2, <3>3
  <2>8. Blocks \ Free = {vec[v].data : v \in alive} \ {Null}
    <3>1. \A b \in Blocks : b # Null
      BY VectorAssumption DEF Null
    <3>2. \A v \in alive : vec[v].data # Null => vec[v].data \in Blocks
      BY <2>3, <2>5
    <3> QED BY <2>4, <2>7, <3>1, <3>2 DEF Free
  <2>9. \A v, w \in alive : v # w /\ vec[v].data = vec[w].data => vec[v].data = Null
    BY <2>2, <2>3 DEF Settled
  <2>10. ASSUME NEW v \in alive PROVE \A i \in 1 .. vec[v].size : h[vec[v].data][i] \in Elements
    <3>1. /\ seen[v] \in Seq(Elements) /\ Len(seen[v]) = vec[v].size
          /\ Agree(h, vec[v].data, seen[v], 0, vec[v].size)
      BY <2>1, <2>4, ContentsHold DEF TellInv, Shows
    <3> QED BY <3>1 DEF Agree
  <2>11. ASSUME NEW v \in alive
         PROVE  /\ vec[v].size <= vec[v].capacity
                /\ (vec[v].data = Null) <=> (vec[v].capacity = 0)
                /\ vec[v].data # Null =>
                      /\ Len(store.heap[vec[v].data]) = vec[v].capacity
                      /\ \A i \in 1 .. vec[v].capacity :
                            IF i <= vec[v].size THEN store.heap[vec[v].data][i] \in Elements
                            ELSE store.heap[vec[v].data][i] = Raw
    BY <2>3, <2>4, <2>5, <2>6, <2>10 DEF Full
  <2> QED BY <2>8, <2>9, <2>11
<1> QED BY <1>1, <1>2 DEF ObjectsAccounted

\* Whatever the elements are, whatever calls are made and whichever of them
\* throw: no object is constructed over another, destroyed or read where there
\* is none, or left in storage that is given back; between the calls the
\* vectors hold all objects and all storage there is, none of it shared, and
\* husks only of a T that move_if_noexcept moves although it may throw.
THEOREM ObjectsHold == Spec => []ObjectsAccounted
<1>1. TellInv => ObjectsAccounted
  BY TellInvAccounts
<1> QED BY <1>1, TellInvHolds, PTL

=============================================================================
