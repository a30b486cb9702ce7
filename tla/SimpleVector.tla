---------------------------- MODULE SimpleVector ----------------------------
(***************************************************************************)
(* SimpleVector<T> of generic_container_rule_of_five.cpp, which has all    *)
(* that the one of generic_container_allocator_placement_new.cpp has, and  *)
(* copies as well.  A vector is a block of cells, of which the first size  *)
(* hold objects and the rest is raw storage.  Every construction of an     *)
(* element is a step, since it may throw; what cannot throw is done        *)
(* together with what follows it.                                          *)
(***************************************************************************)
EXTENDS Integers, Sequences

CONSTANTS Vectors, Temp,   (* the program's vectors; the local of operator= *)
          Values, Raw, Moved,
          Blocks,          (* the blocks that may be allocated, numbered    *)
          MaxSize          (* nobody pushes beyond it                       *)

ASSUME VectorAssumption ==
    /\ Temp \notin Vectors /\ Raw \notin Values /\ Moved \notin Values /\ Raw # Moved
    /\ Blocks \subseteq Nat \ {0} /\ MaxSize \in Nat

VARIABLES store,    (* [heap: the cells of each block, sound: no misuse yet] *)
          vec,      (* data_, size_ and capacity_ of each vector            *)
          alive,    (* the vectors that exist                               *)
          call,     (* the call that is being made                          *)
          pc,       (* where it is                                          *)
          block,    (* newData, or the data_ of the copy                    *)
          constructed,
          T,        (* what the compiler knows of the elements' type        *)
          seen      (* what the vectors held between the calls              *)

vars == <<store, vec, alive, call, pc, block, constructed, T, seen>>

Null == 0
Types == [copyable : BOOLEAN, noexceptMove : BOOLEAN]
NoVector == [data |-> Null, size |-> 0, capacity |-> 0]

Request(name, v, w, x) == [call |-> name, this |-> v, from |-> w, value |-> x]
NoCall == Request("none", Temp, Temp, Raw)

Init == /\ store = [heap |-> [b \in Blocks |-> <<>>], sound |-> TRUE]
        /\ vec = [v \in Vectors \cup {Temp} |-> NoVector]
        /\ alive = {}
        /\ call = NoCall /\ pc = "idle"
        /\ block = Null /\ constructed = 0
        /\ T \in Types
        /\ seen = <<>>

-----------------------------------------------------------------------------
(* allocator, construct_at, destroy_at.  A block that is not allocated has *)
(* no cells.  Whatever touches a cell that is not there, constructs over   *)
(* an object, destroys or reads what is none, or gives back storage with   *)
(* objects in it leaves the store unsound.                                 *)

Live(s, b, i) == b # Null /\ i \in DOMAIN s.heap[b] /\ s.heap[b][i] # Raw

Unsound(s) == [s EXCEPT !.sound = FALSE]

Allocate(s, b, n) == [s EXCEPT !.heap[b] = [i \in 1 .. n |-> Raw]]

Construct(s, b, i, x) ==
    IF b = Null \/ i \notin DOMAIN s.heap[b] THEN Unsound(s)
    ELSE [heap  |-> [s.heap EXCEPT ![b][i] = x],
          sound |-> s.sound /\ s.heap[b][i] = Raw /\ x # Raw]

DestroyFirst(s, b, n) ==
    IF n = 0 THEN s
    ELSE IF \E i \in 1 .. n : ~Live(s, b, i) THEN Unsound(s)
    ELSE [s EXCEPT !.heap[b] = [i \in DOMAIN @ |-> IF i <= n THEN Raw ELSE @[i]]]

Deallocate(s, b, n) ==
    IF b = Null THEN s
    ELSE [heap  |-> [s.heap EXCEPT ![b] = <<>>],
          sound |-> s.sound /\ Len(s.heap[b]) = n /\ \A i \in 1 .. n : ~Live(s, b, i)]

Free == {b \in Blocks : store.heap[b] = <<>>}
Fresh == CHOOSE b \in Free : TRUE

Clear(s, x)   == DestroyFirst(s, x.data, x.size)
Destroy(s, x) == Deallocate(Clear(s, x), x.data, x.capacity)

-----------------------------------------------------------------------------
(* Calls *)

Contents(s, x) == [i \in 1 .. x.size |-> s.heap[x.data][i]]

Goto(l) == pc' = l /\ UNCHANGED call

\* The call is over, with the vectors in use.
End(vectors) == /\ alive' = vectors
                /\ call' = NoCall /\ pc' = "idle"
                /\ block' = Null /\ constructed' = 0
                /\ seen' = [v \in vectors |-> Contents(store', vec'[v])]

Return == End(alive)
Throw  == End(alive)

Same == UNCHANGED <<alive, seen>>
Kept == UNCHANGED <<block, constructed>>

This == vec[call.this]
From == vec[call.from]

Calls ==
    {Request("create", v, v, Raw) : v \in Vectors \ alive}
    \cup {Request("pushBack", v, v, x) : v \in {u \in alive : vec[u].size < MaxSize}, x \in Values}
    \cup {Request(c, v, w, Raw) : c \in {"copy", "move"}, v \in Vectors \ alive, w \in alive}
    \cup {Request(c, v, w, Raw) : c \in {"assign", "moveAssign"}, v \in alive, w \in alive}
    \cup {Request(c, v, v, Raw) : c \in {"clear", "destroy"}, v \in alive}

\* What copies the elements compiles for a T that can be copied.
Begin ==
    /\ pc = "idle"
    /\ call' \in Calls
    /\ call'.call \in {"copy", "assign"} => T.copyable
    /\ pc' = call'.call
    /\ UNCHANGED <<store, vec, alive, block, constructed, T, seen>>

Create ==
    /\ pc = "create"
    /\ vec' = [vec EXCEPT ![call.this] = NoVector]
    /\ UNCHANGED <<store, T>>
    /\ End(alive \cup {call.this})

-----------------------------------------------------------------------------
(* push_back(), emplace_back() and grow() *)

PushBack ==
    /\ pc = "pushBack"
    /\ Goto(IF This.size = This.capacity THEN "grow" ELSE "place")
    /\ Same /\ Kept /\ UNCHANGED <<store, vec, T>>

NewCapacity == IF This.capacity = 0 THEN 1 ELSE This.capacity * 2

\* Storage may run out: then nothing has happened.
Grow ==
    /\ pc = "grow"
    /\ \/ /\ Free # {}
          /\ store' = Allocate(store, Fresh, NewCapacity)
          /\ UNCHANGED vec
          /\ block' = Fresh /\ constructed' = 0
          /\ Goto("transfer") /\ Same
       \/ UNCHANGED <<store, vec>> /\ Throw
    /\ UNCHANGED T

\* One element, moved or copied.  A move that throws may have emptied what it
\* moves from: that is up to T.
TransferBy(moving) ==
    /\ pc = "transfer" /\ constructed < This.size
    /\ LET i == constructed + 1
           emptied(s) == IF moving THEN [s EXCEPT !.heap[This.data][i] = Moved] ELSE s
       IN  \/ /\ store' = emptied(Construct(store, block, i, store.heap[This.data][i]))
              /\ constructed' = i
              /\ Goto("transfer")
           \/ /\ ~T.noexceptMove
              /\ store' \in {store, emptied(store)}
              /\ Goto("undoGrow") /\ UNCHANGED constructed
    /\ Same /\ UNCHANGED <<vec, block, T>>

\* Mutation of Transfer: std::move where the code has std::move_if_noexcept.
TransferMoves == TransferBy(TRUE)

\* std::move_if_noexcept moves what cannot throw then, and what cannot be
\* copied: there it moves anyway.
MoveIfNoexcept == T.noexceptMove \/ ~T.copyable

Transfer == TransferBy(MoveIfNoexcept)

\* Mutation of UndoGrow: the new storage is forgotten.
UndoGrowLeaks ==
    /\ pc = "undoGrow"
    /\ store' = DestroyFirst(store, block, constructed)
    /\ UNCHANGED <<vec, T>>
    /\ Throw

\* The handler gives up what has been constructed, and throws on.
UndoGrow ==
    /\ pc = "undoGrow"
    /\ store' = Deallocate(DestroyFirst(store, block, constructed), block, NewCapacity)
    /\ UNCHANGED <<vec, T>>
    /\ Throw

Grown ==
    /\ pc = "transfer" /\ constructed = This.size
    /\ store' = Destroy(store, This)
    /\ vec' = [vec EXCEPT ![call.this].data = block, ![call.this].capacity = NewCapacity]
    /\ Goto("place")
    /\ Same /\ Kept /\ UNCHANGED T

\* The new element comes last.  If its constructor throws, the vector has
\* room for it but not the element.
Place ==
    /\ pc = "place"
    /\ \/ /\ store' = Construct(store, This.data, This.size + 1, call.value)
          /\ vec' = [vec EXCEPT ![call.this].size = @ + 1]
          /\ Return
       \/ UNCHANGED <<store, vec>> /\ Throw
    /\ UNCHANGED T

-----------------------------------------------------------------------------
(* Copies *)

\* The vector that is being constructed as a copy.
Target == IF call.call = "assign" THEN Temp ELSE call.this

\* What follows the copy constructor.
Copied == IF call.call = "assign" THEN Goto("swap") /\ Same /\ Kept
          ELSE End(alive \cup {call.this})

Copy ==
    /\ pc = "copy"
    /\ \/ /\ From.size = 0
          /\ vec' = [vec EXCEPT ![Target] = NoVector]
          /\ UNCHANGED store
          /\ Copied
       \/ /\ From.size > 0 /\ Free # {}
          /\ store' = Allocate(store, Fresh, From.size)
          /\ vec' = [vec EXCEPT ![Target] = [data |-> Fresh, size |-> 0, capacity |-> From.size]]
          /\ block' = Fresh /\ constructed' = 0
          /\ Goto("copyElements") /\ Same
       \/ From.size > 0 /\ UNCHANGED <<store, vec>> /\ Throw
    /\ UNCHANGED T

CopyElement ==
    /\ pc = "copyElements" /\ constructed < From.size
    /\ LET i == constructed + 1
       IN  \/ /\ store' = Construct(store, block, i, store.heap[From.data][i])
              /\ constructed' = i
              /\ Goto("copyElements")
           \/ Goto("undoCopy") /\ UNCHANGED <<store, constructed>>
    /\ Same /\ UNCHANGED <<vec, block, T>>

\* A vector whose constructor throws never exists: no destructor follows.
UndoCopy ==
    /\ pc = "undoCopy"
    /\ store' = Deallocate(DestroyFirst(store, block, constructed), block, vec[Target].capacity)
    /\ vec' = [vec EXCEPT ![Target] = NoVector]
    /\ UNCHANGED T
    /\ Throw

CopyComplete ==
    /\ pc = "copyElements" /\ constructed = From.size
    /\ vec' = [vec EXCEPT ![Target].size = From.size]
    /\ UNCHANGED <<store, T>>
    /\ Copied

\* operator=(const SimpleVector&): a copy of its own, swapped in.
Assign ==
    /\ pc = "assign"
    /\ \/ call.this = call.from /\ UNCHANGED <<store, vec>> /\ Return
       \/ call.this # call.from /\ UNCHANGED <<store, vec>> /\ Goto("copy") /\ Same /\ Kept
    /\ UNCHANGED T

\* The local copy leaves with what the vector had.
Swap ==
    /\ pc = "swap"
    /\ store' = Destroy(store, This)
    /\ vec' = [vec EXCEPT ![call.this] = vec[Temp], ![Temp] = NoVector]
    /\ UNCHANGED T
    /\ Return

-----------------------------------------------------------------------------
(* Moves, clear() and the destructor: none of them throws *)

Move ==
    /\ pc = "move"
    /\ vec' = [vec EXCEPT ![call.this] = From, ![call.from] = NoVector]
    /\ UNCHANGED <<store, T>>
    /\ End(alive \cup {call.this})

MoveAssign ==
    /\ pc = "moveAssign"
    /\ \/ call.this = call.from /\ UNCHANGED <<store, vec>>
       \/ /\ call.this # call.from
          /\ store' = Destroy(store, This)
          /\ vec' = [vec EXCEPT ![call.this] = From, ![call.from] = NoVector]
    /\ UNCHANGED T
    /\ Return

ClearVector ==
    /\ pc = "clear"
    /\ store' = Clear(store, This)
    /\ vec' = [vec EXCEPT ![call.this].size = 0]
    /\ UNCHANGED T
    /\ Return

DestroyVector ==
    /\ pc = "destroy"
    /\ store' = Destroy(store, This)
    /\ vec' = [vec EXCEPT ![call.this] = NoVector]
    /\ UNCHANGED T
    /\ End(alive \ {call.this})

-----------------------------------------------------------------------------
Step == \/ Create \/ PushBack \/ Grow \/ Transfer \/ UndoGrow \/ Grown \/ Place
        \/ Copy \/ CopyElement \/ UndoCopy \/ CopyComplete \/ Assign \/ Swap
        \/ Move \/ MoveAssign \/ ClearVector \/ DestroyVector

Next == Begin \/ Step

\* A call that has begun goes on.
Spec == Init /\ [][Next]_vars /\ WF_vars(Step)

-----------------------------------------------------------------------------
(* Properties *)

\* What an element may be: a husk only where move_if_noexcept moves anyway.
Elements == IF T.noexceptMove \/ T.copyable THEN Values ELSE Values \cup {Moved}

\* Every object is constructed in raw storage and destroyed once; storage is
\* given back once, with its size, when no object is left in it; and between
\* the calls, also after one that has thrown, there are no other objects than
\* the elements of the vectors, and no other storage than theirs, each
\* vector's its own.  No element is a moved-from husk, unless grow() had to
\* move what neither can be copied nor is sure to be moved.
ObjectsAccounted ==
    /\ store.sound
    /\ pc = "idle" =>
          /\ \A v \in alive :
                LET x == vec[v]
                IN  /\ x.size <= x.capacity
                    /\ (x.data = Null) <=> (x.capacity = 0)
                    /\ x.data # Null =>
                          /\ Len(store.heap[x.data]) = x.capacity
                          /\ \A i \in 1 .. x.capacity :
                                IF i <= x.size THEN store.heap[x.data][i] \in Elements
                                ELSE store.heap[x.data][i] = Raw
          /\ \A v, w \in alive : v # w /\ vec[v].data = vec[w].data => vec[v].data = Null
          /\ Blocks \ Free = {vec[v].data : v \in alive} \ {Null}

\* The guarantees: a call has its whole effect on the elements or, when an
\* element's copy or an allocation throws, none; only a push_back() that has to
\* move anyway may leave the first elements of its vector emptied, and no
\* more.  What is declared noexcept does not throw.
Calling == INSTANCE VectorValues WITH
    Husk <- Moved, contents <- seen, request <- call, NoRequest <- NoCall,
    Requests <- [call : {"create", "pushBack", "copy", "move", "assign", "moveAssign", "clear", "destroy"},
                 this : Vectors, from : Vectors, value : Values \cup {Raw}]

ExceptionGuarantee == Calling!Spec

=============================================================================
