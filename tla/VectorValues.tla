---------------------------- MODULE VectorValues ----------------------------
(***************************************************************************)
(* What SimpleVector promises its users, with no storage: a vector is the  *)
(* sequence of its elements.  A call takes effect as a whole or, when it   *)
(* throws, not at all, if the elements can be copied or moved without an   *)
(* exception; otherwise a push_back() that throws may have emptied the     *)
(* first elements of its vector.  Moving, clearing and destroying do not   *)
(* throw.                                                                  *)
(***************************************************************************)
EXTENDS Integers, Sequences

CONSTANTS Requests, NoRequest,
          Husk        (* an element that has been moved from                *)

VARIABLES contents,   (* of each vector that exists: its elements           *)
          request,    (* the call that is being made                        *)
          T           (* the elements' type                                 *)

vars == <<contents, request, T>>

Init == /\ contents = <<>> /\ request = NoRequest
        /\ T \in [copyable : BOOLEAN, noexceptMove : BOOLEAN]

With(v, s) == [w \in DOMAIN contents \cup {v} |-> IF w = v THEN s ELSE contents[w]]
Without(v) == [w \in DOMAIN contents \ {v} |-> contents[w]]

\* What the vectors hold after the call r.
Result(r) ==
    CASE r.call = "create"    -> With(r.this, <<>>)
      [] r.call = "pushBack"  -> With(r.this, Append(contents[r.this], r.value))
      [] r.call \in {"copy", "assign"} -> With(r.this, contents[r.from])
      [] r.call \in {"move", "moveAssign"} ->
             IF r.this = r.from THEN contents
             ELSE [With(r.this, contents[r.from]) EXCEPT ![r.from] = <<>>]
      [] r.call = "clear"     -> With(r.this, <<>>)
      [] r.call = "destroy"   -> Without(r.this)

Request == /\ request = NoRequest
           /\ request' \in Requests
           /\ UNCHANGED contents

Return  == /\ request # NoRequest
           /\ contents' = Result(request)
           /\ request' = NoRequest

\* The strong guarantee can be given.
Strong == T.copyable \/ T.noexceptMove

\* The first k of the elements s, and no others, are emptied.
Emptied(s, k) == [i \in 1 .. Len(s) |-> IF i <= k THEN Husk ELSE s[i]]

Throw   == /\ request # NoRequest
           /\ request.call \in {"pushBack", "copy", "assign"}
           /\ request' = NoRequest
           /\ \/ UNCHANGED contents
              \/ /\ ~Strong /\ request.call = "pushBack"
                 /\ \E k \in 1 .. Len(contents[request.this]) :
                       contents' = With(request.this, Emptied(contents[request.this], k))

Answer == (Return \/ Throw) /\ UNCHANGED T
Next   == Answer \/ (Request /\ UNCHANGED T)

Safety == Init /\ [][Next]_vars

Spec == Safety /\ WF_vars(Answer)

=============================================================================
