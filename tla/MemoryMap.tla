------------------------------- MODULE MemoryMap -------------------------------
(***************************************************************************)
(* What MemoryStore (internal/memory/store.go, the interface) promises to  *)
(* its callers: a map from user and key to a content on which every        *)
(* operation takes effect at once, between its call and its return.  A     *)
(* list shows the entries of its user only.  An operation that fails may   *)
(* have taken effect or not, and does not keep the following ones of its   *)
(* request from being tried.  A durable map survives the process.          *)
(***************************************************************************)
EXTENDS Naturals, Sequences

CONSTANTS Users, Keys, Contents, Requests, Offered, None

VARIABLES
    durable,  \* the map survives a crash, and its operations can fail
    map,      \* map[<<u, k>>]: what is kept for user u under key k, or None
    todo,     \* todo[r]: the operations request r has yet to finish
    applied,  \* applied[r]: the first of them has taken effect
    seen,     \* seen[r]: the result of the last list of r
    lost      \* lost[r]: how many operations of r have failed

mapVars == <<durable, map, todo, applied, seen, lost>>

Places == Users \X Keys
Empty == [p \in Places |-> None]

Init ==
    /\ durable \in BOOLEAN
    /\ map = Empty
    /\ todo \in {f \in [Requests -> UNION {Offered[r] : r \in Requests}] :
                     \A r \in Requests : f[r] \in Offered[r]}
    /\ applied = [r \in Requests |-> FALSE]
    /\ seen = [r \in Requests |-> {}]
    /\ lost = [r \in Requests |-> 0]

\* The operation of r that is due, of the given kind, takes effect.
Due(r, kind) == /\ todo[r] # << >>
                /\ ~applied[r]
                /\ Head(todo[r]).kind = kind
                /\ applied' = [applied EXCEPT ![r] = TRUE]

Put(r) ==
    /\ Due(r, "put")
    /\ LET op == Head(todo[r])
       IN  map' = [map EXCEPT ![<<op.user, op.key>>] = op.content]
    /\ UNCHANGED <<durable, todo, seen, lost>>

Delete(r) ==
    /\ Due(r, "delete")
    /\ LET op == Head(todo[r])
       IN  map' = [map EXCEPT ![<<op.user, op.key>>] = None]
    /\ UNCHANGED <<durable, todo, seen, lost>>

List(r) ==
    /\ Due(r, "list")
    /\ LET op == Head(todo[r])
       IN  seen' = [seen EXCEPT ![r] =
                        {e \in Keys \X op.wanted : map[<<op.user, e[1]>>] = e[2]}]
    /\ UNCHANGED <<durable, map, todo, lost>>

Return(r) ==
    /\ applied[r]
    /\ todo' = [todo EXCEPT ![r] = Tail(@)]
    /\ applied' = [applied EXCEPT ![r] = FALSE]
    /\ UNCHANGED <<durable, map, seen, lost>>

Fail(r) ==
    /\ durable
    /\ todo[r] # << >>
    /\ todo' = [todo EXCEPT ![r] = Tail(@)]
    /\ applied' = [applied EXCEPT ![r] = FALSE]
    /\ lost' = [lost EXCEPT ![r] = @ + 1]
    /\ UNCHANGED <<durable, map, seen>>

\* The requests under way vanish with the process.
Crash ==
    /\ \E under \in SUBSET Requests :
          todo' = [r \in Requests |-> IF r \in under THEN << >> ELSE todo[r]]
    /\ applied' = [r \in Requests |-> FALSE]
    /\ map' = IF durable THEN map ELSE Empty
    /\ UNCHANGED <<durable, seen, lost>>

Next ==
    \/ \E r \in Requests : Put(r) \/ Delete(r) \/ List(r) \/ Return(r) \/ Fail(r)
    \/ Crash

Spec == Init /\ [][Next]_mapVars
=============================================================================
