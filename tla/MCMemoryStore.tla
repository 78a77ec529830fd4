---------------------------- MODULE MCMemoryStore ----------------------------
(***************************************************************************)
(* An instance of MemoryStore for TLC: a chat that saves two entries, and  *)
(* two requests that put, delete or list entries of the same user or of    *)
(* another one.                                                            *)
(***************************************************************************)
EXTENDS MemoryStore

CONSTANTS u1, u2, k1, k2, a, b, r1, r2, r3

PutOp(u, k, c) == [kind |-> "put", user |-> u, key |-> k, content |-> c, wanted |-> {}]
DeleteOp(u, k) == [kind |-> "delete", user |-> u, key |-> k, content |-> a, wanted |-> {}]
ListOp(u, cs) == [kind |-> "list", user |-> u, key |-> k1, content |-> a, wanted |-> cs]

MCOffered ==
    [r \in Requests |->
        CASE r = r1 -> {<<PutOp(u1, k1, a), PutOp(u1, k2, b)>>, <<PutOp(u1, k1, a), PutOp(u1, k1, b)>>}
          [] r = r2 -> {<<PutOp(u1, k1, b)>>, <<DeleteOp(u1, k1)>>, <<PutOp(u2, k1, b)>>}
          [] r = r3 -> {<<ListOp(u1, Contents)>>, <<ListOp(u1, {a})>>, <<PutOp(u1, k2, a)>>}]
=============================================================================
