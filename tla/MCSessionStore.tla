---------------------------- MODULE MCSessionStore ----------------------------
(***************************************************************************)
(* Instances of SessionStore for TLC: lifetimes of one to three ticks and  *)
(* a limit of one or two sessions of one user, two goroutines that serve   *)
(* requests.  No behaviour depends on which session or goroutine is which. *)
(***************************************************************************)
EXTENDS SessionStore, TLC

Symmetry == Permutations(Sids) \union Permutations(Workers)
=============================================================================
