------------------------------ MODULE MCSettings ------------------------------
(***************************************************************************)
(* An instance of Settings for TLC: two administrators, a key of middle    *)
(* and one of usual length, which is also the one in the environment.       *)
(***************************************************************************)
EXTENDS Settings

CONSTANTS t1, t2, long, middle, site

MCEnv == [key |-> [key |-> long, masked |-> FALSE], site |-> site]
MCStartLimits == [f \in Fields |-> 2]
MCLimitsAsked == {[f \in Fields |-> IF f = "tokens" THEN 1 ELSE 0]}
=============================================================================
