----------------------------- MODULE MCSmsgSync -----------------------------
(* Model-checking instance of SmsgSync: small sets of peers and messages.   *)
EXTENDS SmsgSync, TLC

CONSTANTS n1, n2

MCNodes == {n1, n2}
MCMsgs2 == {1, 2}

(* Peers are interchangeable: no action or property names a particular one. *)
NodePerms == Permutations(MCNodes)
=============================================================================
