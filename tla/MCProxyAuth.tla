---------------------------- MODULE MCProxyAuth -----------------------------
(* Values for the constants of ProxyAuth. *)
EXTENDS ProxyAuth, TLC

CONSTANTS u1, b1

MCOwner == b1 :> u1

Symmetry == Permutations(Connections)

\* What the last call of the store returned is used in the step that made it, and
\* nowhere else.
ViewWithoutReply == <<now, store, history, connVars>>

=============================================================================
