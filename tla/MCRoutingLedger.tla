---------------------------- MODULE MCRoutingLedger ----------------------------
(* Two events of one sender and one of another, and two receivers. *)
EXTENDS RoutingLedger, TLC

CONSTANTS alpha, bravo, charlie, delta, a1, a2, b1

Owner == (a1 :> alpha) @@ (a2 :> alpha) @@ (b1 :> bravo)

Symmetry == Permutations(Receivers) \cup Permutations({a1, a2})
================================================================================
