-------------------------- MODULE MCReadinessBarrier --------------------------
(* Two required aliases, one that is not, and two waiting senders. *)
EXTENDS ReadinessBarrier

CONSTANTS alpha, bravo, charlie, main

MCAliases  == {alpha, bravo, charlie}
MCRequired == {alpha, bravo}
MCWaiters  == {charlie, main}
===============================================================================
