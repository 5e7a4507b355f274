------------------------------ MODULE MCScenario ------------------------------
(***************************************************************************)
(* Small casts of participants: a two-way sender with a receiver; two      *)
(* senders, of which one is waited for; one two-way participant alone.     *)
(***************************************************************************)
EXTENDS Scenario, TLC

CONSTANTS alpha, bravo

Pair      == {alpha, bravo}
JustBravo == {bravo}

TwoWay  == (alpha :> "send_receive") @@ (bravo :> "receive_only")
Senders == (alpha :> "send_receive") @@ (bravo :> "send_only")
Alone   == bravo :> "send_receive"
===============================================================================
