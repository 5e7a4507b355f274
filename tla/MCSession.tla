------------------------------- MODULE MCSession -------------------------------
(***************************************************************************)
(* A sender with oversized events that batches three events where two are  *)
(* sure to fit and quits after seven; a two-way participant with ordinary  *)
(* invalid events and batches of two; one that quits amid a batch; a       *)
(* receiver.                                                               *)
(***************************************************************************)
EXTENDS Session

Sender ==
    [role |-> "send_only", batchSize |-> 3, batchLimit |-> 2,
     invalidEvents |-> 2, oversized |-> TRUE, abruptAfter |-> 7]

TwoWay ==
    [role |-> "send_receive", batchSize |-> 2, batchLimit |-> 1,
     invalidEvents |-> 1, oversized |-> FALSE, abruptAfter |-> 0]

Quitter == [TwoWay EXCEPT !.batchSize = 3, !.oversized = TRUE, !.abruptAfter = 3]

Receiver == [TwoWay EXCEPT !.role = "receive_only"]

AllSetups  == {Sender, TwoWay, Quitter, Receiver}
JustTwoWay == {TwoWay}
================================================================================
