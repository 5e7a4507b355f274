------------------------------- MODULE MCRunner -------------------------------
(* Every threshold configured, each low enough to be exceeded in a short run. *)
EXTENDS Runner

AllLimits == [minSamples |-> 1, connectionErrorRate |-> <<1, 2>>, messageErrorRate |-> <<1, 2>>,
              p95 |-> 1, p99 |-> 1, maxDropped |-> 1]
===============================================================================
