----------------------------- MODULE MCNetwork -----------------------------
(* Instances of the network service: which halves are configured, and whether *)
(* relay events or receivers keep them busy.                                  *)
EXTENDS Network

StreamOnly == [tcp |-> TRUE, udp |-> FALSE, events |-> TRUE, receivers |-> FALSE]
StatusOnly == [tcp |-> FALSE, udp |-> TRUE, events |-> FALSE, receivers |-> TRUE]
BothQuiet  == [tcp |-> TRUE, udp |-> TRUE, events |-> FALSE, receivers |-> FALSE]

AllWorlds == {StreamOnly, StatusOnly, BothQuiet}
=============================================================================
