-------------------------- MODULE MCLoopbackServer --------------------------
(* An instance of LoopbackServer for TLC: two masters with different       *)
(* floors, the harness's default and hivemind-core's.                      *)
EXTENDS LoopbackServer, TLC

CONSTANTS low, high, old, new

MCFloorOf == [i \in Instances |-> IF i = low THEN 1 ELSE 2]
MCVersionOf == [c \in Clients |-> IF c = old THEN 1 ELSE 3]

=============================================================================
