----------------------------- MODULE MCAgentBus -----------------------------
(* Two protocols share the bus; the first has two peers, the second one.   *)
EXTENDS AgentBus, TLC

CONSTANTS p1, p2, c1, c2, c3

MCHome == c1 :> p1 @@ c2 :> p1 @@ c3 :> p2

=============================================================================
