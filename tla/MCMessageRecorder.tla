------------------------- MODULE MCMessageRecorder -------------------------
(* Instances of MessageRecorder for TLC: what the tests wait for.          *)
EXTENDS MessageRecorder, TLC

CONSTANTS w1, w2

MCAsked == { [type |-> "a", directions |-> {"in"}],
             [type |-> "a", directions |-> {"in", "out"}],
             [type |-> "b", directions |-> {"out"}] }

=============================================================================
