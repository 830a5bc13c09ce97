--------------------------- MODULE MCDeliveryPump ---------------------------
(* Instances of DeliveryPump for TLC: who drives which connections.        *)
EXTENDS DeliveryPump

CONSTANTS t1, t2, c1, c2, c3

MCSeparate == t1 :> {c1, c2} @@ t2 :> {c3}
MCShared   == t1 :> {c1, c2} @@ t2 :> {c1, c2}
MCAlone    == t1 :> {c1, c2}

=============================================================================
