------------------------- MODULE MCSatelliteSession -------------------------
(* Instances of SatelliteSession for TLC; the bounds are in the cfgs.      *)
EXTENDS SatelliteSession, TLC

=============================================================================
