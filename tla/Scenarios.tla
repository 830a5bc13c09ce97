----------------------------- MODULE Scenarios ------------------------------
(***************************************************************************)
(* The calls of a TopologyBuilder (topology.py) and the preset topologies  *)
(* of scenarios.py and pytest_fixtures.py, each the sequence of its calls. *)
(***************************************************************************)
EXTENDS Integers, Sequences, SequencesExt

(* A node's name: M0, R1, S2.  A relay R has a satellite and a master of   *)
(* its own name.                                                           *)
M0     == <<"M", 0>>
R(n)   == <<"R", n>>
S(n)   == <<"S", n>>

(* connect_kwargs: is_admin, and allowed_types, {} for None and {a} for a. *)
Kwargs(admin, allowed) == [admin |-> admin, allowed |-> allowed]

Default == Kwargs(FALSE, {})

(* add_master, add_satellite and add_relay.                                *)
Master(m, loopback) ==
  [add |-> "master", name |-> m, up |-> m, kwargs |-> Default,
   loopback |-> loopback]

Node(add, n, up, kwargs) ==
  [add |-> add, name |-> n, up |-> up, kwargs |-> kwargs, loopback |-> FALSE]

Relay(r, up) == Node("relay", r, up, Default)

Satellite(s, up) == Node("satellite", s, up, Default)

Satellites(n, up) == [i \in 1..n |-> Satellite(S(i - 1), up)]

-----------------------------------------------------------------------------
SingleSatellite(kwargs) ==
  <<Master(M0, FALSE), Node("satellite", S(0), M0, kwargs)>>

StarTopology(n) == <<Master(M0, FALSE)>> \o Satellites(n, M0)

ThreeSatellites == StarTopology(3)

WithRelay == <<Master(M0, FALSE), Relay(R(0), M0)>> \o Satellites(2, R(0))

ChainTopology == <<Master(M0, FALSE), Relay(R(0), M0)>> \o Satellites(1, R(0))

WithAclEnforcement ==
  <<Master(M0, FALSE),
    Node("satellite", S(0), M0, Kwargs(TRUE, {{"utterance", "speak"}})),
    Node("satellite", S(1), M0, Kwargs(FALSE, {{"speak"}})),
    Node("satellite", S(2), M0, Kwargs(FALSE, {{"utterance"}}))>>

HierarchicalHubs(levels, n) ==
  LET Hub(l) == IF l = 0 THEN M0 ELSE R(l) IN
  <<Master(M0, FALSE)>>
    \o [l \in 1..levels - 1 |-> Relay(R(l), Hub(l - 1))]
    \o Satellites(n, Hub(levels - 1))

(* The fixtures of one test: a master, then one satellite of each kind.    *)
Fixtures ==
  <<Master(M0, FALSE), Satellite(S(0), M0),
    Node("satellite", S(1), M0, Kwargs(TRUE, {})),
    Node("satellite", S(2), M0, Kwargs(FALSE, {{"utterance"}}))>>

=============================================================================
