----------------------------- MODULE MCTopology -----------------------------
(* The preset topologies, and a loopback master beside an in-process one.  *)
EXTENDS Topology, Scenarios

MCNames == {M0, <<"M", 1>>, R(0), R(1), R(2)} \cup {S(i) : i \in 0..2}

MCTypes == {"utterance", "speak"}

Loopback == <<Master(<<"M", 1>>, TRUE)>>

MCScripts ==
  {SingleSatellite(Default), ThreeSatellites, WithRelay, ChainTopology,
   WithAclEnforcement, HierarchicalHubs(3, 1), Fixtures,
   Loopback \o SingleSatellite(Default)}

=============================================================================
