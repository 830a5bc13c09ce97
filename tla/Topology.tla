------------------------------ MODULE Topology ------------------------------
(***************************************************************************)
(* TopologyBuilder (topology.py): nodes are added, start_all runs the      *)
(* network protocols and connects the satellites in the order they were    *)
(* added, and stop_all undoes it, at any time and as often as the test     *)
(* calls them.  Any of their steps may raise.  A connect is one step, of   *)
(* which SatelliteSession models the inside; so is a network protocol's    *)
(* run or stop, which LoopbackServer does.                                 *)
(***************************************************************************)
EXTENDS Integers, Sequences, SequencesExt, FiniteSets

CONSTANTS
  Names,      \* names of nodes
  Types,      \* message types of a whitelist
  Scripts     \* the sequences of builder calls a test may make

Kw == [admin : BOOLEAN, allowed : {{}} \cup {{a} : a \in SUBSET Types}]

Adds == [add : {"master", "relay", "satellite"}, name : Names, up : Names,
         kwargs : Kw, loopback : BOOLEAN]

(* A satellite or relay is given a listener that was added before it, and  *)
(* a name that no other one has.                                           *)
WellFormed(s) ==
  \A i \in 1..Len(s) : s[i].add # "master" =>
    /\ \E j \in 1..i - 1 : s[j].add # "satellite" /\ s[j].name = s[i].up
    /\ \A j \in 1..i - 1 : s[j].add # "master" => s[j].name # s[i].name

ASSUME ConstantsAssumption == \A s \in Scripts : s \in Seq(Adds) /\ WellFormed(s)

VARIABLES
  script,    \* the builder calls to come
  masters,   \* _masters, in order
  relays,    \* the listeners of _relays
  loops,     \* the masters that use a LoopbackNetworkProtocol
  plan,      \* _connections, in order: [sat, master, kwargs]
  conn,      \* conn[s]: s has no _connection, a half-open one or one up
  row,       \* row[s]: the rights of s's key in its master's database, {} or {r}
  held,      \* held[s]: the rights its connection copied
  serving,   \* masters whose network protocol runs
  wired,     \* masters whose agent protocol is on its bus
  pools,     \* masters whose listener has its pool of threads
  files,     \* the nodes that have their temp directory
  call,      \* the call under way
  failed,    \* satellites whose last connect raised (history)
  broken     \* what raised in the stop_all that just returned (history)

vars == <<script, masters, relays, loops, plan, conn, row, held, serving, wired, pools,
          files, call, failed, broken>>

Rights == [admin : BOOLEAN, allowed : SUBSET Types]

None == [admin |-> FALSE, allowed |-> {}]

(* Between calls, started and stopped tell that start_all and stop_all     *)
(* have just returned.  In a call, at is the index of its loop.            *)
Loops == {"servers", "connects", "sats", "masters"}

Calls == [op : {"idle", "started", "stopped"} \cup Loops, at : Nat]

Files == {"sat", "master"} \X Names

TypeOK ==
  /\ script \in Seq(Adds)
  /\ masters \in Seq(Names)
  /\ loops \subseteq Names /\ relays \subseteq Names
  /\ plan \in Seq([sat : Names, master : Names, kwargs : Kw])
  /\ conn \in [Names -> {"none", "half", "up"}]
  /\ row \in [Names -> {{}} \cup {{r} : r \in Rights}]
  /\ held \in [Names -> Rights]
  /\ serving \subseteq Names /\ wired \subseteq Names /\ pools \subseteq Names
  /\ files \subseteq Files
  /\ call \in Calls
  /\ failed \subseteq Names
  /\ broken \subseteq {"conn", "network", "agent", "pool"} \X Names

Init ==
  /\ script \in Scripts
  /\ masters = <<>> /\ relays = {} /\ loops = {} /\ plan = <<>>
  /\ conn = [s \in Names |-> "none"]
  /\ row = [s \in Names |-> {}] /\ held = [s \in Names |-> None]
  /\ serving = {} /\ wired = {} /\ pools = {} /\ files = {}
  /\ call = [op |-> "idle", at |-> 0]
  /\ failed = {} /\ broken = {}

-----------------------------------------------------------------------------
Between == call.op \notin Loops

At(op, seq) == call.op = op /\ call.at <= Len(seq)

Over(op, seq) == call.op = op /\ call.at > Len(seq)

Goto(op) == call' = [op |-> op, at |-> 1]

Ends(op) == call' = [op |-> op, at |-> 0]

Advance == call' = [call EXCEPT !.at = @ + 1]

(***************************************************************************)
(* Building: MasterNode.create and SatelliteNode.create make the node's    *)
(* temp directory and, with its agent protocol, wire a master to its bus.  *)
(***************************************************************************)
AddsMaster(m, loopback) ==
  /\ masters' = Append(masters, m)
  /\ wired' = wired \cup {m}
  /\ loops' = IF loopback THEN loops \cup {m} ELSE loops

AddsSatellite(s, up, kwargs) ==
  plan' = Append(plan, [sat |-> s, master |-> up, kwargs |-> kwargs])

AddMaster(a) ==
  /\ a.add = "master"
  /\ AddsMaster(a.name, a.loopback)
  /\ files' = files \cup {<<"master", a.name>>}
  /\ UNCHANGED <<plan, relays>>

AddSatellite(a) ==
  /\ a.add = "satellite"
  /\ AddsSatellite(a.name, a.up, a.kwargs)
  /\ files' = files \cup {<<"sat", a.name>>}
  /\ UNCHANGED <<masters, relays, wired, loops>>

(* Faulty variant: the relay has a directory that is neither node's.       *)
AddRelayFiles(a) ==
  /\ a.add = "relay"
  /\ AddsMaster(a.name, FALSE)
  /\ AddsSatellite(a.name, a.up, a.kwargs)
  /\ relays' = relays \cup {a.name}
  /\ files' = files \cup ({"sat", "master", "relay"} \X {a.name})

(* A relay is a satellite and a master that share their agent protocol.    *)
AddRelay(a) ==
  /\ a.add = "relay"
  /\ AddsMaster(a.name, FALSE)
  /\ AddsSatellite(a.name, a.up, a.kwargs)
  /\ relays' = relays \cup {a.name}
  /\ files' = files \cup ({"sat", "master"} \X {a.name})

Add ==
  /\ Between /\ script # <<>>
  /\ script' = Tail(script)
  /\ LET a == Head(script) IN AddMaster(a) \/ AddSatellite(a) \/ AddRelay(a)
  /\ Ends("idle")
  /\ broken' = {}
  /\ UNCHANGED <<conn, row, held, serving, pools, failed>>

-----------------------------------------------------------------------------
(* start_all.                                                              *)

Building == UNCHANGED <<script, masters, relays, loops, plan, wired, files>>

Starting == Building /\ UNCHANGED broken

StartAll ==
  /\ Between
  /\ Goto("servers") /\ broken' = {}
  /\ Building /\ UNCHANGED <<conn, row, held, serving, pools, failed>>

(* network_protocol.run(): only a loopback server can fail to start, and   *)
(* the exception ends start_all.                                           *)
RunServer ==
  /\ At("servers", masters)
  /\ \/ serving' = serving \cup ({masters[call.at]} \cap loops) /\ Advance
     \/ masters[call.at] \in loops /\ Ends("idle") /\ UNCHANGED serving
  /\ Starting /\ UNCHANGED <<conn, row, held, pools, failed>>

ServersRun ==
  /\ Over("servers", masters)
  /\ Goto("connects")
  /\ Starting /\ UNCHANGED <<conn, row, held, serving, pools, failed>>

(* Faulty variant: a key that has a row is not registered again.           *)
RegisteredOnce(s, kwargs) ==
  IF row[s] # {} THEN CHOOSE r \in row[s] : TRUE
  ELSE [admin |-> kwargs.admin, allowed |-> UNION kwargs.allowed]

(* The database's add_client: rights given by the call replace the row's,  *)
(* and None keeps its allowed_types.                                       *)
Registered(s, kwargs) ==
  [admin |-> kwargs.admin,
   allowed |-> UNION (IF kwargs.allowed # {} THEN kwargs.allowed
                      ELSE {r.allowed : r \in row[s]})]

(* connect: register the key, copy the row's rights to the connection and  *)
(* run the handshake, which may fail.                                      *)
Connects(s, m, r, how) ==
  /\ row' = [row EXCEPT ![s] = {r}]
  /\ held' = [held EXCEPT ![s] = r]
  /\ conn' = [conn EXCEPT ![s] = how]
  /\ pools' = pools \cup {m}
  /\ failed' = IF how = "up" THEN failed \ {s} ELSE failed \cup {s}

(* Faulty variant: satellites that were connected once are skipped.        *)
SkipKnown ==
  /\ At("connects", plan)
  /\ row[plan[call.at].sat] # {}
  /\ Advance
  /\ Starting /\ UNCHANGED <<conn, row, held, serving, pools, failed>>

(* A satellite that has a _connection, half-open or up, is skipped.        *)
Skip ==
  /\ At("connects", plan)
  /\ conn[plan[call.at].sat] # "none"
  /\ Advance
  /\ Starting /\ UNCHANGED <<conn, row, held, serving, pools, failed>>

Connect ==
  /\ At("connects", plan)
  /\ LET c == plan[call.at] IN
     /\ conn[c.sat] = "none"
     /\ \E how \in {"up", "half"} :
          /\ Connects(c.sat, c.master, Registered(c.sat, c.kwargs), how)
          /\ IF how = "up" THEN Advance ELSE Ends("idle")
  /\ Starting /\ UNCHANGED serving

(* A connect that raises before _connection is set: the key has its row or *)
(* not yet, and the node has no connection.                                *)
ConnectRaises ==
  /\ At("connects", plan)
  /\ LET c == plan[call.at] IN
     /\ conn[c.sat] = "none"
     /\ row' \in {row, [row EXCEPT ![c.sat] = {Registered(c.sat, c.kwargs)}]}
     /\ failed' = failed \cup {c.sat}
  /\ Ends("idle")
  /\ Starting /\ UNCHANGED <<conn, held, serving, pools>>

StartReturns ==
  /\ Over("connects", plan)
  /\ Ends("started")
  /\ Starting /\ UNCHANGED <<conn, row, held, serving, pools, failed>>

-----------------------------------------------------------------------------
(* stop_all.                                                               *)

Stopping == UNCHANGED <<script, masters, relays, loops, plan, row, held, failed>>

StopAll ==
  /\ Between
  /\ Goto("sats") /\ broken' = {}
  /\ Stopping /\ UNCHANGED <<conn, serving, wired, pools, files>>

(* Faulty variant: an exception of disconnect ends stop_all.               *)
StopSatRaises ==
  /\ At("sats", plan)
  /\ LET s == plan[call.at].sat IN
     \/ /\ conn' = [conn EXCEPT ![s] = "none"]
        /\ files' = files \ {<<"sat", s>>}
        /\ Advance /\ UNCHANGED broken
     \/ /\ conn[s] # "none" /\ broken' = broken \cup {<<"conn", s>>}
        /\ Ends("stopped") /\ UNCHANGED <<conn, files>>
  /\ Stopping /\ UNCHANGED <<serving, wired, pools>>

(* disconnect, whose exceptions are logged: raised by the master's         *)
(* handler, they leave the _connection.  Then cleanup.                     *)
StopSat ==
  /\ At("sats", plan)
  /\ LET s == plan[call.at].sat IN
     /\ \/ conn' = [conn EXCEPT ![s] = "none"] /\ UNCHANGED broken
        \/ /\ conn[s] # "none" /\ broken' = broken \cup {<<"conn", s>>}
           /\ UNCHANGED conn
     /\ files' = files \ {<<"sat", s>>}
  /\ Advance
  /\ Stopping /\ UNCHANGED <<serving, wired, pools>>

SatsStopped ==
  /\ Over("sats", plan)
  /\ Goto("masters")
  /\ Stopping /\ UNCHANGED <<conn, serving, wired, pools, files, broken>>

(* The network, agent and listener of a master are stopped one by one;     *)
(* those of raises log an exception instead.  Then cleanup.                *)
StopMaster ==
  /\ At("masters", masters)
  /\ LET m == masters[call.at] IN
     \E raises \in SUBSET {"network", "agent", "pool"} :
       /\ "network" \in raises => m \in serving
       /\ serving' = IF "network" \in raises THEN serving ELSE serving \ {m}
       /\ wired'   = IF "agent" \in raises THEN wired ELSE wired \ {m}
       /\ pools'   = IF "pool" \in raises THEN pools ELSE pools \ {m}
       /\ broken'  = broken \cup (raises \X {m})
       /\ files'   = files \ {<<"master", m>>}
  /\ Advance
  /\ Stopping /\ UNCHANGED conn

StopReturns ==
  /\ Over("masters", masters)
  /\ Ends("stopped")
  /\ Stopping /\ UNCHANGED <<conn, serving, wired, pools, files, broken>>

-----------------------------------------------------------------------------
(* What happens to the nodes between the calls.                            *)

Tests == /\ broken' = {} /\ Ends("idle")
         /\ Building /\ UNCHANGED <<held, serving, pools, failed>>

(* Either end closes the connection of s.                                  *)
Close(s) ==
  /\ Between /\ conn[s] # "none"
  /\ conn' = [conn EXCEPT ![s] = "none"]
  /\ Tests /\ UNCHANGED row

(* The test revokes the key of s, or replaces its rights.                  *)
SetRow(s) ==
  /\ Between /\ row[s] # {}
  /\ \E r \in {{}, {None}} : row' = [row EXCEPT ![s] = r]
  /\ Tests /\ UNCHANGED conn

Next ==
  \/ Add
  \/ StartAll \/ RunServer \/ ServersRun \/ StartReturns
  \/ Skip \/ Connect \/ ConnectRaises
  \/ StopAll \/ StopSat \/ SatsStopped \/ StopMaster \/ StopReturns
  \/ \E s \in Names : Close(s) \/ SetRow(s)

Spec == Init /\ [][Next]_vars

-----------------------------------------------------------------------------
(***************************************************************************)
(* When start_all returns, every loopback server runs and every satellite  *)
(* has a connection, half-open only if the connect that made it raised in  *)
(* an earlier start_all ("Already-connected satellites are skipped", lines *)
(* 225-232).                                                               *)
(***************************************************************************)
StartConnectsAll ==
  call.op = "started" =>
    /\ loops \subseteq serving
    /\ \A i \in DOMAIN plan :
         LET s == plan[i].sat IN
         conn[s] = "up" \/ (conn[s] = "half" /\ s \in failed)

(***************************************************************************)
(* A connection has the rights the plan gives it: what a test did to the   *)
(* key's row, a revocation included, reaches no live connection and is     *)
(* undone by the next connect (SatelliteNode.connect, lines 416-427, and   *)
(* connect_satellite, network.py lines 64-70).                             *)
(***************************************************************************)
RightsFollowThePlan ==
  \A i \in DOMAIN plan :
    LET s == plan[i].sat
        kwargs == plan[i].kwargs
    IN  conn[s] # "none" =>
          /\ held[s].admin = kwargs.admin
          /\ kwargs.allowed # {} => held[s].allowed = UNION kwargs.allowed

(***************************************************************************)
(* Whatever raises, stop_all goes through every satellite and master: it   *)
(* leaves exactly what raised, and no temp directory (lines 234-274).      *)
(***************************************************************************)
LeftOver ==
  ({"network"} \X serving) \cup ({"agent"} \X wired) \cup ({"pool"} \X pools)
    \cup {<<"conn", s>> : s \in {s \in Names : conn[s] # "none"}}

StopReachesEveryNode ==
  call.op = "stopped" => LeftOver \subseteq broken /\ files = {}

=============================================================================
