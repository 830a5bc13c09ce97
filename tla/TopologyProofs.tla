--------------------------- MODULE TopologyProofs ---------------------------
(***************************************************************************)
(* Proofs about Topology for any scripts whose satellites have names of    *)
(* their own.                                                              *)
(***************************************************************************)
EXTENDS Topology, TLAPS

MasterSet == {masters[i] : i \in 1..Len(masters)}

SatSet == {plan[i].sat : i \in 1..Len(plan)}

\* The calls to come add satellites of new names to masters that are there by
\* then.
Ahead ==
  \A i \in 1..Len(script) : script[i].add # "master" =>
    /\ \/ script[i].up \in MasterSet
       \/ \E j \in 1..i - 1 : script[j].add # "satellite" /\ script[j].name = script[i].up
    /\ script[i].name \notin SatSet
    /\ \A j \in 1..i - 1 : script[j].add # "master" => script[j].name # script[i].name

\* Whatever runs, is connected or has a directory belongs to a node that
\* stop_all visits, and satellites have names of their own.
Shape ==
  /\ loops \subseteq MasterSet /\ serving \subseteq MasterSet
  /\ wired \subseteq MasterSet /\ pools \subseteq MasterSet
  /\ files \subseteq ({"sat"} \X SatSet) \cup ({"master"} \X MasterSet)
  /\ \A s \in Names : conn[s] # "none" => s \in SatSet
  /\ \A s \in Names : conn[s] = "half" => s \in failed
  /\ \A i \in 1..Len(plan) : plan[i].master \in MasterSet
  /\ \A i, j \in 1..Len(plan) : plan[i].sat = plan[j].sat => i = j

\* How far start_all is.
Started ==
  /\ call.op \in Loops => call.at >= 1
  /\ call.op = "servers" =>
       \A i \in 1..Len(masters) : i < call.at /\ masters[i] \in loops => masters[i] \in serving
  /\ call.op \in {"connects", "started"} => loops \subseteq serving
  /\ call.op = "connects" =>
       \A i \in 1..Len(plan) : i < call.at => conn[plan[i].sat] # "none"
  /\ call.op = "started" => \A i \in 1..Len(plan) : conn[plan[i].sat] # "none"

\* What stop_all leaves of a satellite and of a master.
SatDone(s) ==
  /\ conn[s] # "none" => <<"conn", s>> \in broken
  /\ <<"sat", s>> \notin files

MasterDone(m) ==
  /\ m \in serving => <<"network", m>> \in broken
  /\ m \in wired => <<"agent", m>> \in broken
  /\ m \in pools => <<"pool", m>> \in broken
  /\ <<"master", m>> \notin files

\* How far stop_all is.
Stopped ==
  /\ call.op = "sats" => \A i \in 1..Len(plan) : i < call.at => SatDone(plan[i].sat)
  /\ call.op \in {"masters", "stopped"} => \A i \in 1..Len(plan) : SatDone(plan[i].sat)
  /\ call.op = "masters" =>
       \A i \in 1..Len(masters) : i < call.at => MasterDone(masters[i])
  /\ call.op = "stopped" => \A i \in 1..Len(masters) : MasterDone(masters[i])

\* What each call has to say of the rights of its connection.
Follows(c) ==
  conn[c.sat] # "none" =>
    /\ held[c.sat].admin = c.kwargs.admin
    /\ c.kwargs.allowed # {} => held[c.sat].allowed = UNION c.kwargs.allowed

Granted == \A i \in 1..Len(plan) : Follows(plan[i])

Inv == TypeOK /\ Ahead /\ Shape /\ Started /\ Stopped /\ Granted

-----------------------------------------------------------------------------
LEMMA Put ==
  ASSUME NEW S, NEW s \in Seq(S), NEW e \in S
  PROVE  /\ Append(s, e) \in Seq(S)
         /\ Len(Append(s, e)) = Len(s) + 1
         /\ Append(s, e)[Len(s) + 1] = e
         /\ \A i \in 1..Len(s) : Append(s, e)[i] = s[i]
  OBVIOUS

LEMMA Rest ==
  ASSUME NEW S, NEW s \in Seq(S), s # <<>>
  PROVE  /\ Len(s) \in Nat /\ Len(s) >= 1
         /\ Head(s) = s[1] /\ Head(s) \in S
         /\ Tail(s) \in Seq(S)
         /\ Len(Tail(s)) = Len(s) - 1
         /\ \A i \in 1..Len(s) - 1 : Tail(s)[i] = s[i + 1]
  OBVIOUS

LEMMA InvInit == ASSUME Init PROVE Inv
  <1>1. /\ masters = <<>> /\ plan = <<>> /\ Len(masters) = 0 /\ Len(plan) = 0
        /\ script \in Seq(Adds) /\ WellFormed(script)
    BY ConstantsAssumption DEF Init, ConstantsAssumption
  <1>2. MasterSet = {} /\ SatSet = {}
    BY <1>1 DEF MasterSet, SatSet
  <1>3. TypeOK
    BY <1>1 DEF Init, TypeOK, Calls, None, Rights
  <1>4. Ahead
    BY <1>1, <1>2 DEF Ahead, WellFormed
  <1>5. Shape
    BY <1>1, <1>2 DEF Init, Shape
  <1>6. Started /\ Stopped /\ Granted
    BY <1>1 DEF Init, Started, Stopped, Granted, Loops
  <1> QED BY <1>3, <1>4, <1>5, <1>6 DEF Inv

\* Facts about the lists that are there.
LEMMA ListFacts ==
  ASSUME Inv
  PROVE  /\ Len(masters) \in Nat /\ Len(plan) \in Nat /\ call.at \in Nat
         /\ \A i \in 1..Len(masters) : masters[i] \in Names /\ masters[i] \in MasterSet
         /\ \A i \in 1..Len(plan) :
              /\ plan[i].sat \in Names /\ plan[i].sat \in SatSet
              /\ plan[i].master \in Names /\ plan[i].kwargs \in Kw
         /\ MasterSet \subseteq Names /\ SatSet \subseteq Names
         /\ \A m \in MasterSet : \E i \in 1..Len(masters) : m = masters[i]
         /\ \A s \in SatSet : \E i \in 1..Len(plan) : s = plan[i].sat
  <1>1. /\ masters \in Seq(Names) /\ call.at \in Nat
        /\ plan \in Seq([sat : Names, master : Names, kwargs : Kw])
    BY DEF Inv, TypeOK, Calls
  <1>2. /\ Len(masters) \in Nat /\ Len(plan) \in Nat
        /\ \A i \in 1..Len(masters) : masters[i] \in Names
        /\ \A i \in 1..Len(plan) : plan[i] \in [sat : Names, master : Names, kwargs : Kw]
    <2> DEFINE P == [sat : Names, master : Names, kwargs : Kw]
    <2>1. plan \in Seq(P)
      BY <1>1
    <2> HIDE DEF P
    <2>2. Len(plan) \in Nat /\ \A i \in 1..Len(plan) : plan[i] \in P
      BY <2>1
    <2> QED BY <1>1, <2>2 DEF P
  <1> QED BY <1>1, <1>2 DEF MasterSet, SatSet

LEMMA CallFacts ==
  ASSUME Inv
  PROVE  /\ call \in Calls /\ call.at \in Nat
         /\ \A op \in {"idle", "started", "stopped"} \cup Loops :
              /\ Goto(op) => call' \in Calls /\ call'.op = op /\ call'.at = 1
              /\ Ends(op) => call' \in Calls /\ call'.op = op /\ call'.at = 0
         /\ Advance => call' \in Calls /\ call'.op = call.op /\ call'.at = call.at + 1
  BY DEF Inv, TypeOK, Calls, Goto, Ends, Advance

\* A step that adds no node keeps what is said of the nodes to come.
LEMMA AheadKeeps ==
  ASSUME Inv, UNCHANGED <<script, masters, plan>>
  PROVE  Ahead' /\ MasterSet' = MasterSet /\ SatSet' = SatSet
  BY DEF Inv, Ahead, MasterSet, SatSet

-----------------------------------------------------------------------------
\* start_all.

LEMMA StartKeeps ==
  ASSUME Inv, StartAll \/ RunServer \/ ServersRun \/ Skip \/ StartReturns
  PROVE  Inv'
  <1>1. /\ UNCHANGED <<script, masters, relays, loops, plan, wired, files>>
        /\ UNCHANGED <<conn, row, held, pools, failed>>
    BY DEF StartAll, RunServer, ServersRun, Skip, StartReturns, Starting, Building
  <1>2. Ahead' /\ MasterSet' = MasterSet /\ SatSet' = SatSet
    BY <1>1, AheadKeeps
  <1>3. Granted'
    BY <1>1 DEF Inv, Granted, Follows
  <1>4. /\ call' \in Calls /\ call'.op \in {"servers", "connects", "started", "idle"}
        /\ call'.op \in Loops => call'.at >= 1
    BY CallFacts DEF StartAll, RunServer, ServersRun, Skip, StartReturns, Loops, At
  <1>5. Stopped'
    BY <1>4 DEF Stopped
  <1>6. serving \subseteq serving' /\ serving' \subseteq serving \cup loops
    BY DEF StartAll, RunServer, ServersRun, Skip, StartReturns
  <1>7. TypeOK'
    BY <1>1, <1>4, <1>6 DEF Inv, TypeOK, StartAll, RunServer, ServersRun, Skip,
                            StartReturns, Starting
  <1>8. Shape'
    BY <1>1, <1>2, <1>6 DEF Inv, Shape
  <1>9. Started'
    <2>1. CASE StartAll
      BY <1>1, <1>4, <2>1, ListFacts, CallFacts DEF StartAll, Started, Loops
    <2>2. CASE RunServer
      <3>1. call.op = "servers" /\ call.at <= Len(masters)
        BY <2>2 DEF RunServer, At
      <3>2. CASE Ends("idle")
        BY <1>4, <3>2, CallFacts DEF Started
      <3>3. CASE Advance /\ serving' = serving \cup ({masters[call.at]} \cap loops)
        <4>1. call'.op = "servers" /\ call'.at = call.at + 1
          BY <3>1, <3>3, CallFacts
        <4>2. \A i \in 1..Len(masters) : i < call.at + 1 => i < call.at \/ i = call.at
          BY ListFacts
        <4>3. \A i \in 1..Len(masters) :
                i < call.at /\ masters[i] \in loops => masters[i] \in serving
          BY <3>1 DEF Inv, Started
        <4> QED BY <1>1, <1>4, <3>3, <4>1, <4>2, <4>3 DEF Started
      <3> QED BY <2>2, <3>2, <3>3 DEF RunServer
    <2>3. CASE ServersRun
      <3>1. /\ call.op = "servers" /\ call.at > Len(masters) /\ serving' = serving
            /\ call'.op = "connects" /\ call'.at = 1
        BY <2>3, CallFacts DEF ServersRun, Over, Loops
      <3>2. \A i \in 1..Len(masters) : i < call.at
        BY <3>1, ListFacts
      <3>3. ASSUME NEW m \in loops PROVE m \in serving
        <4>1. m \in MasterSet
          BY DEF Inv, Shape
        <4>2. PICK i \in 1..Len(masters) : m = masters[i]
          BY <4>1, ListFacts
        <4> QED BY <3>1, <3>2, <4>2 DEF Inv, Started
      <3>4. \A i \in 1..Len(plan) : ~(i < 1)
        BY ListFacts
      <3> QED BY <1>1, <1>4, <3>1, <3>3, <3>4 DEF Started
    <2>4. CASE Skip
      <3>1. /\ call.op = "connects" /\ conn[plan[call.at].sat] # "none"
            /\ serving' = serving /\ call'.op = "connects" /\ call'.at = call.at + 1
        BY <2>4, CallFacts DEF Skip, At
      <3>2. \A i \in 1..Len(plan) : i < call.at + 1 => i < call.at \/ i = call.at
        BY ListFacts
      <3> QED BY <1>1, <1>4, <3>1, <3>2 DEF Inv, Started
    <2>5. CASE StartReturns
      <3>1. /\ call.op = "connects" /\ call.at > Len(plan) /\ serving' = serving
            /\ call'.op = "started"
        BY <2>5, CallFacts DEF StartReturns, Over
      <3>2. \A i \in 1..Len(plan) : i < call.at
        BY <3>1, ListFacts
      <3> QED BY <1>1, <1>4, <3>1, <3>2 DEF Inv, Started
    <2> QED BY <2>1, <2>2, <2>3, <2>4, <2>5
  <1> QED BY <1>2, <1>3, <1>5, <1>7, <1>8, <1>9 DEF Inv

\* What a row registers is what the call asks for, as far as it does.
LEMMA RegisteredFacts ==
  ASSUME Inv, NEW s \in Names, NEW k \in Kw
  PROVE  /\ Registered(s, k) \in Rights
         /\ Registered(s, k).admin = k.admin
         /\ k.allowed # {} => Registered(s, k).allowed = UNION k.allowed
  <1>1. row[s] \in {{}} \cup {{r} : r \in Rights}
    BY DEF Inv, TypeOK
  <1>2. \A r \in row[s] : r \in Rights /\ r.allowed \in SUBSET Types
    BY <1>1 DEF Rights
  <1>3. k.admin \in BOOLEAN /\ \A a \in k.allowed : a \in SUBSET Types
    BY DEF Kw
  <1> QED BY <1>2, <1>3 DEF Registered, Rights

LEMMA ConnectKeeps == ASSUME Inv, Connect PROVE Inv'
  <1> DEFINE c == plan[call.at]
             s == c.sat
             r == Registered(s, c.kwargs)
  <1>1. /\ call.op = "connects" /\ call.at <= Len(plan) /\ conn[s] = "none"
        /\ UNCHANGED <<script, masters, relays, loops, plan, wired, files, broken, serving>>
    BY DEF Connect, At, Starting, Building
  <1>2. PICK how \in {"up", "half"} :
          /\ Connects(s, c.master, r, how)
          /\ IF how = "up" THEN Advance ELSE Ends("idle")
    BY DEF Connect
  <1>3. /\ call.at \in 1..Len(plan) /\ s \in Names /\ s \in SatSet
        /\ c.master \in Names /\ c.master \in MasterSet /\ c.kwargs \in Kw
    <2>1. call.at \in 1..Len(plan)
      BY <1>1, ListFacts DEF Inv, Started, Loops
    <2> QED BY <2>1, ListFacts DEF Inv, Shape
  <1>4. /\ r \in Rights /\ r.admin = c.kwargs.admin
        /\ c.kwargs.allowed # {} => r.allowed = UNION c.kwargs.allowed
    BY <1>3, RegisteredFacts
  <1> HIDE DEF c, r
  <1>5. /\ row' = [row EXCEPT ![s] = {r}] /\ held' = [held EXCEPT ![s] = r]
        /\ conn' = [conn EXCEPT ![s] = how] /\ pools' = pools \cup {c.master}
        /\ failed' = IF how = "up" THEN failed \ {s} ELSE failed \cup {s}
    BY <1>2 DEF Connects
  <1> HIDE DEF s
  <1>6. /\ call' \in Calls
        /\ \/ call'.op = "idle"
           \/ call'.op = "connects" /\ call'.at = call.at + 1
    BY <1>1, <1>2, CallFacts
  <1>7. /\ conn \in [Names -> {"none", "half", "up"}] /\ held \in [Names -> Rights]
        /\ row \in [Names -> {{}} \cup {{x} : x \in Rights}]
    BY DEF Inv, TypeOK
  <1>8. /\ conn'[s] = how /\ held'[s] = r
        /\ \A t \in Names \ {s} : conn'[t] = conn[t] /\ held'[t] = held[t]
    BY <1>3, <1>5, <1>7
  <1>9. Ahead' /\ MasterSet' = MasterSet /\ SatSet' = SatSet
    BY <1>1, AheadKeeps
  <1>10. TypeOK'
    <2>1. /\ row' \in [Names -> {{}} \cup {{x} : x \in Rights}]
          /\ held' \in [Names -> Rights] /\ conn' \in [Names -> {"none", "half", "up"}]
      BY <1>3, <1>4, <1>5, <1>7
    <2> QED BY <1>1, <1>3, <1>5, <1>6, <2>1 DEF Inv, TypeOK
  <1>11. Shape'
    <2>1. \A t \in Names : conn'[t] # "none" => t \in SatSet
      BY <1>3, <1>8 DEF Inv, Shape
    <2>2. \A t \in Names : conn'[t] = "half" => t \in failed'
      BY <1>5, <1>8 DEF Inv, Shape
    <2> QED BY <1>1, <1>3, <1>5, <1>9, <2>1, <2>2 DEF Inv, Shape
  <1>12. Started'
    <2>1. CASE call'.op = "idle"
      BY <2>1 DEF Started, Loops
    <2>2. CASE call'.op = "connects" /\ call'.at = call.at + 1
      <3>1. \A i \in 1..Len(plan) : i < call.at + 1 => i < call.at \/ i = call.at
        BY ListFacts
      <3>2. \A i \in 1..Len(plan) : i < call.at + 1 => conn'[plan[i].sat] # "none"
        BY <1>1, <1>8, <3>1, ListFacts DEF Inv, Started, s, c
      <3> QED BY <1>1, <1>3, <2>2, <3>2 DEF Inv, Started
    <2> QED BY <1>6, <2>1, <2>2
  <1>13. Stopped'
    BY <1>6 DEF Stopped
  <1>14. Granted'
    <2> SUFFICES ASSUME NEW i \in 1..Len(plan) PROVE Follows(plan[i])'
      BY <1>1 DEF Granted
    <2>1. plan[i].sat \in Names /\ plan' = plan
      BY <1>1, ListFacts
    <2>2. CASE plan[i].sat = s
      <3>1. i = call.at
        BY <1>3, <2>2 DEF Inv, Shape, s, c
      <3>2. plan[i] = c
        BY <3>1 DEF c
      <3> QED BY <1>4, <1>8, <2>1, <2>2, <3>2 DEF Follows
    <2>3. CASE plan[i].sat # s
      BY <1>8, <2>1, <2>3 DEF Inv, Granted, Follows
    <2> QED BY <2>2, <2>3
  <1> QED BY <1>9, <1>10, <1>11, <1>12, <1>13, <1>14 DEF Inv

\* A connect that raises before there is a connection.
LEMMA ConnectRaisesKeeps == ASSUME Inv, ConnectRaises PROVE Inv'
  <1> DEFINE c == plan[call.at]
             r == Registered(c.sat, c.kwargs)
  <1>1. /\ call.op = "connects" /\ call.at <= Len(plan)
        /\ UNCHANGED <<script, masters, relays, loops, plan, wired, files, broken>>
        /\ UNCHANGED <<conn, held, serving, pools>>
        /\ row' \in {row, [row EXCEPT ![c.sat] = {r}]}
        /\ failed' = failed \cup {c.sat}
    BY DEF ConnectRaises, At, Starting, Building
  <1>2. c.sat \in Names /\ c.kwargs \in Kw
    <2>1. call.at \in 1..Len(plan)
      BY <1>1, ListFacts DEF Inv, Started, Loops
    <2> QED BY <2>1, ListFacts
  <1>3. r \in Rights
    BY <1>2, RegisteredFacts
  <1> HIDE DEF c, r
  <1>4. call' \in Calls /\ call'.op = "idle"
    BY CallFacts DEF ConnectRaises
  <1>5. Ahead' /\ MasterSet' = MasterSet /\ SatSet' = SatSet
    BY <1>1, AheadKeeps
  <1>6. TypeOK'
    <2>1. row \in [Names -> {{}} \cup {{x} : x \in Rights}]
      BY DEF Inv, TypeOK
    <2>2. {r} \in {{}} \cup {{x} : x \in Rights}
      BY <1>3
    <2>3. row' \in [Names -> {{}} \cup {{x} : x \in Rights}]
      BY <1>1, <1>2, <2>1, <2>2
    <2> QED BY <1>1, <1>2, <1>4, <2>3 DEF Inv, TypeOK
  <1>7. Shape'
    BY <1>1, <1>5 DEF Inv, Shape
  <1>8. Started' /\ Stopped'
    BY <1>4 DEF Started, Stopped, Loops
  <1>9. Granted'
    BY <1>1 DEF Inv, Granted, Follows
  <1> QED BY <1>5, <1>6, <1>7, <1>8, <1>9 DEF Inv

-----------------------------------------------------------------------------
\* stop_all.

LEMMA StopKeeps ==
  ASSUME Inv, StopAll \/ StopSat \/ SatsStopped \/ StopMaster \/ StopReturns
  PROVE  Inv'
  <1>1. UNCHANGED <<script, masters, relays, loops, plan, row, held, failed>>
    BY DEF StopAll, StopSat, SatsStopped, StopMaster, StopReturns, Stopping
  <1>2. Ahead' /\ MasterSet' = MasterSet /\ SatSet' = SatSet
    BY <1>1, AheadKeeps
  <1>3. /\ call' \in Calls /\ call'.op \in {"sats", "masters", "stopped"}
        /\ call'.op \in Loops => call'.at >= 1
    BY CallFacts DEF StopAll, StopSat, SatsStopped, StopMaster, StopReturns, Loops, At
  <1>4. Started'
    BY <1>3 DEF Started
  <1>5. conn \in [Names -> {"none", "half", "up"}]
    BY DEF Inv, TypeOK
  <1>6. /\ conn' \in [Names -> {"none", "half", "up"}]
        /\ \A t \in Names : conn'[t] # "none" => conn'[t] = conn[t]
    BY <1>5 DEF StopAll, StopSat, SatsStopped, StopMaster, StopReturns
  <1>7. /\ serving' \subseteq serving /\ wired' \subseteq wired
        /\ pools' \subseteq pools /\ files' \subseteq files
    BY DEF StopAll, StopSat, SatsStopped, StopMaster, StopReturns
  <1>8. Shape'
    BY <1>1, <1>2, <1>6, <1>7 DEF Inv, Shape
  <1>9. Granted'
    <2>1. \A i \in 1..Len(plan) : plan[i].sat \in Names /\ Follows(plan[i])
      BY ListFacts DEF Inv, Granted
    <2> QED BY <1>1, <1>6, <2>1 DEF Granted, Follows
  <1>10. TypeOK' /\ Stopped'
    <2>1. CASE StopAll
      <3>1. TypeOK'
        BY <1>1, <1>3, <2>1 DEF StopAll, Inv, TypeOK
      <3>2. call'.op = "sats" /\ call'.at = 1 /\ plan' = plan
        BY <1>1, <2>1, CallFacts DEF StopAll, Loops
      <3>3. \A i \in 1..Len(plan) : ~(i < 1)
        BY ListFacts
      <3> QED BY <3>1, <3>2, <3>3 DEF Stopped
    <2>2. CASE StopSat
      <3>0. PICK s : s = plan[call.at].sat
        OBVIOUS
      <3>1. /\ call.op = "sats" /\ call.at \in 1..Len(plan) /\ s \in Names
            /\ call'.op = "sats" /\ call'.at = call.at + 1
            /\ UNCHANGED <<serving, wired, pools>> /\ files' = files \ {<<"sat", s>>}
        <4>1. call.op = "sats" /\ call.at <= Len(plan)
          BY <2>2 DEF StopSat, At
        <4>2. call.at \in 1..Len(plan)
          BY <4>1, ListFacts DEF Inv, Started, Loops
        <4> QED BY <2>2, <3>0, <4>1, <4>2, ListFacts, CallFacts DEF StopSat
      <3>2. /\ \/ conn' = [conn EXCEPT ![s] = "none"] /\ broken' = broken
               \/ conn' = conn /\ broken' = broken \cup {<<"conn", s>>}
            /\ \A t \in Names \ {s} : conn'[t] = conn[t]
        BY <1>5, <2>2, <3>0, <3>1 DEF StopSat
      <3>3. TypeOK'
        <4>1. broken' \subseteq {"conn", "network", "agent", "pool"} \X Names
          BY <3>1, <3>2 DEF Inv, TypeOK
        <4> QED BY <1>1, <1>3, <1>6, <1>7, <3>1, <4>1 DEF Inv, TypeOK
      <3>4. broken \subseteq broken'
        BY <3>2
      <3>5. SatDone(s)'
        BY <1>5, <3>1, <3>2 DEF SatDone
      <3>6. \A t \in Names : SatDone(t) => SatDone(t)'
        BY <1>6, <1>7, <3>4 DEF SatDone
      <3>7. \A i \in 1..Len(plan) : i < call.at + 1 => i < call.at \/ i = call.at
        BY ListFacts
      <3>8. \A i \in 1..Len(plan) : i < call.at => SatDone(plan[i].sat)
        BY <3>1 DEF Inv, Stopped
      <3>9. \A i \in 1..Len(plan) : i < call.at + 1 => SatDone(plan[i].sat)'
        <4> SUFFICES ASSUME NEW i \in 1..Len(plan), i < call.at + 1
                     PROVE  SatDone(plan[i].sat)'
          OBVIOUS
        <4>1. plan' = plan /\ plan[i].sat \in Names
          BY <1>1, ListFacts
        <4>2. CASE i < call.at
          BY <3>6, <3>8, <4>1, <4>2 DEF SatDone
        <4>3. CASE i = call.at
          BY <3>0, <3>5, <4>1, <4>3 DEF SatDone
        <4> QED BY <3>7, <4>2, <4>3
      <3> QED BY <1>1, <3>1, <3>3, <3>9 DEF Stopped
    <2>3. CASE SatsStopped
      <3>1. /\ call.op = "sats" /\ call.at > Len(plan)
            /\ call'.op = "masters" /\ call'.at = 1
            /\ UNCHANGED <<conn, serving, wired, pools, files, broken>>
        BY <2>3, CallFacts DEF SatsStopped, Over, Loops
      <3>2. TypeOK'
        BY <1>1, <1>3, <3>1 DEF Inv, TypeOK
      <3>3. \A i \in 1..Len(plan) : i < call.at
        BY <3>1, ListFacts
      <3>4. \A i \in 1..Len(plan) : SatDone(plan[i].sat)
        BY <3>1, <3>3 DEF Inv, Stopped
      <3>5. \A i \in 1..Len(plan) : SatDone(plan[i].sat)'
        BY <1>1, <3>1, <3>4 DEF SatDone
      <3>6. \A i \in 1..Len(masters) : ~(i < 1)
        BY ListFacts
      <3> QED BY <1>1, <3>1, <3>2, <3>5, <3>6 DEF Stopped
    <2>4. CASE StopMaster
      <3>0. PICK m : m = masters[call.at]
        OBVIOUS
      <3>1. /\ call.op = "masters" /\ call.at \in 1..Len(masters) /\ m \in Names
            /\ call'.op = "masters" /\ call'.at = call.at + 1 /\ conn' = conn
        <4>1. call.op = "masters" /\ call.at <= Len(masters) /\ conn' = conn
          BY <2>4 DEF StopMaster, At
        <4>2. call.at \in 1..Len(masters)
          BY <4>1, ListFacts DEF Inv, Started, Loops
        <4> QED BY <2>4, <4>1, <4>2, ListFacts, CallFacts, <3>0 DEF StopMaster
      <3>2. PICK raises \in SUBSET {"network", "agent", "pool"} :
              /\ serving' = IF "network" \in raises THEN serving ELSE serving \ {m}
              /\ wired'   = IF "agent" \in raises THEN wired ELSE wired \ {m}
              /\ pools'   = IF "pool" \in raises THEN pools ELSE pools \ {m}
              /\ broken'  = broken \cup (raises \X {m})
              /\ files'   = files \ {<<"master", m>>}
        BY <2>4, <3>0 DEF StopMaster
      <3>3. TypeOK'
        BY <1>1, <1>3, <3>1, <3>2 DEF Inv, TypeOK
      <3>4. MasterDone(m)'
        BY <3>2 DEF MasterDone
      <3>5. \A x \in Names : /\ MasterDone(x) => MasterDone(x)'
                             /\ SatDone(x) => SatDone(x)'
        BY <1>7, <3>1, <3>2 DEF MasterDone, SatDone
      <3>6. /\ \A i \in 1..Len(plan) : SatDone(plan[i].sat)
            /\ \A i \in 1..Len(masters) : i < call.at => MasterDone(masters[i])
        BY <3>1 DEF Inv, Stopped
      <3>7. \A i \in 1..Len(plan) : SatDone(plan[i].sat)'
        <4> SUFFICES ASSUME NEW i \in 1..Len(plan) PROVE SatDone(plan[i].sat)'
          OBVIOUS
        <4> QED BY <1>1, <3>5, <3>6, ListFacts DEF SatDone
      <3>8. \A i \in 1..Len(masters) : i < call.at + 1 => MasterDone(masters[i])'
        <4> SUFFICES ASSUME NEW i \in 1..Len(masters), i < call.at + 1
                     PROVE  MasterDone(masters[i])'
          OBVIOUS
        <4>1. masters' = masters /\ masters[i] \in Names
          BY <1>1, ListFacts
        <4>2. i < call.at \/ i = call.at
          BY ListFacts
        <4>3. CASE i < call.at
          BY <3>5, <3>6, <4>1, <4>3 DEF MasterDone
        <4>4. CASE i = call.at
          BY <3>0, <3>4, <4>1, <4>4 DEF MasterDone
        <4> QED BY <4>2, <4>3, <4>4
      <3> QED BY <1>1, <3>1, <3>3, <3>7, <3>8 DEF Stopped
    <2>5. CASE StopReturns
      <3>1. /\ call.op = "masters" /\ call.at > Len(masters)
            /\ call'.op = "stopped"
            /\ UNCHANGED <<conn, serving, wired, pools, files, broken>>
        BY <2>5, CallFacts DEF StopReturns, Over
      <3>2. TypeOK'
        BY <1>1, <1>3, <3>1 DEF Inv, TypeOK
      <3>3. \A i \in 1..Len(masters) : i < call.at
        BY <3>1, ListFacts
      <3>4. /\ \A i \in 1..Len(plan) : SatDone(plan[i].sat)
            /\ \A i \in 1..Len(masters) : MasterDone(masters[i])
        BY <3>1, <3>3 DEF Inv, Stopped
      <3>5. /\ \A i \in 1..Len(plan) : SatDone(plan[i].sat)'
            /\ \A i \in 1..Len(masters) : MasterDone(masters[i])'
        BY <1>1, <3>1, <3>4 DEF SatDone, MasterDone
      <3> QED BY <1>1, <3>1, <3>2, <3>5 DEF Stopped
    <2> QED BY <2>1, <2>2, <2>3, <2>4, <2>5
  <1> QED BY <1>2, <1>4, <1>8, <1>9, <1>10 DEF Inv

\* What a test does between the calls.
LEMMA TestsKeep ==
  ASSUME Inv, NEW s \in Names, Close(s) \/ SetRow(s)
  PROVE  Inv'
  <1>1. /\ UNCHANGED <<script, masters, relays, loops, plan, wired, files>>
        /\ UNCHANGED <<held, serving, pools, failed>>
        /\ broken' = {} /\ call' \in Calls /\ call'.op = "idle"
    BY CallFacts DEF Close, SetRow, Tests, Building
  <1>2. /\ conn \in [Names -> {"none", "half", "up"}]
        /\ row \in [Names -> {{}} \cup {{r} : r \in Rights}]
    BY DEF Inv, TypeOK
  <1>3. None \in Rights
    BY DEF None, Rights
  <1>4. /\ conn' \in [Names -> {"none", "half", "up"}]
        /\ \A t \in Names : conn'[t] # "none" => conn'[t] = conn[t]
        /\ row' \in [Names -> {{}} \cup {{r} : r \in Rights}]
    BY <1>2, <1>3 DEF Close, SetRow
  <1>5. Ahead' /\ MasterSet' = MasterSet /\ SatSet' = SatSet
    BY <1>1, AheadKeeps
  <1>6. TypeOK'
    BY <1>1, <1>4 DEF Inv, TypeOK
  <1>7. Shape'
    BY <1>1, <1>4, <1>5 DEF Inv, Shape
  <1>8. Started' /\ Stopped'
    BY <1>1 DEF Started, Stopped, Loops
  <1>9. Granted'
    <2>1. \A i \in 1..Len(plan) : plan[i].sat \in Names /\ Follows(plan[i])
      BY ListFacts DEF Inv, Granted
    <2> QED BY <1>1, <1>4, <2>1 DEF Granted, Follows
  <1> QED BY <1>5, <1>6, <1>7, <1>8, <1>9 DEF Inv

-----------------------------------------------------------------------------
\* Building.

\* Lists that grow at the end.
LEMMA Grows ==
  ASSUME Inv, NEW a \in Adds,
         \/ masters' = masters
         \/ masters' = Append(masters, a.name),
         \/ plan' = plan
         \/ plan' = Append(plan, [sat |-> a.name, master |-> a.up, kwargs |-> a.kwargs])
  PROVE  /\ masters' \in Seq(Names)
         /\ plan' \in Seq([sat : Names, master : Names, kwargs : Kw])
         /\ MasterSet' = MasterSet \cup (IF masters' = masters THEN {} ELSE {a.name})
         /\ SatSet' = SatSet \cup (IF plan' = plan THEN {} ELSE {a.name})
         /\ \A i \in 1..Len(plan') :
              \/ i \in 1..Len(plan) /\ plan'[i] = plan[i]
              \/ /\ plan' # plan /\ i = Len(plan) + 1
                 /\ plan'[i] = [sat |-> a.name, master |-> a.up, kwargs |-> a.kwargs]
  <1> DEFINE P == [sat : Names, master : Names, kwargs : Kw]
             c == [sat |-> a.name, master |-> a.up, kwargs |-> a.kwargs]
  <1>1. masters \in Seq(Names) /\ plan \in Seq(P)
    BY DEF Inv, TypeOK
  <1>2. a.name \in Names /\ c \in P /\ c.sat = a.name
    BY DEF Adds
  <1> HIDE DEF P, c
  <1>3. /\ Len(masters) \in Nat /\ Len(plan) \in Nat
        /\ masters # Append(masters, a.name) /\ plan # Append(plan, c)
    BY <1>1, <1>2, Put
  <1>4. masters' \in Seq(Names) /\ MasterSet' = MasterSet \cup (IF masters' = masters THEN {} ELSE {a.name})
    <2>1. CASE masters' = masters
      BY <1>1, <2>1 DEF MasterSet
    <2>2. CASE masters' = Append(masters, a.name)
      <3>1. /\ masters' \in Seq(Names) /\ Len(masters') = Len(masters) + 1
            /\ masters'[Len(masters) + 1] = a.name
            /\ \A i \in 1..Len(masters) : masters'[i] = masters[i]
        BY <1>1, <1>2, <2>2, Put
      <3>2. \A i \in 1..Len(masters') : i \in 1..Len(masters) \/ i = Len(masters) + 1
        BY <1>3, <3>1
      <3>3. /\ Len(masters) + 1 \in 1..Len(masters')
            /\ \A i \in 1..Len(masters) : i \in 1..Len(masters')
        BY <1>3, <3>1
      <3>4. MasterSet' = MasterSet \cup {a.name}
        BY <3>1, <3>2, <3>3 DEF MasterSet
      <3> QED BY <1>3, <2>2, <3>1, <3>4
    <2> QED BY <2>1, <2>2
  <1>5. CASE plan' = plan
    BY <1>1, <1>4, <1>5 DEF SatSet, P, c
  <1>6. CASE plan' = Append(plan, c)
    <2>1. /\ plan' \in Seq(P) /\ Len(plan') = Len(plan) + 1
          /\ plan'[Len(plan) + 1] = c
          /\ \A i \in 1..Len(plan) : plan'[i] = plan[i]
      BY <1>1, <1>2, <1>6, Put
    <2>2. \A i \in 1..Len(plan') : i \in 1..Len(plan) \/ i = Len(plan) + 1
      BY <1>3, <2>1
    <2>3. /\ Len(plan) + 1 \in 1..Len(plan')
          /\ \A i \in 1..Len(plan) : i \in 1..Len(plan')
      BY <1>3, <2>1
    <2>4. SatSet' = SatSet \cup {a.name}
      BY <1>2, <2>1, <2>2, <2>3 DEF SatSet
    <2> QED BY <1>3, <1>4, <1>6, <2>1, <2>2, <2>4 DEF P, c
  <1> QED BY <1>5, <1>6 DEF c

LEMMA AddKeeps == ASSUME Inv, Add PROVE Inv'
  <1>0. PICK a : a = Head(script)
    OBVIOUS
  <1> DEFINE c == [sat |-> a.name, master |-> a.up, kwargs |-> a.kwargs]
  <1>1. /\ script \in Seq(Adds) /\ script # <<>> /\ script' = Tail(script)
        /\ broken' = {} /\ UNCHANGED <<conn, row, held, serving, pools, failed>>
        /\ AddMaster(a) \/ AddSatellite(a) \/ AddRelay(a)
    BY <1>0 DEF Add, Inv, TypeOK
  <1>2. call' \in Calls /\ call'.op = "idle"
    BY CallFacts DEF Add
  <1>3. /\ Len(script) \in Nat /\ Len(script) >= 1 /\ a = script[1] /\ a \in Adds
        /\ script' \in Seq(Adds) /\ Len(script') = Len(script) - 1
        /\ \A i \in 1..Len(script) - 1 : script'[i] = script[i + 1]
    BY <1>0, <1>1, Rest
  <1>4. /\ a.name \in Names /\ a.up \in Names /\ a.kwargs \in Kw
        /\ a.add \in {"master", "relay", "satellite"}
    BY <1>3 DEF Adds
  <1>5. /\ masters' = IF a.add = "satellite" THEN masters ELSE Append(masters, a.name)
        /\ plan' = IF a.add = "master" THEN plan ELSE Append(plan, c)
        /\ wired' = IF a.add = "satellite" THEN wired ELSE wired \cup {a.name}
        /\ loops \subseteq loops' /\ loops' \subseteq loops \cup (IF a.add = "satellite" THEN {} ELSE {a.name})
        /\ relays' \subseteq relays \cup {a.name}
        /\ files' \subseteq files \cup (IF a.add = "master" THEN {} ELSE {<<"sat", a.name>>})
                    \cup (IF a.add = "satellite" THEN {} ELSE {<<"master", a.name>>})
    BY <1>1, <1>4 DEF AddMaster, AddSatellite, AddRelay, AddsMaster, AddsSatellite
  <1>6. masters \in Seq(Names) /\ plan \in Seq([sat : Names, master : Names, kwargs : Kw])
    BY DEF Inv, TypeOK
  <1>7. Len(Append(masters, a.name)) = Len(masters) + 1 /\ Len(Append(plan, c)) = Len(plan) + 1
    <2>1. c \in [sat : Names, master : Names, kwargs : Kw]
      BY <1>4
    <2> QED BY <1>4, <1>6, <2>1, Put
  <1>8. Len(masters) \in Nat /\ Len(plan) \in Nat
    BY ListFacts
  <1>9. Append(masters, a.name) # masters /\ Append(plan, c) # plan
    BY <1>7, <1>8
  <1>10. /\ masters' \in Seq(Names)
         /\ plan' \in Seq([sat : Names, master : Names, kwargs : Kw])
         /\ MasterSet' = MasterSet \cup (IF a.add = "satellite" THEN {} ELSE {a.name})
         /\ SatSet' = SatSet \cup (IF a.add = "master" THEN {} ELSE {a.name})
         /\ \A i \in 1..Len(plan') :
              \/ i \in 1..Len(plan) /\ plan'[i] = plan[i]
              \/ a.add # "master" /\ i = Len(plan) + 1 /\ plan'[i] = c
    <2> HIDE DEF c
    <2>1. /\ a.add = "satellite" => masters' = masters
          /\ a.add # "satellite" => masters' = Append(masters, a.name) /\ masters' # masters
          /\ a.add = "master" => plan' = plan
          /\ a.add # "master" => plan' = Append(plan, c) /\ plan' # plan
      BY <1>5, <1>9
    <2>2. /\ masters' \in Seq(Names)
          /\ plan' \in Seq([sat : Names, master : Names, kwargs : Kw])
          /\ MasterSet' = MasterSet \cup (IF masters' = masters THEN {} ELSE {a.name})
          /\ SatSet' = SatSet \cup (IF plan' = plan THEN {} ELSE {a.name})
          /\ \A i \in 1..Len(plan') :
               \/ i \in 1..Len(plan) /\ plan'[i] = plan[i]
               \/ plan' # plan /\ i = Len(plan) + 1 /\ plan'[i] = c
      BY <1>3, <2>1, Grows DEF c
    <2> QED BY <2>1, <2>2
  <1>11. /\ a.add # "master" => a.up \in MasterSet /\ a.name \notin SatSet
    <2>1. 1 \in 1..Len(script) /\ ~(\E j \in 1..1 - 1 : TRUE)
      BY <1>3
    <2> QED BY <1>3, <2>1 DEF Inv, Ahead
  <1>12. TypeOK'
    <2>1. files' \subseteq Files /\ wired' \subseteq Names /\ relays' \subseteq Names
      BY <1>4, <1>5 DEF Inv, TypeOK, Files
    <2>2. loops' \subseteq Names
      BY <1>4, <1>5 DEF Inv, TypeOK
    <2> QED BY <1>1, <1>2, <1>3, <1>10, <2>1, <2>2 DEF Inv, TypeOK
  <1>13. Ahead'
    <2> SUFFICES ASSUME NEW i \in 1..Len(script'), script'[i].add # "master"
                 PROVE  /\ \/ script'[i].up \in MasterSet'
                           \/ \E j \in 1..i - 1 : script'[j].add # "satellite"
                                                  /\ script'[j].name = script'[i].up
                        /\ script'[i].name \notin SatSet'
                        /\ \A j \in 1..i - 1 : script'[j].add # "master"
                                                 => script'[j].name # script'[i].name
      BY DEF Ahead
    <2>1. i + 1 \in 1..Len(script) /\ script'[i] = script[i + 1]
      BY <1>3
    <2>2. /\ \/ script'[i].up \in MasterSet
             \/ \E j \in 1..(i + 1) - 1 : script[j].add # "satellite"
                                          /\ script[j].name = script'[i].up
          /\ script'[i].name \notin SatSet
          /\ \A j \in 1..(i + 1) - 1 : script[j].add # "master"
                                         => script[j].name # script'[i].name
      BY <2>1 DEF Inv, Ahead
    <2>3. /\ \A j \in 1..i - 1 : script'[j] = script[j + 1] /\ j + 1 \in 1..(i + 1) - 1
          /\ \A j \in 1..(i + 1) - 1 :
               j # 1 => j - 1 \in 1..i - 1 /\ script[j] = script'[j - 1]
          /\ 1 \in 1..(i + 1) - 1
      <3>0. i \in Nat /\ i >= 1 /\ i <= Len(script) - 1
        BY <1>3
      <3>1. \A j \in 1..i - 1 : j \in 1..Len(script) - 1 /\ j + 1 \in 1..(i + 1) - 1
        BY <1>3, <3>0
      <3>2. \A j \in 1..(i + 1) - 1 :
              j # 1 => j - 1 \in 1..i - 1 /\ script[j] = script'[j - 1]
        <4> SUFFICES ASSUME NEW j \in 1..(i + 1) - 1, j # 1
                     PROVE  j - 1 \in 1..i - 1 /\ script[j] = script'[j - 1]
          OBVIOUS
        <4>1. j - 1 \in 1..i - 1 /\ j - 1 \in 1..Len(script) - 1 /\ (j - 1) + 1 = j
          BY <1>3, <3>0
        <4> QED BY <1>3, <4>1
      <3>3. \A j \in 1..i - 1 : script'[j] = script[j + 1]
        BY <1>3, <3>1
      <3>4. 1 \in 1..(i + 1) - 1
        BY <3>0
      <3>5. \A j \in 1..i - 1 : script'[j] = script[j + 1] /\ j + 1 \in 1..(i + 1) - 1
        BY <3>1, <3>3
      <3> QED BY ONLY <3>2, <3>4, <3>5
    <2>4. script'[i].up \in MasterSet'
          \/ \E j \in 1..i - 1 : script'[j].add # "satellite"
                                 /\ script'[j].name = script'[i].up
      <3>1. CASE script'[i].up \in MasterSet
        BY <1>10, <3>1
      <3>2. ASSUME NEW j \in 1..(i + 1) - 1, script[j].add # "satellite",
                   script[j].name = script'[i].up
            PROVE  script'[i].up \in MasterSet'
                   \/ \E k \in 1..i - 1 : script'[k].add # "satellite"
                                          /\ script'[k].name = script'[i].up
        <4>1. CASE j = 1
          BY <1>3, <1>10, <3>2, <4>1
        <4>2. CASE j # 1
          <5>1. j - 1 \in 1..i - 1 /\ script[j] = script'[j - 1]
            BY <2>3, <4>2
          <5> QED BY <3>2, <5>1
        <4> QED BY <4>1, <4>2
      <3> QED BY <2>2, <3>1, <3>2
    <2>5. script'[i].name \notin SatSet'
      BY <1>3, <1>10, <2>2, <2>3
    <2>6. \A j \in 1..i - 1 : script'[j].add # "master"
                                => script'[j].name # script'[i].name
      BY <2>2, <2>3
    <2> QED BY <2>4, <2>5, <2>6
  <1>14. Shape'
    <2>1. \A i \in 1..Len(plan') : plan'[i].master \in MasterSet'
      <3>1. \A i \in 1..Len(plan) : plan[i].master \in MasterSet
        BY DEF Inv, Shape
      <3>2. MasterSet \subseteq MasterSet' /\ c.master = a.up
        BY <1>10
      <3> HIDE DEF c
      <3> QED BY <1>10, <1>11, <3>1, <3>2
    <2>2. \A i \in 1..Len(plan) : plan[i].sat \in SatSet
      BY ListFacts
    <2>3. \A i, j \in 1..Len(plan') : plan'[i].sat = plan'[j].sat => i = j
      <3> SUFFICES ASSUME NEW i \in 1..Len(plan'), NEW j \in 1..Len(plan'),
                          plan'[i].sat = plan'[j].sat
                   PROVE  i = j
        OBVIOUS
      <3>1. CASE i \in 1..Len(plan) /\ plan'[i] = plan[i]
        BY <1>10, <1>11, <2>2, <3>1 DEF Inv, Shape
      <3>2. CASE a.add # "master" /\ i = Len(plan) + 1 /\ plan'[i] = c
        BY <1>10, <1>11, <2>2, <3>2 DEF Inv, Shape
      <3> QED BY <1>10, <3>1, <3>2
    <2>4. /\ loops' \subseteq MasterSet' /\ serving' \subseteq MasterSet'
          /\ wired' \subseteq MasterSet' /\ pools' \subseteq MasterSet'
      BY <1>1, <1>4, <1>5, <1>10 DEF Inv, Shape
    <2>5. files' \subseteq ({"sat"} \X SatSet') \cup ({"master"} \X MasterSet')
      BY <1>4, <1>5, <1>10 DEF Inv, Shape
    <2>6. /\ \A s \in Names : conn'[s] # "none" => s \in SatSet'
          /\ \A s \in Names : conn'[s] = "half" => s \in failed'
      BY <1>1, <1>10 DEF Inv, Shape
    <2> QED BY <2>1, <2>3, <2>4, <2>5, <2>6 DEF Shape
  <1>15. Started' /\ Stopped'
    BY <1>2 DEF Started, Stopped, Loops
  <1>16. Granted'
    <2> SUFFICES ASSUME NEW i \in 1..Len(plan') PROVE Follows(plan[i])'
      BY DEF Granted
    <2>1. CASE i \in 1..Len(plan) /\ plan'[i] = plan[i]
      BY <1>1, <2>1 DEF Inv, Granted, Follows
    <2>2. CASE a.add # "master" /\ plan'[i] = c
      <3>1. conn[a.name] = "none"
        BY <1>4, <1>11, <2>2 DEF Inv, Shape
      <3> QED BY <1>1, <2>2, <3>1 DEF Follows
    <2> QED BY <1>10, <2>1, <2>2
  <1> QED BY <1>12, <1>13, <1>14, <1>15, <1>16 DEF Inv

-----------------------------------------------------------------------------
LEMMA StutterKeeps == ASSUME Inv, UNCHANGED vars PROVE Inv'
  <1>1. Ahead' /\ MasterSet' = MasterSet /\ SatSet' = SatSet
    BY AheadKeeps DEF vars
  <1>2. Shape'
    BY <1>1 DEF vars, Inv, Shape
  <1>3. TypeOK' /\ Started'
    BY DEF vars, Inv, TypeOK, Started
  <1>4. Stopped'
    BY DEF vars, Inv, Stopped, SatDone, MasterDone
  <1>5. Granted'
    BY DEF vars, Inv, Granted, Follows
  <1> QED BY <1>1, <1>2, <1>3, <1>4, <1>5 DEF Inv

\* The invariant of every behaviour of a builder.
THEOREM Invariant == Spec => []Inv
  <1>1. Init => Inv
    BY InvInit
  <1>2. Inv /\ [Next]_vars => Inv'
    BY StutterKeeps, AddKeeps, StartKeeps, ConnectKeeps,
       ConnectRaisesKeeps, StopKeeps, TestsKeep DEF Next
  <1> QED BY <1>1, <1>2, PTL DEF Spec

\* The builder keeps its types, however its calls follow one another and
\* whatever raises in them (start_all, stop_all).
THEOREM TypeCorrect == Spec => []TypeOK
  <1>1. Inv => TypeOK
    BY DEF Inv
  <1> QED BY <1>1, Invariant, PTL

\* After start_all every server runs and every satellite is connected, or is
\* one whose connect raised before and left it half-open (start_all).
THEOREM StartIsComplete == Spec => []StartConnectsAll
  <1>1. ASSUME Inv PROVE StartConnectsAll
    <2> SUFFICES ASSUME call.op = "started" PROVE
                   /\ loops \subseteq serving
                   /\ \A i \in DOMAIN plan :
                        conn[plan[i].sat] = "up"
                        \/ (conn[plan[i].sat] = "half" /\ plan[i].sat \in failed)
      BY DEF StartConnectsAll
    <2>1. DOMAIN plan = 1..Len(plan) /\ conn \in [Names -> {"none", "half", "up"}]
      BY <1>1 DEF Inv, TypeOK
    <2>2. \A i \in 1..Len(plan) : plan[i].sat \in Names /\ conn[plan[i].sat] # "none"
      BY <1>1, ListFacts DEF Inv, Started
    <2>3. \A s \in Names : conn[s] \in {"none", "half", "up"} /\ (conn[s] = "half" => s \in failed)
      BY <1>1, <2>1 DEF Inv, Shape
    <2> QED BY <1>1, <2>1, <2>2, <2>3 DEF Inv, Started
  <1> QED BY <1>1, Invariant, PTL

\* A connection has the rights of the call that planned it, whatever became of
\* the row of its key meanwhile (SatelliteNode.connect).
THEOREM RightsArePlanned == Spec => []RightsFollowThePlan
  <1>1. ASSUME Inv PROVE RightsFollowThePlan
    <2>1. DOMAIN plan = 1..Len(plan)
      BY <1>1 DEF Inv, TypeOK
    <2> QED BY <1>1, <2>1 DEF Inv, Granted, Follows, RightsFollowThePlan
  <1> QED BY <1>1, Invariant, PTL

\* stop_all takes every node of the topology down except what raised, and
\* removes every directory, for any topology (stop_all).
THEOREM StopIsComplete == Spec => []StopReachesEveryNode
  <1>1. ASSUME Inv PROVE StopReachesEveryNode
    <2> SUFFICES ASSUME call.op = "stopped" PROVE LeftOver \subseteq broken /\ files = {}
      BY DEF StopReachesEveryNode
    <2>1. /\ \A i \in 1..Len(plan) : SatDone(plan[i].sat)
          /\ \A i \in 1..Len(masters) : MasterDone(masters[i])
      BY <1>1 DEF Inv, Stopped
    <2>2. /\ \A s \in SatSet : SatDone(s)
          /\ \A m \in MasterSet : MasterDone(m)
      BY <1>1, <2>1, ListFacts
    <2>3. files = {}
      <3>1. ASSUME NEW f \in files PROVE FALSE
        <4>1. CASE f \in {"sat"} \X SatSet
          <5>1. f = <<"sat", f[2]>> /\ f[2] \in SatSet
            BY <4>1
          <5> QED BY <2>2, <3>1, <5>1 DEF SatDone
        <4>2. CASE f \in {"master"} \X MasterSet
          <5>1. f = <<"master", f[2]>> /\ f[2] \in MasterSet
            BY <4>2
          <5> QED BY <2>2, <3>1, <5>1 DEF MasterDone
        <4> QED BY <1>1, <4>1, <4>2 DEF Inv, Shape
      <3> QED BY <3>1
    <2>4. /\ {"network"} \X serving \subseteq broken
          /\ {"agent"} \X wired \subseteq broken
          /\ {"pool"} \X pools \subseteq broken
      <3>1. /\ \A m \in serving : <<"network", m>> \in broken
            /\ \A m \in wired : <<"agent", m>> \in broken
            /\ \A m \in pools : <<"pool", m>> \in broken
        BY <1>1, <2>2 DEF Inv, Shape, MasterDone
      <3> QED BY <3>1
    <2>5. \A s \in Names : conn[s] # "none" => <<"conn", s>> \in broken
      BY <1>1, <2>2 DEF Inv, Shape, SatDone
    <2> QED BY <2>3, <2>4, <2>5 DEF LeftOver
  <1> QED BY <1>1, Invariant, PTL

=============================================================================
