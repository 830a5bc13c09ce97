--------------------------- MODULE ProbeAssertions ---------------------------
(* The assertion helpers that wait for traffic and judge it (assertions.py, and  *)
(* the two waits of plugins/ovoscope_agent.py).  One test thread takes a mark,   *)
(* emits a probe and calls a helper; the helper polls the recorders while the    *)
(* traffic of this probe, and of earlier ones, is still arriving.  hivemind-core *)
(* is the system under test: it may drop, misroute or reorder what it handles,   *)
(* and it admits or refuses a message as its policy pleases.                     *)
EXTENDS Integers, Sequences, FiniteSets, SequencesExt

CONSTANTS
  Satellites,     \* satellites of one master
  Master,         \* the master's node, whose recorder also holds bus_inject
  NoPeer,         \* peer of a satellite that is not connected
  Kinds,          \* OVOS message types
  NoKind,         \* a denial that echoes no type
  Count,          \* messages a probe for each helper sends, and the helper asks for
  Timeout,        \* ticks a helper waits
  Settle,         \* ticks assert_destination_routed waits for a misroute
  MaxProbes, MaxClock

\* The helpers that are modelled.  Those in Relooks look once more after their loop.
Polls == {"query", "ping", "routed", "fifo", "emission", "last"}
Relooks == {"routed", "fifo", "last"}
Helpers == Polls \cup {"destination", "acl"}

ASSUME ConstantsAssumption ==
  /\ Count \in [Helpers -> Nat \ {0}]
  /\ Master \notin Satellites /\ NoPeer \notin Satellites /\ NoKind \notin Kinds
  /\ Timeout \in Nat \ {0} /\ Settle \in Nat \ {0}
  /\ MaxProbes \in Nat /\ MaxClock \in Nat \ {0}

VARIABLES
  loopback,       \* traffic arrives on a server thread, after send returned
  clock,          \* time.monotonic()
  rec,            \* the records of every node, in the order they were appended
  up, down,       \* what each satellite sent, and what was sent to it, in transit
  gone,           \* satellites that disconnected: their peer is None
  call            \* the probe and the helper the test thread is in

vars == <<loopback, clock, rec, up, down, gone, call>>

Nodes == Satellites \cup {Master}
NoMark == 0       \* since=None

\* A recorded message.  probe is what caused it, which for a PING is its flood_id;
\* body is "denied" for a hive.policy.denied, and on a bus_inject what the policy
\* then did with the message, which no helper reads.
Message(type, kind, body, peer, probe, seq) ==
  [type |-> type, kind |-> kind, body |-> body, peer |-> peer, probe |-> probe, seq |-> seq]
Stamped(m, dir) ==
  [type |-> m.type, kind |-> m.kind, body |-> m.body, peer |-> m.peer,
   probe |-> m.probe, seq |-> m.seq, dir |-> dir, at |-> clock]
Wrote(n, records) == [rec EXCEPT ![n] = @ \o records]

Idle == [pc |-> "idle", helper |-> "routed", sat |-> Master, kind |-> NoKind, peer |-> NoPeer,
         probe |-> 0, since |-> NoMark, deadline |-> 0, clean |-> TRUE, strict |-> TRUE,
         allowed |-> TRUE, window |-> 0, left |-> {}, bad |-> FALSE]

Init ==
  /\ loopback \in BOOLEAN
  /\ clock = 1
  /\ rec = [n \in Nodes |-> <<>>]
  /\ up = [s \in Satellites |-> <<>>] /\ down = [s \in Satellites |-> <<>>]
  /\ gone = {}
  /\ call = Idle

Drained == \A s \in Satellites : up[s] = <<>> /\ down[s] = <<>>
Free == call.pc \in {"idle", "passed", "failed"}

-----------------------------------------------------------------------------
\* What the helpers read out of a recorder: places in the records of a node.

\* _find: the records of a type, in one direction.
Find(n, type, dir) == {i \in DOMAIN rec[n] : rec[n][i].type = type /\ rec[n][i].dir = dir}

\* The records at or after the caller's mark, all of them without one.
Since(n, places) == {i \in places : rec[n][i].at >= call.since}

\* The QUERY frames that carry an answer.
Answers ==
  {i \in Since(call.sat, Find(call.sat, "query", "in")) : rec[call.sat][i].body = "answer"}

\* The PING floods the satellite received: those of its own flood if it has an id.
Pings(n, dir) == Since(n, Find(n, "propagate", dir))
Responses ==
  LET flood == rec[call.sat][Min(Pings(call.sat, "out"))].probe
  IN  {i \in Pings(call.sat, "in") : rec[call.sat][i].probe = flood}

\* The injections of the satellite's peer, of the type under test.
Injections(c) == {i \in Find(Master, c.kind, "bus_inject") : rec[Master][i].peer = c.peer}

\* agent.injected: what was emitted on the agent bus, of any peer.
Injected == {i \in Find(Master, call.kind, "bus_inject") : rec[Master][i].body = "admitted"}

Denials(s) == {i \in Find(s, "bus", "in") : rec[s][i].body = "denied"}

\* Faulty variant: a denial of any type counts.
DeniedRecordsAny(c) == Denials(c.sat)

\* _denied_records: the denials that echo the type; those that name none count
\* only when the caller is not strict and nothing better matched.
DeniedRecords(c) ==
  LET echoing(kind) == {i \in Denials(c.sat) : rec[c.sat][i].kind = kind}
  IN  IF echoing(c.kind) # {} \/ c.strict THEN echoing(c.kind) ELSE echoing(NoKind)

\* What a polling helper looks for, how much of it, and whether it has it.
EvidenceAt == IF call.helper \in {"query", "ping", "routed"} THEN call.sat ELSE Master
Evidence ==
  CASE call.helper = "query"    -> Answers
    [] call.helper = "ping"     -> Responses
    [] call.helper = "routed"   -> Find(call.sat, "bus", "in")
    [] call.helper = "fifo"     -> Injections(call)
    [] OTHER                    -> Injected
Needed == IF call.helper \in {"ping", "last"} THEN 1 ELSE Count[call.helper]
Enough == Cardinality(Evidence) >= Needed

-----------------------------------------------------------------------------
\* The probes, and the traffic they cause.

\* The bound: after the last verdict nothing happens any more.
Unjudged == ~Free \/ call.probe < MaxProbes

\* The type of a probe is of interest where a helper asks for it, and so is the mark.
KindsOf(h) == IF h \in {"fifo", "emission", "last", "acl"} THEN Kinds ELSE {NoKind}
MarksOf(h) == IF h \in {"query", "ping", "destination"} THEN {NoMark, clock} ELSE {NoMark}

\* No query of a satellite is in transit, and no answer to one.
NoQueries(s) ==
  /\ \A i \in DOMAIN up[s] : up[s][i].type # "query"
  /\ \A i \in DOMAIN down[s] : down[s][i].type # "query"

\* The test thread marks the time, if it passes a mark at all, and emits: the clock
\* has moved since the last record, and in process nothing is left in transit.
\* clean is for the properties: no query was in transit at the mark.
Probe(h, s, k) ==
  /\ Free /\ call.probe < MaxProbes /\ s \notin gone
  /\ loopback \/ Drained
  /\ \A n \in Nodes : \A i \in DOMAIN rec[n] : rec[n][i].at < clock
  /\ \E mark \in MarksOf(h) :
       call' = [Idle EXCEPT !.pc = "sent", !.helper = h, !.sat = s, !.kind = k, !.peer = s,
                               !.probe = call.probe + 1, !.clean = NoQueries(s), !.since = mark]
  /\ UNCHANGED <<loopback, clock, gone>>

\* A satellite sends: PING floods, queries, or messages for the bus.
ProbeUp(h, s) ==
  \E k \in KindsOf(h) :
    LET type == CASE h = "ping" -> "propagate" [] h = "query" -> "query" [] OTHER -> "bus"
        sent == [i \in 1..Count[h] |-> Message(type, k, "probe", s, call.probe + 1,
                                        IF h = "fifo" THEN i ELSE 0)]
    IN  /\ h \notin {"routed", "destination"}
        /\ Probe(h, s, k)
        /\ rec' = Wrote(s, [i \in 1..Count[h] |-> Stamped(sent[i], "out")])
        /\ up' = [up EXCEPT ![s] = @ \o sent]
        /\ UNCHANGED down

\* The master emits messages, which reach whomever it routes them to.
ProbeDown(h, s) ==
  \E reached \in SUBSET (Satellites \ gone) :
    LET sent == [i \in 1..Count[h] |-> Message("bus", NoKind, "probe", Master, call.probe + 1, 0)]
    IN  /\ h \in {"routed", "destination"}
        /\ Probe(h, s, NoKind)
        /\ down' = [o \in Satellites |-> IF o \in reached THEN down[o] \o sent ELSE down[o]]
        /\ UNCHANGED <<rec, up>>

\* The master handles a frame of s, not always the first: it answers a query or a
\* PING, or fails to; it injects a message, and then its policy admits or refuses it
\* (one with a marker it admits: no helper relates markers and denials).
MasterHandles(s) ==
  \E i \in DOMAIN up[s] :
    LET m == up[s][i]
        answer == IF m.type = "query" THEN [m EXCEPT !.body = "answer", !.peer = Master]
                                      ELSE [m EXCEPT !.peer = Master]
    IN  /\ Unjudged
        /\ up' = [up EXCEPT ![s] = RemoveAt(@, i)]
        /\ \/ /\ m.type # "bus"
              /\ rec' = Wrote(Master, <<Stamped(m, "in")>>)
              /\ \E sent \in {<<>>, <<answer>>} : down' = [down EXCEPT ![s] = @ \o sent]
           \/ /\ m.type = "bus"
              /\ \E fate \in IF m.seq = 0 THEN {"admitted", "refused"} ELSE {"admitted"},
                    echo \in {m.kind, NoKind} :
                   LET injected == [m EXCEPT !.type = m.kind, !.body = fate]
                       denial == Message("bus", echo, "denied", Master, m.probe, 0)
                   IN  /\ rec' = Wrote(Master, <<Stamped(m, "in"), Stamped(injected, "bus_inject")>>)
                       /\ down' = IF fate = "admitted" THEN down
                                  ELSE [down EXCEPT ![s] = Append(@, denial)]
        /\ UNCHANGED <<loopback, clock, gone, call>>

SatelliteReceives(s) ==
  /\ Unjudged /\ down[s] # <<>>
  /\ rec' = Wrote(s, <<Stamped(Head(down[s]), "in")>>)
  /\ down' = [down EXCEPT ![s] = Tail(@)]
  /\ UNCHANGED <<loopback, clock, up, gone, call>>

\* A satellite that disconnects before the call has no peer, and what was in transit
\* is lost.
Disconnect(s) ==
  /\ call.pc = "sent" /\ s \notin gone
  /\ gone' = gone \cup {s}
  /\ up' = [up EXCEPT ![s] = <<>>] /\ down' = [down EXCEPT ![s] = <<>>]
  /\ UNCHANGED <<loopback, clock, rec, call>>

Tick ==
  /\ Unjudged /\ clock < MaxClock
  /\ clock' = clock + 1
  /\ UNCHANGED <<loopback, rec, up, down, gone, call>>

-----------------------------------------------------------------------------
\* The helpers.  In process the call comes after everything was delivered, and its
\* peer is the satellite's at that time.

Called(h) ==
  /\ call.pc = "sent" /\ call.helper = h
  /\ loopback \/ Drained
  /\ clock + Timeout + Settle <= MaxClock
  /\ UNCHANGED <<loopback, clock, rec, up, down, gone>>

Goes(pc) ==
  call' = [call EXCEPT !.pc = pc, !.deadline = clock + Timeout,
                       !.peer = IF call.sat \in gone THEN NoPeer ELSE call.sat]

\* The requests are counted at once, only the answers are waited for.
AssertQueryRouted ==
  /\ Called("query")
  /\ Goes(IF Cardinality(Since(Master, Find(Master, "query", "in"))) = Count["query"]
          THEN "look" ELSE "failed")

AssertPingResponded ==
  /\ Called("ping")
  /\ Goes(IF Pings(call.sat, "out") # {} /\ Pings(Master, "in") # {} THEN "look" ELSE "failed")

AssertMessageRouted == Called("routed") /\ Goes("look")
AssertFifoOrder == Called("fifo") /\ Goes("look")
WaitForSkillEmission == Called("emission") /\ Goes("look")
WaitLastInjected == Called("last") /\ Goes("check")
\* Faulty variant: the target is polled for like any other record.
AssertDestinationPolls == Called("destination") /\ Goes("look")

\* A lookup of assert_destination_routed's wait for its target: any record will do,
\* new or old.  Found, a pause for a late misroute begins.
TargetLookup(deadline) ==
  LET found == Find(call.sat, "bus", "in")
  IN  \/ /\ found # {}
         /\ call' = [call EXCEPT !.pc = "settle", !.deadline = clock + Settle,
                                 !.window = IF call.since # NoMark THEN call.since
                                            ELSE rec[call.sat][Max(found)].at - Settle]
      \/ /\ found = {}
         /\ call' = [call EXCEPT !.pc = "again", !.deadline = deadline]

\* The call, as far as the first lookup of wait_for, from which the timeout runs.
AssertDestinationRouted == Called("destination") /\ TargetLookup(clock + Timeout)

\* assert_acl_enforced: any type may be asked about.  Without a peer, an allowed
\* message may be anybody's.
AclHolds(c) ==
  IF c.allowed
  THEN /\ DeniedRecords(c) = {}
       /\ \E i \in Find(Master, c.kind, "bus_inject") : c.peer \in {NoPeer, rec[Master][i].peer}
  ELSE DeniedRecords(c) # {}

AssertAclEnforced ==
  \E k \in Kinds, allowed \in BOOLEAN, strict \in BOOLEAN :
    LET c == [call EXCEPT !.kind = k, !.allowed = allowed, !.strict = strict,
                          !.peer = IF call.sat \in gone THEN NoPeer ELSE call.sat]
    IN  /\ Called("acl")
        /\ call' = [c EXCEPT !.pc = IF AclHolds(c) THEN "passed" ELSE "failed"]

Running(pc) ==
  call.pc = pc /\ UNCHANGED <<loopback, clock, rec, up, down, gone>>

Look ==
  /\ Running("look")
  /\ call' = [call EXCEPT !.pc = IF ~Enough THEN "check"
                                 ELSE IF call.helper \in {"routed", "fifo"} THEN "final"
                                 ELSE "passed"]

\* Faulty variant: the records of the last look decide.
CheckDeadlineGivesUp ==
  /\ Running("check")
  /\ call' = [call EXCEPT !.pc = IF clock < call.deadline THEN "look" ELSE "failed"]

CheckDeadline ==
  /\ Running("check")
  /\ call' = [call EXCEPT !.pc = IF clock < call.deadline THEN "look"
                                 ELSE IF call.helper \in Relooks THEN "final"
                                 ELSE "failed"]

\* Faulty variant: the first records, stale ones of an earlier probe.
FirstOf(places, n) == {i \in places : Cardinality({j \in places : j < i}) < n}

\* The last injections, as many as were sent, have to carry strictly increasing markers.
LastOf(places, n) == {i \in places : Cardinality({j \in places : j > i}) < n}

InSendOrder ==
  LET batch == LastOf(Injections(call), Count["fifo"])
  IN  /\ Cardinality(batch) = Count["fifo"]
      /\ \A i \in batch : rec[Master][i].seq # 0
      /\ \A i, j \in batch : i < j => rec[Master][i].seq < rec[Master][j].seq

FinalLook ==
  /\ Running("final")
  /\ LET holds == CASE call.helper = "routed" -> Cardinality(Evidence) = Needed
                    [] call.helper = "fifo"   -> InSendOrder
                    [] OTHER                  -> Enough
     IN  call' = [call EXCEPT !.pc = IF holds THEN "passed" ELSE "failed"]

\* A lookup of wait_for is followed by the test of the deadline, which returns None
\* without another one; else the thread blocks, until its event is set (a record of
\* the type came, in any direction) or the time is up, and looks again.
WaitExpires ==
  /\ Running("again")
  /\ call' = [call EXCEPT !.pc = IF clock < call.deadline THEN "wait" ELSE "failed"]

WaitTarget == Running("wait") /\ TargetLookup(call.deadline)

SettleEnds ==
  /\ Running("settle") /\ clock >= call.deadline
  /\ call' = [call EXCEPT !.pc = "others", !.left = Satellites \ {call.sat}]

LookAtOther(o) ==
  /\ Running("others") /\ o \in call.left
  /\ LET found == {i \in Find(o, "bus", "in") : rec[o][i].at >= call.window}
     IN  call' = [call EXCEPT !.left = @ \ {o}, !.bad = @ \/ found # {}]

JudgeRouting ==
  /\ Running("others") /\ call.left = {}
  /\ call' = [call EXCEPT !.pc = IF call.bad THEN "failed" ELSE "passed"]

Next ==
  \/ \E h \in Helpers, s \in Satellites : ProbeUp(h, s) \/ ProbeDown(h, s)
  \/ \E s \in Satellites :
       MasterHandles(s) \/ SatelliteReceives(s) \/ Disconnect(s) \/ LookAtOther(s)
  \/ AssertQueryRouted \/ AssertPingResponded \/ AssertMessageRouted
  \/ AssertFifoOrder \/ WaitForSkillEmission \/ WaitLastInjected
  \/ AssertDestinationRouted \/ AssertAclEnforced
  \/ Look \/ CheckDeadline \/ FinalLook
  \/ WaitTarget \/ WaitExpires \/ SettleEnds \/ JudgeRouting
  \/ Tick

Spec == Init /\ [][Next]_vars

-----------------------------------------------------------------------------
\* Type correctness: no helper reads a peer, a mark or a record that is not there.
TypeOK ==
  /\ loopback \in BOOLEAN /\ clock \in 1..MaxClock
  /\ gone \subseteq Satellites
  /\ \A n \in Nodes : \A i \in DOMAIN rec[n] :
       LET r == rec[n][i]
       IN  /\ r.dir \in {"in", "out"} \/ (r.dir = "bus_inject" /\ n = Master)
           /\ r.at \in 1..clock /\ r.probe \in 1..call.probe
           /\ r.peer \in Nodes
           /\ i > 1 => rec[n][i - 1].at <= r.at
  /\ call.pc \in {"idle", "sent", "look", "check", "final", "wait", "again", "settle",
                  "others", "passed", "failed"}
  /\ call.helper \in Helpers
  /\ call.pc \in {"look", "check", "final"} => call.helper \in Polls
  /\ call.pc \in {"wait", "again", "settle", "others"} => call.helper = "destination"
  /\ call.left \subseteq Satellites \ {call.sat}

Own(n, dir, type) == {i \in Find(n, type, dir) : rec[n][i].probe = call.probe}

\* What the pass of a marked probe rests on.  A PING was answered by its own flood,
\* whatever is still in transit; a query by its own answers, unless an earlier query
\* of the satellite was in transit at the mark; and a message with a destination
\* reached none of the others before the pause was over, however late it comes
\* there.  Whether it reached its target is not known: the receipt that ended the
\* wait may be of an earlier one (assertions.py 776-948, 1135-1212).
MarkedIsEarned ==
  call.pc = "passed" /\ call.since # NoMark =>
    /\ call.helper = "ping" => Own(call.sat, "in", "propagate") # {}
    /\ call.helper = "query" /\ call.clean =>
         Cardinality(Own(call.sat, "in", "query")) >= Needed
    /\ call.helper = "destination" =>
         \A o \in Satellites \ {call.sat} :
           \A i \in Own(o, "in", "bus") : rec[o][i].at >= call.deadline

\* The injections of this probe.
Batch == {i \in Injections(call) : rec[Master][i].probe = call.probe}

\* assert_fifo_order passes only if what the satellite sent was injected completely
\* and in the order it was sent, although the records hold earlier traffic of its
\* type and marker: in process, and over loopback if that traffic is of other
\* peers or types (assertions.py 1562-1643).
BatchInOrder ==
  /\ call.pc = "passed" /\ call.helper = "fifo"
  /\ ~loopback \/ Injections(call) = Batch
  => /\ {rec[Master][i].seq : i \in Batch} = 1..Needed
     /\ \A i, j \in Batch : i < j => rec[Master][i].seq < rec[Master][j].seq

\* A pass is earned by the probe it is about, stale traffic in the records or not.
PassIsEarned == MarkedIsEarned /\ BatchInOrder

\* What assert_acl_enforced finds of a connected satellite in process is what the
\* policy did: "allowed" means that every message of the type was admitted, if the
\* policy says which type it denies or the caller is not strict; "denied" that one
\* was refused, of that type if the caller is strict.  It says nothing of what was
\* injected, which is recorded before the policy sees it (assertions.py 105-170, 468-535).
Fates(kinds) ==
  {rec[Master][i].body : i \in {j \in UNION {Find(Master, k, "bus_inject") : k \in kinds} :
                                  rec[Master][j].peer = call.peer}}
AdmissionJudged ==
  call.helper = "acl" /\ call.pc = "passed" /\ ~loopback /\ call.peer # NoPeer =>
    LET echoed == \A i \in Denials(call.sat) : rec[call.sat][i].kind # NoKind
    IN  /\ call.allowed /\ (echoed \/ ~call.strict) => Fates({call.kind}) = {"admitted"}
        /\ ~call.allowed => "refused" \in Fates(IF call.strict THEN {call.kind} ELSE Kinds)

\* A helper that looks again after its loop never fails for want of what was recorded
\* before its deadline, even between its last look in the loop and the deadline
\* (assertions.py 707-726, 1586-1604; ovoscope_agent.py 226-242).  The wait for a
\* target does not look again (recorder.py 75-84): it fails only if the target had
\* recorded nothing before the call, and may miss what came as its time ran out.
InTime(n, places) == {i \in places : rec[n][i].at < call.deadline}
FailIsLate ==
  [][ call.pc \in {"check", "final", "again"} /\ call.helper \in Relooks \cup {"destination"}
      /\ call'.pc = "failed" =>
        LET early == InTime(EvidenceAt, Evidence)
        IN  CASE call.helper = "destination" ->
                   \A i \in Find(call.sat, "bus", "in") :
                     rec[call.sat][i].at >= call.deadline - Timeout
              [] call.helper = "routed" ->
                   Cardinality(early) < Needed \/ Cardinality(Evidence) > Needed
              [] call.helper = "fifo" -> Cardinality(early) < Needed \/ ~InSendOrder
              [] OTHER -> early = {} ]_vars

=============================================================================
