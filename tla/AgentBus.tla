------------------------------ MODULE AgentBus ------------------------------
(***************************************************************************)
(* TestAgentProtocol and OvoscopeAgentProtocol (plugins/agent.py,          *)
(* plugins/ovoscope_agent.py): protocols that share an OVOS bus.  Each     *)
(* wraps bus.emit, and a wrapper calls the emit it found: layers is that   *)
(* chain.  Each also routes emissions back to the peers of its listener,   *)
(* and runs queries that the skills on the bus answer.                     *)
(*                                                                         *)
(* An emission is rooted in the pump when emit_on_bus made it: the sends   *)
(* of its handlers are queued.  Otherwise, a skill's thread or a bare      *)
(* bus.emit, each send drains the pump, and the deliveries may connect and *)
(* disconnect peers or emit again, before the handler goes on.  One thread *)
(* drives the listeners.                                                   *)
(***************************************************************************)
EXTENDS Integers, Sequences, SequencesExt, FiniteSets

CONSTANTS
  Protocols, NoProtocol,
  Peers, Home,   \* Home[c]: the protocol whose listener peer c connects to
  Queries,
  MaxDepth,      \* bound: emissions nested in one another, errors apart
  MaxChunks      \* bound: chunks an agent speaks to a query

ASSUME ConstantsAssumption ==
  /\ NoProtocol \notin Protocols
  /\ Home \in [Peers -> Protocols]
  /\ IsFiniteSet(Peers)
  /\ MaxDepth \in Nat /\ MaxChunks \in Nat

VARIABLES
  layers,     \* the wrappers of bus.emit, outermost first
  live,       \* the protocols subscribed to the bus
  clients,    \* the connected peers (hm_protocol.clients of all protocols)
  emits,      \* the emissions under way, the innermost first
  query       \* the natural_language_query generators

vars == <<layers, live, clients, emits, query>>

ClientsOf(p) == {c \in clients : Home[c] = p}

(***************************************************************************)
(* kind: "routed" has a context destination, to, "fanout" is a             *)
(* hive.send.downstream of PROPAGATE or BROADCAST, "targeted" one of any   *)
(* other type to the peer of to, "other" routes nothing: ESCALATE, and a   *)
(* message without destination.  at is the protocol whose handler iterates *)
(* over its clients, of which there were size; todo are those to come.     *)
(* For a rooted emission, reached are the peers sent to and owed those     *)
(* connected and addressed when it began (history).                        *)
(***************************************************************************)
Kinds == {"routed", "fanout", "targeted", "other"}

Emissions == [kind : Kinds, to : SUBSET Peers, rooted : BOOLEAN,
              todo : SUBSET Protocols, at : Protocols \cup {NoProtocol},
              size : Nat, seen : SUBSET Peers, reached : SUBSET Peers,
              owed : SUBSET Peers]

(***************************************************************************)
(* A generator is asking inside bus.emit, waiting in q.get, paused at the  *)
(* yield of a chunk or ending at that of the sentinel.  box is q, 0 its    *)
(* None; got the chunks its consumer has; spoken counts the agent's.       *)
(***************************************************************************)
Phases == {"new", "asking", "waiting", "paused", "ending", "over"}

Generators == [phase : Phases, subscribed : BOOLEAN, box : Seq(0..MaxChunks),
               got : Seq(1..MaxChunks), spoken : 0..MaxChunks,
               handled : BOOLEAN, clean : BOOLEAN]

TypeOK ==
  /\ layers \in Seq(Protocols)
  /\ live \subseteq Protocols
  /\ clients \subseteq Peers
  /\ emits \in Seq(Emissions)
  /\ query \in [Queries -> Generators]

Init ==
  /\ layers = <<>> /\ live = {} /\ clients = {}
  /\ emits = <<>>
  /\ query = [q \in Queries |->
       [phase |-> "new", subscribed |-> FALSE, box |-> <<>>, got |-> <<>>,
        spoken |-> 0, handled |-> FALSE, clean |-> FALSE]]

-----------------------------------------------------------------------------
(* Wiring.  Tests wire and shut down protocols between emissions.          *)

(* __post_init__ wraps the emit found on the bus, whose wrapper may be a   *)
(* dead protocol's, and subscribes.                                        *)
Wire(p) ==
  /\ p \notin live \cup Range(layers) /\ emits = <<>>
  /\ layers' = <<p>> \o layers
  /\ live' = live \cup {p}
  /\ UNCHANGED <<clients, emits, query>>

(* Faulty variant: the emit found at the wiring is always put back.        *)
ShutdownRestores(p) ==
  /\ p \in live /\ emits = <<>>
  /\ live' = live \ {p}
  /\ LET i == CHOOSE i \in DOMAIN layers : layers[i] = p
     IN  layers' = SubSeq(layers, i + 1, Len(layers))
  /\ UNCHANGED <<clients, emits, query>>

(* shutdown unsubscribes, and unwraps only the outermost wrapper; a second *)
(* one changes nothing.                                                    *)
Shutdown(p) ==
  /\ p \in live /\ emits = <<>>
  /\ live' = live \ {p}
  /\ layers' = IF Head(layers) = p THEN Tail(layers) ELSE layers
  /\ UNCHANGED <<clients, emits, query>>

-----------------------------------------------------------------------------
(* Emissions and reverse routing.                                          *)

Top == Head(emits)

(* Faulty variant: emit_on_bus emits without rooting the pump.             *)
OpenAlways == TRUE

(* The sends of the emission under way drain the pump: only emit_on_bus    *)
(* roots it.                                                               *)
Open == emits # <<>> => ~Top.rooted

Addressed(kind, to) == IF kind = "fanout" THEN Peers
                       ELSE IF kind = "other" THEN {} ELSE to

Emission(kind, to, rooted) ==
  [kind |-> kind, to |-> to, rooted |-> rooted,
   todo |-> IF kind = "other" THEN {} ELSE live, at |-> NoProtocol,
   size |-> 0, seen |-> {}, reached |-> {},
   owed |-> IF rooted THEN Addressed(kind, to) \cap
                             {c \in clients : Home[c] \in live}
            ELSE {}]

(* bus.emit, by a skill or a test, or by a delivery an open emission made. *)
Emit(kind, to) ==
  /\ Open /\ Len(emits) < MaxDepth
  /\ emits' = <<Emission(kind, to, FALSE)>> \o emits
  /\ UNCHANGED <<layers, live, clients, query>>

(* emit_on_bus roots the emission in the pump.                             *)
EmitOnBus(kind, to) ==
  /\ Open /\ Len(emits) < MaxDepth
  /\ emits' = <<Emission(kind, to, TRUE)>> \o emits
  /\ UNCHANGED <<layers, live, clients, query>>

(* A peer connects or leaves, between emissions or in a delivery that a    *)
(* send of an open one made.                                               *)
Connect(c) ==
  /\ c \notin clients /\ Home[c] \in live
  /\ Open
  /\ clients' = clients \cup {c}
  /\ UNCHANGED <<layers, live, emits, query>>

Disconnect(c) ==
  /\ c \in clients
  /\ Open
  /\ clients' = clients \ {c}
  /\ UNCHANGED <<layers, live, emits, query>>

(* What the steps of the handlers of the innermost emission leave alone.   *)
Routing(e) == /\ emits' = <<e>> \o Tail(emits)
              /\ UNCHANGED <<layers, live, clients,
                             query>>

(* handle_internal_mycroft and handle_send begin to iterate self.clients.  *)
HandlerStarts(p) ==
  /\ emits # <<>> /\ Top.at = NoProtocol /\ p \in Top.todo
  /\ Top.kind \in {"routed", "fanout"}
  /\ Routing([Top EXCEPT !.at = p, !.todo = @ \ {p}, !.seen = {},
                         !.size = Cardinality(ClientsOf(p))])

Sent(C) == IF Top.rooted THEN C ELSE {}

Unchanged(p) == Cardinality(ClientsOf(p)) = Top.size

(* The next client: one of the addressed peers is sent the message.        *)
SendNext(c) ==
  /\ emits # <<>> /\ Top.at # NoProtocol /\ Unchanged(Top.at)
  /\ c \in ClientsOf(Top.at) \ Top.seen
  /\ Routing([Top EXCEPT !.seen = @ \cup {c},
                         !.reached = @ \cup Sent({c} \cap Addressed(Top.kind, Top.to))])

HandlerReturns ==
  /\ emits # <<>> /\ Top.at # NoProtocol /\ Unchanged(Top.at)
  /\ ClientsOf(Top.at) \subseteq Top.seen
  /\ Routing([Top EXCEPT !.at = NoProtocol])

(* A dict that changed size raises; callers up to some level are unwound.  *)
HandlerRaises ==
  /\ emits # <<>> /\ Top.at # NoProtocol /\ ~Unchanged(Top.at)
  /\ \E n \in 2..Len(emits) + 1 : emits' = SubSeq(emits, n, Len(emits))
  /\ UNCHANGED <<layers, live, clients, query>>

(* handle_send of one peer: sent to it, or an error emitted on the bus by  *)
(* every protocol that does not have the peer.                             *)
SendTargeted(p) ==
  /\ emits # <<>> /\ Top.kind = "targeted" /\ p \in Top.todo
  /\ LET e == [Top EXCEPT !.todo = @ \ {p}] IN
     IF Top.to \subseteq ClientsOf(p)
     THEN Routing([e EXCEPT !.reached = @ \cup Sent(Top.to)])
     ELSE /\ emits' = <<Emission("other", {}, Top.rooted), e>> \o Tail(emits)
          /\ UNCHANGED <<layers, live, clients, query>>

EmitReturns ==
  /\ emits # <<>> /\ Top.at = NoProtocol /\ Top.todo = {}
  /\ emits' = Tail(emits)
  /\ UNCHANGED <<layers, live, clients, query>>

-----------------------------------------------------------------------------
(* natural_language_query, one generator for each query_id.                *)

SetQuery(q, g) == query' = [query EXCEPT ![q] = g]

Quiet == UNCHANGED <<layers, live, clients, emits>>

(* Faulty variant: the handlers are subscribed after the utterance.        *)
AskFirst(q) ==
  /\ query[q].phase = "new"
  /\ SetQuery(q, [query[q] EXCEPT !.phase = "asking"])
  /\ Quiet

(* Subscribe and emit the utterance, which a skill may answer before emit  *)
(* returns.                                                                *)
Ask(q) ==
  /\ query[q].phase = "new"
  /\ SetQuery(q, [query[q] EXCEPT !.phase = "asking", !.subscribed = TRUE])
  /\ Quiet

Asked(q) ==
  /\ query[q].phase = "asking"
  /\ SetQuery(q, [query[q] EXCEPT !.phase = "waiting", !.subscribed = TRUE])
  /\ Quiet

(* _on_speak and _on_done: what a subscribed generator hears.              *)
Heard(q, x) == IF query[q].subscribed THEN Append(query[q].box, x)
               ELSE query[q].box

Speak(q) ==
  /\ query[q].phase # "new" /\ ~query[q].handled
  /\ query[q].spoken < MaxChunks
  /\ SetQuery(q, [query[q] EXCEPT !.spoken = @ + 1,
                                  !.box = Heard(q, query[q].spoken + 1)])
  /\ Quiet

Handled(q) ==
  /\ query[q].phase # "new" /\ ~query[q].handled
  /\ SetQuery(q, [query[q] EXCEPT !.handled = TRUE, !.box = Heard(q, 0)])
  /\ Quiet

(* Faulty variant: the sentinel is not told from a chunk.                  *)
GetAny(q) ==
  /\ query[q].phase = "waiting" /\ query[q].box # <<>>
  /\ SetQuery(q, [query[q] EXCEPT
       !.phase = "paused", !.box = Tail(@), !.got = Append(@, Head(query[q].box))])
  /\ Quiet

(* A chunk arrives before the timeout and is yielded.                      *)
Get(q) ==
  /\ query[q].phase = "waiting" /\ query[q].box # <<>> /\ Head(query[q].box) # 0
  /\ SetQuery(q, [query[q] EXCEPT
       !.phase = "paused", !.box = Tail(@), !.got = Append(@, Head(query[q].box))])
  /\ Quiet

GetEnd(q) ==
  /\ query[q].phase = "waiting" /\ query[q].box # <<>> /\ Head(query[q].box) = 0
  /\ SetQuery(q, [query[q] EXCEPT !.phase = "ending", !.box = Tail(@),
                                  !.clean = TRUE])
  /\ Quiet

(* Faulty variant: a timeout waits for the next chunk again.               *)
TimeOutRetries(q) ==
  /\ query[q].phase = "waiting" /\ query[q].box = <<>>
  /\ SetQuery(q, [query[q] EXCEPT !.phase = "asking"])
  /\ Quiet

(* The timeout yields None, or raises: the finally block unsubscribes.     *)
TimeOut(q) ==
  /\ query[q].phase = "waiting" /\ query[q].box = <<>>
  /\ \/ SetQuery(q, [query[q] EXCEPT !.phase = "ending"])
     \/ SetQuery(q, [query[q] EXCEPT !.phase = "over", !.subscribed = FALSE])
  /\ Quiet

(* The consumer asks for the next chunk.                                   *)
Resume(q) ==
  /\ query[q].phase = "paused"
  /\ SetQuery(q, [query[q] EXCEPT !.phase = "waiting"])
  /\ Quiet

(* The consumer exhausts the generator or drops it.                        *)
Finish(q) ==
  /\ query[q].phase \in {"paused", "ending"}
  /\ SetQuery(q, [query[q] EXCEPT !.phase = "over", !.subscribed = FALSE])
  /\ Quiet

-----------------------------------------------------------------------------
Routes == HandlerReturns \/ HandlerRaises \/ EmitReturns

Next ==
  \/ \E p \in Protocols : \/ Wire(p) \/ Shutdown(p)
                          \/ HandlerStarts(p) \/ SendTargeted(p)
  \/ \E kind \in {"fanout", "other"} : Emit(kind, {}) \/ EmitOnBus(kind, {})
  \/ \E kind \in {"routed", "targeted"}, c \in Peers :
       Emit(kind, {c}) \/ EmitOnBus(kind, {c})
  \/ \E c \in Peers : Connect(c) \/ Disconnect(c) \/ SendNext(c)
  \/ Routes
  \/ \E q \in Queries : \/ Ask(q) \/ Asked(q) \/ Speak(q) \/ Handled(q)
                        \/ Get(q) \/ GetEnd(q) \/ TimeOut(q) \/ Resume(q)
                        \/ Finish(q)

(* The emit of the utterance returns, q.get has a timeout, and the         *)
(* consumer, a loop over the generator, goes on until its end.             *)
Fairness ==
  \A q \in Queries :
    WF_vars(Asked(q) \/ Get(q) \/ GetEnd(q) \/ TimeOut(q) \/ Resume(q)
            \/ (query[q].phase = "ending" /\ Finish(q)))

Spec == Init /\ [][Next]_vars /\ Fairness

-----------------------------------------------------------------------------
(***************************************************************************)
(* The wrapper of a live protocol is in the chain, once, so that injected  *)
(* has every emission once, in whatever order the protocols of the bus are *)
(* shut down (shutdown, lines 277-292: "removing a middle layer would      *)
(* break the outer one").                                                  *)
(***************************************************************************)
LiveProtocolsRecord ==
  \A p \in live : \E i \in 1..Len(layers) :
    \A j \in 1..Len(layers) : layers[j] = p <=> j = i

(***************************************************************************)
(* An emission by emit_on_bus reaches exactly the connected peers it is    *)
(* addressed to, however many protocols share the bus: no delivery changes *)
(* the dict that handle_send or handle_internal_mycroft iterates over      *)
(* (lines 189-193 and 224-235).                                            *)
(***************************************************************************)
RootedReachesAll ==
  [][emits # <<>> /\ Top.rooted /\ Len(emits') < Len(emits)
       => Top.reached = Top.owed]_vars

(***************************************************************************)
(* A query yields the chunks in the order spoken, from the first one on,   *)
(* and all of them before a sentinel that the agent's                      *)
(* ovos.utterance.handled caused (natural_language_query).                 *)
(***************************************************************************)
AnswersInOrder ==
  \A q \in Queries :
    /\ \A i \in 1..Len(query[q].got) : query[q].got[i] = i
    /\ query[q].clean => Len(query[q].got) = query[q].spoken

(***************************************************************************)
(* Every query ends and unsubscribes, whether its agent answers, stalls or *)
(* is stopped (the timeout of q.get, and the finally block).               *)
(***************************************************************************)
QueryEnds ==
  \A q \in Queries :
    query[q].phase = "asking" ~> query[q].phase = "over" /\ ~query[q].subscribed

=============================================================================
