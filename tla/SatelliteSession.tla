-------------------------- MODULE SatelliteSession --------------------------
(***************************************************************************)
(* The life of one satellite's connections to one master (node.py,         *)
(* plugins/network.py): connect, the Noise handshake it drives through the *)
(* pump, traffic, disconnect from either side, reconnect.                  *)
(*                                                                         *)
(* One thread drives both nodes, so deliveries are steps: DeliveryPump     *)
(* shows that none runs inside another (NoNestedDelivery) and that they    *)
(* run in the order of its queue.  A test calls in between its own calls,  *)
(* or from a handler of the delivery that ran last, which may also raise.  *)
(*                                                                         *)
(* Connections are numbered in the order they are made; 0 is None.  The    *)
(* protocols on both ends are hivemind-core and hivemind-bus-client        *)
(* (external), as the comments of node.py describe them.                   *)
(***************************************************************************)
EXTENDS Integers, Sequences, FiniteSets, SequencesExt

CONSTANTS
  MaxConnects,   \* bound: calls of connect
  MaxSends       \* bound: application messages, either way

ASSUME ConstantsAssumption ==
  /\ MaxConnects \in Nat
  /\ MaxSends \in Nat

VARIABLES
  sat,        \* the satellite's fields that belong to a connection
  pinned,     \* the satellite pinned the master's Noise static key
  keyed,      \* connections on which the master installed its transport
  clients,    \* hm_protocol.clients: connections registered at the master
  queue,      \* the pump's queue
  call,       \* the entry point that drains, or "none"
  handler,    \* a test's handler runs: the last delivery reached one
  opened,     \* connections made so far
  connects,   \* calls of connect so far (bound)
  sends,      \* application messages so far (bound)
  refused,    \* frames that failed to decode, with the connection then up
  overlaid    \* how connect was called over a connection in use (history)

vars == <<sat, pinned, keyed, clients, queue, call, handler, opened, connects,
          sends, refused, overlaid>>

Numbers == 0..MaxConnects

(***************************************************************************)
(* sat.conn is _connection, sat.master whether _master is set, sat.event   *)
(* the shim's handshake_event, sat.transport the session of its            *)
(* noise_transport, sat.noise the handshake in progress and sat.server the *)
(* connection whose HELLO and HANDSHAKE payloads the slave protocol holds. *)
(***************************************************************************)
Satellites == [conn : Numbers, master : BOOLEAN, event : BOOLEAN,
               transport : Numbers, noise : Numbers, server : Numbers]

Down == [conn |-> 0, master |-> FALSE, event |-> FALSE,
         transport |-> 0, noise |-> 0, server |-> 0]

(***************************************************************************)
(* Queued actions.  A frame has the connection _receive_raw bound and the  *)
(* session that encrypted it; a message up has the connection that was up  *)
(* when send recorded it, which the lambda does not bind, and for Noise    *)
(* messages 1 and 3 the connection whose payloads are in the prologue.     *)
(***************************************************************************)
Ups    == {"xx1", "kk1", "xx3", "hi", "data"}
Downs  == {"hello", "handshake", "xx2", "kk2", "app"}
Others == {"connect", "start"}

Job(kind, conn, key) == [kind |-> kind, conn |-> conn, key |-> key]
Jobs == [kind : Ups \cup Downs \cup Others, conn : Numbers, key : Numbers]

TypeOK ==
  /\ sat \in Satellites
  /\ pinned \in BOOLEAN
  /\ keyed \in SUBSET Numbers /\ clients \in SUBSET Numbers
  /\ queue \in Seq(Jobs)
  /\ call \in {"none", "connect", "start", "other"}
  /\ handler \in BOOLEAN
  /\ opened \in Numbers /\ connects \in Numbers /\ sends \in 0..MaxSends
  /\ refused \in SUBSET (Jobs \X Numbers)
  /\ overlaid \in SUBSET {"complete", "unfinished"}

Init ==
  /\ sat = Down /\ pinned = FALSE
  /\ keyed = {} /\ clients = {}
  /\ queue = <<>> /\ call = "none" /\ handler = FALSE
  /\ opened = 0 /\ connects = 0 /\ sends = 0
  /\ refused = {} /\ overlaid = {}

-----------------------------------------------------------------------------
Idle == call = "none"
MayCallIn == Idle \/ handler

\* _deliver from an entry point: it drains unless the thread is draining.
DeliverNew(job) ==
  /\ queue' = Append(queue, job)
  /\ call' = IF Idle THEN "other" ELSE call

\* An exception leaves the pump and the call that drains; the queue stays.
Abort == call' = "none" /\ handler' = FALSE

Connected == sat.master /\ sat.conn # 0

\* How connect finds a connection in use: its handshake is complete, or its
\* deliveries are still queued, which may complete it.
InUse ==
  IF sat.conn = 0 THEN {}
  ELSE IF sat.event THEN {"complete"}
  ELSE IF queue # <<>> THEN {"unfinished"} ELSE {}

\* connect, up to its first _deliver, which drains.  From a handler both of its
\* actions are only queued, and it raises RuntimeError unless the event is set.
Connect ==
  /\ MayCallIn
  /\ connects < MaxConnects
  /\ connects' = connects + 1
  /\ sat' = [sat EXCEPT !.master = TRUE]
  /\ queue' = queue \o IF Idle \/ sat.event THEN <<Job("connect", 0, 0)>>
                        ELSE <<Job("connect", 0, 0), Job("start", 0, 0)>>
  /\ call' = IF Idle THEN "connect" ELSE call
  /\ overlaid' = overlaid \cup InUse
  /\ UNCHANGED <<pinned, keyed, clients, handler, opened, sends, refused>>

\* A handler's exception, that of its own send or connect included, ends the
\* drain: what is queued stays, and the connection stays up.
HandlerRaises ==
  /\ ~Idle /\ handler
  /\ Abort
  /\ UNCHANGED <<sat, pinned, keyed, clients, queue, opened, connects, sends, refused, overlaid>>

\* A drain has emptied the queue.  connect goes on to start_handshake unless
\* the handshake is complete, and then returns or raises RuntimeError.
CallReturns ==
  /\ ~Idle /\ queue = <<>>
  /\ IF call = "connect" /\ ~sat.event
     THEN /\ queue' = <<Job("start", 0, 0)>>
          /\ call' = "start"
     ELSE call' = "none" /\ UNCHANGED queue
  /\ handler' = FALSE
  /\ UNCHANGED <<sat, pinned, keyed, clients, opened, connects, sends, refused, overlaid>>

\* send: guard, record, deliver.
Send ==
  /\ MayCallIn
  /\ Connected
  /\ sends < MaxSends
  /\ sends' = sends + 1
  /\ DeliverNew(Job("data", sat.conn, 0))
  /\ UNCHANGED <<sat, pinned, keyed, clients, handler, opened, connects, refused, overlaid>>

\* What the master writes to connection c: encrypted once it has a transport,
\* bound by _receive_raw to the connection that is up then, dropped if none is.
Frames(kind, c) ==
  IF sat.conn = 0 THEN <<>> ELSE <<Job(kind, sat.conn, IF c \in keyed THEN c ELSE 0)>>

\* send_to_satellite, send_to_all: an application message to a client.
SendToSatellite(c) ==
  /\ MayCallIn
  /\ c \in clients
  /\ sends < MaxSends
  /\ sends' = sends + 1
  /\ queue' = queue \o Frames("app", c)
  /\ call' = IF Idle THEN "other" ELSE call
  /\ UNCHANGED <<sat, pinned, keyed, clients, handler, opened, connects, refused, overlaid>>

-----------------------------------------------------------------------------
(***************************************************************************)
(* The end of a connection, from either side.                              *)
(***************************************************************************)

\* Faulty variant: the Noise transport survives.
ForgetKeepsTransport(s) ==
  [s EXCEPT !.conn = 0, !.event = FALSE, !.noise = 0, !.server = 0]

\* _forget_session: everything of the connection goes, the pin stays.
ForgetSession(s) ==
  [s EXCEPT !.conn = 0, !.event = FALSE, !.transport = 0, !.noise = 0, !.server = 0]

\* Faulty variant: the master is not told.
OnDisconnectLocal ==
  /\ clients' = clients
  /\ sat' = ForgetSession([sat EXCEPT !.master = FALSE])

\* Faulty variant: only the two references are dropped.
OnDisconnectKeepsSession ==
  /\ clients' = IF Connected THEN clients \ {sat.conn} ELSE clients
  /\ sat' = [sat EXCEPT !.master = FALSE, !.conn = 0]

\* _on_disconnect: drop both references, tell the master, forget.
OnDisconnect ==
  /\ clients' = IF Connected THEN clients \ {sat.conn} ELSE clients
  /\ sat' = ForgetSession([sat EXCEPT !.master = FALSE])

\* disconnect: the master's handler ends in _on_disconnect.
Disconnect ==
  /\ MayCallIn
  /\ IF Connected THEN OnDisconnect
     ELSE sat' = ForgetSession(sat) /\ UNCHANGED clients
  /\ sat' # sat
  /\ UNCHANGED <<pinned, keyed, queue, call, handler, opened, connects, sends,
                 refused, overlaid>>

\* conn.disconnect(code, reason) at the master, on any connection it knows.
MasterCloses ==
  /\ MayCallIn
  /\ clients # {}
  /\ OnDisconnect
  /\ UNCHANGED <<pinned, keyed, queue, call, handler, opened, connects, sends,
                 refused, overlaid>>

-----------------------------------------------------------------------------
(***************************************************************************)
(* Deliveries: the head of the queue runs.                                 *)
(***************************************************************************)
Run(kinds) == ~Idle /\ queue # <<>> /\ Head(queue).kind \in kinds
Then(jobs) == queue' = Tail(queue) \o jobs

\* Faulty variant: every connection is counted twice.
NewConnectionTwice == opened' = opened + 2 /\ sat' = [sat EXCEPT !.conn = opened + 1]

\* connect_satellite: a new connection, set before handle_new_client sends
\* HELLO and HANDSHAKE on it.
NewConnection == opened' = opened + 1 /\ sat' = [sat EXCEPT !.conn = opened + 1]
Greetings == <<Job("hello", opened + 1, 0), Job("handshake", opened + 1, 0)>>

RunConnect ==
  /\ Run({"connect"})
  /\ NewConnection
  /\ Then(Greetings)
  /\ handler' = FALSE
  /\ UNCHANGED <<pinned, keyed, clients, call, connects, sends, refused, overlaid>>

\* connect_satellite raises: the key is not in the database, or handle_new_client
\* fails between its sends.
RunConnectRaises ==
  /\ Run({"connect"})
  /\ \/ Then(<<>>) /\ UNCHANGED <<sat, opened>>
     \/ NewConnection /\ \E sent \in {<<>>, <<Head(Greetings)>>, Greetings} : Then(sent)
  /\ Abort
  /\ UNCHANGED <<pinned, keyed, clients, connects, sends, refused, overlaid>>

\* The slave protocol starts a Noise handshake: KK with a pinned key, else XX.
\* shim.emit sends message 1, which raises if the node is not connected.
StartNoise ==
  /\ sat' = [sat EXCEPT !.noise = sat.server]
  /\ IF Connected
     THEN /\ Then(<<Job(IF pinned THEN "kk1" ELSE "xx1", sat.conn, sat.server)>>)
          /\ handler' = TRUE
          /\ UNCHANGED call
     ELSE Then(<<>>) /\ Abort

RunStart ==
  /\ Run({"start"})
  /\ StartNoise
  /\ UNCHANGED <<pinned, keyed, clients, opened, connects, sends, refused, overlaid>>

\* The decode borrows the shim's transport, None included: a frame of an
\* encrypted session needs that session's, a cleartext one needs None.
Decodes(frame) == frame.key = sat.transport

DecodeError ==
  /\ Run(Downs) /\ ~Decodes(Head(queue))
  /\ refused' = refused \cup {<<Head(queue), sat.conn>>}
  /\ Then(<<>>)
  /\ handler' = FALSE
  /\ UNCHANGED <<sat, pinned, keyed, clients, call, opened, connects, sends, overlaid>>

Dispatch(kinds) == Run(kinds) /\ Decodes(Head(queue))

RunHello ==
  /\ Dispatch({"hello"})
  /\ sat' = [sat EXCEPT !.server = Head(queue).conn]
  /\ Then(<<>>)
  /\ handler' = TRUE
  /\ UNCHANGED <<pinned, keyed, clients, call, opened, connects, sends, refused, overlaid>>

RunHandshake ==
  /\ Dispatch({"handshake"})
  /\ StartNoise
  /\ UNCHANGED <<pinned, keyed, clients, opened, connects, sends, refused, overlaid>>

\* Noise message 2 completes the initiator's handshake: it installs its
\* transport, pins the key, sets the event and says hello (after message 3 in
\* XX).  Without a handshake in progress the protocol rejects the message.
RunNoise2 ==
  /\ Dispatch({"xx2", "kk2"})
  /\ IF sat.noise = 0
     THEN Then(<<>>) /\ Abort /\ UNCHANGED <<sat, pinned>>
     ELSE /\ sat' = [sat EXCEPT !.transport = sat.noise, !.event = TRUE, !.noise = 0]
          /\ pinned' = TRUE
          /\ Then(IF Head(queue).kind = "xx2"
                  THEN <<Job("xx3", sat.conn, sat.noise), Job("hi", sat.conn, 0)>>
                  ELSE <<Job("hi", sat.conn, 0)>>)
          /\ handler' = TRUE
          /\ UNCHANGED call
  /\ UNCHANGED <<keyed, clients, opened, connects, sends, refused, overlaid>>

RunApp ==
  /\ Dispatch({"app"})
  /\ Then(<<>>)
  /\ handler' = TRUE
  /\ UNCHANGED <<sat, pinned, keyed, clients, call, opened, connects, sends, refused, overlaid>>

(***************************************************************************)
(* Messages up: handle_message(message, self._connection), both read now.  *)
(***************************************************************************)
RunUp(kinds) == Run(kinds) /\ Connected

\* Faulty variant: the message is queued again until there is a connection.
RunUpClosedRetries ==
  /\ Run(Ups) /\ ~Connected
  /\ Then(<<Head(queue)>>)
  /\ UNCHANGED <<sat, pinned, keyed, clients, call, handler, opened, connects,
                 sends, refused, overlaid>>

\* The connection is gone: the lambda raises AttributeError.
RunUpClosed ==
  /\ Run(Ups) /\ ~Connected
  /\ Then(<<>>) /\ Abort
  /\ UNCHANGED <<sat, pinned, keyed, clients, opened, connects, sends, refused, overlaid>>

\* Faulty variant: the master's send is queued, and encoded after it has
\* installed its transport.
SendNoise2Late(kind) == Job(IF kind = "kk1" THEN "kk2" ELSE "xx2", sat.conn,
                            IF kind = "kk1" THEN sat.conn ELSE 0)

\* _pumped_send sends inline: message 2 is cleartext, although in KK the
\* responder installs its transport right after it.
SendNoise2(kind) == Job(IF kind = "kk1" THEN "kk2" ELSE "xx2", sat.conn, 0)

\* Noise messages 1 and 3 at the master.  A prologue over the payloads of
\* another connection fails the handshake, and the master closes the connection.
OwnPrologue == Head(queue).key = sat.conn

RunNoise1 ==
  /\ RunUp({"xx1", "kk1"})
  /\ IF OwnPrologue
     THEN /\ Then(<<SendNoise2(Head(queue).kind)>>)
          /\ keyed' = IF Head(queue).kind = "kk1" THEN keyed \cup {sat.conn} ELSE keyed
          /\ UNCHANGED <<sat, clients>>
     ELSE Then(<<>>) /\ OnDisconnect /\ UNCHANGED keyed
  /\ handler' = TRUE
  /\ UNCHANGED <<pinned, call, opened, connects, sends, refused, overlaid>>

\* With message 3 the responder of XX installs its transport.
RunNoise3 ==
  /\ RunUp({"xx3"})
  /\ IF OwnPrologue
     THEN keyed' = keyed \cup {sat.conn} /\ UNCHANGED <<sat, clients>>
     ELSE OnDisconnect /\ UNCHANGED keyed
  /\ Then(<<>>)
  /\ handler' = TRUE
  /\ UNCHANGED <<pinned, call, opened, connects, sends, refused, overlaid>>

\* The satellite's HELLO registers the connection; any other message is
\* application traffic that the master handles.
RunMessage ==
  /\ RunUp({"hi", "data"})
  /\ clients' = IF Head(queue).kind = "hi" THEN clients \cup {sat.conn} ELSE clients
  /\ Then(<<>>)
  /\ handler' = TRUE
  /\ UNCHANGED <<sat, pinned, keyed, call, opened, connects, sends, refused, overlaid>>

Drain ==
  \/ RunConnect \/ RunConnectRaises \/ RunStart \/ DecodeError
  \/ RunHello \/ RunHandshake \/ RunNoise2
  \/ RunApp \/ RunUpClosed \/ RunNoise1 \/ RunNoise3 \/ RunMessage \/ CallReturns

Next ==
  \/ Drain
  \/ HandlerRaises \/ Connect \/ Send \/ Disconnect \/ MasterCloses
  \/ \E c \in clients : SendToSatellite(c)

Spec == Init /\ [][Next]_vars

FairSpec == Spec /\ WF_vars(Drain)

-----------------------------------------------------------------------------
\* A frame that fails to decode belongs to a connection that is gone: what the
\* master sends on the connection that is up decodes, in XX and in KK, after
\* any number of reconnects, raising handlers and drains cut short, as long as
\* connect was not called over a connection in use ("decoded the new session's
\* first transport message with the PREVIOUS session's transport").
LiveFramesDecode == overlaid = {} => \A r \in refused : r[1].conn # r[2]

\* connect returns only once "the satellite is fully connected and crypto is
\* active": both ends hold the transport of the connection that is up.
Secured == sat.event /\ sat.transport = sat.conn /\ sat.conn \in keyed \cap clients
ConnectReturns == CallReturns /\ call' = "none" /\ call # "other" /\ sat.event

\* It does, whether the satellite was down or half-open with nothing queued.
ConnectReturnsSecured == [][ConnectReturns /\ overlaid = {} => Secured]_vars

\* It does not when a connect that a handler's exception ended is called again:
\* what is left in the queue completes the old connection's handshake.
RetriedConnectSecures == [][ConnectReturns /\ "complete" \notin overlaid => Secured]_vars

\* A node that is not connected holds nothing of a session, so that the next
\* connect cannot take the old handshake for its own.
NothingSurvivesClose == sat.conn = 0 => sat.transport = 0 /\ ~sat.event

\* The master's table lists no connection the satellite has given up, unless
\* connect was called over it.
NoGhostClient == overlaid = {} => clients \subseteq {sat.conn}

\* Every entry point returns.
EveryCallReturns == ~Idle ~> Idle

=============================================================================
