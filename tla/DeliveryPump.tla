---------------------------- MODULE DeliveryPump ----------------------------
(***************************************************************************)
(* The in-process delivery pump of hivescope (node.py): _deliver, the      *)
(* wrapped connection send (_pumped_send) and the receive path that        *)
(* _receive_raw defers.                                                    *)
(*                                                                         *)
(* Every call is a frame on the call stack of the thread that makes it, so *)
(* re-entrancy is something the model can do and the pump has to prevent.  *)
(* The Noise transport of a connection (hivemind-bus-client, external) is  *)
(* a non-reentrant lock held across encrypt + raw_send, and a frame        *)
(* counter on each end: the receiver authenticates a frame only if it is   *)
(* the next one.                                                           *)
(***************************************************************************)
EXTENDS Integers, Sequences, FiniteSets, SequencesExt

CONSTANTS
  Threads,       \* Python threads that drive in-process traffic
  Conns,         \* established connections (HiveMindClientConnection)
  NoThread,      \* the owner of a free _send_lock
  Drives,        \* Drives[t]: the connections of the topology thread t drives
  MaxCalls,      \* bound: calls of an entry point or of a send, in a behaviour
  MaxChunks,     \* bound: raw_send chunks of one message
  MayRaise       \* whether a delivery may raise out of the pump

ASSUME ConstantsAssumption ==
  /\ NoThread \notin Threads
  /\ Drives \in [Threads -> SUBSET Conns]
  /\ MaxCalls \in Nat
  /\ MaxChunks \in Nat \ {0}
  /\ MayRaise \in BOOLEAN

VARIABLES
  queue,      \* queue[t]:    _pump.queue, thread-local
  draining,   \* draining[t]: _pump.draining, thread-local
  stack,      \* stack[t]:    t's call stack, the innermost call last
  sendLock,   \* sendLock[c]: the thread inside send_message on c, or NoThread
  sent,       \* sent[c]:     frames encrypted by the sending end of c
  received,   \* received[c]: frames the receiving end of c authenticated
  refused,    \* connections on which a frame failed authentication
  calls       \* calls made so far (bounded by MaxCalls)

vars == <<queue, draining, stack, sendLock, sent, received, refused, calls>>

-----------------------------------------------------------------------------
(***************************************************************************)
(* Queued actions.  "sends" is a lambda that calls conn.send on each of a  *)
(* set of connections (send_to_satellite: one, send_to_all: those          *)
(* connected), "handler" one that runs protocol, agent or bus code         *)
(* (satellite send, emit_on_bus, the handshake), "frame" the decode and    *)
(* dispatch of one frame.                                                  *)
(***************************************************************************)
SendsJob(conns) == [kind |-> "sends", conns |-> conns, no |-> 0]
HandlerJob      == [kind |-> "handler", conns |-> {}, no |-> 0]
FrameJob(c, n)  == [kind |-> "frame", conns |-> {c}, no |-> n]

Jobs == [kind : {"sends", "handler", "frame"}, conns : SUBSET Conns, no : Nat]

EntryJobs(t) == {HandlerJob} \cup {SendsJob(cs) : cs \in SUBSET Drives[t]}

(***************************************************************************)
(* Calls on the stack.  "drain" is the while loop of _deliver or of        *)
(* _pumped_send, "pumped" a _pumped_send that has yet to reach its loop,   *)
(* "sends" and "handler" a running action, "lock" a send waiting for the   *)
(* _send_lock and "wire" one that holds it with chunks still to write.     *)
(***************************************************************************)
Call(at, conns, chunks) == [at |-> at, conns |-> conns, chunks |-> chunks]

Calls == [at : {"drain", "pumped", "sends", "handler", "lock", "wire"},
          conns : SUBSET Conns, chunks : Nat]

Idle(t)    == stack[t] = <<>>
Top(t)     == Last(stack[t])
At(t, at)  == ~Idle(t) /\ Top(t).at = at
Below(t)   == Front(stack[t])                 \* the stack once Top(t) returns

TypeOK ==
  /\ queue \in [Threads -> Seq(Jobs)]
  /\ draining \in [Threads -> BOOLEAN]
  /\ stack \in [Threads -> Seq(Calls)]
  /\ sendLock \in [Conns -> Threads \cup {NoThread}]
  /\ sent \in [Conns -> Nat]
  /\ received \in [Conns -> Nat]
  /\ refused \in SUBSET Conns
  /\ calls \in Nat

Init ==
  /\ queue = [t \in Threads |-> <<>>]
  /\ draining = [t \in Threads |-> FALSE]
  /\ stack = [t \in Threads |-> <<>>]
  /\ sendLock = [c \in Conns |-> NoThread]
  /\ sent = [c \in Conns |-> 0]
  /\ received = [c \in Conns |-> 0]
  /\ refused = {}
  /\ calls = 0

-----------------------------------------------------------------------------
(***************************************************************************)
(* The two ways into the pump.  s is the caller's stack at the call.       *)
(***************************************************************************)

\* Faulty variant: every _deliver drains, whoever is draining already.
DeliverAlwaysDrains(t, job, s) ==
  /\ queue' = [queue EXCEPT ![t] = Append(@, job)]
  /\ draining' = [draining EXCEPT ![t] = TRUE]
  /\ stack' = [stack EXCEPT ![t] = Append(s, Call("drain", {}, 0))]

\* Faulty variant: the queue is used as a stack (appendleft for append).
DeliverLIFO(t, job, s) ==
  /\ queue' = [queue EXCEPT ![t] = <<job>> \o @]
  /\ draining' = [draining EXCEPT ![t] = TRUE]
  /\ stack' = [stack EXCEPT ![t] =
                 IF draining[t] THEN s ELSE Append(s, Call("drain", {}, 0))]

\* _deliver: append; the outermost call of the thread starts the drain.
Deliver(t, job, s) ==
  /\ queue' = [queue EXCEPT ![t] = Append(@, job)]
  /\ draining' = [draining EXCEPT ![t] = TRUE]
  /\ stack' = [stack EXCEPT ![t] =
                 IF draining[t] THEN s ELSE Append(s, Call("drain", {}, 0))]

\* Faulty variant: the send does not mark the thread as draining.
PumpedSendUnrooted(t, c, s) ==
  /\ stack' = [stack EXCEPT ![t] =
                 Append(IF draining[t] THEN s ELSE Append(s, Call("pumped", {}, 0)),
                        Call("lock", {c}, 0))]
  /\ UNCHANGED <<queue, draining>>

\* _pumped_send: root a drain unless there is one, then send INLINE.
PumpedSend(t, c, s) ==
  /\ draining' = [draining EXCEPT ![t] = TRUE]
  /\ stack' = [stack EXCEPT ![t] =
                 Append(IF draining[t] THEN s ELSE Append(s, Call("pumped", {}, 0)),
                        Call("lock", {c}, 0))]
  /\ UNCHANGED queue

\* A test calling an entry point, or a handler calling back into the nodes.
CallIn(t) ==
  /\ Idle(t) \/ At(t, "handler")
  /\ calls < MaxCalls
  /\ calls' = calls + 1
  /\ \/ \E job \in EntryJobs(t) : Deliver(t, job, stack[t])
     \/ \E c \in Drives[t] : PumpedSend(t, c, stack[t])
  /\ UNCHANGED <<sendLock, sent, received, refused>>

-----------------------------------------------------------------------------
(***************************************************************************)
(* NoiseTransport.send_message: take the lock, write every chunk, release. *)
(***************************************************************************)
AcquireSendLock(t) ==
  /\ At(t, "lock")
  /\ \E c \in Top(t).conns, k \in 1..MaxChunks :
       /\ sendLock[c] = NoThread
       /\ sendLock' = [sendLock EXCEPT ![c] = t]
       /\ stack' = [stack EXCEPT ![t] = Append(Below(t), Call("wire", {c}, k))]
  /\ UNCHANGED <<queue, draining, sent, received, refused, calls>>

\* Faulty variant: one chunk too many.
ReceiveRawOneTooMany(t) ==
  /\ At(t, "wire")
  /\ Top(t).chunks >= 0
  /\ \E c \in Top(t).conns :
       /\ sent' = [sent EXCEPT ![c] = @ + 1]
       /\ Deliver(t, FrameJob(c, sent[c] + 1),
                  Append(Below(t), Call("wire", {c}, Top(t).chunks - 1)))
  /\ UNCHANGED <<sendLock, received, refused, calls>>

\* One chunk: encrypt, raw_send -> _receive_raw, which only defers the decode.
ReceiveRaw(t) ==
  /\ At(t, "wire")
  /\ Top(t).chunks > 0
  /\ \E c \in Top(t).conns :
       /\ sent' = [sent EXCEPT ![c] = @ + 1]
       /\ Deliver(t, FrameJob(c, sent[c] + 1),
                  Append(Below(t), Call("wire", {c}, Top(t).chunks - 1)))
  /\ UNCHANGED <<sendLock, received, refused, calls>>

\* Faulty variant: the lock is not released.
SendReturnsLocked(t) ==
  /\ At(t, "wire")
  /\ Top(t).chunks = 0
  /\ stack' = [stack EXCEPT ![t] =
                 IF Last(Below(t)).at = "pumped"
                 THEN Append(Front(Below(t)), Call("drain", {}, 0))
                 ELSE Below(t)]
  /\ UNCHANGED <<queue, draining, sendLock, sent, received, refused, calls>>

\* A send that returns into _pumped_send continues with the drain loop there.
SendReturns(t) ==
  /\ At(t, "wire")
  /\ Top(t).chunks = 0
  /\ sendLock' = [c \in Conns |-> IF c \in Top(t).conns THEN NoThread ELSE sendLock[c]]
  /\ stack' = [stack EXCEPT ![t] =
                 IF Last(Below(t)).at = "pumped"
                 THEN Append(Front(Below(t)), Call("drain", {}, 0))
                 ELSE Below(t)]
  /\ UNCHANGED <<queue, draining, sent, received, refused, calls>>

-----------------------------------------------------------------------------
(***************************************************************************)
(* The drain loop and the actions it runs.                                 *)
(***************************************************************************)
RunJob(t, kind) == /\ At(t, "drain")
                   /\ queue[t] # <<>>
                   /\ Head(queue[t]).kind = kind
                   /\ queue' = [queue EXCEPT ![t] = Tail(@)]

RunAction(t) ==
  /\ \/ RunJob(t, "sends")
     \/ RunJob(t, "handler")
  /\ stack' = [stack EXCEPT ![t] =
                 Append(@, Call(Head(queue[t]).kind, Head(queue[t]).conns, 0))]
  /\ UNCHANGED <<draining, sendLock, sent, received, refused, calls>>

\* _decode_and_dispatch: the next frame of its connection authenticates and
\* its handler runs inline; any other frame is recorded as _decode_error.
DecodeAndDispatch(t) ==
  /\ RunJob(t, "frame")
  /\ \E c \in Head(queue[t]).conns :
       IF Head(queue[t]).no = received[c] + 1
       THEN /\ received' = [received EXCEPT ![c] = @ + 1]
            /\ stack' = [stack EXCEPT ![t] = Append(@, Call("handler", {}, 0))]
            /\ UNCHANGED refused
       ELSE /\ refused' = refused \cup {c}
            /\ UNCHANGED <<received, stack>>
  /\ UNCHANGED <<draining, sendLock, sent, calls>>

\* The next conn.send of send_to_satellite or of the send_to_all loop.
SendNext(t) ==
  /\ At(t, "sends")
  /\ \E c \in Top(t).conns :
       PumpedSend(t, c, Append(Below(t), Call("sends", Top(t).conns \ {c}, 0)))
  /\ UNCHANGED <<sendLock, sent, received, refused, calls>>

ActionReturns(t) ==
  /\ At(t, "handler") \/ (At(t, "sends") /\ Top(t).conns = {})
  /\ stack' = [stack EXCEPT ![t] = Below(t)]
  /\ UNCHANGED <<queue, draining, sendLock, sent, received, refused, calls>>

DrainReturns(t) ==
  /\ At(t, "drain")
  /\ queue[t] = <<>>
  /\ draining' = [draining EXCEPT ![t] = FALSE]
  /\ stack' = [stack EXCEPT ![t] = Below(t)]
  /\ UNCHANGED <<queue, sendLock, sent, received, refused, calls>>

\* Faulty variant: a failed drain throws the rest of the queue away.
RaiseClears(t) ==
  /\ MayRaise
  /\ At(t, "handler") \/ At(t, "sends") \/ At(t, "wire")
  /\ stack' = [stack EXCEPT ![t] = <<>>]
  /\ queue' = [queue EXCEPT ![t] = <<>>]
  /\ draining' = [draining EXCEPT ![t] = FALSE]
  /\ sendLock' = [c \in Conns |-> IF sendLock[c] = t THEN NoThread ELSE sendLock[c]]
  /\ UNCHANGED <<sent, received, refused, calls>>

\* An action, or the send it is in, raises: every call unwinds, `with` blocks
\* release their lock, `finally` resets draining, and the queue stays.
Raise(t) ==
  /\ MayRaise
  /\ At(t, "handler") \/ At(t, "sends") \/ At(t, "wire")
  /\ stack' = [stack EXCEPT ![t] = <<>>]
  /\ draining' = [draining EXCEPT ![t] = FALSE]
  /\ sendLock' = [c \in Conns |-> IF sendLock[c] = t THEN NoThread ELSE sendLock[c]]
  /\ UNCHANGED <<queue, sent, received, refused, calls>>

-----------------------------------------------------------------------------
\* What a thread does once it is inside a call: everything but a new call.
Continue(t) ==
  \/ AcquireSendLock(t) \/ ReceiveRaw(t) \/ SendReturns(t)
  \/ RunAction(t) \/ DecodeAndDispatch(t) \/ SendNext(t)
  \/ ActionReturns(t) \/ DrainReturns(t)

Next == \E t \in Threads : CallIn(t) \/ Continue(t) \/ Raise(t)

Spec == Init /\ [][Next]_vars

\* A running Python thread goes on with the call it is in.
Fairness == \A t \in Threads : WF_vars(Continue(t))

FairSpec == Spec /\ Fairness

-----------------------------------------------------------------------------
(***************************************************************************)
(* Properties.                                                             *)
(***************************************************************************)

\* A thread never waits for a _send_lock it holds itself: the deadlock the
\* pump was written against (node.py, the comment above _deliver).
NoSelfDeadlock ==
  \A t \in Threads : At(t, "lock") => \A c \in Top(t).conns : sendLock[c] # t

\* No delivery runs inside another delivery, nor inside a send_message: every
\* action starts from a drain loop, on a thread that holds no _send_lock.
NoNestedDelivery ==
  \A t \in Threads :
    /\ \A i, j \in DOMAIN stack[t] :
         stack[t][i].at = "drain" /\ stack[t][j].at = "drain" => i = j
    /\ At(t, "handler") => \A c \in Conns : sendLock[c] # t

\* A thread that has returned from every call has draining reset, whatever
\* raised: otherwise all its later deliveries would only ever be queued.
NoStuckPump == \A t \in Threads : Idle(t) => ~draining[t]

\* A thread takes a _send_lock only while it holds no other, so that threads
\* that share a topology cannot wait for each other in a cycle.
OneSendLockAtATime ==
  \A t \in Threads, c, d \in Conns : sendLock[c] = t /\ sendLock[d] = t => c = d

\* Threads that drive separate topologies share no connection.
SeparateTopologies ==
  \A t, u \in Threads : t # u => Drives[t] \cap Drives[u] = {}

\* Every connection belongs to the topology of some thread.
EveryConnIsDriven == \A c \in Conns : \E t \in Threads : c \in Drives[t]

\* Every frame is decoded when its receiver expects it ("arrive in the order
\* they were sent, as Noise's in-order transport requires"), even when an
\* earlier drain was cut short by an exception.
FramesInOrder == refused = {}

\* Every entry point returns, with threads sharing topologies as well.
EveryCallReturns == \A t \in Threads : draining[t] ~> ~draining[t]

\* The pump implements a socket per connection.  The wire of c is made of the
\* frames of c in the queue of the thread that drives c.
DriverOf(c) == CHOOSE t \in Threads : c \in Drives[t]

\* The n-th smallest of a set of places in a queue.
Nth(places, n) ==
  CHOOSE i \in places : Cardinality({j \in places : j <= i}) = n

FramesOf(c, q) ==
  LET places == {i \in DOMAIN q : q[i].kind = "frame" /\ c \in q[i].conns}
  IN  [n \in 1..Cardinality(places) |-> q[Nth(places, n)].no]

InFlight(c) == FramesOf(c, queue[DriverOf(c)])

Socket == INSTANCE FrameChannel
            WITH wire <- [c \in Conns |-> InFlight(c)],
                 written <- sent, arrived <- received

SocketSafe == Socket!Safe

=============================================================================
