# hivescope in TLA+

hivescope is an in-process test harness for HiveMind: it builds topologies of
masters and satellites, connects them without sockets (or over a loopback
WebSocket), records every message and offers assertions over the records. This
directory holds TLA+ models of the parts of it that are concurrent or stateful, TLC
configurations that check them on small instances, and TLAPS proofs of the most
important results for every instance.

hivemind-core and hivemind-bus-client are not part of the repository. What the
models need of them (the Noise transport, the listener and slave protocols) is taken
from how `hivescope/` uses them and is marked external.

## Inventory

| Component | State | Operations | What is hard | What makes it correct |
| --- | --- | --- | --- | --- |
| Delivery pump (`node.py`) | per thread: queue, `draining`; per connection: `_send_lock`, Noise counters | `_deliver`, `_pumped_send`, `_receive_raw`, `_decode_and_dispatch` | re-entrancy, exceptions in a drain, threads sharing a topology | no self-deadlock, no nested delivery, frames in order, every call returns |
| Satellite session (`node.py`, `plugins/network.py`) | `_connection`, `_master`, the shim's event and transport, handshake state, pin | `connect`, `send`, `disconnect`, `_on_disconnect` | XX and KK differ in who opens first, closes in the middle of a handshake, late-bound lambdas | live frames decode, connect returns secured, a close forgets everything but the pin |
| Message recorder (`recorder.py`) | records, registered events | `record`, `clear`, `wait_for` | lost wake-ups, deadlines | no message missed, no event leaked, waits return |
| Client database (`database.py`) | rows, id counter | `add_client`, `update_item`, `delete_client`, lookups | objects shared with callers outside the lock, stale write-backs | ids name one client for good, rows are shared |
| Loopback server (`plugins/loopback.py`) | server thread, event loop, `_broken`, floors of live instances, client handlers | `run`, `stop`, `_handle_client` | startup timeout against late start, stop against live handlers | no server without an owner, no ghost peers, one floor at a time |
| Agent protocol (`plugins/agent.py`) | bus handlers, wrapped `emit`, one queue per query | `natural_language_query`, `handle_send`, `handle_internal_mycroft`, `shutdown` | late answers, live dict iteration, stacked wrappers | every query ends, its answers come in order, a live protocol records, a rooted emission reaches everybody |
| Ovoscope agent (`plugins/ovoscope_agent.py`) | capture session, shared MiniCroft | timed waits, `shutdown` | background threads of the pipeline | as the agent and the assertions |
| Topology (`topology.py`), scenarios, fixtures | nodes, planned connections, temp directories | `add_master`, `add_satellite`, `add_relay`, `start_all`, `stop_all` | partial failure, restart, rights that changed meanwhile | start connects everybody, rights follow the plan, stop reaches every node |
| Assertions (`assertions.py`) | none (they read records) | about 40 helpers | selection windows, stale and late records, polling | a pass is earned by the probe it is about; a failure is not for want of patience |
| Binary protocol, XDG isolation, plots | lists, environment | set-up and formatting | nothing concurrent | not modelled |

Interaction: a test calls an entry point of a node, which queues a lambda on the
pump of the calling thread. The lambda runs protocol code that sends frames;
`_receive_raw` of the other node queues their decode; decoded frames reach the
protocol's handlers, the internal bus and the test's own handlers, which may call
entry points again. Nodes record into their recorder, on which test threads wait.
The master reads the database when a satellite connects and, in hivemind-core's
policies, with every message.

## Modules

`FrameChannel` is the abstract specification of a connection: a socket, on which
frames arrive complete, once and in order.

`DeliveryPump` models `_deliver`, `_pumped_send` and the receive path with an
explicit call stack per thread, so that a delivery inside a delivery and a second
acquisition of a send lock are states the model can reach if the pump lets it.
`queue` and `draining` are `_pump`, `sendLock` the `_send_lock` of each connection,
`sent` and `received` the Noise counters of the two ends: a frame that is not the
next one is refused. `Deliver` and `PumpedSend` translate the two functions;
`CallIn` is every entry point, called from a test or from a handler;
`AcquireSendLock`, `ReceiveRaw` and `SendReturns` are `send_message` with its
chunks; `RunAction`, `DecodeAndDispatch`, `SendNext`, `ActionReturns` and
`DrainReturns` are the drain loop and what it runs; `Raise` unwinds the whole stack,
as an exception does through `finally` and `with`.

`SatelliteSession` models a satellite's connections to one master at the level
above: since no delivery runs inside another (`NoNestedDelivery`) and deliveries run
in order, each is one step. Its variables are the fields of `SatelliteNode` and of
the shim, the master's table of clients and installed transports, and the queue.
`Connect` and `CallReturns` are `connect` before and after its drains, `RunConnect`
is `connect_satellite`, `ForgetSession`, `OnDisconnect` and `Disconnect` the two
ways a connection ends, `Decodes` the borrowed transport, `SendNoise2` the inline
send whose encoding `_pumped_send` must not delay. The handlers `RunHello` to
`RunMessage` are external. A test may call any entry point, `connect` included, from
a handler, between any two deliveries; what such a call delivers is only queued, and
a nested `connect` that finds no event raises `RuntimeError`. `HandlerRaises` is an
exception of a handler, that one or its own: the drain ends, what is queued stays,
and the connection stays up. `RunConnectRaises` is a `connect_satellite` that fails.
`overlaid` is history: it says whether `connect` was called over a connection in
use, complete or with deliveries still queued. The limits of the model: an exception
comes after the effects of the delivery it ends, and how the slave protocol takes a
second HELLO, or a handshake that is started before one, is external.

`MessageRecorder` splits `wait_for` at every point where it does not hold the lock;
`record` and `clear` are one step each. Time is the step `Expire`.

`ClientDatabase` keeps the Client objects apart from the rows that refer to them,
because callers hold references to the stored objects. `Update` changes the object
in place, `UpdateItem` makes whatever object the caller holds the row of its key.

`LoopbackServer` models any number of loopback instances in one interpreter: the
test's thread inside `run` or `stop` (`driver`), the server thread of every run
(`thread`, `stopping`), the drain and one handler per client. `inst` holds an
instance's fields, `liveFloors` and `cfgFloor` the two process-global settings.
`Run`, `RunReturns` and `RunRaises` are `run()` up to and after its wait; `OpenLoop`
to `StartFails` are `_run_server`, `LoopStops` to `CloseLoop` its end in
`_shutdown_loop`; `HandleClient` to `Disconnected` are `_handle_client`, where
`blocked` is a handler inside `handle_message`, which holds up its whole loop.
`stopping` counts the turns of a loop that will run a `loop.stop`: further stops may
put one on a loop that is already in `_shutdown_loop`, where it ends the
`run_until_complete` under way (`CloseServer`, `CloseLoop`) and the loop may close
over handlers that still run. `Stop` to `ClearFields` are `stop()`, and
`DrainCloses` and `DrainEnds` the coroutine it submits. A timeout is a step that
needs nothing but the wait, so every bounded wait of the code may give up at any
point. The version gate in `HandleClient` is hivemind-core's, as the comments of
`run()` describe it.

`AgentBus` models the protocols that share an OVOS bus. `layers` is the chain of
`emit` wrappers, `emits` the stack of emissions: one inside another when a delivery
emits. Emissions, and the handler that iterates over the table of clients, are
steps, so that a peer may connect or leave between two items of the iteration if the
pump lets it: `Open` says when deliveries run, which is never inside an emission
that `emit_on_bus` rooted. `HandlerRaises` is the `RuntimeError` of a dict that
changed size, and unwinds any number of callers. `Wire` and `Shutdown` are
`__post_init__` and `shutdown`. `Ask` to `Finish` are the generator of
`natural_language_query`, split where it waits or yields. One thread drives the
listeners; skills speak from any thread.

`Scenarios` writes the presets of `scenarios.py` and the fixtures as sequences of
builder calls. `Topology` runs such a script: `Add` is the next builder call, and
between any two the test may call `start_all` or `stop_all`, which go step by step
(`RunServer`, `Skip`, `Connect`; `StopSat`, `StopMaster`) with `call` as their loop
index. A connect, a server's `run` and its `stop` are one step each: what goes on
inside is in `SatelliteSession` and `LoopbackServer`, of which this module keeps the
outcomes: up, raised with a connection (`Connect`) or raised before there was one
(`ConnectRaises`). `Close` and `SetRow` are what a test does to connections and rows
between the calls.

`ProbeAssertions` models a test that emits a probe and calls one of the helpers that
wait for traffic (`assert_query_routed`, `assert_ping_responded`,
`assert_message_routed`, `assert_fifo_order`, `assert_destination_routed`,
`wait_for_skill_emission`, `wait_last_injected`) or correlate denials
(`assert_acl_enforced`). hivemind-core is the system under test here: its steps
`MasterHandles` and `SatelliteReceives` drop, misroute, reorder and refuse at will.
In process everything is delivered before the helper is called; over loopback it is
not, and traffic of an earlier probe may still arrive. A polling helper is `Look`,
`CheckDeadline` and, for those that read the recorder once more after their loop,
`FinalLook`. `assert_destination_routed` waits with `MessageRecorder.wait_for`,
which is modelled as the code runs it: a lookup (`TargetLookup`), the test of the
deadline, which gives up without another lookup (`WaitExpires`), a wake-up
(`WaitTarget`). Then come the pause and the lookups at the others (`SettleEnds`,
`LookAtOther`, `JudgeRouting`). Its abstractions: the clock has moved between the
records of two probes, and the policy admits messages that carry a FIFO marker.

`MCxxx` are the instances for TLC. Operators called "Faulty variant" in the comments
are deliberate mistakes of the kind a change to the code could make; each is there
to show that a property notices it, and no specification uses them.

## Runs

| Run | Shows | Result |
| --- | --- | --- |
| `pump_separate` | two threads, separate topologies, chunked messages, exceptions: `NoSelfDeadlock`, `NoNestedDelivery`, `FramesInOrder`, refinement of `FrameChannel` | holds |
| `pump_shared` | two threads on the same two connections: `EveryCallReturns` | holds |
| `recorder_wait` | two waiters, two types, two directions, a clear | holds |
| `recorder_wakeup` | `NoLostWakeup` for waits that filter by direction | violated |
| `database` | two keys, two callers, four objects: `RefreshKeepsClient`, `NoForkedClient` | holds |
| `session` | four connects, two messages, closes from both sides, calls from handlers and exceptions anywhere | holds |
| `session_retry` | a connect that an exception ended is called again: `RetriedConnectSecures` | violated |
| `loopback` | two servers with different floors, two starts, late and failed starts, blocked loops | holds |
| `loopback_stop` | one server, two clients, stopped and run again at any point: `NoGhostPeers`, `StoppedServerEnds` | holds |
| `agent_bus` | two protocols on a bus, three peers that come and go, one query: `LiveProtocolsRecord`, `RootedReachesAll`, `AnswersInOrder`, `QueryEnds` | holds |
| `topology` | the presets, built, started, stopped and restarted with any step raising: `StartConnectsAll`, `RightsFollowThePlan`, `StopReachesEveryNode` | holds |
| `probes` | two probes with late, lost, misrouted and reordered traffic: `PassIsEarned`, `AdmissionJudged`, `FailIsLate` | holds |

The two violations are disagreements between the code and its own comments;
`findings` in `PROJECT.json` quotes the lines.

- Lost wake-up (`recorder_wakeup`). `wait_for` clears its event after the lookup. A
  record that arrives in between is in the list, and the wait sleeps until its
  deadline, when it looks again. If the time is up already, it does not even look:
  the deadline is tested first, and the call returns None. `RecordedIsReturned` says
  what is left: a message is returned if it is there when a lookup is still to come.
  A wait for any direction never sleeps on a message unless the list is cleared
  meanwhile (`NoLostWakeupUnfiltered`).
- Secured by the connection before (`session_retry`). An exception leaves the pump
  with deliveries queued and the connection up. When `connect` is called again they
  run first, in front of `connect_satellite`: the old connection's handshake goes
  on, its end sets the event and the transport, and `connect` returns although the
  new connection has no crypto. `disconnect` before the retry avoids it.

What the models show besides, where the code does less than a reader, or a comment,
may expect:

- `FramesInOrder` needs threads that drive separate topologies. The queue is per
  thread: two threads that send to one satellite each decode from their own queue,
  and the frame that was encrypted first may be decoded second.
- `connect` on a node that is connected trusts the `handshake_event` of the
  connection before, and returns although the new one ran no handshake. The
  session's properties but `NothingSurvivesClose` say what holds as long as nobody
  connects over a connection in use (`overlaid = {}`); a node that is half-open, its
  deliveries spent, may be connected again.
- A message can be recorded as sent and never go out: `send` checks and records at
  once, but its lambda reads `_master` and `_connection` when it runs, after a
  `disconnect` in the same handler (`RunUpClosed`). The comment (`node.py` 531-532)
  promises that what never happened is not recorded.
- Tasks on a closed loop. A stop that timed out in its join, called again, puts
  `loop.stop` on a loop that waits for its handlers or for their cancellation. The
  wait ends with a logged `RuntimeError` and the loop closes: the handlers never run
  their cleanup, which "drain tasks, then close the loop" (`loopback.py` 208)
  promises. The instance is broken then, so that `NoGhostPeers`, which is about the
  others, holds.
- A server thread that outlives its `run()` (a late start) or its `stop()` (a
  blocked handler) is deregistered from `_LIVE_FLOORS` and still admits clients,
  under whatever floor the next instance writes: `PeersMeetTheFloor` is about
  instances that are not broken.
- `RightsFollowThePlan` cuts both ways: revoking a key or narrowing its rights in
  the database reaches neither the live connection nor the next `start_all`.
- Unless `emit_on_bus` roots it, an emission's fan-out may meet a table of clients
  that a delivery changed, and raises (`HandlerRaises`).
- With a shared bus, each protocol that does not have the peer of a targeted
  `hive.send.downstream` emits `hive.client.send.error`, although another one
  delivered it (`SendTargeted`).
- A pass that others earned. The wait of `assert_destination_routed` knows no mark,
  so that a receipt of an earlier message satisfies it, although "only traffic from
  this probe counts" (`assertions.py` 1190). The wait of `assert_fifo_order` counts
  earlier batches: over loopback it may judge one of those while the "most recent
  batch" (1602) is in transit. A query has no id, and a late answer to an earlier
  one counts, marked or not. `PassIsEarned` says what the passes are worth.
- With `allowed=False`, `assert_acl_enforced` judges by the denials alone. Its
  docstring promises to look for the injection too (`assertions.py` 477-480), and a
  note further down says that the record is there in any case (498-500).
- `RightsFollowThePlan` leaves `allowed_types` alone for a plan that does not give
  them: such a connect keeps those of the row.
- `StartConnectsAll` takes a half-open satellite for connected, as `start_all` does.
- Rows are shared (`NoForkedClient`) as long as callers hand `update_item` objects
  they got from the database. The docstring (`database.py` 50-51) speaks of a
  freshly built Client; no code of the repository makes one, and the model has none.

### Bounds

`MaxCalls` (3 and 4) entry-point calls let a handler call back while two messages
are in flight and let a thread start a new drain over the residue of an aborted one;
`MaxChunks` is 2 where order inside a message matters. Two threads are enough for a
cycle of locks or a reordering; the safety results are also proved without bounds.
`MaxRecords` 2 with one clear lets a record of one direction be followed by one of
the other at every step of a wait (`recorder_wakeup` uses 3). `MaxClients` 4 lets
both keys be revoked and registered again. `MaxConnects` 4 covers an XX session, KK
sessions after both kinds of close, a retry after an aborted connect and a connect
from a handler; `session_retry` has three, enough for an XX session that pins the
key, a connect that is aborted and its retry. `MaxRuns` 2 gives two instances one
server each, or one instance a second run after any end of the first; a client may
reconnect without bound. `agent_bus` has one emission at a time besides the errors
it emits (`MaxDepth` 1), which is where an iteration and the deliveries of its own
sends meet; two protocols with two peers and one; `MaxChunks` 2 lets chunks be
swapped or lost. `topology` bounds nothing but the scripts: every preset, with its
relays and rights, and every order of the calls. A script gives satellites different
names: the builder's dict drops a node whose name is added again. `probes` has two
probes, so that the first one's traffic is late for the second, two satellites, a
batch of two for FIFO and one message otherwise, and a clock of four ticks, enough
for both probes to be called and to time out. `Expire` is independent of the number
of steps, so any race between a deadline and a record is covered. Deadlock checking
is off where a behaviour ends when its bounds are used up; it is on in `loopback`,
`loopback_stop`, `agent_bus` and `topology`, where something can always happen.

### Fairness

`DeliveryPump` assumes weak fairness of `Continue(t)`: a thread inside a call goes
on; nothing obliges a test to make a call, and `EveryCallReturns` is checked without
exceptions, which end a call anyway. A thread waiting for a `_send_lock` is
continuously enabled once the lock is free, because the holder keeps no other lock
and returns. `SatelliteSession` assumes that a drain goes on. `MessageRecorder`
assumes that the waiting thread runs and that time passes, never that anything is
recorded. `LoopbackServer` assumes that server threads run, that an agent's answer
is waited for with a timeout, and, as strong fairness, that asyncio runs what is
ready on a loop once per turn; nothing is assumed of the test's thread, of clients
and of the drain. `AgentBus` assumes of a query that its `emit` returns, that
`q.get` ends, with a chunk or by its timeout, and that the consumer, a `for` loop
over the generator, asks for the next chunk; nothing of skills, who may never
answer. `Topology` and `ProbeAssertions` state no liveness.

## Proofs

`DeliveryPumpProofs` (any threads, connections, bounds):

- `PumpIsSafe`: `NoSelfDeadlock`, `NoNestedDelivery`, `NoStuckPump` and
  `OneSendLockAtATime`. None of them is inductive. The invariant describes the shape
  of a stack: it is empty and the thread is not draining; or its bottom is a drain
  or a pumped send and every call above is one that the call below can make; only
  the top can be waiting for or holding a lock; and a lock is held by a thread
  exactly if its top is writing on that connection. `DeliveriesAreSteps` states
  `NoNestedDelivery` alone, which `SatelliteSession` builds on.
- `PumpKeepsOrder`: assuming `SeparateTopologies` (no connection is driven by two
  threads), `FramesInOrder`. The invariant says that the frames of a connection in
  the queue of its thread are exactly those sent and not yet received, in increasing
  order, so that the first one is the next one.
- `PumpIsASocket`: the refinement. The pump implements `FrameChannel`, the frames of
  a connection in its thread's queue mapping to the channel's contents, if in
  addition every connection is driven by some thread (`EveryConnIsDriven`: the
  mapping looks for its frames in that thread's queue). A raised frame appends to
  one channel, a run frame takes the head of one, every other step stutters; the
  proof is about places in the queue (`Nth`), not about filtered sequences.

`ClientDatabaseProofs` (any keys, callers, bound):

- `IdsAreNeverReused`: `RefreshKeepsClient` and `LookupsAgree`, from "ids count the
  objects in the order they were built".
- `RowsAreShared`: `NoForkedClient` and `RightsAreTheLatest`, from the strengthening
  "until its key is revoked, every object ever built is the row of its key", which
  is what makes write-backs of stale objects harmless.

`LoopbackServerProofs` (any instances, clients, floors, runs):

- `OneThreadEach`, `FloorsAreKept`, `HeldThreadsServe` and `NoGhosts`:
  `OneServerPerInstance`, `PeersMeetTheFloor`, `HeldThreadServes` and
  `NoGhostPeers`. One invariant carries all four: a live thread is the one its
  instance refers to (so `run` finds none when the reference is None); a live thread
  is registered or its instance broken; a handler's thread is past its start, and
  ended only if its instance is broken; a thread told to stop belongs to a broken
  instance or to the `stop()` that is joining it; and what the call under way has
  established. Each action's lemma first says what becomes of every field of every
  instance.

`MessageRecorderProofs` (any waiters, types, directions, bounds):

- `WakeupsReachUnfiltered`, `NoneIsLate` and `WaitersAreDeregistered`:
  `NoLostWakeupUnfiltered`, `NoneOnlyAfterDeadline` and `NoLeakedWaiter`. The
  invariant says in which steps of `wait_for` its event is registered, where the
  call is late, and, for a wait for any direction before a clear, that its event is
  set for matching records only and that it blocks beside one only with its event
  set.

`AgentBusProofs` (any protocols, peers, queries, depth and chunks):

- `LiveProtocolsAreWired`: `LiveProtocolsRecord`, from "no protocol is in the chain
  twice", which shutdown keeps although it unwraps only the outermost.
- `RootedIsComplete`: the action property `RootedReachesAll`. The invariant
  describes the stack of emissions: whatever is inside a rooted emission is rooted,
  so that peers stay as they are; and the peers it has reached are those owed it
  whose protocol's handler is done with them. The proof also shows that no handler
  of a rooted emission raises.
- `AnswersAreOrdered`: `AnswersInOrder`. While a generator has not ended, its queue
  holds exactly the chunks its consumer does not have, and last the end marker if
  the agent is done.

`TopologyProofs` (any scripts; satellites have names of their own and a listener
that was added before them):

- `StartIsComplete`, `RightsArePlanned` and `StopIsComplete`: `StartConnectsAll`,
  `RightsFollowThePlan` and `StopReachesEveryNode`. The invariant says that whatever
  runs, is connected or has a directory belongs to a node in the lists that
  `stop_all` goes through, and what the loops of `start_all` and `stop_all` have
  achieved up to their index.

`SatelliteSessionProofs` (any bounds, any calls):

- `LiveFramesDecodeAlways`, `NoGhostClientEver` and `ConnectSecures`:
  `LiveFramesDecode`, `NoGhostClient` and the action property
  `ConnectReturnsSecured`, which have `overlaid = {}` in their statements. One
  invariant (`SessionInv`) holds until then and carries all three. What a job leads
  to is behind it in the queue (`InTurn`): payloads of a connection come before
  those of a later one, and no message of the end of a handshake is behind a job
  that starts one. A connection that is up has at most one message in the queue that
  would carry its handshake on (`OneHandshake`), although the payloads of every
  connection that was given up are still answered: those answers are over another
  prologue. A queued `connect_satellite` or `start_handshake` finds no connection
  that it could spoil (`StartInv`): the connection is down, or was half-open with
  nothing queued. It is `connect` over a connection in use that breaks this, by
  putting the next connection in the place of one that nobody closed.
- `NothingSurvivesCloseAlways`: `NothingSurvivesClose`, whatever was overlaid. Its
  invariant (`CloseInv`) is weaker: transports belong to connections that exist,
  HELLOs come in the order of their connections, and a node without a connection has
  no handshake in progress that a leftover message 2 could complete.
- `TypeCorrect` likewise. Connection numbers stay in their bound because a `connect`
  queues one job, which is counted wherever it is.

`ProbeAssertionsProofs` (any satellites, types, counts and timeouts):

- `FailsOnlyLate`: the action property `FailIsLate`, from the type invariant: a
  helper past its loop has a deadline that is over, and the places of the records
  before it are among those it counts. The wait for a target looks again only when
  it wakes, so that what its invariant carries is the first lookup: nothing was
  recorded before the call if it found nothing.
- `AdmissionsJudged`: `AdmissionJudged`, from two invariants. Every refusal the
  master recorded for a connected satellite is told in a denial that is on its way
  to it or recorded by it, and every denial comes from such a refusal (`AdmitInv`);
  in process a verdict finds nothing on its way, so that denials and refusals agree
  when `assert_acl_enforced` judges, and nothing happens to them before the next
  probe (`TruthInv`).
- `PassesAreEarned`: `PassIsEarned`, in two parts. For what a mark promises
  (`MarkedIsEarned`) the invariant (`EarnInv`) says that what a probe caused was
  recorded at its mark or later, and that at its mark or later a satellite sends
  nothing else; so the first flood since the mark is the probe's, and its answers
  have its id, whatever else arrives. If no query was in transit at the mark, the
  answers since are the probe's too. After the pause of `assert_destination_routed`,
  those that were looked at have nothing of the probe from before its end, and
  nothing that comes later is. For `BatchInOrder`: the numbers of a fifo probe are
  each in transit once or injected once (`FifoInv`), and behind everything recorded
  before it; in process they are all injected before the call, so that the last
  injections of the peer are the probe's, whatever precedes them. As many increasing
  ones as there are numbers are then all of them (counted with the library's
  theorems on finite sets), and no other injection of the probe can follow the
  verdict.

Each module also proves `TypeCorrect`, its type invariant, from its invariant.

Assumptions are the named `ConstantsAssumption` of each module. The liveness
properties (`EveryCallReturns` of the pump and of the session, `WaitReturns`,
`RecordedIsReturned`, `QueryEnds`, `StoppedServerEnds`) are checked by TLC only:
they rest on fairness, which is out of the prover's reach.

## Not modelled

- hivemind-core, hivemind-bus-client, ovoscope, websockets and asyncio are external:
  the models have the steps this repository relies on.
- `assertions.py` has some thirty helpers that compare the fields of records already
  there, in one pass and without state of their own: counts of a type, session and
  envelope contents. What they compare is computed by hivemind-core.
- `wait_for_bus` subscribes to an external bus for one message.
- `topology_plot.py`, `xdg_isolation.py`, `plugins/binary.py` and the key files of
  `utils.py`: formatting, the environment, a list, and the file system.
