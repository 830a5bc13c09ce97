--------------------------- MODULE LoopbackServer ---------------------------
(***************************************************************************)
(* The WebSocket servers of plugins/loopback.py: instances of              *)
(* LoopbackNetworkProtocol, the daemon thread each run() starts, the event *)
(* loop on it and one handler per connected client.                        *)
(*                                                                         *)
(* One thread (the test's) calls run() and stop(), of one instance at a    *)
(* time; server threads and handlers interleave with its calls.  A loop    *)
(* runs one callback at a time: while a handler is inside handle_message,  *)
(* which may wait for an agent's answer, nothing else runs on its loop.    *)
(* Every timeout is a step that is always possible while the thread waits. *)
(***************************************************************************)
EXTENDS Integers, FiniteSets

CONSTANTS
  Instances,  \* LoopbackNetworkProtocol objects, a master each
  Clients,    \* WebSocket clients
  FloorOf,    \* min_protocol_version of an instance
  VersionOf,  \* highest protocol version a client speaks
  MaxRuns      \* bound: server threads started, by all the instances

ASSUME ConstantsAssumption ==
  /\ Instances # {}
  /\ FloorOf \in [Instances -> Nat]
  /\ VersionOf \in [Clients -> Nat]
  /\ MaxRuns \in Nat \ {0}

VARIABLES
  cfgFloor,    \* min_protocol_version in the process-global server config
  liveFloors,  \* _LIVE_FLOORS: the instances registered in it
  inst,        \* the fields of an instance
  started,     \* server threads started so far: a thread is its number
  owner,       \* the instance whose run() started a thread
  thread,      \* control state of a server thread
  stopping,    \* in how many turns a thread's loop will run loop.stop
  drain,       \* the _drain_clients coroutine of an instance
  conn,        \* the handler of a client
  peers,       \* hm_protocol.clients of all the masters
  driver       \* the call the test's thread is in

vars == <<cfgFloor, liveFloors, inst, started, owner, thread, stopping,
          drain, conn, peers, driver>>

Threads == 1..MaxRuns

(***************************************************************************)
(* The callbacks that wait when a turn of the loop begins run in that      *)
(* turn, those that come while it runs in the next one.  So the loop.stop  *)
(* that wait run in one turn or, if a handler blocks the turn that is to   *)
(* run the first, in that one and the next.                                *)
(***************************************************************************)
Turns == 0..2

(***************************************************************************)
(* The fields of an instance: _thread and _loop name the thread they       *)
(* belong to (0 is None), _url, _ready and _startup_error say whether they *)
(* are set, tracked is _clients, _sockets and _handler_tasks, which change *)
(* together.                                                               *)
(***************************************************************************)
Fields == [ref : 0..MaxRuns, loop : 0..MaxRuns, url : BOOLEAN,
           ready : BOOLEAN, error : BOOLEAN, broken : BOOLEAN,
           tracked : SUBSET Clients]

ThreadStates == {"none", "spawned", "starting", "bound", "serving",
                 "shutting", "cancelling", "dead"}

(***************************************************************************)
(* A handler awaits its client's next message (open), is inside            *)
(* handle_message (blocked) or in its finally block (closing).  ended: its *)
(* socket is closed or its task cancelled, so that the wait will end.      *)
(***************************************************************************)
Out == [pc |-> "out"]

Handlers == {Out} \cup [pc : {"open", "blocked", "closing"},
                        thread : Threads, ended : BOOLEAN]

Idle == [call |-> "idle"]

Calls == {Idle} \cup [call : {"run", "drain", "join", "clear"},
                      inst : Instances, loop : 0..MaxRuns]

TypeOK ==
  /\ cfgFloor \in Nat
  /\ liveFloors \subseteq Instances
  /\ inst \in [Instances -> Fields]
  /\ started \in 0..MaxRuns
  /\ owner \in [Threads -> Instances]
  /\ thread \in [Threads -> ThreadStates]
  /\ stopping \in [Threads -> Turns]
  /\ drain \in [Instances -> {"none", "queued", "waiting", "done"}]
  /\ conn \in [Clients -> Handlers]
  /\ peers \subseteq Clients
  /\ driver \in Calls

Init ==
  /\ cfgFloor = 2
  /\ liveFloors = {}
  /\ inst = [i \in Instances |->
       [ref |-> 0, loop |-> 0, url |-> FALSE, ready |-> FALSE,
        error |-> FALSE, broken |-> FALSE, tracked |-> {}]]
  /\ started = 0
  /\ owner = [t \in Threads |-> CHOOSE i \in Instances : TRUE]
  /\ thread = [t \in Threads |-> "none"]
  /\ stopping = [t \in Threads |-> 0]
  /\ drain = [i \in Instances |-> "none"]
  /\ conn = [c \in Clients |-> Out]
  /\ peers = {}
  /\ driver = Idle

Alive(t) == thread[t] \notin {"none", "dead"}

(* The handlers on the loop of a thread.                                   *)
On(t) == {c \in Clients : conn[c] # Out /\ conn[c].thread = t}

LoopFree(t) == \A c \in On(t) : conn[c].pc # "blocked"

InstOf(c) == owner[conn[c].thread]

Set(i, fields) == inst' = [inst EXCEPT ![i] = fields]

SetThread(t, pc) == thread' = [thread EXCEPT ![t] = pc]

SetHandler(c, handler) == conn' = [conn EXCEPT ![c] = handler]

EndAll(C) ==
  conn' = [c \in Clients |->
             IF c \in C THEN [conn[c] EXCEPT !.ended = TRUE] ELSE conn[c]]

(* What a step of a handler or a drain leaves alone.                       *)
Calm == UNCHANGED <<cfgFloor, liveFloors, started, owner, thread, stopping,
                    driver>>

(* The loop.stop of a turn end the run_forever or run_until_complete that  *)
(* is under way, once, and are spent.                                      *)
StopRuns(t) ==
  /\ LoopFree(t)
  /\ stopping[t] > 0
  /\ stopping' = [stopping EXCEPT ![t] = @ - 1]

-----------------------------------------------------------------------------
(* run().                                                                  *)

(* Faulty variant: only a higher floor is taken for a conflict.            *)
ConflictsAbove(i) == \E j \in liveFloors \ {i} : FloorOf[j] > FloorOf[i]

Conflicts(i) == \E j \in liveFloors \ {i} : FloorOf[j] # FloorOf[i]

(***************************************************************************)
(* The call as far as the wait for _ready.  Where a guard fails the code   *)
(* raises (broken, conflict) or returns (_thread set) and changes nothing. *)
(***************************************************************************)
Run(i) ==
  /\ driver = Idle
  /\ started < MaxRuns
  /\ ~inst[i].broken
  /\ inst[i].ref = 0
  /\ ~Conflicts(i)
  /\ cfgFloor' = FloorOf[i]
  /\ liveFloors' = liveFloors \cup {i}
  /\ started' = started + 1
  /\ owner' = [owner EXCEPT ![started + 1] = i]
  /\ Set(i, [inst[i] EXCEPT !.ready = FALSE, !.error = FALSE,
                            !.ref = started + 1])
  /\ SetThread(started + 1, "spawned")
  /\ driver' = [call |-> "run", inst |-> i, loop |-> 0]
  /\ UNCHANGED <<stopping, drain, conn, peers>>

Returns == driver' = Idle

In(call, i) == driver.call = call /\ driver.inst = i

RunReturns(i) ==
  /\ In("run", i)
  /\ inst[i].ready
  /\ ~inst[i].error
  /\ Returns
  /\ UNCHANGED <<cfgFloor, liveFloors, inst, started, owner, thread, stopping,
                 drain, conn, peers>>

(* Faulty variant: a failed start leaves the instance as it is.            *)
RunRaisesUnmarked(i) ==
  /\ In("run", i)
  /\ inst[i].ready => inst[i].error
  /\ liveFloors' = liveFloors \ {i}
  /\ Returns
  /\ UNCHANGED <<cfgFloor, inst, started, owner, thread, stopping, drain,
                 conn, peers>>

(* The startup failed, or ten seconds passed first.                        *)
RunRaises(i) ==
  /\ In("run", i)
  /\ inst[i].ready => inst[i].error
  /\ Set(i, [inst[i] EXCEPT !.broken = TRUE])
  /\ liveFloors' = liveFloors \ {i}
  /\ Returns
  /\ UNCHANGED <<cfgFloor, started, owner, thread, stopping, drain, conn,
                 peers>>

-----------------------------------------------------------------------------
(* The server thread.                                                      *)

OpenLoop(t) ==
  /\ thread[t] = "spawned"
  /\ SetThread(t, "starting")
  /\ Set(owner[t], [inst[owner[t]] EXCEPT !.loop = t])
  /\ UNCHANGED <<cfgFloor, liveFloors, started, owner, stopping, drain, conn,
                 peers, driver>>

(***************************************************************************)
(* _start_server completes.  A loop.stop that runs in the same turn of the *)
(* loop is spent on ending run_until_complete; one that runs later ends    *)
(* run_forever.                                                            *)
(***************************************************************************)
StartServer(t) ==
  /\ thread[t] = "starting"
  /\ SetThread(t, "bound")
  /\ Set(owner[t], [inst[owner[t]] EXCEPT !.url = TRUE])
  /\ UNCHANGED stopping \/ StopRuns(t)
  /\ UNCHANGED <<cfgFloor, liveFloors, started, owner, drain, conn, peers,
                 driver>>

ServeForever(t) ==
  /\ thread[t] = "bound"
  /\ SetThread(t, "serving")
  /\ Set(owner[t], [inst[owner[t]] EXCEPT !.ready = TRUE])
  /\ UNCHANGED <<cfgFloor, liveFloors, started, owner, stopping, drain, conn,
                 peers, driver>>

(* The bind fails, or loop.stop ends run_until_complete before it is done: *)
(* there is no server to close.                                            *)
StartFails(t) ==
  /\ thread[t] = "starting"
  /\ SetThread(t, "cancelling")
  /\ Set(owner[t], [inst[owner[t]] EXCEPT !.error = TRUE, !.ready = TRUE])
  /\ UNCHANGED stopping \/ StopRuns(t)
  /\ UNCHANGED <<cfgFloor, liveFloors, started, owner, drain, conn, peers,
                 driver>>

(* loop.close(): the callbacks and coroutines on the loop go with it.      *)
LoopCloses(t) ==
  /\ SetThread(t, "dead")
  /\ Set(owner[t], [inst[owner[t]] EXCEPT !.loop = 0])
  /\ drain' = [drain EXCEPT ![owner[t]] = "none"]
  /\ stopping' = [stopping EXCEPT ![t] = 0]
  /\ UNCHANGED <<cfgFloor, liveFloors, started, owner, conn, peers, driver>>

(* Faulty variant: the loop is closed without waiting for its tasks.       *)
LoopStopsAtOnce(t) ==
  /\ thread[t] = "serving"
  /\ LoopFree(t) /\ stopping[t] > 0
  /\ LoopCloses(t)

(* Faulty variant: the connections are not closed.                         *)
LoopStopsOnly(t) ==
  /\ thread[t] = "serving"
  /\ StopRuns(t)
  /\ SetThread(t, "shutting")
  /\ UNCHANGED <<cfgFloor, liveFloors, inst, started, owner, drain, conn,
                 peers, driver>>

(* loop.stop ends run_forever, and _shutdown_loop closes the server, which *)
(* closes the connections.                                                 *)
LoopStops(t) ==
  /\ thread[t] = "serving"
  /\ StopRuns(t)
  /\ SetThread(t, "shutting")
  /\ EndAll(On(t))
  /\ UNCHANGED <<cfgFloor, liveFloors, inst, started, owner, drain, peers,
                 driver>>

(***************************************************************************)
(* server.wait_closed() returns when every handler has.  A loop.stop that  *)
(* comes first ends it with the RuntimeError that lines 215-216 log.       *)
(* Either way the tasks that are left are cancelled.                       *)
(***************************************************************************)
CloseServer(t) ==
  /\ thread[t] = "shutting"
  /\ (On(t) = {} /\ UNCHANGED stopping) \/ StopRuns(t)
  /\ SetThread(t, "cancelling")
  /\ EndAll(On(t))
  /\ UNCHANGED <<cfgFloor, liveFloors, inst, started, owner, drain, peers,
                 driver>>

(***************************************************************************)
(* The gather of the tasks is complete; its five seconds do not cut it     *)
(* short: wait_for cancels what is left and waits for that to end.  Or a   *)
(* loop.stop ends it with the RuntimeError that lines 230-231 log, and the *)
(* loop is closed over the handlers that are left.                         *)
(***************************************************************************)
CloseLoop(t) ==
  /\ thread[t] = "cancelling"
  /\ On(t) = {} \/ (LoopFree(t) /\ stopping[t] > 0)
  /\ LoopCloses(t)

-----------------------------------------------------------------------------
(* Client handlers.                                                        *)

(***************************************************************************)
(* A client whose key is in the database: the handler tracks it and calls  *)
(* handle_new_client, where hivemind-core compares its version with the    *)
(* configured floor and either registers it or disconnects it.  (Without   *)
(* authorization or a known key the socket is closed and nothing changes.) *)
(***************************************************************************)
HandleClient(t, c) ==
  /\ thread[t] = "serving"
  /\ LoopFree(t)
  /\ conn[c] = Out
  /\ SetHandler(c, [pc |-> "open", thread |-> t,
                    ended |-> VersionOf[c] < cfgFloor])
  /\ peers' = IF VersionOf[c] < cfgFloor THEN peers ELSE peers \cup {c}
  /\ Set(owner[t], [inst[owner[t]] EXCEPT !.tracked = @ \cup {c}])
  /\ Calm /\ UNCHANGED drain

(* The handler's loop runs its callbacks: nothing does once it is closed.  *)
OnLoop(c) == Alive(conn[c].thread) /\ LoopFree(conn[c].thread)

(* handle_message waits for an answer, on the loop's own thread.           *)
HandleMessage(c) ==
  /\ conn[c].pc = "open"
  /\ OnLoop(c)
  /\ SetHandler(c, [conn[c] EXCEPT !.pc = "blocked"])
  /\ Calm /\ UNCHANGED <<inst, drain, peers>>

MessageHandled(c) ==
  /\ conn[c].pc = "blocked"
  /\ SetHandler(c, [conn[c] EXCEPT !.pc = "open"])
  /\ Calm /\ UNCHANGED <<inst, drain, peers>>

(* The client closes its socket.                                           *)
ClientCloses(c) ==
  /\ conn[c].pc \in {"open", "blocked"}
  /\ ~conn[c].ended
  /\ SetHandler(c, [conn[c] EXCEPT !.ended = TRUE])
  /\ Calm /\ UNCHANGED <<inst, drain, peers>>

LeaveTry(c) ==
  /\ conn[c].pc = "open"
  /\ conn[c].ended
  /\ OnLoop(c)
  /\ SetHandler(c, [conn[c] EXCEPT !.pc = "closing"])
  /\ Calm /\ UNCHANGED <<inst, drain, peers>>

(* Faulty variant: the handler ends but is not forgotten.                  *)
DisconnectedStays(c) ==
  /\ conn[c].pc = "closing"
  /\ OnLoop(c)
  /\ SetHandler(c, [conn[c] EXCEPT !.pc = "out"])
  /\ peers' = peers \ {c}
  /\ Calm /\ UNCHANGED <<inst, drain>>

(***************************************************************************)
(* The rest of the finally block: the sender is done, out of time or its   *)
(* wait cancelled, and handle_client_disconnected drops the peer.          *)
(***************************************************************************)
Disconnected(c) ==
  /\ conn[c].pc = "closing"
  /\ OnLoop(c)
  /\ SetHandler(c, Out)
  /\ peers' = peers \ {c}
  /\ Set(InstOf(c), [inst[InstOf(c)] EXCEPT !.tracked = @ \ {c}])
  /\ Calm /\ UNCHANGED drain

-----------------------------------------------------------------------------
(* stop().                                                                 *)

(***************************************************************************)
(* With a loop the call submits _drain_clients to it; else it goes on to   *)
(* the join.  A drain that an earlier call left unfinished does nothing    *)
(* that the new one does not.                                              *)
(***************************************************************************)
Stop(i) ==
  /\ driver = Idle
  /\ \/ /\ inst[i].loop # 0
        /\ driver' = [call |-> "drain", inst |-> i, loop |-> inst[i].loop]
        /\ drain' = [drain EXCEPT ![i] = "queued"]
     \/ /\ inst[i].loop = 0
        /\ driver' = [call |-> "join", inst |-> i, loop |-> 0]
        /\ UNCHANGED drain
  /\ UNCHANGED <<cfgFloor, liveFloors, inst, started, owner, thread, stopping,
                 conn, peers>>

(* The thread whose loop an instance has runs callbacks.                   *)
DrainRuns(i) ==
  LET t == inst[i].loop
  IN  /\ t # 0
      /\ thread[t] \in {"starting", "serving", "shutting", "cancelling"}
      /\ LoopFree(t)

(* Handlers the instance tracks and that run.                              *)
LiveTracked(i) == {c \in inst[i].tracked : conn[c] # Out}

(* _drain_clients closes the sockets; it then waits for their handlers.    *)
DrainCloses(i) ==
  /\ drain[i] = "queued"
  /\ DrainRuns(i)
  /\ EndAll(LiveTracked(i))
  /\ drain' = [drain EXCEPT ![i] = "waiting"]
  /\ Calm /\ UNCHANGED <<inst, peers>>

(* The handlers are done or the grace is over; the rest is cancelled.      *)
DrainEnds(i) ==
  /\ drain[i] = "waiting"
  /\ DrainRuns(i)
  /\ EndAll(LiveTracked(i))
  /\ drain' = [drain EXCEPT ![i] = "done"]
  /\ Calm /\ UNCHANGED <<inst, peers>>

(* The drain is done, or shutdown_grace + 3 seconds have passed.           *)
StopLoop(i) ==
  /\ In("drain", i)
  /\ LET t == driver.loop IN
     \/ ~Alive(t) /\ UNCHANGED stopping
     \/ /\ Alive(t)
        /\ stopping' = [stopping EXCEPT ![t] = IF @ = 0 THEN 1 ELSE @]
     \/ /\ Alive(t) /\ ~LoopFree(t) /\ stopping[t] = 1
        /\ stopping' = [stopping EXCEPT ![t] = 2]
  /\ driver' = [driver EXCEPT !.call = "join"]
  /\ UNCHANGED <<cfgFloor, liveFloors, inst, started, owner, thread, drain,
                 conn, peers>>

(* Faulty variant: the reference to a thread still alive is dropped.       *)
JoinForgets(i) ==
  /\ In("join", i)
  /\ Set(i, [inst[i] EXCEPT !.ref = 0])
  /\ driver' = [driver EXCEPT !.call = "clear"]
  /\ UNCHANGED <<cfgFloor, liveFloors, started, owner, thread, stopping,
                 drain, conn, peers>>

(* No thread, a thread that ended, or one still alive after five seconds.  *)
Join(i) ==
  /\ In("join", i)
  /\ \/ /\ inst[i].ref = 0
        /\ UNCHANGED inst
     \/ /\ inst[i].ref # 0
        /\ thread[inst[i].ref] = "dead"
        /\ Set(i, [inst[i] EXCEPT !.ref = 0])
     \/ /\ inst[i].ref # 0
        /\ Alive(inst[i].ref)
        /\ Set(i, [inst[i] EXCEPT !.broken = TRUE])
  /\ driver' = [driver EXCEPT !.call = "clear"]
  /\ UNCHANGED <<cfgFloor, liveFloors, started, owner, thread, stopping,
                 drain, conn, peers>>

ClearFields(i) ==
  /\ In("clear", i)
  /\ Set(i, [inst[i] EXCEPT !.url = FALSE, !.ready = FALSE, !.tracked = {}])
  /\ liveFloors' = liveFloors \ {i}
  /\ Returns
  /\ UNCHANGED <<cfgFloor, started, owner, thread, stopping, drain, conn,
                 peers>>

-----------------------------------------------------------------------------
Driver == \E i \in Instances :
  \/ RunReturns(i) \/ RunRaises(i) \/ StopLoop(i) \/ Join(i) \/ ClearFields(i)

Server(t) ==
  \/ OpenLoop(t) \/ StartServer(t) \/ ServeForever(t)
  \/ StartFails(t) \/ CloseServer(t) \/ CloseLoop(t)

Drain(i) == DrainCloses(i) \/ DrainEnds(i)

Next ==
  \/ \E i \in Instances : Run(i) \/ Stop(i) \/ Drain(i)
  \/ Driver
  \/ \E t \in Threads :
       \/ Server(t)
       \/ LoopStops(t)
       \/ \E c \in Clients : HandleClient(t, c)
  \/ \E c \in Clients :
       \/ HandleMessage(c) \/ MessageHandled(c) \/ ClientCloses(c)
       \/ LeaveTry(c) \/ Disconnected(c)

Spec == Init /\ [][Next]_vars

(***************************************************************************)
(* Server threads run, and an agent's answer is waited for with a timeout. *)
(* What waits for its turn on a loop gets it: asyncio runs every callback  *)
(* that is ready once per turn (strong fairness).  Nothing is assumed of   *)
(* the test's thread, of clients and of the drain.                         *)
(***************************************************************************)
Fairness ==
  /\ \A t \in Threads : WF_vars(Server(t)) /\ SF_vars(LoopStops(t))
  /\ \A c \in Clients : /\ WF_vars(MessageHandled(c))
                        /\ SF_vars(LeaveTry(c) \/ Disconnected(c))

FairSpec == Spec /\ Fairness

-----------------------------------------------------------------------------
(* Properties.                                                             *)

(* No call is under way on the instance.                                   *)
Settled(i) == driver = Idle \/ driver.inst # i

(***************************************************************************)
(* An instance never has two server threads, however its runs and stops    *)
(* ended: stop keeps the reference to a thread it could not join (lines    *)
(* 496-498) and run() refuses a broken instance (lines 106-111).           *)
(***************************************************************************)
OneServerPerInstance ==
  \A t, u \in Threads :
    Alive(t) /\ Alive(u) /\ owner[t] = owner[u] => t = u

(***************************************************************************)
(* The configured floor is that of every instance registered in            *)
(* _LIVE_FLOORS, so the peers of an instance that is not broken meet the   *)
(* floor it asked for (lines 74-81, 116-134).                              *)
(***************************************************************************)
PeersMeetTheFloor ==
  /\ \A i \in liveFloors : cfgFloor = FloorOf[i]
  /\ \A c \in peers : LET i == InstOf(c)
                      IN  inst[i].broken \/ VersionOf[c] >= FloorOf[i]

(***************************************************************************)
(* An unbroken instance that holds a thread serves: the thread is past its *)
(* start, the URL is there and the floor registered.  Otherwise run()      *)
(* would silently do nothing (lines 165-169).                              *)
(***************************************************************************)
HeldThreadServes ==
  \A i \in Instances :
    LET f == inst[i]
    IN  Settled(i) /\ f.ref # 0 /\ ~f.broken
          => /\ thread[f.ref] = "serving"
             /\ f.loop = f.ref
             /\ f.url
             /\ f.ready
             /\ i \in liveFloors

(***************************************************************************)
(* A stopped instance that is not broken has no peer left: every handler   *)
(* ran its finally block (the docstring of _drain_clients, lines 447-450). *)
(* A loop that closed leaves a peer only if its instance is broken: a stop *)
(* timed out in its join, and further ones reached the loop as it shut     *)
(* down.                                                                   *)
(***************************************************************************)
NoGhostPeers ==
  \A c \in peers :
    LET i == InstOf(c)
    IN  inst[i].broken \/ (Alive(conn[c].thread) /\ i \in liveFloors)

(***************************************************************************)
(* A serving thread that was told to stop ends, even if stop() gave up on  *)
(* it while one of its handlers was blocked.                               *)
(***************************************************************************)
StoppedServerEnds ==
  \A t \in Threads :
    thread[t] = "serving" /\ stopping[t] > 0 ~> thread[t] = "dead"

=============================================================================
