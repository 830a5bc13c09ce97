------------------------ MODULE LoopbackServerProofs ------------------------
(***************************************************************************)
(* Safety of LoopbackServer for any instances, clients, floors and number  *)
(* of runs.                                                                *)
(***************************************************************************)
EXTENDS LoopbackServer, TLAPS

(* The thread an instance refers to is the only one of its threads alive.  *)
Ownership ==
  /\ \A t \in Threads : t > started <=> thread[t] = "none"
  /\ \A t \in Threads : Alive(t) => inst[owner[t]].ref = t
  /\ \A i \in Instances : inst[i].ref # 0 => /\ inst[i].ref <= started
                                             /\ owner[inst[i].ref] = i
  /\ \A i \in Instances : inst[i].loop # 0 =>
       /\ owner[inst[i].loop] = i
       /\ Alive(inst[i].loop)
  /\ \A t \in Threads : Alive(t) /\ thread[t] # "spawned" =>
       inst[owner[t]].loop = t

(* A live thread is registered, unless its instance is marked broken.      *)
Registry ==
  /\ \A i \in liveFloors : cfgFloor = FloorOf[i]
  /\ \A t \in Threads : Alive(t) =>
       owner[t] \in liveFloors \/ inst[owner[t]].broken

(* A handler runs on a loop that has served, and is left on a closed one   *)
(* only by a broken instance.                                              *)
HandlersRun ==
  /\ \A c \in Clients : conn[c] # Out =>
       /\ conn[c].thread \in Threads
       /\ \/ thread[conn[c].thread] \in {"serving", "shutting", "cancelling"}
          \/ thread[conn[c].thread] = "dead" /\ inst[InstOf(c)].broken
  /\ \A c \in peers : conn[c] # Out

PeersAdmitted ==
  \A c \in peers : inst[InstOf(c)].broken \/ VersionOf[c] >= FloorOf[InstOf(c)]

(* What the calls under way have established.                              *)
Calling ==
  /\ \A i \in Instances : In("run", i) =>
       /\ inst[i].ref # 0
       /\ ~inst[i].broken
       /\ thread[inst[i].ref] \in {"bound", "serving"} => inst[i].url
       /\ inst[i].ready => inst[i].error \/ thread[inst[i].ref] = "serving"
  /\ \A i \in Instances : In("drain", i) =>
       /\ driver.loop # 0 /\ owner[driver.loop] = i /\ driver.loop <= started
       /\ inst[i].ref # 0 => inst[i].broken \/ thread[inst[i].ref] = "serving"
  /\ \A i \in Instances : In("join", i) /\ inst[i].ref # 0 =>
       \/ inst[i].broken
       \/ thread[inst[i].ref] \in {"serving", "shutting", "cancelling", "dead"}
  /\ \A i \in Instances : In("clear", i) =>
       inst[i].broken \/ inst[i].ref = 0

(* The loop of an unbroken instance is told to stop once, by the call that *)
(* is joining its thread, and never as it shuts down.                      *)
Told ==
  \A t \in Threads :
    /\ stopping[t] # 0 =>
         /\ Alive(t)
         /\ \/ inst[owner[t]].broken
            \/ In("join", owner[t]) /\ stopping[t] = 1
    /\ thread[t] \in {"shutting", "cancelling"} =>
         \/ inst[owner[t]].broken
         \/ /\ In("join", owner[t]) \/ In("run", owner[t])
            /\ stopping[t] = 0

(* An unbroken instance between calls has a URL and is ready.              *)
Held ==
  \A i \in Instances :
    Settled(i) /\ inst[i].ref # 0 /\ ~inst[i].broken =>
      /\ thread[inst[i].ref] = "serving"
      /\ inst[i].url
      /\ inst[i].ready

IInv == /\ TypeOK /\ Ownership /\ Registry /\ HandlersRun /\ PeersAdmitted
        /\ Calling /\ Told /\ Held

-----------------------------------------------------------------------------
(* Ending handlers of C, all of them running, changes nothing else of them. *)
LEMMA EndAllKeeps ==
  ASSUME conn \in [Clients -> Handlers], NEW C \in SUBSET Clients,
         \A c \in C : conn[c] # Out, EndAll(C)
  PROVE  /\ conn' \in [Clients -> Handlers]
         /\ \A d \in Clients : /\ conn'[d] = Out <=> conn[d] = Out
                               /\ conn'[d].thread = conn[d].thread
<1>1. ASSUME NEW d \in Clients
      PROVE  /\ conn'[d] \in Handlers
             /\ conn'[d] = Out <=> conn[d] = Out
             /\ conn'[d].thread = conn[d].thread
  <2>1. CASE d \in C
    <3> DEFINE h == [conn[d] EXCEPT !.ended = TRUE]
    <3>1. conn[d] \in [pc : {"open", "blocked", "closing"},
                       thread : Threads, ended : BOOLEAN]
      BY <2>1 DEF Handlers
    <3>2. /\ h \in [pc : {"open", "blocked", "closing"},
                    thread : Threads, ended : BOOLEAN]
          /\ h.thread = conn[d].thread
          /\ h.pc # "out"
      BY <3>1
    <3>3. conn'[d] = h
      BY <2>1 DEF EndAll
    <3> QED
      BY <2>1, <3>2, <3>3 DEF Handlers, Out
  <2>2. CASE d \notin C
    BY <2>2 DEF EndAll
  <2> QED
    BY <2>1, <2>2
<1>2. conn' = [c \in Clients |-> conn'[c]]
  BY DEF EndAll
<1> QED
  BY <1>1, <1>2

(* What a step that may run the loop.stop of a turn does to them.          *)
LEMMA Spent ==
  ASSUME TypeOK, NEW t \in Threads, UNCHANGED stopping \/ StopRuns(t)
  PROVE  /\ stopping' \in [Threads -> Turns]
         /\ \A u \in Threads :
              \/ stopping'[u] = stopping[u]
              \/ u = t /\ stopping[t] # 0 /\ stopping'[t] = stopping[t] - 1
<1>1. stopping \in [Threads -> Turns] /\ stopping[t] \in 0..2
  BY DEF TypeOK, Turns
<1>2. CASE StopRuns(t)
  <2>1. stopping[t] - 1 \in Turns
    BY <1>1, <1>2 DEF StopRuns, Turns
  <2> QED
    BY <1>1, <1>2, <2>1 DEF StopRuns
<1> QED
  BY <1>1, <1>2

(* Ownership depends on the threads and the two references only.           *)
LEMMA OwnershipKept ==
  ASSUME TypeOK, Ownership, UNCHANGED <<thread, owner, started>>,
         \A j \in Instances : /\ inst'[j].ref = inst[j].ref
                              /\ inst'[j].loop = inst[j].loop
  PROVE  Ownership'
<1>1. /\ \A u \in Threads : owner[u] \in Instances
      /\ \A j \in Instances : inst[j] \in Fields
  BY DEF TypeOK
<1>2. \A j \in Instances : inst[j].loop # 0 => inst[j].loop \in Threads
  BY <1>1 DEF Fields, Threads
<1>3. \A u \in Threads : Alive(u)' <=> Alive(u)
  BY DEF Alive
<1> QED
  BY <1>1, <1>2, <1>3 DEF Ownership

(***************************************************************************)
(* Every action keeps the invariant.  Where the fields of an instance      *)
(* change, f are its new fields, and the first steps say of each field of  *)
(* every instance what it is afterwards.                                   *)
(***************************************************************************)

LEMMA RunKeeps ==
  ASSUME IInv, NEW i \in Instances, Run(i)
  PROVE  IInv'
<1> USE ConstantsAssumption DEF IInv, ConstantsAssumption
<1> DEFINE f == [inst[i] EXCEPT !.ref = started + 1, !.ready = FALSE,
                    !.error = FALSE]
<1>1. i \in Instances /\ inst[i] \in Fields
  BY DEF TypeOK, Run
<1>0. /\ started + 1 \in Threads
      /\ started + 1 \in 0..MaxRuns
      /\ ~Alive(started + 1)
      /\ \A u \in Threads : Alive(u) => owner[u] # i
  BY DEF TypeOK, Threads, Ownership, Alive, Run
<1>2. f \in Fields
  BY <1>0, <1>1 DEF Fields
<1>3. inst' = [inst EXCEPT ![i] = f]
  BY DEF Run, Set
<1> HIDE DEF f
<1>4. /\ inst' \in [Instances -> Fields]
      /\ \A j \in Instances :
           inst'[j] = IF j = i THEN f ELSE inst[j]
  BY <1>1, <1>2, <1>3 DEF TypeOK
<1>5. \A j \in Instances :
        /\ inst'[j].ref = IF j = i THEN started + 1 ELSE inst[j].ref
        /\ inst'[j].loop = inst[j].loop
        /\ inst'[j].url <=> inst[j].url
        /\ inst'[j].ready <=> j # i /\ inst[j].ready
        /\ inst'[j].error <=> j # i /\ inst[j].error
        /\ inst'[j].broken <=> inst[j].broken
  <2>1. /\ f.ref = started + 1
        /\ f.loop = inst[i].loop
        /\ f.url <=> inst[i].url
        /\ ~f.ready
        /\ ~f.error
        /\ f.broken <=> inst[i].broken
    BY <1>1 DEF Fields, f
  <2> QED
    BY <1>4, <2>1
<1>6. /\ \A u \in Threads :
           /\ thread'[u] = IF u = started + 1 THEN "spawned" ELSE thread[u]
           /\ owner'[u] = IF u = started + 1 THEN i ELSE owner[u]
      /\ started' = started + 1
      /\ cfgFloor' = FloorOf[i]
      /\ liveFloors' = liveFloors \cup {i}
      /\ driver' = [call |-> "run", inst |-> i, loop |-> 0]
      /\ driver = Idle
      /\ UNCHANGED <<stopping, drain, conn, peers>>
  BY <1>0 DEF TypeOK, Run, SetThread
<1>7. TypeOK'
  BY <1>1, <1>4, <1>0 DEF TypeOK, Calls, Idle, Threads, ThreadStates, Run,
         SetThread
<1>8. Ownership'
  <2>1. \A u \in Threads : u > started' <=> thread'[u] = "none"
    BY <1>6 DEF TypeOK, Threads, Ownership
  <2>2. \A u \in Threads : Alive(u)' => inst'[owner'[u]].ref = u
    BY <1>0, <1>5, <1>6 DEF TypeOK, Ownership, Alive
  <2>3. \A j \in Instances : inst'[j].ref # 0 =>
          inst'[j].ref <= started' /\ owner'[inst'[j].ref] = j
    <3>0. \A j \in Instances : inst[j].ref \in 0..MaxRuns
      BY DEF TypeOK, Fields
    <3>1. \A j \in Instances : inst[j].ref # 0 =>
            /\ inst[j].ref \in Threads
            /\ inst[j].ref <= started
            /\ inst[j].ref # started + 1
            /\ owner[inst[j].ref] = j
      BY <3>0 DEF TypeOK, Threads, Ownership
    <3>2. \A j \in Instances : inst[j].ref # 0 =>
            inst[j].ref <= started' /\ owner'[inst[j].ref] = j
      BY <1>6, <3>1 DEF TypeOK, Threads
    <3>3. started + 1 <= started' /\ owner'[started + 1] = i
      BY <1>0, <1>6 DEF TypeOK
    <3> QED
      BY <1>5, <3>2, <3>3
  <2>4. \A j \in Instances : inst'[j].loop # 0 =>
          /\ owner'[inst'[j].loop] = j
          /\ thread'[inst'[j].loop] \notin {"none", "dead"}
    <3>0. \A j \in Instances : inst[j].loop \in 0..MaxRuns
      BY DEF TypeOK, Fields
    <3>1. \A j \in Instances : inst[j].loop # 0 =>
            /\ inst[j].loop \in Threads
            /\ inst[j].loop # started + 1
            /\ Alive(inst[j].loop)
            /\ owner[inst[j].loop] = j
      BY <1>0, <3>0 DEF Threads, Ownership
    <3>2. \A u \in Threads : u # started + 1 =>
            owner'[u] = owner[u] /\ thread'[u] = thread[u]
      BY <1>6
    <3> QED
      BY <1>5, <3>1, <3>2 DEF Alive
  <2>5. ASSUME NEW u \in Threads, Alive(u)', thread'[u] # "spawned"
        PROVE  inst'[owner'[u]].loop = u
    <3>1. u # started + 1
      BY <1>6, <2>5
    <3>2. Alive(u) /\ thread[u] # "spawned" /\ owner'[u] = owner[u]
      BY <1>6, <2>5, <3>1 DEF Alive
    <3> QED
      BY <1>5, <3>2 DEF TypeOK, Ownership
  <2> QED
    BY <2>1, <2>2, <2>3, <2>4, <2>5 DEF Ownership, Alive
<1>9. Registry'
  BY <1>1, <1>0, <1>5, <1>6 DEF TypeOK, Registry, Alive, Run, Conflicts
<1>61. \A c \in Clients : conn[c] # Out =>
         /\ conn[c].thread \in Threads
         /\ thread'[conn[c].thread] = thread[conn[c].thread]
         /\ InstOf(c)' = InstOf(c)
         /\ InstOf(c) \in Instances
  <2>1. \A c \in Clients : conn[c] # Out =>
          conn[c].thread \in Threads /\ thread[conn[c].thread] # "none"
    BY DEF HandlersRun
  <2>2. thread[started + 1] = "none"
    BY <1>0 DEF TypeOK, Ownership
  <2>3. \A c \in Clients : conn[c] # Out => conn[c].thread # started + 1
    BY <2>1, <2>2
  <2> QED
    BY <1>6, <2>1, <2>3 DEF TypeOK, InstOf
<1>10. HandlersRun'
  BY <1>5, <1>6, <1>61 DEF HandlersRun
<1>11. PeersAdmitted'
  <2>1. \A c \in peers : c \in Clients /\ conn[c] # Out
    BY DEF TypeOK, HandlersRun
  <2> QED
    BY <1>5, <1>6, <1>61, <2>1 DEF PeersAdmitted
<1>12. Calling'
  <2>3. ~inst[i].broken /\ i \in Instances
    BY DEF Run
  <2>4. /\ inst'[i].ref = started + 1
        /\ started + 1 # 0
        /\ ~inst'[i].broken
        /\ ~inst'[i].ready
        /\ thread'[started + 1] = "spawned"
    BY <1>0, <1>5, <1>6, <2>3 DEF Threads
  <2> QED
    BY <1>6, <2>4 DEF Calling, In
<1>50. Told'
  <2>1. ASSUME NEW u \in Threads, u # started + 1
        PROVE  /\ Alive(u)' <=> Alive(u)
               /\ thread'[u] = thread[u] /\ owner'[u] = owner[u]
               /\ owner[u] \in Instances
               /\ inst'[owner[u]].broken <=> inst[owner[u]].broken
    BY <1>5, <1>6, <2>1 DEF TypeOK, Alive
  <2>2. \A u \in Threads :
          /\ stopping[u] # 0 => Alive(u) /\ inst[owner[u]].broken
          /\ thread[u] \in {"shutting", "cancelling"} => inst[owner[u]].broken
    BY <1>6 DEF Told, In, Idle
  <2>3. stopping[started + 1] = 0 /\ thread'[started + 1] = "spawned"
    BY <1>0, <1>6, <2>2
  <2> QED
    BY <1>6, <2>1, <2>2, <2>3 DEF Told
<1>13. Held'
  <2>1. \A j \in Instances : inst[j].ref # 0 => inst[j].ref \in Threads
    BY DEF TypeOK, Fields, Threads
  <2>2. \A j \in Instances : inst[j].ref # started + 1
    BY DEF TypeOK, Fields, Ownership
  <2> QED
    BY <1>5, <1>6, <2>1, <2>2 DEF Held, Settled, Idle
<1> QED
  BY <1>7, <1>8, <1>9, <1>10, <1>11, <1>12, <1>13, <1>50

LEMMA RunReturnsKeeps ==
  ASSUME IInv, NEW i \in Instances, RunReturns(i)
  PROVE  IInv'
<1> USE ConstantsAssumption DEF IInv, ConstantsAssumption
<1>1. TypeOK'
  BY DEF TypeOK, Calls, Idle, Threads, ThreadStates, RunReturns, Returns,
         In
<1>2. Ownership'
  BY DEF TypeOK, Ownership, Alive, RunReturns, Returns, In, Idle
<1>3. Registry'
  BY DEF TypeOK, Registry, Ownership, Calling, Alive, RunReturns, Returns,
         In, Idle
<1>4. HandlersRun'
  BY DEF TypeOK, HandlersRun, InstOf, RunReturns, Returns, In, Idle
<1>5. PeersAdmitted'
  BY DEF TypeOK, PeersAdmitted, HandlersRun, Registry, InstOf, Alive,
         RunReturns, Returns, In, Idle
<1>6. Calling'
  BY DEF TypeOK, Calling, Ownership, In, Alive, Idle, Calls, RunReturns,
         Returns
<1>50. Told'
  BY DEF TypeOK, Calling, Told, Held, Settled, Ownership, In, Alive, Idle,
     Calls, RunReturns, Returns
<1>7. Held'
  BY DEF TypeOK, Held, Ownership, Calling, Settled, In, Idle, Alive,
         RunReturns, Returns
<1> QED
  BY <1>1, <1>2, <1>3, <1>4, <1>5, <1>6, <1>7, <1>50

LEMMA RunRaisesKeeps ==
  ASSUME IInv, NEW i \in Instances, RunRaises(i)
  PROVE  IInv'
<1> USE ConstantsAssumption DEF IInv, ConstantsAssumption
<1> DEFINE f == [inst[i] EXCEPT !.broken = TRUE]
<1>1. i \in Instances /\ inst[i] \in Fields
  BY DEF TypeOK, RunRaises
<1>2. f \in Fields
  BY <1>1 DEF TypeOK, Fields, Threads, RunRaises
<1>3. inst' = [inst EXCEPT ![i] = f]
  BY DEF RunRaises, Set
<1> HIDE DEF f
<1>4. /\ inst' \in [Instances -> Fields]
      /\ \A j \in Instances :
           inst'[j] = IF j = i THEN f ELSE inst[j]
  BY <1>1, <1>2, <1>3 DEF TypeOK
<1>5. \A j \in Instances :
        /\ inst'[j].ref = inst[j].ref
        /\ inst'[j].loop = inst[j].loop
        /\ inst'[j].url <=> inst[j].url
        /\ inst'[j].ready <=> inst[j].ready
        /\ inst'[j].error <=> inst[j].error
        /\ inst'[j].broken <=> j = i \/ inst[j].broken
  <2>1. /\ f.ref = inst[i].ref
        /\ f.loop = inst[i].loop
        /\ f.url <=> inst[i].url
        /\ f.ready <=> inst[i].ready
        /\ f.error <=> inst[i].error
        /\ f.broken
    BY <1>1 DEF Fields, f
  <2> QED
    BY <1>4, <2>1
<1>6. TypeOK'
  BY <1>1, <1>4 DEF TypeOK, Calls, Idle, Threads, ThreadStates, RunRaises,
         Returns, In
<1>7. Ownership'
  BY <1>5, OwnershipKept DEF RunRaises, Returns
<1>8. Registry'
  BY <1>1, <1>4, <1>5 DEF TypeOK, Registry, Ownership, Calling, Alive,
     RunRaises, Returns, In, Idle
<1>9. HandlersRun'
  BY <1>1, <1>4, <1>5 DEF TypeOK, HandlersRun, InstOf, RunRaises, Returns,
     In, Idle
<1>10. PeersAdmitted'
  BY <1>1, <1>4, <1>5 DEF TypeOK, PeersAdmitted, HandlersRun, Registry, InstOf,
     Alive, RunRaises, Returns, In, Idle
<1>11. Calling'
  BY <1>1, <1>4, <1>5 DEF TypeOK, Calling, Ownership, In, Alive, Idle, Calls,
     RunRaises, Returns
<1>50. Told'
  BY <1>1, <1>4, <1>5 DEF TypeOK, Calling, Told, Held, Settled, Ownership, In,
     Alive, Idle, Calls, RunRaises, Returns
<1>12. Held'
  BY <1>1, <1>4, <1>5 DEF TypeOK, Held, Ownership, Calling, Settled, In, Idle,
     Alive, RunRaises, Returns
<1> QED
  BY <1>6, <1>7, <1>8, <1>9, <1>10, <1>11, <1>12, <1>50

LEMMA OpenLoopKeeps ==
  ASSUME IInv, NEW t \in Threads, OpenLoop(t)
  PROVE  IInv'
<1> USE ConstantsAssumption DEF IInv, ConstantsAssumption
<1> DEFINE f == [inst[owner[t]] EXCEPT !.loop = t]
<1>1. owner[t] \in Instances /\ inst[owner[t]] \in Fields
  BY DEF TypeOK, OpenLoop
<1>2. f \in Fields
  <2>1. t \in 0..MaxRuns
    BY DEF Threads
  <2> QED
    BY <1>1, <2>1 DEF Fields
<1>3. inst' = [inst EXCEPT ![owner[t]] = f]
  BY DEF OpenLoop, Set
<1> HIDE DEF f
<1>4. /\ inst' \in [Instances -> Fields]
      /\ \A j \in Instances :
           inst'[j] = IF j = owner[t] THEN f ELSE inst[j]
  BY <1>1, <1>2, <1>3 DEF TypeOK
<1>5. \A j \in Instances :
        /\ inst'[j].ref = inst[j].ref
        /\ inst'[j].loop = IF j = owner[t] THEN t ELSE inst[j].loop
        /\ inst'[j].url <=> inst[j].url
        /\ inst'[j].ready <=> inst[j].ready
        /\ inst'[j].error <=> inst[j].error
        /\ inst'[j].broken <=> inst[j].broken
  <2>1. /\ f.ref = inst[owner[t]].ref
        /\ f.loop = t
        /\ f.url <=> inst[owner[t]].url
        /\ f.ready <=> inst[owner[t]].ready
        /\ f.error <=> inst[owner[t]].error
        /\ f.broken <=> inst[owner[t]].broken
    BY <1>1 DEF Fields, f
  <2> QED
    BY <1>4, <2>1
<1>6. TypeOK'
  BY <1>1, <1>4 DEF TypeOK, Calls, Idle, Threads, ThreadStates, OpenLoop,
         SetThread
<1>7. Ownership'
  BY <1>1, <1>4, <1>5, SMTT(60) DEF TypeOK, Ownership, Alive, OpenLoop,
     SetThread
<1>8. Registry'
  BY <1>1, <1>4, <1>5 DEF TypeOK, Registry, Ownership, Calling, Alive,
         OpenLoop, SetThread
<1>9. HandlersRun'
  BY <1>1, <1>4, <1>5 DEF TypeOK, HandlersRun, InstOf, OpenLoop, SetThread
<1>10. PeersAdmitted'
  BY <1>1, <1>4, <1>5 DEF TypeOK, PeersAdmitted, HandlersRun, Registry, InstOf,
     Alive, OpenLoop, SetThread
<1>11. Calling'
  BY <1>1, <1>4, <1>5 DEF TypeOK, Calling, Ownership, In, Alive, Idle, Calls,
     OpenLoop, SetThread
<1>50. Told'
  BY <1>1, <1>4, <1>5 DEF TypeOK, Calling, Told, Held, Settled, Ownership, In,
     Alive, Idle, Calls, OpenLoop, SetThread
<1>12. Held'
  BY <1>1, <1>4, <1>5 DEF TypeOK, Held, Ownership, Calling, Settled, In, Idle,
     Alive, OpenLoop, SetThread
<1> QED
  BY <1>6, <1>7, <1>8, <1>9, <1>10, <1>11, <1>12, <1>50

LEMMA StartServerKeeps ==
  ASSUME IInv, NEW t \in Threads, StartServer(t)
  PROVE  IInv'
<1> USE ConstantsAssumption DEF IInv, ConstantsAssumption
<1> DEFINE f == [inst[owner[t]] EXCEPT !.url = TRUE]
<1>1. owner[t] \in Instances /\ inst[owner[t]] \in Fields
  BY DEF TypeOK, StartServer
<1>2. f \in Fields
  BY <1>1 DEF TypeOK, Fields, Threads, StartServer
<1>3. inst' = [inst EXCEPT ![owner[t]] = f]
  BY DEF StartServer, Set
<1> HIDE DEF f
<1>4. /\ inst' \in [Instances -> Fields]
      /\ \A j \in Instances :
           inst'[j] = IF j = owner[t] THEN f ELSE inst[j]
  BY <1>1, <1>2, <1>3 DEF TypeOK
<1>5. \A j \in Instances :
        /\ inst'[j].ref = inst[j].ref
        /\ inst'[j].loop = inst[j].loop
        /\ inst'[j].url <=> j = owner[t] \/ inst[j].url
        /\ inst'[j].ready <=> inst[j].ready
        /\ inst'[j].error <=> inst[j].error
        /\ inst'[j].broken <=> inst[j].broken
  <2>1. /\ f.ref = inst[owner[t]].ref
        /\ f.loop = inst[owner[t]].loop
        /\ f.url
        /\ f.ready <=> inst[owner[t]].ready
        /\ f.error <=> inst[owner[t]].error
        /\ f.broken <=> inst[owner[t]].broken
    BY <1>1 DEF Fields, f
  <2> QED
    BY <1>4, <2>1
<1>51. /\ stopping' \in [Threads -> Turns]
       /\ \A u \in Threads :
            \/ stopping'[u] = stopping[u]
            \/ u = t /\ stopping[t] # 0 /\ stopping'[t] = stopping[t] - 1
  BY Spent DEF StartServer
<1>52. \A u \in Threads : stopping[u] \in 0..2
  BY DEF TypeOK, Turns
<1>6. TypeOK'
  BY <1>1, <1>4, <1>51 DEF TypeOK, Calls, Idle, Threads, ThreadStates,
     StartServer, SetThread
<1>7. Ownership'
  BY <1>1, <1>4, <1>5, SMTT(60) DEF TypeOK, Ownership, Alive, StartServer,
     SetThread
<1>8. Registry'
  BY <1>1, <1>4, <1>5 DEF TypeOK, Registry, Ownership, Calling, Alive,
     StartServer, SetThread
<1>9. HandlersRun'
  BY <1>1, <1>4, <1>5 DEF TypeOK, HandlersRun, InstOf, StartServer, SetThread
<1>10. PeersAdmitted'
  BY <1>1, <1>4, <1>5 DEF TypeOK, PeersAdmitted, HandlersRun, Registry, InstOf,
     Alive, StartServer, SetThread
<1>11. Calling'
  BY <1>1, <1>4, <1>5 DEF TypeOK, Calling, Ownership, In, Alive, Idle, Calls,
     StartServer, SetThread
<1>50. Told'
  BY <1>1, <1>4, <1>5, <1>51, <1>52 DEF TypeOK, Calling, Told, Held, Settled,
     Ownership, In, Alive, Idle, Calls, StartServer, SetThread
<1>12. Held'
  BY <1>1, <1>4, <1>5 DEF TypeOK, Held, Ownership, Calling, Settled, In, Idle,
     Alive, StartServer, SetThread
<1> QED
  BY <1>6, <1>7, <1>8, <1>9, <1>10, <1>11, <1>12, <1>50

LEMMA ServeForeverKeeps ==
  ASSUME IInv, NEW t \in Threads, ServeForever(t)
  PROVE  IInv'
<1> USE ConstantsAssumption DEF IInv, ConstantsAssumption
<1> DEFINE f == [inst[owner[t]] EXCEPT !.ready = TRUE]
<1>1. owner[t] \in Instances /\ inst[owner[t]] \in Fields
  BY DEF TypeOK, ServeForever
<1>2. f \in Fields
  BY <1>1 DEF TypeOK, Fields, Threads, ServeForever
<1>3. inst' = [inst EXCEPT ![owner[t]] = f]
  BY DEF ServeForever, Set
<1> HIDE DEF f
<1>4. /\ inst' \in [Instances -> Fields]
      /\ \A j \in Instances :
           inst'[j] = IF j = owner[t] THEN f ELSE inst[j]
  BY <1>1, <1>2, <1>3 DEF TypeOK
<1>5. \A j \in Instances :
        /\ inst'[j].ref = inst[j].ref
        /\ inst'[j].loop = inst[j].loop
        /\ inst'[j].url <=> inst[j].url
        /\ inst'[j].ready <=> j = owner[t] \/ inst[j].ready
        /\ inst'[j].error <=> inst[j].error
        /\ inst'[j].broken <=> inst[j].broken
  <2>1. /\ f.ref = inst[owner[t]].ref
        /\ f.loop = inst[owner[t]].loop
        /\ f.url <=> inst[owner[t]].url
        /\ f.ready
        /\ f.error <=> inst[owner[t]].error
        /\ f.broken <=> inst[owner[t]].broken
    BY <1>1 DEF Fields, f
  <2> QED
    BY <1>4, <2>1
<1>6. TypeOK'
  BY <1>1, <1>4 DEF TypeOK, Calls, Idle, Threads, ThreadStates, ServeForever,
         SetThread
<1>7. Ownership'
  BY <1>1, <1>4, <1>5 DEF TypeOK, Ownership, Alive, ServeForever, SetThread
<1>8. Registry'
  BY <1>1, <1>4, <1>5 DEF TypeOK, Registry, Ownership, Calling, Alive,
     ServeForever, SetThread
<1>9. HandlersRun'
  BY <1>1, <1>4, <1>5 DEF TypeOK, HandlersRun, InstOf, ServeForever, SetThread
<1>10. PeersAdmitted'
  BY <1>1, <1>4, <1>5 DEF TypeOK, PeersAdmitted, HandlersRun, Registry, InstOf,
     Alive, ServeForever, SetThread
<1>11. Calling'
  BY <1>1, <1>4, <1>5 DEF TypeOK, Calling, Ownership, In, Alive, Idle, Calls,
     ServeForever, SetThread
<1>50. Told'
  BY <1>1, <1>4, <1>5 DEF TypeOK, Calling, Told, Held, Settled, Ownership, In,
     Alive, Idle, Calls, ServeForever, SetThread
<1>12. Held'
  BY <1>1, <1>4, <1>5 DEF TypeOK, Held, Ownership, Calling, Settled, In, Idle,
     Alive, ServeForever, SetThread
<1> QED
  BY <1>6, <1>7, <1>8, <1>9, <1>10, <1>11, <1>12, <1>50

LEMMA StartFailsKeeps ==
  ASSUME IInv, NEW t \in Threads, StartFails(t)
  PROVE  IInv'
<1> USE ConstantsAssumption DEF IInv, ConstantsAssumption
<1> DEFINE f == [inst[owner[t]] EXCEPT !.error = TRUE, !.ready = TRUE]
<1>1. owner[t] \in Instances /\ inst[owner[t]] \in Fields
  BY DEF TypeOK, StartFails
<1>2. f \in Fields
  BY <1>1 DEF TypeOK, Fields, Threads, StartFails
<1>3. inst' = [inst EXCEPT ![owner[t]] = f]
  BY DEF StartFails, Set
<1> HIDE DEF f
<1>4. /\ inst' \in [Instances -> Fields]
      /\ \A j \in Instances :
           inst'[j] = IF j = owner[t] THEN f ELSE inst[j]
  BY <1>1, <1>2, <1>3 DEF TypeOK
<1>5. \A j \in Instances :
        /\ inst'[j].ref = inst[j].ref
        /\ inst'[j].loop = inst[j].loop
        /\ inst'[j].url <=> inst[j].url
        /\ inst'[j].ready <=> j = owner[t] \/ inst[j].ready
        /\ inst'[j].error <=> j = owner[t] \/ inst[j].error
        /\ inst'[j].broken <=> inst[j].broken
  <2>1. /\ f.ref = inst[owner[t]].ref
        /\ f.loop = inst[owner[t]].loop
        /\ f.url <=> inst[owner[t]].url
        /\ f.ready
        /\ f.error
        /\ f.broken <=> inst[owner[t]].broken
    BY <1>1 DEF Fields, f
  <2> QED
    BY <1>4, <2>1
<1>51. /\ stopping' \in [Threads -> Turns]
       /\ \A u \in Threads :
            \/ stopping'[u] = stopping[u]
            \/ u = t /\ stopping[t] # 0 /\ stopping'[t] = stopping[t] - 1
  BY Spent DEF StartFails
<1>52. \A u \in Threads : stopping[u] \in 0..2
  BY DEF TypeOK, Turns
<1>6. TypeOK'
  BY <1>1, <1>4, <1>51 DEF TypeOK, Calls, Idle, Threads, ThreadStates,
     StartFails, SetThread
<1>7. Ownership'
  BY <1>1, <1>4, <1>5, SMTT(60) DEF TypeOK, Ownership, Alive, StartFails,
     SetThread
<1>8. Registry'
  BY <1>1, <1>4, <1>5 DEF TypeOK, Registry, Ownership, Calling, Alive,
         StartFails, SetThread
<1>9. HandlersRun'
  BY <1>1, <1>4, <1>5 DEF TypeOK, HandlersRun, InstOf, StartFails, SetThread
<1>10. PeersAdmitted'
  BY <1>1, <1>4, <1>5 DEF TypeOK, PeersAdmitted, HandlersRun, Registry, InstOf,
     Alive, StartFails, SetThread
<1>11. Calling'
  BY <1>1, <1>4, <1>5 DEF TypeOK, Calling, Ownership, In, Alive, Idle, Calls,
     StartFails, SetThread
<1>50. Told'
  <2>1. inst[owner[t]].ref = t /\ thread[t] = "starting" /\ t # 0
    BY DEF TypeOK, Threads, Ownership, Alive, StartFails
  <2>2. inst[owner[t]].broken \/ In("run", owner[t])
    <3>1. CASE Settled(owner[t])
      BY <1>1, <2>1, <3>1 DEF Held
    <3>2. CASE ~Settled(owner[t])
      <4>1. /\ driver.inst = owner[t]
            /\ driver.call \in {"run", "drain", "join", "clear"}
        BY <3>2 DEF TypeOK, Calls, Settled
      <4> QED
        BY <1>1, <2>1, <4>1 DEF Calling, In
    <3> QED
      BY <3>1, <3>2
  <2>3. inst[owner[t]].broken \/ stopping[t] = 0
    BY <2>2 DEF Told, In
  <2>4. inst[owner[t]].broken \/ stopping'[t] = 0
    BY <1>51, <2>3
  <2>5. ASSUME NEW u \in Threads, u # t
        PROVE  /\ stopping'[u] = stopping[u] /\ thread'[u] = thread[u]
               /\ owner[u] \in Instances
    BY <1>51, <2>5 DEF TypeOK, StartFails, SetThread
  <2>6. /\ thread'[t] = "cancelling"
        /\ owner' = owner /\ driver' = driver
    BY DEF TypeOK, StartFails, SetThread
  <2>7. ASSUME NEW u \in Threads
        PROVE  /\ In("join", owner[u])' <=> In("join", owner[u])
               /\ In("run", owner[u])' <=> In("run", owner[u])
    BY <2>6 DEF In
  <2>8. stopping'[t] # 0 => /\ inst'[owner'[t]].broken
                            /\ Alive(t)'
    BY <1>1, <1>5, <2>4, <2>6 DEF Alive
  <2>9. inst'[owner'[t]].broken \/ (In("run", owner[t])' /\ stopping'[t] = 0)
    BY <1>1, <1>5, <2>2, <2>4, <2>6, <2>7
  <2> QED
    BY <1>5, <2>5, <2>6, <2>7, <2>8, <2>9 DEF Told, Alive
<1>12. Held'
  BY <1>1, <1>4, <1>5 DEF TypeOK, Held, Ownership, Calling, Settled, In, Idle,
     Alive, StartFails, SetThread
<1> QED
  BY <1>6, <1>7, <1>8, <1>9, <1>10, <1>11, <1>12, <1>50

LEMMA LoopStopsKeeps ==
  ASSUME IInv, NEW t \in Threads, LoopStops(t)
  PROVE  IInv'
<1> USE ConstantsAssumption DEF IInv, ConstantsAssumption
<1>0. /\ On(t) \in SUBSET Clients
      /\ \A c \in On(t) : conn[c] # Out
      /\ conn \in [Clients -> Handlers]
  BY DEF TypeOK, On
<1>1. conn' \in [Clients -> Handlers]
  BY <1>0, EndAllKeeps DEF LoopStops
<1>2. \A d \in Clients :
        /\ conn'[d] = Out <=> conn[d] = Out
        /\ conn'[d].thread = conn[d].thread
  BY <1>0, EndAllKeeps DEF LoopStops
<1>3. /\ stopping' \in [Threads -> Turns]
      /\ \A u \in Threads \ {t} : stopping'[u] = stopping[u]
      /\ stopping[t] # 0
      /\ stopping[t] = 1 => stopping'[t] = 0
  <2>1. stopping \in [Threads -> Turns] /\ stopping[t] \in 0..2
    BY DEF TypeOK, Turns
  <2>2. stopping[t] # 0 /\ stopping' = [stopping EXCEPT ![t] = @ - 1]
    BY <2>1 DEF LoopStops, StopRuns
  <2> QED
    BY <2>1, <2>2, Spent DEF LoopStops
<1>4. /\ thread[t] = "serving" /\ thread' \in [Threads -> ThreadStates]
      /\ \A u \in Threads :
           thread'[u] = IF u = t THEN "shutting" ELSE thread[u]
      /\ \A u \in Threads : Alive(u)' <=> Alive(u)
      /\ UNCHANGED <<cfgFloor, liveFloors, inst, started, owner, drain, peers,
                     driver>>
  BY DEF TypeOK, ThreadStates, LoopStops, SetThread, Alive
<1>5. TypeOK'
  BY <1>1, <1>3, <1>4 DEF TypeOK
<1>6. Ownership'
  <2>1. \A i \in Instances : inst[i].loop # 0 => inst[i].loop \in Threads
    BY DEF TypeOK, Fields, Threads
  <2>2. /\ \A u \in Threads : thread'[u] = "none" <=> thread[u] = "none"
        /\ \A u \in Threads : thread'[u] = "spawned" <=> thread[u] = "spawned"
    BY <1>4
  <2> QED
    BY <1>4, <2>1, <2>2 DEF Ownership
<1>7. Registry'
  BY <1>4 DEF Registry
<1>8. HandlersRun'
  <2>1. ASSUME NEW c \in Clients, conn'[c] # Out
        PROVE  /\ conn'[c].thread \in Threads
               /\ \/ thread'[conn'[c].thread] \in
                       {"serving", "shutting", "cancelling"}
                  \/ /\ thread'[conn'[c].thread] = "dead"
                     /\ inst'[InstOf(c)'].broken
    <3>1. conn[c] # Out /\ conn'[c].thread = conn[c].thread
      BY <1>2, <2>1
    <3>2. conn[c].thread \in Threads /\ InstOf(c)' = InstOf(c)
      BY <1>4, <3>1 DEF HandlersRun, InstOf
    <3> QED
      BY <1>4, <3>1, <3>2 DEF HandlersRun
  <2>2. \A c \in peers' : conn'[c] # Out
    BY <1>2, <1>4 DEF TypeOK, HandlersRun
  <2> QED
    BY <2>1, <2>2 DEF HandlersRun
<1>9. PeersAdmitted'
  BY <1>2, <1>4 DEF TypeOK, PeersAdmitted, InstOf
<1>10. Calling'
  <2>1. \A i \in Instances : inst[i].ref # 0 => inst[i].ref \in Threads
    BY DEF TypeOK, Fields, Threads
  <2>2. ASSUME NEW i \in Instances, inst[i].ref = t
        PROVE  inst[i].broken \/ In("join", i)
    <3>1. owner[t] = i
      BY <2>2 DEF Ownership, Threads
    <3> QED
      BY <1>3, <3>1 DEF Told
  <2>3. /\ driver' = driver /\ inst' = inst
        /\ owner' = owner /\ started' = started
    BY <1>4
  <2> QED
    BY <1>4, <2>1, <2>2, <2>3 DEF Calling, In
<1>11. Told'
  BY <1>3, <1>4 DEF Told, In
<1>12. Held'
  <2>1. \A i \in Instances : Settled(i) /\ inst[i].ref = t => inst[i].broken
    <3>1. ASSUME NEW i \in Instances, Settled(i), inst[i].ref = t
          PROVE  inst[i].broken
      <4>1. owner[t] = i
        BY <3>1 DEF Ownership, Threads
      <4>2. inst[i].broken \/ In("join", i)
        BY <1>3, <4>1 DEF Told
      <4> QED
        BY <3>1, <4>2 DEF Settled, In, Idle
    <3> QED
      BY <3>1
  <2>2. \A i \in Instances : inst[i].ref # 0 => inst[i].ref \in Threads
    BY DEF TypeOK, Fields, Threads
  <2> QED
    BY <1>4, <2>1, <2>2 DEF Held, Settled
<1> QED
  BY <1>5, <1>6, <1>7, <1>8, <1>9, <1>10, <1>11, <1>12

LEMMA CloseServerKeeps ==
  ASSUME IInv, NEW t \in Threads, CloseServer(t)
  PROVE  IInv'
<1> USE ConstantsAssumption DEF IInv, ConstantsAssumption
<1>0. /\ On(t) \in SUBSET Clients
      /\ \A c \in On(t) : conn[c] # Out
      /\ conn \in [Clients -> Handlers]
  BY DEF TypeOK, On
<1>1. conn' \in [Clients -> Handlers]
  BY <1>0, EndAllKeeps DEF CloseServer
<1>2. \A d \in Clients :
        /\ conn'[d] = Out <=> conn[d] = Out
        /\ conn'[d].thread = conn[d].thread
  BY <1>0, EndAllKeeps DEF CloseServer
<1>3. /\ stopping' \in [Threads -> Turns]
      /\ \A u \in Threads :
           \/ stopping'[u] = stopping[u]
           \/ u = t /\ stopping[t] # 0 /\ stopping'[t] = stopping[t] - 1
      /\ \A u \in Threads : stopping[u] \in 0..2
  BY Spent DEF CloseServer, TypeOK, Turns
<1>4. /\ thread[t] = "shutting" /\ thread' \in [Threads -> ThreadStates]
      /\ \A u \in Threads :
           thread'[u] = IF u = t THEN "cancelling" ELSE thread[u]
      /\ \A u \in Threads : Alive(u)' <=> Alive(u)
      /\ UNCHANGED <<cfgFloor, liveFloors, inst, started, owner, drain, peers,
                     driver>>
  BY DEF TypeOK, ThreadStates, CloseServer, SetThread, Alive
<1>5. TypeOK'
  BY <1>1, <1>3, <1>4 DEF TypeOK
<1>6. Ownership'
  <2>1. \A i \in Instances : inst[i].loop # 0 => inst[i].loop \in Threads
    BY DEF TypeOK, Fields, Threads
  <2>2. /\ \A u \in Threads : thread'[u] = "none" <=> thread[u] = "none"
        /\ \A u \in Threads : thread'[u] = "spawned" <=> thread[u] = "spawned"
    BY <1>4
  <2> QED
    BY <1>4, <2>1, <2>2 DEF Ownership
<1>7. Registry'
  BY <1>4 DEF Registry
<1>8. HandlersRun'
  <2>1. ASSUME NEW c \in Clients, conn'[c] # Out
        PROVE  /\ conn'[c].thread \in Threads
               /\ \/ thread'[conn'[c].thread] \in
                       {"serving", "shutting", "cancelling"}
                  \/ /\ thread'[conn'[c].thread] = "dead"
                     /\ inst'[InstOf(c)'].broken
    <3>1. conn[c] # Out /\ conn'[c].thread = conn[c].thread
      BY <1>2, <2>1
    <3>2. conn[c].thread \in Threads /\ InstOf(c)' = InstOf(c)
      BY <1>4, <3>1 DEF HandlersRun, InstOf
    <3> QED
      BY <1>4, <3>1, <3>2 DEF HandlersRun
  <2>2. \A c \in peers' : conn'[c] # Out
    BY <1>2, <1>4 DEF TypeOK, HandlersRun
  <2> QED
    BY <2>1, <2>2 DEF HandlersRun
<1>9. PeersAdmitted'
  BY <1>2, <1>4 DEF TypeOK, PeersAdmitted, InstOf
<1>10. Calling'
  <2>1. \A i \in Instances : inst[i].ref # 0 => inst[i].ref \in Threads
    BY DEF TypeOK, Fields, Threads
  <2>2. ASSUME NEW i \in Instances, inst[i].ref = t
        PROVE  inst[i].broken \/ In("join", i) \/ In("run", i)
    <3>1. owner[t] = i
      BY <2>2 DEF Ownership, Threads
    <3> QED
      BY <1>4, <3>1 DEF Told
  <2>3. /\ driver' = driver /\ inst' = inst
        /\ owner' = owner /\ started' = started
    BY <1>4
  <2> QED
    BY <1>4, <2>1, <2>2, <2>3 DEF Calling, In
<1>11. Told'
  BY <1>3, <1>4 DEF Told, In
<1>12. Held'
  <2>1. \A i \in Instances : Settled(i) /\ inst[i].ref = t => inst[i].broken
    <3>1. ASSUME NEW i \in Instances, Settled(i), inst[i].ref = t
          PROVE  inst[i].broken
      <4>1. owner[t] = i
        BY <3>1 DEF Ownership, Threads
      <4>2. inst[i].broken \/ In("join", i) \/ In("run", i)
        BY <1>4, <4>1 DEF Told
      <4> QED
        BY <3>1, <4>2 DEF Settled, In, Idle
    <3> QED
      BY <3>1
  <2>2. \A i \in Instances : inst[i].ref # 0 => inst[i].ref \in Threads
    BY DEF TypeOK, Fields, Threads
  <2> QED
    BY <1>4, <2>1, <2>2 DEF Held, Settled
<1> QED
  BY <1>5, <1>6, <1>7, <1>8, <1>9, <1>10, <1>11, <1>12

LEMMA CloseLoopKeeps ==
  ASSUME IInv, NEW t \in Threads, CloseLoop(t)
  PROVE  IInv'
<1> USE ConstantsAssumption DEF IInv, ConstantsAssumption
<1> DEFINE f == [inst[owner[t]] EXCEPT !.loop = 0]
<1>1. owner[t] \in Instances /\ inst[owner[t]] \in Fields
  BY DEF TypeOK, CloseLoop
<1>2. f \in Fields
  <2>1. 0 \in 0..MaxRuns
    BY DEF Threads
  <2> QED
    BY <1>1, <2>1 DEF Fields
<1>3. inst' = [inst EXCEPT ![owner[t]] = f]
  BY DEF CloseLoop, LoopCloses, Set
<1> HIDE DEF f
<1>4. /\ inst' \in [Instances -> Fields]
      /\ \A j \in Instances :
           inst'[j] = IF j = owner[t] THEN f ELSE inst[j]
  BY <1>1, <1>2, <1>3 DEF TypeOK
<1>5. \A j \in Instances :
        /\ inst'[j].ref = inst[j].ref
        /\ inst'[j].loop = IF j = owner[t] THEN 0 ELSE inst[j].loop
        /\ inst'[j].url <=> inst[j].url
        /\ inst'[j].ready <=> inst[j].ready
        /\ inst'[j].error <=> inst[j].error
        /\ inst'[j].broken <=> inst[j].broken
  <2>1. /\ f.ref = inst[owner[t]].ref
        /\ f.loop = 0
        /\ f.url <=> inst[owner[t]].url
        /\ f.ready <=> inst[owner[t]].ready
        /\ f.error <=> inst[owner[t]].error
        /\ f.broken <=> inst[owner[t]].broken
    BY <1>1 DEF Fields, f
  <2> QED
    BY <1>4, <2>1
<1>60. /\ thread[t] = "cancelling"
       /\ \A u \in Threads :
            /\ thread'[u] = IF u = t THEN "dead" ELSE thread[u]
            /\ stopping'[u] = IF u = t THEN 0 ELSE stopping[u]
       /\ UNCHANGED <<cfgFloor, liveFloors, started, owner, conn, peers,
                      driver>>
  BY DEF TypeOK, CloseLoop, LoopCloses, SetThread
<1>61. /\ inst[owner[t]].ref = t
       /\ \/ inst[owner[t]].broken
          \/ /\ In("join", owner[t]) \/ In("run", owner[t])
             /\ On(t) = {}
  BY <1>60 DEF CloseLoop, Told, Ownership, Alive, TypeOK, Turns
<1>6. TypeOK'
  <2>1. 0 \in Turns /\ "dead" \in ThreadStates
    BY DEF Turns, ThreadStates
  <2> QED
    BY <1>1, <1>4, <2>1 DEF TypeOK, CloseLoop, LoopCloses, SetThread
<1>7. Ownership'
  <2>1. \A i \in Instances : inst[i].loop # 0 =>
          inst[i].loop \in Threads /\ owner[inst[i].loop] = i
    <3>1. \A i \in Instances : inst[i].loop # 0 => inst[i].loop \in Threads
      BY DEF TypeOK, Fields, Threads
    <3> QED
      BY <3>1 DEF Ownership
  <2> QED
    BY <1>1, <1>5, <1>60, <2>1 DEF TypeOK, Ownership, Alive
<1>8. Registry'
  BY <1>5, <1>60 DEF TypeOK, Registry, Alive
<1>9. HandlersRun'
  <2>1. ASSUME NEW c \in Clients, conn[c] # Out, conn[c].thread = t
        PROVE  inst[owner[t]].broken
    BY <1>61, <2>1 DEF On
  <2>2. ASSUME NEW c \in Clients, conn[c] # Out
        PROVE  /\ conn[c].thread \in Threads
               /\ InstOf(c)' = owner[conn[c].thread]
               /\ inst'[InstOf(c)'].broken <=> inst[InstOf(c)].broken
    BY <1>5, <1>60, <2>2 DEF TypeOK, HandlersRun, InstOf
  <2> QED
    BY <1>60, <2>1, <2>2 DEF HandlersRun, InstOf
<1>10. PeersAdmitted'
  <2>1. \A c \in peers : /\ conn[c].thread \in Threads
                         /\ InstOf(c)' = InstOf(c)
                         /\ InstOf(c) \in Instances
    BY <1>60 DEF TypeOK, HandlersRun, InstOf
  <2> QED
    BY <1>5, <1>60, <2>1 DEF PeersAdmitted
<1>11. Calling'
  <2>1. \A i \in Instances : inst[i].ref # 0 => inst[i].ref \in Threads
    BY DEF TypeOK, Fields, Threads
  <2> QED
    BY <1>5, <1>60, <1>61, <2>1 DEF Calling, In
<1>50. Told'
  BY <1>5, <1>60 DEF TypeOK, Told, Alive, In
<1>12. Held'
  <2>1. \A i \in Instances : inst[i].ref # 0 =>
          inst[i].ref \in Threads /\ owner[inst[i].ref] = i
    <3>1. \A i \in Instances : inst[i].ref # 0 => inst[i].ref \in Threads
      BY DEF TypeOK, Fields, Threads
    <3> QED
      BY <3>1 DEF Ownership
  <2>2. Settled(owner[t]) => inst[owner[t]].broken
    BY <1>61 DEF Settled, In, Idle
  <2> QED
    BY <1>5, <1>60, <2>1, <2>2 DEF Held, Settled
<1> QED
  BY <1>6, <1>7, <1>8, <1>9, <1>10, <1>11, <1>12, <1>50

LEMMA HandleClientKeeps ==
  ASSUME IInv, NEW t \in Threads, NEW c \in Clients, HandleClient(t, c)
  PROVE  IInv'
<1> USE ConstantsAssumption DEF IInv, ConstantsAssumption
<1> DEFINE f == [inst[owner[t]] EXCEPT !.tracked = @ \cup {c}]
<1>1. owner[t] \in Instances /\ inst[owner[t]] \in Fields
  BY DEF TypeOK, HandleClient
<1>2. f \in Fields
  BY <1>1 DEF TypeOK, Fields, Threads, HandleClient
<1>3. inst' = [inst EXCEPT ![owner[t]] = f]
  BY DEF HandleClient, Set
<1> HIDE DEF f
<1>4. /\ inst' \in [Instances -> Fields]
      /\ \A j \in Instances :
           inst'[j] = IF j = owner[t] THEN f ELSE inst[j]
  BY <1>1, <1>2, <1>3 DEF TypeOK
<1>5. \A j \in Instances :
        /\ inst'[j].ref = inst[j].ref
        /\ inst'[j].loop = inst[j].loop
        /\ inst'[j].url <=> inst[j].url
        /\ inst'[j].ready <=> inst[j].ready
        /\ inst'[j].error <=> inst[j].error
        /\ inst'[j].broken <=> inst[j].broken
  <2>1. /\ f.ref = inst[owner[t]].ref
        /\ f.loop = inst[owner[t]].loop
        /\ f.url <=> inst[owner[t]].url
        /\ f.ready <=> inst[owner[t]].ready
        /\ f.error <=> inst[owner[t]].error
        /\ f.broken <=> inst[owner[t]].broken
    BY <1>1 DEF Fields, f
  <2> QED
    BY <1>4, <2>1
<1> DEFINE h == [pc |-> "open", thread |-> t, ended |-> VersionOf[c] < cfgFloor]
<1>6. h \in Handlers
  BY DEF TypeOK, Handlers, Out, HandleClient
<1>7. conn' = [conn EXCEPT ![c] = h]
  BY DEF HandleClient, SetHandler
<1> HIDE DEF h
<1>8. /\ conn' \in [Clients -> Handlers]
      /\ \A d \in Clients : conn'[d] = IF d = c THEN h ELSE conn[d]
  BY <1>6, <1>7 DEF TypeOK
<1>9. \A d \in Clients :
        /\ conn'[d] = Out <=> d # c /\ conn[d] = Out
        /\ conn'[d].thread = IF d = c THEN t ELSE conn[d].thread
  BY <1>8 DEF TypeOK, Handlers, Out, h, HandleClient
<1>10. TypeOK'
  BY <1>1, <1>4, <1>8 DEF TypeOK, Calls, Idle, Threads, ThreadStates,
         HandleClient, Calm
<1>11. Ownership'
  BY <1>5, OwnershipKept DEF HandleClient, Calm
<1>12. Registry'
  BY <1>1, <1>4, <1>5, <1>9 DEF TypeOK, Registry, Ownership, Calling, Alive,
         HandleClient, Calm
<1>13. HandlersRun'
  BY <1>1, <1>4, <1>5, <1>9 DEF TypeOK, HandlersRun, InstOf, HandleClient, Calm
<1>14. PeersAdmitted'
  BY <1>1, <1>4, <1>5, <1>9 DEF TypeOK, PeersAdmitted, HandlersRun, Registry,
     InstOf, Alive, HandleClient, Calm
<1>15. Calling'
  BY <1>1, <1>4, <1>5, <1>9 DEF TypeOK, Calling, Ownership, In, Alive, Idle,
     Calls, HandleClient, Calm
<1>50. Told'
  BY <1>1, <1>4, <1>5, <1>9 DEF TypeOK, Calling, Told, Held, Settled,
     Ownership, In, Alive, Idle, Calls, HandleClient, Calm
<1>16. Held'
  BY <1>1, <1>4, <1>5, <1>9 DEF TypeOK, Held, Ownership, Calling, Settled, In,
     Idle, Alive, HandleClient, Calm
<1> QED
  BY <1>10, <1>11, <1>12, <1>13, <1>14, <1>15, <1>16, <1>50

LEMMA HandleMessageKeeps ==
  ASSUME IInv, NEW c \in Clients, HandleMessage(c)
  PROVE  IInv'
<1> USE ConstantsAssumption DEF IInv, ConstantsAssumption
<1> DEFINE h == [conn[c] EXCEPT !.pc = "blocked"]
<1>1. h \in Handlers
  BY DEF TypeOK, Handlers, Out, HandleMessage
<1>2. conn' = [conn EXCEPT ![c] = h]
  BY DEF HandleMessage, SetHandler
<1> HIDE DEF h
<1>3. /\ conn' \in [Clients -> Handlers]
      /\ \A d \in Clients : conn'[d] = IF d = c THEN h ELSE conn[d]
  BY <1>1, <1>2 DEF TypeOK
<1>4. \A d \in Clients :
        /\ conn'[d] = Out <=> conn[d] = Out
        /\ conn'[d].thread = conn[d].thread
  BY <1>3 DEF TypeOK, Handlers, Out, h, HandleMessage
<1>5. TypeOK'
  BY <1>3 DEF TypeOK, Calls, Idle, Threads, ThreadStates, HandleMessage, Calm
<1>6. Ownership'
  BY <1>4 DEF TypeOK, Ownership, Alive, HandleMessage, Calm
<1>7. Registry'
  BY <1>4 DEF TypeOK, Registry, Ownership, Calling, Alive, HandleMessage, Calm
<1>8. HandlersRun'
  BY <1>4 DEF TypeOK, HandlersRun, InstOf, HandleMessage, Calm
<1>9. PeersAdmitted'
  BY <1>4 DEF TypeOK, PeersAdmitted, HandlersRun, Registry, InstOf, Alive,
         HandleMessage, Calm
<1>10. Calling'
  BY <1>4 DEF TypeOK, Calling, Ownership, In, Alive, Idle, Calls,
     HandleMessage, Calm
<1>50. Told'
  BY <1>4 DEF TypeOK, Calling, Told, Held, Settled, Ownership, In, Alive, Idle,
     Calls, HandleMessage, Calm
<1>11. Held'
  BY <1>4 DEF TypeOK, Held, Ownership, Calling, Settled, In, Idle, Alive,
         HandleMessage, Calm
<1> QED
  BY <1>5, <1>6, <1>7, <1>8, <1>9, <1>10, <1>11, <1>50

LEMMA MessageHandledKeeps ==
  ASSUME IInv, NEW c \in Clients, MessageHandled(c)
  PROVE  IInv'
<1> USE ConstantsAssumption DEF IInv, ConstantsAssumption
<1> DEFINE h == [conn[c] EXCEPT !.pc = "open"]
<1>1. h \in Handlers
  BY DEF TypeOK, Handlers, Out, MessageHandled
<1>2. conn' = [conn EXCEPT ![c] = h]
  BY DEF MessageHandled, SetHandler
<1> HIDE DEF h
<1>3. /\ conn' \in [Clients -> Handlers]
      /\ \A d \in Clients : conn'[d] = IF d = c THEN h ELSE conn[d]
  BY <1>1, <1>2 DEF TypeOK
<1>4. \A d \in Clients :
        /\ conn'[d] = Out <=> conn[d] = Out
        /\ conn'[d].thread = conn[d].thread
  BY <1>3 DEF TypeOK, Handlers, Out, h, MessageHandled
<1>5. TypeOK'
  BY <1>3 DEF TypeOK, Calls, Idle, Threads, ThreadStates, MessageHandled, Calm
<1>6. Ownership'
  BY <1>4 DEF TypeOK, Ownership, Alive, MessageHandled, Calm
<1>7. Registry'
  BY <1>4 DEF TypeOK, Registry, Ownership, Calling, Alive, MessageHandled, Calm
<1>8. HandlersRun'
  BY <1>4 DEF TypeOK, HandlersRun, InstOf, MessageHandled, Calm
<1>9. PeersAdmitted'
  BY <1>4 DEF TypeOK, PeersAdmitted, HandlersRun, Registry, InstOf, Alive,
         MessageHandled, Calm
<1>10. Calling'
  BY <1>4 DEF TypeOK, Calling, Ownership, In, Alive, Idle, Calls,
         MessageHandled, Calm
<1>50. Told'
  BY <1>4 DEF TypeOK, Calling, Told, Held, Settled, Ownership, In, Alive, Idle,
     Calls, MessageHandled, Calm
<1>11. Held'
  BY <1>4 DEF TypeOK, Held, Ownership, Calling, Settled, In, Idle, Alive,
         MessageHandled, Calm
<1> QED
  BY <1>5, <1>6, <1>7, <1>8, <1>9, <1>10, <1>11, <1>50

LEMMA ClientClosesKeeps ==
  ASSUME IInv, NEW c \in Clients, ClientCloses(c)
  PROVE  IInv'
<1> USE ConstantsAssumption DEF IInv, ConstantsAssumption
<1> DEFINE h == [conn[c] EXCEPT !.ended = TRUE]
<1>1. h \in Handlers
  BY DEF TypeOK, Handlers, Out, ClientCloses
<1>2. conn' = [conn EXCEPT ![c] = h]
  BY DEF ClientCloses, SetHandler
<1> HIDE DEF h
<1>3. /\ conn' \in [Clients -> Handlers]
      /\ \A d \in Clients : conn'[d] = IF d = c THEN h ELSE conn[d]
  BY <1>1, <1>2 DEF TypeOK
<1>4. \A d \in Clients :
        /\ conn'[d] = Out <=> conn[d] = Out
        /\ conn'[d].thread = conn[d].thread
  BY <1>3 DEF TypeOK, Handlers, Out, h, ClientCloses
<1>5. TypeOK'
  BY <1>3 DEF TypeOK, Calls, Idle, Threads, ThreadStates, ClientCloses, Calm
<1>6. Ownership'
  BY <1>4 DEF TypeOK, Ownership, Alive, ClientCloses, Calm
<1>7. Registry'
  BY <1>4 DEF TypeOK, Registry, Ownership, Calling, Alive, ClientCloses, Calm
<1>8. HandlersRun'
  BY <1>4 DEF TypeOK, HandlersRun, InstOf, ClientCloses, Calm
<1>9. PeersAdmitted'
  BY <1>4 DEF TypeOK, PeersAdmitted, HandlersRun, Registry, InstOf, Alive,
         ClientCloses, Calm
<1>10. Calling'
  BY <1>4 DEF TypeOK, Calling, Ownership, In, Alive, Idle, Calls, ClientCloses,
         Calm
<1>50. Told'
  BY <1>4 DEF TypeOK, Calling, Told, Held, Settled, Ownership, In, Alive, Idle,
     Calls, ClientCloses, Calm
<1>11. Held'
  BY <1>4 DEF TypeOK, Held, Ownership, Calling, Settled, In, Idle, Alive,
         ClientCloses, Calm
<1> QED
  BY <1>5, <1>6, <1>7, <1>8, <1>9, <1>10, <1>11, <1>50

LEMMA LeaveTryKeeps ==
  ASSUME IInv, NEW c \in Clients, LeaveTry(c)
  PROVE  IInv'
<1> USE ConstantsAssumption DEF IInv, ConstantsAssumption
<1> DEFINE h == [conn[c] EXCEPT !.pc = "closing"]
<1>1. h \in Handlers
  BY DEF TypeOK, Handlers, Out, LeaveTry
<1>2. conn' = [conn EXCEPT ![c] = h]
  BY DEF LeaveTry, SetHandler
<1> HIDE DEF h
<1>3. /\ conn' \in [Clients -> Handlers]
      /\ \A d \in Clients : conn'[d] = IF d = c THEN h ELSE conn[d]
  BY <1>1, <1>2 DEF TypeOK
<1>4. \A d \in Clients :
        /\ conn'[d] = Out <=> conn[d] = Out
        /\ conn'[d].thread = conn[d].thread
  BY <1>3 DEF TypeOK, Handlers, Out, h, LeaveTry
<1>5. TypeOK'
  BY <1>3 DEF TypeOK, Calls, Idle, Threads, ThreadStates, LeaveTry, Calm
<1>6. Ownership'
  BY <1>4 DEF TypeOK, Ownership, Alive, LeaveTry, Calm
<1>7. Registry'
  BY <1>4 DEF TypeOK, Registry, Ownership, Calling, Alive, LeaveTry, Calm
<1>8. HandlersRun'
  BY <1>4 DEF TypeOK, HandlersRun, InstOf, LeaveTry, Calm
<1>9. PeersAdmitted'
  BY <1>4 DEF TypeOK, PeersAdmitted, HandlersRun, Registry, InstOf, Alive,
         LeaveTry, Calm
<1>10. Calling'
  BY <1>4 DEF TypeOK, Calling, Ownership, In, Alive, Idle, Calls, LeaveTry,
         Calm
<1>50. Told'
  BY <1>4 DEF TypeOK, Calling, Told, Held, Settled, Ownership, In, Alive, Idle,
     Calls, LeaveTry, Calm
<1>11. Held'
  BY <1>4 DEF TypeOK, Held, Ownership, Calling, Settled, In, Idle, Alive,
         LeaveTry, Calm
<1> QED
  BY <1>5, <1>6, <1>7, <1>8, <1>9, <1>10, <1>11, <1>50

LEMMA DisconnectedKeeps ==
  ASSUME IInv, NEW c \in Clients, Disconnected(c)
  PROVE  IInv'
<1> USE ConstantsAssumption DEF IInv, ConstantsAssumption
<1> DEFINE f == [inst[InstOf(c)] EXCEPT !.tracked = @ \ {c}]
<1>1. InstOf(c) \in Instances /\ inst[InstOf(c)] \in Fields
  BY DEF TypeOK, Disconnected, InstOf, Handlers, Out
<1>2. f \in Fields
  BY <1>1 DEF TypeOK, Fields, Threads, Disconnected
<1>3. inst' = [inst EXCEPT ![InstOf(c)] = f]
  BY DEF Disconnected, Set
<1> HIDE DEF f
<1>4. /\ inst' \in [Instances -> Fields]
      /\ \A j \in Instances :
           inst'[j] = IF j = InstOf(c) THEN f ELSE inst[j]
  BY <1>1, <1>2, <1>3 DEF TypeOK
<1>5. \A j \in Instances :
        /\ inst'[j].ref = inst[j].ref
        /\ inst'[j].loop = inst[j].loop
        /\ inst'[j].url <=> inst[j].url
        /\ inst'[j].ready <=> inst[j].ready
        /\ inst'[j].error <=> inst[j].error
        /\ inst'[j].broken <=> inst[j].broken
  <2>1. /\ f.ref = inst[InstOf(c)].ref
        /\ f.loop = inst[InstOf(c)].loop
        /\ f.url <=> inst[InstOf(c)].url
        /\ f.ready <=> inst[InstOf(c)].ready
        /\ f.error <=> inst[InstOf(c)].error
        /\ f.broken <=> inst[InstOf(c)].broken
    BY <1>1 DEF Fields, f
  <2> QED
    BY <1>4, <2>1
<1> DEFINE h == Out
<1>6. h \in Handlers
  BY DEF TypeOK, Handlers, Out, Disconnected
<1>7. conn' = [conn EXCEPT ![c] = h]
  BY DEF Disconnected, SetHandler
<1> HIDE DEF h
<1>8. /\ conn' \in [Clients -> Handlers]
      /\ \A d \in Clients : conn'[d] = IF d = c THEN h ELSE conn[d]
  BY <1>6, <1>7 DEF TypeOK
<1>9. \A d \in Clients :
        /\ conn'[d] = Out <=> d = c \/ conn[d] = Out
        /\ d # c => conn'[d].thread = conn[d].thread
  BY <1>8 DEF TypeOK, Handlers, Out, h, Disconnected
<1>10. TypeOK'
  BY <1>1, <1>4, <1>8 DEF TypeOK, Calls, Idle, Threads, ThreadStates,
     Disconnected, Calm, InstOf
<1>11. Ownership'
  BY <1>1, <1>4, <1>5, <1>9 DEF TypeOK, Ownership, Alive, Disconnected, Calm,
         InstOf
<1>12. Registry'
  BY <1>1, <1>4, <1>5, <1>9 DEF TypeOK, Registry, Ownership, Calling, Alive,
     Disconnected, Calm, InstOf
<1>13. HandlersRun'
  BY <1>1, <1>4, <1>5, <1>9 DEF TypeOK, HandlersRun, Disconnected, Calm, InstOf
<1>14. PeersAdmitted'
  BY <1>1, <1>4, <1>5, <1>9 DEF TypeOK, PeersAdmitted, HandlersRun, Registry,
     InstOf, Alive, Disconnected, Calm
<1>15. Calling'
  BY <1>1, <1>4, <1>5, <1>9 DEF TypeOK, Calling, Ownership, In, Alive, Idle,
     Calls, Disconnected, Calm, InstOf
<1>50. Told'
  BY <1>1, <1>4, <1>5, <1>9 DEF TypeOK, Calling, Told, Held, Settled,
     Ownership, In, Alive, Idle, Calls, Disconnected, Calm, InstOf
<1>16. Held'
  BY <1>1, <1>4, <1>5, <1>9 DEF TypeOK, Held, Ownership, Calling, Settled, In,
     Idle, Alive, Disconnected, Calm, InstOf
<1> QED
  BY <1>10, <1>11, <1>12, <1>13, <1>14, <1>15, <1>16, <1>50

LEMMA StopKeeps ==
  ASSUME IInv, NEW i \in Instances, Stop(i)
  PROVE  IInv'
<1> USE ConstantsAssumption DEF IInv, ConstantsAssumption
<1>0. /\ driver' \in Calls
      /\ driver'.call \in {"drain", "join"}
      /\ driver'.inst = i
      /\ driver' # Idle
      /\ driver'.call = "drain" =>
           driver'.loop # 0 /\ driver'.loop = inst[i].loop
  <2>1. inst[i].loop \in 0..MaxRuns
    BY DEF TypeOK, Fields
  <2> QED
    BY <2>1 DEF Calls, Idle, Stop
<1>1. TypeOK'
  BY <1>0 DEF TypeOK, Idle, Threads, ThreadStates, Stop
<1>2. Ownership'
  BY DEF TypeOK, Ownership, Alive, Stop
<1>3. Registry'
  BY DEF TypeOK, Registry, Ownership, Calling, Alive, Stop
<1>4. HandlersRun'
  BY DEF TypeOK, HandlersRun, InstOf, Stop
<1>5. PeersAdmitted'
  BY DEF TypeOK, PeersAdmitted, HandlersRun, Registry, InstOf, Alive, Stop
<1>6. Calling'
  <2>1. inst[i].loop # 0 => /\ inst[i].loop \in Threads
                            /\ owner[inst[i].loop] = i
                            /\ inst[i].loop <= started
    <3>1. inst[i] \in Fields
      BY DEF TypeOK, Stop
    <3>2. inst[i].loop # 0 => inst[i].loop \in Threads
      BY <3>1 DEF Fields, Threads
    <3>3. inst[i].loop # 0 => owner[inst[i].loop] = i /\ Alive(inst[i].loop)
      BY DEF Ownership, Stop
    <3>4. \A u \in Threads : Alive(u) => u <= started
      BY DEF TypeOK, Threads, Ownership, Alive
    <3> QED
      BY <3>2, <3>3, <3>4
  <2>2. inst[i].ref # 0 => inst[i].broken \/ thread[inst[i].ref] = "serving"
    BY DEF Held, Settled, Stop
  <2>3. inst' = inst /\ thread' = thread /\ owner' = owner /\ started' = started
    BY DEF Stop
  <2> QED
    BY <1>0, <2>1, <2>2, <2>3 DEF Calling, In
<1>50. Told'
  <2>1. \A u \in Threads :
          /\ stopping[u] # 0 => Alive(u) /\ inst[owner[u]].broken
          /\ thread[u] \in {"shutting", "cancelling"} => inst[owner[u]].broken
    BY DEF Told, Stop, In, Idle
  <2> QED
    BY <2>1 DEF Told, Stop, Alive
<1>7. Held'
  BY <1>0 DEF TypeOK, Held, Ownership, Calling, Settled, In, Idle, Alive, Stop
<1> QED
  BY <1>1, <1>2, <1>3, <1>4, <1>5, <1>6, <1>7, <1>50

LEMMA DrainClosesKeeps ==
  ASSUME IInv, NEW i \in Instances, DrainCloses(i)
  PROVE  IInv'
<1> USE ConstantsAssumption DEF IInv, ConstantsAssumption
<1>0. /\ LiveTracked(i) \in SUBSET Clients
      /\ \A c \in LiveTracked(i) : conn[c] # Out
      /\ conn \in [Clients -> Handlers]
  BY DEF TypeOK, Fields, On, LiveTracked, DrainCloses
<1>1. conn' \in [Clients -> Handlers]
  BY <1>0, EndAllKeeps DEF DrainCloses
<1>2. \A d \in Clients :
        /\ conn'[d] = Out <=> conn[d] = Out
        /\ conn'[d].thread = conn[d].thread
  BY <1>0, EndAllKeeps DEF DrainCloses
<1>3. TypeOK'
  BY <1>1 DEF TypeOK, Calls, Idle, Threads, ThreadStates, DrainCloses, Calm,
         EndAll, LiveTracked
<1>4. Ownership'
  BY <1>2 DEF TypeOK, Ownership, Alive, DrainCloses, Calm, EndAll, LiveTracked
<1>5. Registry'
  BY <1>2 DEF TypeOK, Registry, Ownership, Calling, Alive, DrainCloses, Calm,
         EndAll, LiveTracked
<1>6. HandlersRun'
  BY <1>2 DEF TypeOK, HandlersRun, InstOf, DrainCloses, Calm, EndAll,
     LiveTracked
<1>7. PeersAdmitted'
  BY <1>2 DEF TypeOK, PeersAdmitted, HandlersRun, Registry, InstOf, Alive,
         DrainCloses, Calm, EndAll, LiveTracked
<1>8. Calling'
  BY <1>2 DEF TypeOK, Calling, Ownership, In, Alive, Idle, Calls, DrainCloses,
         Calm, EndAll, LiveTracked
<1>50. Told'
  BY <1>2 DEF TypeOK, Calling, Told, Held, Settled, Ownership, In, Alive, Idle,
     Calls, DrainCloses, Calm, EndAll, LiveTracked
<1>9. Held'
  BY <1>2 DEF TypeOK, Held, Ownership, Calling, Settled, In, Idle, Alive,
         DrainCloses, Calm, EndAll, LiveTracked
<1> QED
  BY <1>3, <1>4, <1>5, <1>6, <1>7, <1>8, <1>9, <1>50

LEMMA DrainEndsKeeps ==
  ASSUME IInv, NEW i \in Instances, DrainEnds(i)
  PROVE  IInv'
<1> USE ConstantsAssumption DEF IInv, ConstantsAssumption
<1>0. /\ conn \in [Clients -> Handlers]
      /\ LiveTracked(i) \in SUBSET Clients
      /\ \A c \in LiveTracked(i) : conn[c] # Out
  BY DEF TypeOK, Fields, On, LiveTracked, DrainEnds
<1>1. conn' \in [Clients -> Handlers]
  BY <1>0, EndAllKeeps DEF DrainEnds
<1>2. \A d \in Clients :
        /\ conn'[d] = Out <=> conn[d] = Out
        /\ conn'[d].thread = conn[d].thread
  BY <1>0, EndAllKeeps DEF DrainEnds
<1>3. TypeOK'
  BY <1>1 DEF TypeOK, Calls, Idle, Threads, ThreadStates, DrainEnds, Calm,
         EndAll, LiveTracked
<1>4. Ownership'
  BY <1>2 DEF TypeOK, Ownership, Alive, DrainEnds, Calm, EndAll, LiveTracked
<1>5. Registry'
  BY <1>2 DEF TypeOK, Registry, Ownership, Calling, Alive, DrainEnds, Calm,
         EndAll, LiveTracked
<1>6. HandlersRun'
  BY <1>2 DEF TypeOK, HandlersRun, InstOf, DrainEnds, Calm, EndAll, LiveTracked
<1>7. PeersAdmitted'
  BY <1>2 DEF TypeOK, PeersAdmitted, HandlersRun, Registry, InstOf, Alive,
         DrainEnds, Calm, EndAll, LiveTracked
<1>8. Calling'
  BY <1>2 DEF TypeOK, Calling, Ownership, In, Alive, Idle, Calls, DrainEnds,
         Calm, EndAll, LiveTracked
<1>50. Told'
  BY <1>2 DEF TypeOK, Calling, Told, Held, Settled, Ownership, In, Alive, Idle,
     Calls, DrainEnds, Calm, EndAll, LiveTracked
<1>9. Held'
  BY <1>2 DEF TypeOK, Held, Ownership, Calling, Settled, In, Idle, Alive,
         DrainEnds, Calm, EndAll, LiveTracked
<1> QED
  BY <1>3, <1>4, <1>5, <1>6, <1>7, <1>8, <1>9, <1>50

LEMMA StopLoopKeeps ==
  ASSUME IInv, NEW i \in Instances, StopLoop(i)
  PROVE  IInv'
<1> USE ConstantsAssumption DEF IInv, ConstantsAssumption
<1>1. driver' = [driver EXCEPT !.call = "join"]
  BY DEF StopLoop
<1>2. /\ driver' \in Calls
      /\ driver'.call = "join"
      /\ driver'.inst = i
      /\ driver' # Idle
  BY <1>1 DEF TypeOK, Calls, Idle, StopLoop, In
<1>3. /\ driver.loop \in Threads /\ owner[driver.loop] = i
      /\ In("drain", i)
      /\ UNCHANGED <<cfgFloor, liveFloors, inst, started, owner, thread, conn,
                     peers>>
  BY DEF TypeOK, Calls, Idle, Calling, StopLoop, In, Threads
<1>4. /\ stopping' \in [Threads -> Turns]
      /\ \A u \in Threads :
           \/ stopping'[u] = stopping[u]
           \/ /\ u = driver.loop /\ Alive(u)
              /\ stopping[u] = 0 => stopping'[u] = 1
  <2>1. stopping \in [Threads -> Turns] /\ 1 \in Turns /\ 2 \in Turns
    BY DEF TypeOK, Turns
  <2> QED
    BY <1>3, <2>1 DEF StopLoop
<1>5. TypeOK'
  BY <1>2, <1>4 DEF TypeOK, StopLoop
<1>6. Ownership'
  BY <1>3 DEF Ownership, Alive
<1>7. Registry'
  BY <1>3 DEF Registry, Alive
<1>8. HandlersRun'
  BY <1>3 DEF HandlersRun, InstOf
<1>9. PeersAdmitted'
  BY <1>3 DEF PeersAdmitted, InstOf
<1>10. Calling'
  BY <1>2, <1>3 DEF Calling, In
<1>50. Told'
  <2>1. ASSUME NEW u \in Threads, ~inst[owner[u]].broken
        PROVE  /\ stopping[u] = 0
               /\ thread[u] \notin {"shutting", "cancelling"}
    BY <1>3, <2>1 DEF Told, In
  <2> QED
    BY <1>2, <1>3, <1>4, <2>1 DEF Told, Alive, In
<1>11. Held'
  BY <1>2, <1>3 DEF Held, Settled, In, Idle
<1> QED
  BY <1>5, <1>6, <1>7, <1>8, <1>9, <1>10, <1>11, <1>50

LEMMA JoinKeeps ==
  ASSUME IInv, NEW i \in Instances, Join(i)
  PROVE  IInv'
<1> USE ConstantsAssumption DEF IInv, ConstantsAssumption
<1>1. driver' = [driver EXCEPT !.call = "clear"]
  BY DEF Join
<1>2. /\ driver' \in Calls
      /\ driver'.call = "clear"
      /\ driver'.inst = i
      /\ driver' # Idle
  BY <1>1 DEF TypeOK, Calls, Idle, Join, In
<1>3. \/ inst' = inst /\ inst[i].ref = 0
      \/ /\ inst' = [inst EXCEPT ![i] = [inst[i] EXCEPT !.ref = 0]]
         /\ inst[i].ref # 0
         /\ ~Alive(inst[i].ref)
      \/ inst' = [inst EXCEPT ![i] = [inst[i] EXCEPT !.broken = TRUE]]
  BY DEF Join, Set, Alive
<1>4. /\ [inst[i] EXCEPT !.ref = 0] \in Fields
      /\ [inst[i] EXCEPT !.broken = TRUE] \in Fields
  <2>1. inst[i] \in Fields /\ 0 \in 0..MaxRuns
    BY DEF TypeOK
  <2> QED
    BY <2>1 DEF Fields
<1>5. inst' \in [Instances -> Fields]
  BY <1>3, <1>4 DEF TypeOK
<1>6. /\ \A j \in Instances :
           /\ inst'[j].loop = inst[j].loop
           /\ inst'[j].url <=> inst[j].url
           /\ inst'[j].ready <=> inst[j].ready
           /\ inst'[j].error <=> inst[j].error
           /\ inst[j].broken => inst'[j].broken
           /\ inst'[j].ref \in {0, inst[j].ref}
           /\ j # i => inst'[j] = inst[j]
      /\ inst'[i].ref # inst[i].ref => ~Alive(inst[i].ref)
      /\ inst'[i].broken \/ inst'[i].ref = 0
  BY <1>3, <1>4 DEF TypeOK, Fields
<1>7. UNCHANGED <<cfgFloor, liveFloors, started, owner, thread, stopping,
                  drain, conn, peers>>
  BY DEF Join
<1>8. TypeOK'
  BY <1>2, <1>5, <1>7 DEF TypeOK
<1>9. Ownership'
  BY <1>6, <1>7 DEF TypeOK, Ownership, Alive
<1>10. Registry'
  BY <1>6, <1>7 DEF TypeOK, Registry, Alive
<1>11. HandlersRun'
  <2>1. \A c \in Clients : conn[c] # Out => InstOf(c) \in Instances
    BY DEF TypeOK, HandlersRun, InstOf
  <2> QED
    BY <1>6, <1>7, <2>1 DEF HandlersRun, InstOf
<1>12. PeersAdmitted'
  BY <1>6, <1>7 DEF TypeOK, PeersAdmitted, HandlersRun, InstOf
<1>13. Calling'
  BY <1>2, <1>6 DEF Calling, In
<1>50. Told'
  <2>1. ASSUME NEW u \in Threads, Alive(u), owner[u] = i
        PROVE  inst'[i].broken
    <3>1. inst'[i].ref = u /\ u # 0
      BY <1>7, <1>9, <2>1 DEF Ownership, Alive, Threads
    <3> QED
      BY <1>6, <3>1
  <2>2. \A u \in Threads : owner[u] \in Instances
    BY DEF TypeOK
  <2>3. \A u \in Threads :
          /\ stopping[u] # 0 => inst'[owner[u]].broken
          /\ thread[u] \in {"shutting", "cancelling"} => inst'[owner[u]].broken
    <3>1. \A u \in Threads :
            stopping[u] # 0 \/ thread[u] \in {"shutting", "cancelling"}
              => Alive(u)
      BY DEF Told, Alive
    <3> QED
      BY <1>6, <2>1, <2>2, <3>1 DEF Told, Join, In
  <2> QED
    BY <1>7, <2>3 DEF Told, Alive
<1>14. Held'
  BY <1>2, <1>6, <1>7 DEF TypeOK, Held, Settled, Join, In, Idle
<1> QED
  BY <1>8, <1>9, <1>10, <1>11, <1>12, <1>13, <1>14, <1>50

LEMMA ClearFieldsKeeps ==
  ASSUME IInv, NEW i \in Instances, ClearFields(i)
  PROVE  IInv'
<1> USE ConstantsAssumption DEF IInv, ConstantsAssumption
<1> DEFINE f == [inst[i] EXCEPT !.url = FALSE, !.ready = FALSE, !.tracked = {}]
<1>1. i \in Instances /\ inst[i] \in Fields
  BY DEF TypeOK, ClearFields
<1>2. f \in Fields
  BY <1>1 DEF TypeOK, Fields, Threads, ClearFields
<1>3. inst' = [inst EXCEPT ![i] = f]
  BY DEF ClearFields, Set
<1> HIDE DEF f
<1>4. /\ inst' \in [Instances -> Fields]
      /\ \A j \in Instances :
           inst'[j] = IF j = i THEN f ELSE inst[j]
  BY <1>1, <1>2, <1>3 DEF TypeOK
<1>5. \A j \in Instances :
        /\ inst'[j].ref = inst[j].ref
        /\ inst'[j].loop = inst[j].loop
        /\ inst'[j].url <=> j # i /\ inst[j].url
        /\ inst'[j].ready <=> j # i /\ inst[j].ready
        /\ inst'[j].error <=> inst[j].error
        /\ inst'[j].broken <=> inst[j].broken
  <2>1. /\ f.ref = inst[i].ref
        /\ f.loop = inst[i].loop
        /\ ~f.url
        /\ ~f.ready
        /\ f.error <=> inst[i].error
        /\ f.broken <=> inst[i].broken
    BY <1>1 DEF Fields, f
  <2> QED
    BY <1>4, <2>1
<1>6. TypeOK'
  BY <1>1, <1>4 DEF TypeOK, Calls, Idle, Threads, ThreadStates, ClearFields,
     In, Returns
<1>7. Ownership'
  BY <1>5, OwnershipKept DEF ClearFields, Returns
<1>8. Registry'
  BY <1>1, <1>4, <1>5 DEF TypeOK, Threads, Registry, Ownership, Calling, Alive,
     ClearFields, In, Returns, Idle
<1>9. HandlersRun'
  BY <1>1, <1>4, <1>5 DEF TypeOK, HandlersRun, InstOf, ClearFields, In,
     Returns, Idle
<1>10. PeersAdmitted'
  BY <1>1, <1>4, <1>5 DEF TypeOK, PeersAdmitted, HandlersRun, Registry, InstOf,
     Alive, ClearFields, In, Returns, Idle
<1>11. Calling'
  BY <1>1, <1>4, <1>5 DEF TypeOK, Calling, Ownership, In, Alive, Idle, Calls,
     ClearFields, Returns
<1>50. Told'
  BY <1>1, <1>4, <1>5 DEF TypeOK, Calling, Told, Held, Settled, Ownership, In,
     Alive, Idle, Calls, ClearFields, Returns
<1>12. Held'
  BY <1>1, <1>4, <1>5 DEF TypeOK, Held, Ownership, Calling, Settled, In, Idle,
     Alive, ClearFields, Returns
<1> QED
  BY <1>6, <1>7, <1>8, <1>9, <1>10, <1>11, <1>12, <1>50
-----------------------------------------------------------------------------

LEMMA InitEstablishes ==
  ASSUME Init
  PROVE  IInv
<1> USE ConstantsAssumption DEF ConstantsAssumption
<1>1. TypeOK
  <2>1. (CHOOSE i \in Instances : TRUE) \in Instances
    OBVIOUS
  <2>2. [ref |-> 0, loop |-> 0, url |-> FALSE, ready |-> FALSE,
         error |-> FALSE, broken |-> FALSE, tracked |-> {}] \in Fields
    <3>1. 0 \in 0..MaxRuns
      OBVIOUS
    <3> QED
      BY <3>1 DEF Fields
  <2> QED
    BY <2>1, <2>2 DEF TypeOK, Init, ThreadStates, Handlers, Calls, Turns
<1>2. Ownership /\ Registry /\ HandlersRun /\ PeersAdmitted
  BY DEF Init, Ownership, Registry, HandlersRun, PeersAdmitted, Alive, Threads
<1>3. Calling /\ Told /\ Held
  BY DEF Init, Calling, Told, Held, In, Idle
<1> QED
  BY <1>1, <1>2, <1>3 DEF IInv

LEMMA NextKeeps ==
  ASSUME IInv, [Next]_vars
  PROVE  IInv'
<1>1. CASE UNCHANGED vars
  BY <1>1 DEF vars, IInv, TypeOK, Ownership, Registry, HandlersRun,
     PeersAdmitted, Calling, Told, Held, Alive, InstOf, In, Settled
<1>2. ASSUME NEW i \in Instances, Run(i) \/ Stop(i) \/ Drain(i)
      PROVE  IInv'
  BY <1>2, RunKeeps, StopKeeps, DrainClosesKeeps, DrainEndsKeeps DEF Drain
<1>3. CASE Driver
  BY <1>3, RunReturnsKeeps, RunRaisesKeeps, StopLoopKeeps, JoinKeeps,
     ClearFieldsKeeps DEF Driver
<1>4. ASSUME NEW t \in Threads, Server(t) \/ LoopStops(t)
      PROVE  IInv'
  BY <1>4, OpenLoopKeeps, StartServerKeeps, ServeForeverKeeps, StartFailsKeeps,
     CloseServerKeeps, CloseLoopKeeps, LoopStopsKeeps DEF Server
<1>5. ASSUME NEW t \in Threads, NEW c \in Clients, HandleClient(t, c)
      PROVE  IInv'
  BY <1>5, HandleClientKeeps
<1>6. ASSUME NEW c \in Clients,
             \/ HandleMessage(c) \/ MessageHandled(c) \/ ClientCloses(c)
             \/ LeaveTry(c) \/ Disconnected(c)
      PROVE  IInv'
  BY <1>6, HandleMessageKeeps, MessageHandledKeeps, ClientClosesKeeps,
     LeaveTryKeeps, DisconnectedKeeps
<1> QED
  BY <1>1, <1>2, <1>3, <1>4, <1>5, <1>6 DEF Next

LEMMA Invariance == Spec => []IInv
<1>1. Init => IInv
  BY InitEstablishes
<1>2. IInv /\ [Next]_vars => IInv'
  BY NextKeeps
<1> QED
  BY <1>1, <1>2, PTL DEF Spec

(***************************************************************************)
(* Type correctness: the fields run(), _serve_forever, the handlers and    *)
(* stop() write keep their types.                                          *)
(***************************************************************************)

THEOREM TypeCorrect == Spec => []TypeOK
<1>1. IInv => TypeOK
  BY DEF IInv
<1> QED
  BY <1>1, Invariance, PTL

(***************************************************************************)
(* An instance never has two server threads alive, whatever becomes of its *)
(* runs and stops (stop(), lines 487-500, and the guard of run()).         *)
(***************************************************************************)

THEOREM OneThreadEach == Spec => []OneServerPerInstance
<1>1. IInv => OneServerPerInstance
  BY DEF IInv, Ownership, OneServerPerInstance
<1> QED
  BY <1>1, Invariance, PTL

(***************************************************************************)
(* Instances registered in _LIVE_FLOORS agree with the configured floor,   *)
(* and unbroken ones have no peer below the floor they asked for (run(),   *)
(* lines 116-157).                                                         *)
(***************************************************************************)

THEOREM FloorsAreKept == Spec => []PeersMeetTheFloor
<1>1. IInv => PeersMeetTheFloor
  BY DEF IInv, Registry, PeersAdmitted, PeersMeetTheFloor
<1> QED
  BY <1>1, Invariance, PTL

(***************************************************************************)
(* run() on an unbroken instance that holds a thread finds it serving, so  *)
(* its return without effect hides no failure (lines 112-114, 165-169).    *)
(***************************************************************************)

THEOREM HeldThreadsServe == Spec => []HeldThreadServes
<1>1. ASSUME IInv
      PROVE  HeldThreadServes
  <2> USE <1>1 DEF IInv
  <2>1. ASSUME NEW i \in Instances, Settled(i), inst[i].ref # 0, ~inst[i].broken
        PROVE  /\ thread[inst[i].ref] = "serving"
               /\ inst[i].loop = inst[i].ref
               /\ inst[i].url
               /\ inst[i].ready
               /\ i \in liveFloors
    <3>1. inst[i].ref \in Threads
      BY <2>1 DEF TypeOK, Fields, Threads
    <3>2. /\ thread[inst[i].ref] = "serving"
          /\ inst[i].url
          /\ inst[i].ready
      BY <2>1 DEF Held
    <3>3. owner[inst[i].ref] = i
      BY <2>1 DEF Ownership
    <3>4. inst[i].loop = inst[i].ref
      BY <3>1, <3>2, <3>3 DEF Ownership, Alive
    <3>5. i \in liveFloors
      BY <2>1, <3>1, <3>2, <3>3 DEF Registry, Alive
    <3> QED
      BY <3>2, <3>4, <3>5
  <2> QED
    BY <2>1 DEF HeldThreadServes
<1> QED
  BY <1>1, Invariance, PTL

(***************************************************************************)
(* No peer of an unbroken instance outlives the thread its handler ran on, *)
(* and once stopped it has none (_drain_clients and _shutdown_loop): its   *)
(* loop is told to stop once, so that _shutdown_loop is not interrupted.   *)
(***************************************************************************)

THEOREM NoGhosts == Spec => []NoGhostPeers
<1>1. IInv => NoGhostPeers
  BY DEF IInv, TypeOK, HandlersRun, Registry, NoGhostPeers, InstOf, Alive
<1> QED
  BY <1>1, Invariance, PTL

=============================================================================
