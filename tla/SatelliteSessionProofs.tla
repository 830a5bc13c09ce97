----------------------- MODULE SatelliteSessionProofs -----------------------
(***************************************************************************)
(* Theorems about SatelliteSession, for every bound on connects and sends. *)
(***************************************************************************)
EXTENDS SatelliteSession, SequenceTheorems, FiniteSetTheorems, FunctionTheorems, TLAPS

-----------------------------------------------------------------------------
(***************************************************************************)
(* The queue: what an append, a tail and a join leave.                     *)
(***************************************************************************)
Kinds == Ups \cup Downs \cup Others

LEMMA JobType ==
  ASSUME NEW kind \in Kinds, NEW c \in Numbers, NEW k \in Numbers
  PROVE  /\ Job(kind, c, k) \in Jobs
         /\ Job(kind, c, k).kind = kind
         /\ Job(kind, c, k).conn = c
         /\ Job(kind, c, k).key = k
  BY DEF Job, Jobs, Kinds

LEMMA AppendShape ==
  ASSUME NEW q \in Seq(Jobs), NEW job \in Jobs
  PROVE  /\ Append(q, job) \in Seq(Jobs)
         /\ Len(q) \in Nat /\ Len(Append(q, job)) = Len(q) + 1
         /\ \A i \in 1..Len(q) : Append(q, job)[i] = q[i]
         /\ Append(q, job)[Len(q) + 1] = job
         /\ q \o <<job>> = Append(q, job)
  OBVIOUS

LEMMA TailShape ==
  ASSUME NEW q \in Seq(Jobs), q # <<>>
  PROVE  /\ Tail(q) \in Seq(Jobs) /\ Head(q) \in Jobs
         /\ Len(q) \in Nat \ {0} /\ Len(Tail(q)) = Len(q) - 1
         /\ Head(q) = q[1]
         /\ \A i \in 1..Len(q) - 1 : Tail(q)[i] = q[i + 1]
         /\ Tail(q) \o <<>> = Tail(q)
  OBVIOUS

LEMMA JoinTwo ==
  ASSUME NEW q \in Seq(Jobs), NEW a \in Jobs, NEW b \in Jobs
  PROVE  q \o <<a, b>> = Append(Append(q, a), b)
  OBVIOUS

-----------------------------------------------------------------------------
(***************************************************************************)
(* Type correctness.  Connections are numbered within the bound because    *)
(* every call of connect queues one job, so the connections made and the   *)
(* connect jobs still in the queue are never more than the calls.          *)
(***************************************************************************)
ConnectsIn(q) == Cardinality({i \in 1..Len(q) : q[i].kind = "connect"})

LEMMA CountAppend ==
  ASSUME NEW q \in Seq(Jobs), NEW job \in Jobs
  PROVE  /\ ConnectsIn(q) \in Nat
         /\ ConnectsIn(Append(q, job)) =
              IF job.kind = "connect" THEN ConnectsIn(q) + 1 ELSE ConnectsIn(q)
  <1> DEFINE p == Append(q, job)
             S == {i \in 1..Len(q) : q[i].kind = "connect"}
             T == {i \in 1..Len(p) : p[i].kind = "connect"}
             n == Len(q) + 1
  <1>1. /\ Len(q) \in Nat /\ Len(p) = n
        /\ \A i \in 1..Len(q) : p[i] = q[i]
        /\ p[n] = job
    BY AppendShape
  <1>2. IsFiniteSet(S) /\ Cardinality(S) \in Nat
    <2>1. S \in SUBSET (1..Len(q)) /\ IsFiniteSet(1..Len(q))
      BY <1>1, FS_Interval
    <2> HIDE DEF S
    <2>2. QED
      BY <2>1, FS_Subset, FS_CardinalityType
  <1> HIDE DEF p
  <1>3. n \notin S
    BY <1>1
  <1>4. T = IF job.kind = "connect" THEN S \cup {n} ELSE S
    BY <1>1
  <1> HIDE DEF S, T, n
  <1>5. Cardinality(S \cup {n}) = Cardinality(S) + 1
    BY <1>2, <1>3, FS_AddElement
  <1>6. Cardinality(T) = IF job.kind = "connect" THEN Cardinality(S) + 1 ELSE Cardinality(S)
    BY <1>4, <1>5
  <1>7. QED
    BY <1>2, <1>6 DEF ConnectsIn, S, T, p

LEMMA CountOther ==
  ASSUME NEW q \in Seq(Jobs), NEW job \in Jobs, job.kind # "connect"
  PROVE  /\ Append(q, job) \in Seq(Jobs)
         /\ q \o <<job>> = Append(q, job)
         /\ ConnectsIn(Append(q, job)) = ConnectsIn(q)
  <1>1. ConnectsIn(Append(q, job)) =
          IF job.kind = "connect" THEN ConnectsIn(q) + 1 ELSE ConnectsIn(q)
    BY CountAppend
  <1>2. QED
    BY <1>1, AppendShape

LEMMA CountTail ==
  ASSUME NEW q \in Seq(Jobs), q # <<>>
  PROVE  /\ ConnectsIn(Tail(q)) \in Nat
         /\ ConnectsIn(q) = IF Head(q).kind = "connect" THEN ConnectsIn(Tail(q)) + 1
                                                         ELSE ConnectsIn(Tail(q))
  <1> DEFINE p == Tail(q)
             S == {i \in 1..Len(q) : q[i].kind = "connect"}
             T == {i \in 1..Len(p) : p[i].kind = "connect"}
             f == [i \in T |-> i + 1]
  <1>1. /\ Len(q) \in Nat \ {0} /\ Len(p) = Len(q) - 1
        /\ \A i \in 1..Len(q) - 1 : p[i] = q[i + 1]
        /\ Head(q) = q[1]
    BY TailShape
  <1>2. IsFiniteSet(S) /\ IsFiniteSet(T) /\ Cardinality(S) \in Nat /\ Cardinality(T) \in Nat
    <2>1. S \in SUBSET (1..Len(q)) /\ T \in SUBSET (1..Len(p))
      OBVIOUS
    <2>2. IsFiniteSet(1..Len(q)) /\ IsFiniteSet(1..Len(p))
      BY <1>1, FS_Interval
    <2> HIDE DEF S, T
    <2>3. QED
      BY <2>1, <2>2, FS_Subset, FS_CardinalityType
  <1> HIDE DEF p
  <1>3. f \in Bijection(T, S \ {1})
    <2>1. \A i \in T : i + 1 \in S \ {1}
      BY <1>1
    <2>2. \A i \in S \ {1} : i - 1 \in T /\ (i - 1) + 1 = i
      BY <1>1
    <2>3. \A i, j \in T : i + 1 = j + 1 => i = j
      BY <1>1
    <2> HIDE DEF S, T
    <2>4. f \in [T -> S \ {1}] /\ \A i, j \in T : f[i] = f[j] => i = j
      BY <2>1, <2>3
    <2>5. \A i \in S \ {1} : \E j \in T : f[j] = i
      BY <2>2
    <2>6. QED
      BY <2>4, <2>5, Fun_IsBij
  <1>4. 1 \in S <=> Head(q).kind = "connect"
    BY <1>1
  <1> HIDE DEF S, T, f
  <1>5. Cardinality(S \ {1}) = Cardinality(T)
    BY <1>2, <1>3, FS_Bijection DEF ExistsBijection
  <1>6. Cardinality(S \ {1}) = IF 1 \in S THEN Cardinality(S) - 1 ELSE Cardinality(S)
    BY <1>2, FS_RemoveElement
  <1>7. Cardinality(S) = IF Head(q).kind = "connect" THEN Cardinality(T) + 1 ELSE Cardinality(T)
    BY <1>2, <1>4, <1>5, <1>6
  <1>8. QED
    BY <1>2, <1>7 DEF ConnectsIn, S, T, p

Counted == opened + ConnectsIn(queue) <= connects
TypeInv == TypeOK /\ Counted

\* The satellite's record, field by field.
LEMMA SatFields ==
  ASSUME NEW s \in Satellites
  PROVE  /\ s.conn \in Numbers /\ s.master \in BOOLEAN /\ s.event \in BOOLEAN
         /\ s.transport \in Numbers /\ s.noise \in Numbers /\ s.server \in Numbers
         /\ ForgetSession(s) \in Satellites
         /\ [s EXCEPT !.master = FALSE] \in Satellites
         /\ [s EXCEPT !.master = TRUE] \in Satellites
         /\ \A n \in Numbers : /\ [s EXCEPT !.conn = n] \in Satellites
                               /\ [s EXCEPT !.noise = n] \in Satellites
                               /\ [s EXCEPT !.server = n] \in Satellites
                               /\ [s EXCEPT !.transport = n, !.event = TRUE, !.noise = 0]
                                    \in Satellites
  <1>1. 0 \in Numbers
    BY ConstantsAssumption DEF ConstantsAssumption, Numbers
  <1>2. QED
    BY <1>1 DEF Satellites, ForgetSession

\* One job taken from the queue, and what the next lemmas say of the rest.
LEMMA ThenType ==
  ASSUME TypeInv, queue # <<>>
  PROVE  /\ Head(queue) \in Jobs /\ Tail(queue) \in Seq(Jobs)
         /\ Tail(queue) \o <<>> = Tail(queue)
         /\ Head(queue).kind # "connect" => opened + ConnectsIn(Tail(queue)) <= connects
         /\ Head(queue).kind = "connect" =>
              opened + 1 \in Numbers /\ opened + 1 + ConnectsIn(Tail(queue)) <= connects
         /\ opened \in Nat /\ connects \in Nat /\ ConnectsIn(Tail(queue)) \in Nat
  <1>1. queue \in Seq(Jobs) /\ opened \in Nat /\ connects \in Nat /\ connects <= MaxConnects
    BY ConstantsAssumption DEF ConstantsAssumption, TypeInv, TypeOK, Numbers
  <1>2. opened + ConnectsIn(queue) <= connects
    BY DEF TypeInv, Counted
  <1>3. QED
    BY <1>1, <1>2, TailShape, CountTail, ConstantsAssumption DEF ConstantsAssumption, Numbers

\* A step that takes a job that is no connect and queues at most two that are none.
LEMMA TypeThen ==
  ASSUME TypeInv, queue # <<>>, Head(queue).kind # "connect", UNCHANGED <<opened, connects>>,
         \/ queue' = Tail(queue) \o <<>>
         \/ \E a \in Jobs : queue' = Tail(queue) \o <<a>> /\ a.kind # "connect"
         \/ \E a, b \in Jobs : /\ queue' = Tail(queue) \o <<a, b>>
                               /\ a.kind # "connect" /\ b.kind # "connect"
  PROVE  queue' \in Seq(Jobs) /\ Counted'
  <1>1. /\ Tail(queue) \in Seq(Jobs) /\ Tail(queue) \o <<>> = Tail(queue)
        /\ opened + ConnectsIn(Tail(queue)) <= connects
    BY ThenType
  <1>2. \A a \in Jobs : a.kind # "connect" =>
          /\ Append(Tail(queue), a) \in Seq(Jobs)
          /\ ConnectsIn(Append(Tail(queue), a)) = ConnectsIn(Tail(queue))
          /\ Tail(queue) \o <<a>> = Append(Tail(queue), a)
    BY <1>1, CountOther
  <1>3. ASSUME NEW a \in Jobs, NEW b \in Jobs, a.kind # "connect", b.kind # "connect",
               queue' = Tail(queue) \o <<a, b>>
        PROVE  queue' \in Seq(Jobs) /\ ConnectsIn(queue') = ConnectsIn(Tail(queue))
    <2> DEFINE q == Append(Tail(queue), a)
    <2>1. q \in Seq(Jobs) /\ ConnectsIn(q) = ConnectsIn(Tail(queue))
      BY <1>2, <1>3
    <2>2. queue' = Append(q, b)
      BY <1>1, <1>3, JoinTwo
    <2> HIDE DEF q
    <2>3. QED
      BY <1>3, <2>1, <2>2, CountOther
  <1>4. queue' \in Seq(Jobs) /\ ConnectsIn(queue') = ConnectsIn(Tail(queue))
    <2>1. CASE queue' = Tail(queue) \o <<>>
      BY <1>1, <2>1
    <2>2. ASSUME NEW a \in Jobs, queue' = Tail(queue) \o <<a>>, a.kind # "connect"
          PROVE  queue' \in Seq(Jobs) /\ ConnectsIn(queue') = ConnectsIn(Tail(queue))
      BY <1>2, <2>2
    <2>3. QED
      BY <1>3, <2>1, <2>2
  <1>5. QED
    BY <1>1, <1>4 DEF Counted

\* A step that queues one job that is no connect.
LEMMA TypePush ==
  ASSUME TypeInv, UNCHANGED <<opened, connects>>,
         \/ queue' = queue \/ queue' = queue \o <<>>
         \/ \E a \in Jobs :
              a.kind # "connect" /\ (queue' = queue \o <<a>> \/ queue' = Append(queue, a))
  PROVE  queue' \in Seq(Jobs) /\ Counted'
  <1>1. queue \in Seq(Jobs) /\ opened + ConnectsIn(queue) <= connects
    BY DEF TypeInv, TypeOK, Counted
  <1>2. queue \o <<>> = queue
    BY <1>1
  <1>3. queue' \in Seq(Jobs) /\ ConnectsIn(queue') = ConnectsIn(queue)
    <2>1. CASE queue' = queue \/ queue' = queue \o <<>>
      BY <1>1, <1>2, <2>1
    <2>2. ASSUME NEW a \in Jobs, a.kind # "connect",
                 queue' = queue \o <<a>> \/ queue' = Append(queue, a)
          PROVE  queue' \in Seq(Jobs) /\ ConnectsIn(queue') = ConnectsIn(queue)
      <3>1. queue' = Append(queue, a)
        BY <1>1, <2>2, CountOther
      <3>2. QED
        BY <1>1, <2>2, <3>1, CountOther
    <2>3. QED
      BY <2>1, <2>2
  <1>4. QED
    BY <1>1, <1>3 DEF Counted

LEMMA TypeStep == TypeInv /\ [Next]_vars => TypeInv'
  <1> SUFFICES ASSUME TypeInv, [Next]_vars
               PROVE  TypeInv'
    OBVIOUS
  <1>1. /\ TypeOK /\ sat \in Satellites /\ 0 \in Numbers
        /\ opened \in Numbers /\ connects \in Numbers
        /\ queue \in Seq(Jobs)
    BY ConstantsAssumption DEF ConstantsAssumption, TypeInv, TypeOK, Numbers
  <1>2. /\ ForgetSession(sat) \in Satellites
        /\ ForgetSession([sat EXCEPT !.master = FALSE]) \in Satellites
    BY <1>1, SatFields
  <1>0. /\ sat.conn \in Numbers /\ sat.server \in Numbers /\ sat.noise \in Numbers
        /\ {"connect", "start", "data", "app", "hello", "handshake", "xx1", "kk1",
            "xx2", "kk2", "xx3", "hi"} \subseteq Kinds
    BY <1>1, SatFields DEF Kinds, Ups, Downs, Others
  <1>3. ASSUME Connect PROVE TypeInv'
    <2> DEFINE a == Job("connect", 0, 0)
               b == Job("start", 0, 0)
    <2>1. a \in Jobs /\ a.kind = "connect" /\ b \in Jobs /\ b.kind = "start"
      BY <1>0, <1>1, JobType
    <2>2. /\ queue' = queue \o <<a>> \/ queue' = queue \o <<a, b>>
          /\ connects' = connects + 1 /\ connects < MaxConnects
      BY <1>3 DEF Connect
    <2> HIDE DEF a, b
    <2>3. /\ queue' \in Seq(Jobs) /\ ConnectsIn(queue') = ConnectsIn(queue) + 1
          /\ ConnectsIn(queue) \in Nat
      <3> DEFINE q == Append(queue, a)
      <3>1. q \in Seq(Jobs) /\ ConnectsIn(q) = ConnectsIn(queue) + 1 /\ ConnectsIn(queue) \in Nat
            /\ queue \o <<a>> = q
        BY <1>1, <2>1, AppendShape, CountAppend
      <3>2. queue \o <<a, b>> = Append(q, b)
        BY <1>1, <2>1, JoinTwo
      <3> HIDE DEF q
      <3>3. Append(q, b) \in Seq(Jobs) /\ ConnectsIn(Append(q, b)) = ConnectsIn(q)
        BY <2>1, <3>1, CountOther
      <3>4. QED
        BY <2>2, <3>1, <3>2, <3>3
    <2>4. connects' \in Numbers
      BY <1>1, <2>2, ConstantsAssumption DEF ConstantsAssumption, Numbers
    <2>5. sat' \in Satellites
      BY <1>1, <1>3, SatFields DEF Connect
    <2>6. Counted'
      BY <1>1, <1>3, <2>2, <2>3 DEF Connect, TypeInv, Counted, Numbers
    <2>7. overlaid' \in SUBSET {"complete", "unfinished"}
      BY <1>1, <1>3 DEF Connect, InUse, TypeOK
    <2>8. QED
      BY <1>1, <1>3, <2>3, <2>4, <2>5, <2>6, <2>7 DEF Connect, TypeOK, TypeInv
  <1>4. ASSUME CallReturns PROVE TypeInv'
    <2> DEFINE job == Job("start", 0, 0)
    <2>1. job \in Jobs /\ job.kind # "connect"
      BY <1>0, <1>1, JobType
    <2> HIDE DEF job
    <2>2. queue = <<>> /\ (queue' = <<job>> \/ queue' = queue) /\ UNCHANGED <<opened, connects>>
      BY <1>4 DEF CallReturns, job
    <2>3. <<job>> = Append(<<>>, job)
      OBVIOUS
    <2>4. queue' \in Seq(Jobs) /\ Counted'
      BY <2>1, <2>2, <2>3, TypePush
    <2>5. QED
      BY <1>1, <1>4, <2>4 DEF CallReturns, TypeOK, TypeInv
  <1>5. ASSUME Send PROVE TypeInv'
    <2> DEFINE job == Job("data", sat.conn, 0)
    <2>1. job \in Jobs /\ job.kind # "connect"
      <3>1. "data" \in Kinds
        BY <1>0
      <3>2. QED
        BY <1>0, <1>1, <3>1, JobType
    <2> HIDE DEF job
    <2>2. queue' = Append(queue, job) /\ UNCHANGED <<opened, connects>>
      BY <1>5 DEF Send, DeliverNew, job
    <2>3. queue' \in Seq(Jobs) /\ Counted'
      BY <2>1, <2>2, TypePush
    <2>4. call' \in {"none", "connect", "start", "other"} /\ sends' \in 0..MaxSends
      BY <1>1, <1>5, ConstantsAssumption DEF Send, DeliverNew, TypeOK, ConstantsAssumption
    <2>5. QED
      BY <1>1, <1>5, <2>3, <2>4 DEF Send, TypeOK, TypeInv
  <1>6. ASSUME NEW c \in clients, SendToSatellite(c) PROVE TypeInv'
    <2> DEFINE job == Job("app", sat.conn, IF c \in keyed THEN c ELSE 0)
    <2>1. job \in Jobs /\ job.kind # "connect"
      <3>1. (IF c \in keyed THEN c ELSE 0) \in Numbers
        BY <1>1 DEF TypeOK
      <3>2. QED
        BY <1>0, <3>1, JobType
    <2> HIDE DEF job
    <2>2. (queue' = queue \o <<job>> \/ queue' = queue \o <<>>) /\ UNCHANGED <<opened, connects>>
      BY <1>6 DEF SendToSatellite, Frames, job
    <2>3. queue' \in Seq(Jobs) /\ Counted'
      BY <2>1, <2>2, TypePush
    <2>4. call' \in {"none", "connect", "start", "other"} /\ sends' \in 0..MaxSends
      BY <1>1, <1>6, ConstantsAssumption DEF SendToSatellite, TypeOK, ConstantsAssumption
    <2>5. QED
      BY <1>1, <1>6, <2>3, <2>4 DEF SendToSatellite, TypeOK, TypeInv
  <1>7. ASSUME Disconnect \/ MasterCloses PROVE TypeInv'
    <2>1. sat' \in Satellites /\ clients' \in SUBSET Numbers
      BY <1>1, <1>2, <1>7 DEF Disconnect, MasterCloses, OnDisconnect, TypeOK
    <2>2. UNCHANGED <<queue, opened, connects>>
      BY <1>7 DEF Disconnect, MasterCloses
    <2>3. queue' \in Seq(Jobs) /\ Counted'
      BY <2>2, TypePush
    <2>4. QED
      BY <1>1, <1>7, <2>1, <2>3 DEF Disconnect, MasterCloses, TypeOK, TypeInv
  <1>8. ASSUME RunConnect \/ RunConnectRaises PROVE TypeInv'
    <2> DEFINE n == opened + 1
               a == Job("hello", n, 0)
               b == Job("handshake", n, 0)
               t == Tail(queue)
    <2>1. queue # <<>> /\ Head(queue).kind = "connect" /\ connects' = connects
      BY <1>8 DEF RunConnect, RunConnectRaises, Run
    <2>2. /\ t \in Seq(Jobs) /\ n \in Numbers /\ t \o <<>> = t /\ opened \in Nat
          /\ n + ConnectsIn(t) <= connects /\ connects \in Nat /\ ConnectsIn(t) \in Nat
      BY <2>1, ThenType
    <2>3. a \in Jobs /\ b \in Jobs /\ a.kind # "connect" /\ b.kind # "connect"
      <3>1. "hello" \in Kinds /\ "handshake" \in Kinds /\ n \in Numbers /\ 0 \in Numbers
        BY <1>0, <1>1, <2>2
      <3>2. /\ a \in Jobs /\ a.kind = "hello"
            /\ b \in Jobs /\ b.kind = "handshake"
        BY <3>1, JobType
      <3>3. QED
        BY <3>2
    <2>4. Greetings = <<a, b>> /\ Head(<<a, b>>) = a
      BY DEF Greetings
    <2>5. /\ \/ opened' = opened /\ sat' = sat /\ queue' = t \o <<>>
             \/ /\ opened' = n /\ sat' = [sat EXCEPT !.conn = n]
                /\ queue' \in {t \o <<>>, t \o <<a>>, t \o <<a, b>>}
      <3>1. CASE RunConnect
        BY <2>4, <3>1 DEF RunConnect, NewConnection, Then
      <3>2. CASE RunConnectRaises
        BY <2>4, <3>2 DEF RunConnectRaises, NewConnection, Then
      <3>3. QED
        BY <1>8, <3>1, <3>2
    <2> HIDE DEF a, b, n, t
    <2>6. queue' \in Seq(Jobs) /\ ConnectsIn(queue') = ConnectsIn(t)
      <3> DEFINE q == Append(t, a)
      <3>1. q \in Seq(Jobs) /\ ConnectsIn(q) = ConnectsIn(t) /\ t \o <<a>> = q
        BY <2>2, <2>3, CountOther
      <3>2. t \o <<a, b>> = Append(q, b)
        BY <2>2, <2>3, JoinTwo
      <3> HIDE DEF q
      <3>3. Append(q, b) \in Seq(Jobs) /\ ConnectsIn(Append(q, b)) = ConnectsIn(q)
        BY <2>3, <3>1, CountOther
      <3>4. QED
        BY <2>2, <2>5, <3>1, <3>2, <3>3
    <2>7. Counted' /\ opened' \in Numbers
      BY <1>1, <2>1, <2>2, <2>5, <2>6 DEF Counted, n
    <2>8. sat' \in Satellites
      BY <1>1, <2>2, <2>5, SatFields
    <2>9. QED
      BY <1>1, <1>8, <2>6, <2>7, <2>8 DEF RunConnect, RunConnectRaises, Abort, TypeOK, TypeInv
  <1>9. ASSUME RunStart \/ RunHandshake PROVE TypeInv'
    <2> DEFINE kind == IF pinned THEN "kk1" ELSE "xx1"
               job == Job(kind, sat.conn, sat.server)
    <2>1. job \in Jobs /\ job.kind # "connect"
      <3>1. kind \in Kinds /\ kind # "connect"
        BY <1>0
      <3> HIDE DEF kind
      <3>2. QED
        BY <1>0, <3>1, JobType
    <2>2. /\ queue # <<>> /\ Head(queue).kind # "connect" /\ StartNoise
          /\ UNCHANGED <<pinned, keyed, clients, opened, connects, sends, refused, overlaid>>
      BY <1>9 DEF RunStart, RunHandshake, Dispatch, Run
    <2> HIDE DEF job
    <2>3. queue' = Tail(queue) \o <<>> \/ queue' = Tail(queue) \o <<job>>
      BY <2>2 DEF StartNoise, Then, job
    <2>4. queue' \in Seq(Jobs) /\ Counted'
      BY <2>1, <2>2, <2>3, TypeThen
    <2>5. sat' \in Satellites
      BY <1>1, <2>2, SatFields DEF StartNoise
    <2>6. QED
      BY <1>1, <2>2, <2>4, <2>5 DEF StartNoise, Abort, TypeOK, TypeInv
  <1>10. ASSUME DecodeError PROVE TypeInv'
    <2>1. queue # <<>> /\ Head(queue).kind # "connect" /\ queue' = Tail(queue) \o <<>>
      BY <1>10 DEF DecodeError, Run, Downs, Then
    <2>2. queue' \in Seq(Jobs) /\ Counted'
      BY <1>10, <2>1, TypeThen DEF DecodeError
    <2>3. <<Head(queue), sat.conn>> \in Jobs \X Numbers
      BY <1>1, <2>1, TailShape, SatFields
    <2>4. QED
      BY <1>1, <1>10, <2>2, <2>3 DEF DecodeError, TypeOK, TypeInv
  <1>11. ASSUME RunHello PROVE TypeInv'
    <2>1. /\ queue # <<>> /\ Head(queue).kind # "connect" /\ queue' = Tail(queue) \o <<>>
          /\ sat' = [sat EXCEPT !.server = Head(queue).conn]
      BY <1>11 DEF RunHello, Dispatch, Run, Then
    <2>2. queue' \in Seq(Jobs) /\ Counted'
      BY <1>11, <2>1, TypeThen DEF RunHello
    <2>3. Head(queue).conn \in Numbers
      BY <1>1, <2>1, TailShape DEF Jobs
    <2>4. sat' \in Satellites
      BY <1>1, <2>1, <2>3, SatFields
    <2>5. QED
      BY <1>1, <1>11, <2>2, <2>4 DEF RunHello, TypeOK, TypeInv
  <1>12. ASSUME RunNoise2 PROVE TypeInv'
    <2> DEFINE a == Job("xx3", sat.conn, sat.noise)
               b == Job("hi", sat.conn, 0)
    <2>1. a \in Jobs /\ b \in Jobs /\ a.kind # "connect" /\ b.kind # "connect"
      BY <1>0, <1>1, JobType
    <2>2. queue # <<>> /\ Head(queue).kind # "connect"
      BY <1>12 DEF RunNoise2, Dispatch, Run
    <2> HIDE DEF a, b
    <2>3. \/ queue' = Tail(queue) \o <<>> \/ queue' = Tail(queue) \o <<a, b>>
          \/ queue' = Tail(queue) \o <<b>>
      BY <1>12 DEF RunNoise2, Then, a, b
    <2>4. queue' \in Seq(Jobs) /\ Counted'
      BY <1>12, <2>1, <2>2, <2>3, TypeThen DEF RunNoise2
    <2>5. sat' \in Satellites
      BY <1>1, <1>12, SatFields DEF RunNoise2
    <2>6. QED
      BY <1>1, <1>12, <2>4, <2>5 DEF RunNoise2, Abort, TypeOK, TypeInv
  <1>13. ASSUME RunApp \/ RunUpClosed \/ RunNoise3 \/ RunMessage PROVE TypeInv'
    <2>1. /\ queue # <<>> /\ Head(queue).kind # "connect" /\ queue' = Tail(queue) \o <<>>
          /\ UNCHANGED <<opened, connects>>
      BY <1>13 DEF RunApp, RunUpClosed, RunNoise3, RunMessage, Dispatch, RunUp, Run, Ups, Then
    <2>2. queue' \in Seq(Jobs) /\ Counted'
      BY <2>1, TypeThen
    <2>3. keyed' \in SUBSET Numbers /\ clients' \in SUBSET Numbers /\ sat' \in Satellites
      <3>1. keyed \in SUBSET Numbers /\ clients \in SUBSET Numbers
        BY <1>1 DEF TypeOK
      <3>2. CASE RunApp \/ RunUpClosed \/ RunMessage
        BY <1>0, <1>1, <3>1, <3>2 DEF RunApp, RunUpClosed, RunMessage
      <3>3. CASE RunNoise3
        <4>1. \/ keyed' = keyed \cup {sat.conn} /\ UNCHANGED <<sat, clients>>
              \/ OnDisconnect /\ keyed' = keyed
          BY <3>3 DEF RunNoise3
        <4>2. QED
          BY <1>0, <1>1, <1>2, <3>1, <4>1 DEF OnDisconnect
      <3>4. QED
        BY <1>13, <3>2, <3>3
    <2>4. QED
      BY <1>1, <1>13, <2>2, <2>3
         DEF RunApp, RunUpClosed, RunNoise3, RunMessage, Abort, TypeOK, TypeInv
  <1>14. ASSUME RunNoise1 PROVE TypeInv'
    <2> DEFINE kind == IF Head(queue).kind = "kk1" THEN "kk2" ELSE "xx2"
               job == Job(kind, sat.conn, 0)
    <2>1. job \in Jobs /\ job.kind # "connect"
      <3>1. kind \in Kinds /\ kind # "connect" /\ sat.conn \in Numbers /\ 0 \in Numbers
        BY <1>0, <1>1
      <3> HIDE DEF kind
      <3>2. QED
        BY <3>1, JobType
    <2>2. queue # <<>> /\ Head(queue).kind # "connect"
      BY <1>14 DEF RunNoise1, RunUp, Run
    <2> HIDE DEF job
    <2>3. \/ queue' = Tail(queue) \o <<>> \/ queue' = Tail(queue) \o <<job>>
      BY <1>14 DEF RunNoise1, SendNoise2, Then, job
    <2>4. queue' \in Seq(Jobs) /\ Counted'
      BY <1>14, <2>1, <2>2, <2>3, TypeThen DEF RunNoise1
    <2>5. sat' \in Satellites /\ keyed' \in SUBSET Numbers /\ clients' \in SUBSET Numbers
      <3>1. keyed \in SUBSET Numbers /\ clients \in SUBSET Numbers
        BY <1>1 DEF TypeOK
      <3>2. \/ keyed' \in {keyed, keyed \cup {sat.conn}} /\ UNCHANGED <<sat, clients>>
            \/ OnDisconnect /\ keyed' = keyed
        BY <1>14 DEF RunNoise1
      <3>3. QED
        BY <1>0, <1>1, <1>2, <3>1, <3>2 DEF OnDisconnect
    <2>6. QED
      BY <1>1, <1>14, <2>4, <2>5 DEF RunNoise1, TypeOK, TypeInv
  <1>15. ASSUME HandlerRaises PROVE TypeInv'
    BY <1>1, <1>15 DEF HandlerRaises, Abort, TypeInv, TypeOK, Counted
  <1>16. CASE UNCHANGED vars
    BY <1>16 DEF vars, TypeInv, TypeOK, Counted
  <1>17. QED
    BY <1>3, <1>4, <1>5, <1>6, <1>7, <1>8, <1>9, <1>10, <1>11, <1>12, <1>13, <1>14, <1>15,
       <1>16
       DEF Next, Drain

LEMMA TypeInit == Init => TypeInv
  <1> SUFFICES ASSUME Init
               PROVE  TypeInv
    OBVIOUS
  <1>1. 0 \in Numbers /\ 0 \in 0..MaxSends
    BY ConstantsAssumption DEF ConstantsAssumption, Numbers
  <1>2. Down \in Satellites
    BY <1>1 DEF Down, Satellites
  <1>3. TypeOK
    <2>1. sat \in Satellites /\ queue \in Seq(Jobs) /\ refused \in SUBSET (Jobs \X Numbers)
      BY <1>2 DEF Init
    <2>2. QED
      BY <1>1, <2>1 DEF Init, TypeOK
  <1>4. {i \in 1..Len(queue) : queue[i].kind = "connect"} = {}
    BY DEF Init
  <1>5. ConnectsIn(queue) = 0
    BY <1>4, FS_EmptySet DEF ConnectsIn
  <1>6. Counted
    BY <1>5 DEF Init, Counted
  <1>7. QED
    BY <1>3, <1>6 DEF TypeInv

\* Every field, frame and call keeps its type, and no connection is numbered
\* past the calls of connect, however drains are cut short by exceptions.
THEOREM TypeCorrect == Spec => []TypeOK
  <1>1. TypeInv => TypeOK
    BY DEF TypeInv
  <1>2. QED
    BY <1>1, TypeInit, TypeStep, PTL DEF Spec

-----------------------------------------------------------------------------
(***************************************************************************)
(* The session invariant, which holds until connect is called over a       *)
(* connection in use (overlaid).  What a job leads to is queued behind it  *)
(* (InTurn): the payloads of a connection come before those of a later     *)
(* one, and nothing of the end of a handshake is queued behind a job that  *)
(* starts one.  A connection that is up has at most one handshake message  *)
(* that its ends accept, sent for its own payloads, with nothing queued    *)
(* that starts another (OneHandshake); what is left of older connections   *)
(* is answered with a message that is rejected.  And a job of connect is   *)
(* not queued behind the payloads of the connection that is up (StartInv), *)
(* whatever an exception has left in the queue.                            *)
(***************************************************************************)
Hellos == {"hello", "handshake"}
Early  == Hellos \cup Others
Noise1 == {"xx1", "kk1"}
Noise2 == {"xx2", "kk2"}
Late   == Noise2 \cup {"xx3", "hi"}

Places    == 1..Len(queue)
Queued(K) == \E i \in Places : queue[i].kind \in K

\* A job when n connections were made.
Numbered(j, n) ==
  /\ j.key <= n
  /\ j.kind \in Ups \cup Downs => 0 < j.conn /\ j.conn <= n
  /\ j.kind \in Hellos \cup Noise2 => j.key = 0
  /\ j.kind = "app" => j.key = j.conn

AllNumbered ==
  /\ sat.conn \in {0, opened} /\ sat.server <= opened
  /\ \A i \in Places : Numbered(queue[i], opened)

\* a is in front of b.
Turn(a, b) ==
  /\ a.kind \in Hellos /\ b.kind \in Hellos =>
       \/ a.conn < b.conn
       \/ a.conn = b.conn /\ a.kind = "hello" /\ b.kind = "handshake"
  /\ b.kind \in Late => a.kind \notin Early
  /\ a.kind = "hi" => b.kind # "xx3"

InTurn == \A i, j \in Places : i < j => Turn(queue[i], queue[j])

\* No connection: nothing of a session, and none can come of what is queued.
ClosedInv ==
  sat.conn = 0 =>
    /\ ~sat.event /\ sat.transport = 0 /\ clients = {}
    /\ Queued(Noise2) => sat.noise = 0 /\ sat.server = 0

\* A connection, before and after its handshake.
OpenInv ==
  sat.conn # 0 =>
    /\ sat.transport = IF sat.event THEN sat.conn ELSE 0
    /\ clients \subseteq {sat.conn}
    /\ clients # {} => sat.event /\ sat.conn \in keyed
    /\ sat.event =>
         /\ sat.master /\ ~Queued(Early)
         /\ sat.conn \in keyed \/ Queued({"xx3"})
         /\ sat.conn \in clients \/ Queued({"hi"})
    /\ sat.server = sat.conn =>
         \A i \in Places : /\ queue[i].kind # "hello"
                           /\ queue[i].kind = "handshake" => queue[i].conn = sat.conn
    /\ Queued({"xx3", "hi"}) => sat.event
    /\ Queued({"kk2"}) => sat.conn \in keyed
    /\ \A i \in Places : queue[i].kind = "app" /\ queue[i].conn = sat.conn => sat.event

\* A handshake message that the connection c that is up accepts.
Token(j, c) == (j.kind \in Noise1 /\ j.key = c) \/ j.kind \in Noise2

OneHandshake ==
  sat.conn # 0 =>
    \A i \in Places : Token(queue[i], sat.conn) =>
      /\ ~sat.event /\ sat.master /\ sat.server = sat.conn /\ sat.noise = sat.conn
      /\ \A j \in Places :
           /\ Token(queue[j], sat.conn) => i = j
           /\ queue[j].kind \notin Early

\* The jobs of connect, among the payloads that start a handshake.
StartInv ==
  \A i \in Places :
    /\ queue[i].kind \in Others =>
         \A j \in Places : j < i /\ queue[j].kind \in Hellos => queue[j].conn # sat.conn
    /\ queue[i].kind = "start" /\ sat.conn # 0 /\ sat.server = sat.conn =>
         \A j \in Places : queue[j].kind \in Early =>
           j = i \/ (j < i /\ queue[j].kind = "connect")

AllDecode == \A r \in refused : r[1].conn # r[2]

SessionInv ==
  /\ TypeInv /\ AllNumbered /\ InTurn /\ ClosedInv /\ OpenInv /\ OneHandshake /\ StartInv
  /\ AllDecode

-----------------------------------------------------------------------------
(***************************************************************************)
(* The three ways in which a step changes the queue.                       *)
(***************************************************************************)
LEMMA Dropped ==
  ASSUME TypeInv, queue # <<>>, queue' = Tail(queue) \o <<>>
  PROVE  /\ Len(queue) \in Nat /\ Len(queue') = Len(queue) - 1 /\ Len(queue') \in Nat
         /\ 1 \in Places /\ Head(queue) = queue[1]
         /\ \A i \in Places' : i + 1 \in Places /\ queue'[i] = queue[i + 1]
         /\ \A i \in Places : i # 1 => i - 1 \in Places' /\ queue'[i - 1] = queue[i]
         /\ \A K : Queued(K)' => Queued(K)
         /\ \A K : Queued(K) /\ Head(queue).kind \notin K => Queued(K)'
  <1>1. queue \in Seq(Jobs)
    BY DEF TypeInv, TypeOK
  <1>2. /\ Len(queue) \in Nat /\ Len(queue') = Len(queue) - 1 /\ Len(queue') \in Nat
        /\ 1 \in Places /\ Head(queue) = queue[1]
        /\ \A i \in Places' : i + 1 \in Places /\ queue'[i] = queue[i + 1]
        /\ \A i \in Places : i # 1 => i - 1 \in Places' /\ queue'[i - 1] = queue[i]
    BY <1>1, TailShape DEF Places
  <1>3. \A K : Queued(K)' => Queued(K)
    BY <1>2 DEF Queued
  <1>4. \A K : Queued(K) /\ Head(queue).kind \notin K => Queued(K)'
    BY <1>2 DEF Queued
  <1>5. QED
    BY <1>2, <1>3, <1>4

Appended(job) ==
  /\ Len(queue) \in Nat /\ Len(queue') = Len(queue) + 1
  /\ \A i \in Places : i \in Places' /\ queue'[i] = queue[i] /\ i < Len(queue')
  /\ \A i \in Places' : i \in Places \/ i = Len(queue')
  /\ Len(queue') \in Places' /\ queue'[Len(queue')] = job
  /\ \A K : Queued(K)' <=> Queued(K) \/ job.kind \in K

LEMMA Pushed ==
  ASSUME TypeInv, NEW job \in Jobs, queue' = Append(queue, job)
  PROVE  Appended(job)
  <1>1. queue \in Seq(Jobs)
    BY DEF TypeInv, TypeOK
  <1>2. /\ Len(queue) \in Nat /\ Len(queue') = Len(queue) + 1
        /\ \A i \in Places : i \in Places' /\ queue'[i] = queue[i] /\ i < Len(queue')
        /\ \A i \in Places' : i \in Places \/ i = Len(queue')
        /\ Len(queue') \in Places' /\ queue'[Len(queue')] = job
    BY <1>1, AppendShape DEF Places
  <1>3. \A K : Queued(K)' <=> Queued(K) \/ job.kind \in K
    BY <1>2 DEF Queued
  <1>4. QED
    BY <1>2, <1>3 DEF Appended

Swapped(job) ==
  /\ Len(queue) \in Nat \ {0} /\ Len(queue') = Len(queue) /\ 1 \in Places
  /\ \A i \in Places' : i # Len(queue') => i + 1 \in Places /\ queue'[i] = queue[i + 1]
  /\ \A i \in Places : i # 1 => i - 1 \in Places' /\ queue'[i - 1] = queue[i]
  /\ Len(queue') \in Places' /\ queue'[Len(queue')] = job
  /\ \A K : Queued(K)' => Queued(K) \/ job.kind \in K
  /\ \A K : (Queued(K) /\ queue[1].kind \notin K) \/ job.kind \in K => Queued(K)'

LEMMA Replaced ==
  ASSUME TypeInv, queue # <<>>, NEW job \in Jobs, queue' = Tail(queue) \o <<job>>
  PROVE  Swapped(job) /\ Head(queue) = queue[1]
  <1> DEFINE t == Tail(queue)
  <1>1. queue \in Seq(Jobs)
    BY DEF TypeInv, TypeOK
  <1>2. /\ t \in Seq(Jobs) /\ Len(queue) \in Nat \ {0} /\ Len(t) = Len(queue) - 1
        /\ Head(queue) = queue[1]
        /\ \A i \in 1..Len(queue) - 1 : t[i] = queue[i + 1]
    BY <1>1, TailShape
  <1>3. queue' = t \o <<job>>
    OBVIOUS
  <1> HIDE DEF t
  <1>4. /\ queue' = Append(t, job)
        /\ Len(queue') = Len(queue)
        /\ \A i \in 1..Len(queue) - 1 : queue'[i] = queue[i + 1]
        /\ queue'[Len(queue)] = job
    <2>1. Len(Append(t, job)) = Len(t) + 1 /\ Append(t, job)[Len(t) + 1] = job
          /\ t \o <<job>> = Append(t, job)
          /\ \A i \in 1..Len(t) : Append(t, job)[i] = t[i]
      BY <1>2, AppendShape
    <2>2. queue' = Append(t, job)
      BY <1>3, <2>1
    <2>3. QED
      BY <1>2, <2>1, <2>2
  <1>5. /\ Len(queue) \in Nat \ {0} /\ Len(queue') = Len(queue)
        /\ 1 \in Places /\ Head(queue) = queue[1]
        /\ \A i \in Places' : i # Len(queue') => i + 1 \in Places /\ queue'[i] = queue[i + 1]
        /\ \A i \in Places : i # 1 => i - 1 \in Places' /\ queue'[i - 1] = queue[i]
        /\ Len(queue') \in Places' /\ queue'[Len(queue')] = job
    BY <1>2, <1>4 DEF Places
  <1>6. \A K : Queued(K)' => Queued(K) \/ job.kind \in K
    BY <1>5 DEF Queued
  <1>7. \A K : (Queued(K) /\ Head(queue).kind \notin K) \/ job.kind \in K => Queued(K)'
    BY <1>5 DEF Queued
  <1>8. QED
    BY <1>5, <1>6, <1>7 DEF Swapped

SwappedForTwo(a, b) ==
  /\ Len(queue) \in Nat \ {0} /\ Len(queue') = Len(queue) + 1 /\ 1 \in Places
  /\ \A i \in Places' :
       \/ i < Len(queue) /\ i + 1 \in Places /\ queue'[i] = queue[i + 1]
       \/ i = Len(queue) /\ queue'[i] = a
       \/ i = Len(queue') /\ queue'[i] = b
  /\ \A K : Queued(K)' => Queued(K) \/ a.kind \in K \/ b.kind \in K
  /\ \A K : (Queued(K) /\ queue[1].kind \notin K) \/ a.kind \in K \/ b.kind \in K
               => Queued(K)'

LEMMA ReplacedByTwo ==
  ASSUME TypeInv, queue # <<>>, NEW a \in Jobs, NEW b \in Jobs, queue' = Tail(queue) \o <<a, b>>
  PROVE  SwappedForTwo(a, b) /\ Head(queue) = queue[1]
  <1> DEFINE t == Tail(queue)
             u == Append(t, a)
  <1>1. queue \in Seq(Jobs)
    BY DEF TypeInv, TypeOK
  <1>2. /\ t \in Seq(Jobs) /\ Len(queue) \in Nat \ {0} /\ Len(t) = Len(queue) - 1
        /\ Head(queue) = queue[1]
        /\ \A i \in 1..Len(queue) - 1 : t[i] = queue[i + 1]
    BY <1>1, TailShape
  <1>3. queue' = Append(u, b)
    BY <1>2, JoinTwo
  <1> HIDE DEF t
  <1>4. /\ u \in Seq(Jobs) /\ Len(u) = Len(queue) /\ u[Len(queue)] = a
        /\ \A i \in 1..Len(queue) - 1 : u[i] = queue[i + 1]
    <2>1. /\ u \in Seq(Jobs) /\ Len(u) = Len(t) + 1 /\ u[Len(t) + 1] = a
          /\ \A i \in 1..Len(t) : u[i] = t[i]
      BY <1>2, AppendShape
    <2> HIDE DEF u
    <2>2. QED
      BY <1>2, <2>1
  <1> HIDE DEF u
  <1>5. /\ Len(queue') = Len(queue) + 1
        /\ \A i \in 1..Len(queue) - 1 : queue'[i] = queue[i + 1]
        /\ queue'[Len(queue)] = a /\ queue'[Len(queue) + 1] = b
    <2>1. Len(Append(u, b)) = Len(u) + 1 /\ Append(u, b)[Len(u) + 1] = b
          /\ \A i \in 1..Len(u) : Append(u, b)[i] = u[i]
      BY <1>4, AppendShape
    <2>2. QED
      BY <1>2, <1>3, <1>4, <2>1
  <1>6. /\ Len(queue) \in Nat \ {0} /\ Len(queue') = Len(queue) + 1 /\ 1 \in Places
        /\ \A i \in Places' :
             \/ i < Len(queue) /\ i + 1 \in Places /\ queue'[i] = queue[i + 1]
             \/ i = Len(queue) /\ queue'[i] = a
             \/ i = Len(queue') /\ queue'[i] = b
        /\ \A i \in Places : i # 1 => i - 1 \in Places' /\ queue'[i - 1] = queue[i]
        /\ Len(queue) \in Places' /\ Len(queue) + 1 \in Places'
        /\ queue'[Len(queue)] = a /\ queue'[Len(queue) + 1] = b
    BY <1>2, <1>5 DEF Places
  <1>7. \A K : Queued(K)' => Queued(K) \/ a.kind \in K \/ b.kind \in K
    BY <1>6 DEF Queued
  <1>8. \A K : (Queued(K) /\ queue[1].kind \notin K) \/ a.kind \in K \/ b.kind \in K
                 => Queued(K)'
    BY <1>6 DEF Queued
  <1>9. QED
    BY <1>2, <1>6, <1>7, <1>8 DEF SwappedForTwo

OneTaken ==
  /\ Len(queue) \in Nat /\ Len(queue') = Len(queue) - 1 /\ Len(queue') \in Nat
  /\ 1 \in Places
  /\ \A i \in Places' : i + 1 \in Places /\ queue'[i] = queue[i + 1]
  /\ \A K : Queued(K)' => Queued(K)
  /\ \A K : Queued(K) /\ queue[1].kind \notin K => Queued(K)'

LEMMA Taken ==
  ASSUME TypeInv, queue # <<>>, queue' = Tail(queue) \o <<>>
  PROVE  OneTaken /\ Head(queue) = queue[1]
  BY Dropped DEF OneTaken

\* The order of a queue is the order of what is left of it.
LEMMA StillInTurn ==
  ASSUME InTurn, Len(queue) \in Nat, Len(queue') = Len(queue) - 1,
         \A i \in Places' : i + 1 \in Places /\ queue'[i] = queue[i + 1]
  PROVE  InTurn'
  BY DEF InTurn, Places

\* A connection on which the master may go on, while the satellite stays as it is.
LEMMA OpenKept ==
  ASSUME OpenInv,
         sat'.conn = sat.conn, sat'.master = sat.master, sat'.event = sat.event,
         sat'.transport = sat.transport, sat'.server = sat.server,
         keyed \subseteq keyed', clients \subseteq clients',
         sat.conn # 0 => clients' \subseteq {sat.conn},
         clients' # {} => clients # {} \/ (sat.event /\ sat.conn \in keyed'),
         Queued(Early)' => Queued(Early),
         sat.event /\ Queued({"xx3"}) => Queued({"xx3"})' \/ sat.conn \in keyed',
         sat.event /\ Queued({"hi"}) => Queued({"hi"})' \/ sat.conn \in clients',
         Queued({"xx3", "hi"})' => Queued({"xx3", "hi"}),
         Queued({"kk2"})' => Queued({"kk2"}) \/ sat.conn \in keyed',
         \A i \in Places' : \/ \E k \in Places : queue'[i] = queue[k]
                            \/ /\ queue'[i].kind \notin {"hello", "handshake"}
                               /\ queue'[i].kind = "app" => sat.event
  PROVE  OpenInv'
  <1> SUFFICES ASSUME sat.conn # 0
               PROVE  OpenInv'
    BY DEF OpenInv
  <1>1. /\ sat'.transport = IF sat'.event THEN sat'.conn ELSE 0
        /\ clients' \subseteq {sat'.conn}
        /\ clients' # {} => sat'.event /\ sat'.conn \in keyed'
    BY DEF OpenInv
  <1>2. sat'.event => /\ sat'.master /\ ~Queued(Early)'
                      /\ sat'.conn \in keyed' \/ Queued({"xx3"})'
                      /\ sat'.conn \in clients' \/ Queued({"hi"})'
    BY DEF OpenInv
  <1>3. sat'.server = sat'.conn =>
          \A i \in Places' : /\ queue'[i].kind # "hello"
                             /\ queue'[i].kind = "handshake" => queue'[i].conn = sat'.conn
    BY DEF OpenInv
  <1>4. \A i \in Places' : queue'[i].kind = "app" /\ queue'[i].conn = sat'.conn => sat'.event
    BY DEF OpenInv
  <1>5. /\ Queued({"xx3", "hi"})' => sat'.event
        /\ Queued({"kk2"})' => sat'.conn \in keyed'
    BY DEF OpenInv
  <1>6. QED
    BY <1>1, <1>2, <1>3, <1>4, <1>5 DEF OpenInv

\* A step that queues no job of connect and no payload.
LEMMA StartKept ==
  ASSUME StartInv, NEW d \in {0, 1}, Len(queue) \in Nat, Len(queue') \in Nat,
         \A i \in Places' : queue'[i].kind \in Early =>
           i + d \in Places /\ queue'[i] = queue[i + d],
         \/ sat'.conn = sat.conn /\ sat'.server = sat.server
         \/ sat'.conn = 0 /\ \A i \in Places : queue[i].kind \in Hellos => queue[i].conn # 0
  PROVE  StartInv'
  <1> SUFFICES ASSUME NEW i \in Places', queue'[i].kind \in Others,
                      NEW j \in Places', queue'[j].kind \in Early
               PROVE  /\ j < i /\ queue'[j].kind \in Hellos => queue'[j].conn # sat'.conn
                      /\ queue'[i].kind = "start" /\ sat'.conn # 0 /\ sat'.server = sat'.conn =>
                           j = i \/ (j < i /\ queue'[j].kind = "connect")
    BY DEF StartInv, Early, Others
  <1>1. /\ i + d \in Places /\ queue'[i] = queue[i + d]
        /\ j + d \in Places /\ queue'[j] = queue[j + d]
    BY DEF Early
  <1>2. i \in Nat /\ j \in Nat
    BY DEF Places
  <1>3. j < i /\ queue'[j].kind \in Hellos => queue'[j].conn # sat'.conn
    BY <1>1, <1>2 DEF StartInv
  <1>4. ASSUME queue'[i].kind = "start", sat'.conn # 0, sat'.server = sat'.conn
        PROVE  j = i \/ (j < i /\ queue'[j].kind = "connect")
    <2>1. sat.conn # 0 /\ sat.server = sat.conn
      BY <1>4
    <2>2. j + d = i + d \/ (j + d < i + d /\ queue[j + d].kind = "connect")
      BY <1>1, <1>4, <2>1 DEF StartInv
    <2>3. QED
      BY <1>1, <1>2, <2>2
  <1>5. QED
    BY <1>3, <1>4

\* A job is taken that is no part of the end of a handshake and changes nothing.
LEMMA Drop ==
  ASSUME SessionInv, TypeInv', AllDecode', queue # <<>>, queue' = Tail(queue) \o <<>>,
         Head(queue).kind \in {"hello", "handshake", "app", "data", "connect"},
         UNCHANGED <<sat, keyed, clients, opened>>
  PROVE  SessionInv'
  <1>1. /\ Len(queue) \in Nat /\ Len(queue') = Len(queue) - 1 /\ Len(queue') \in Nat
        /\ 1 \in Places /\ Head(queue) = queue[1]
        /\ \A i \in Places' : i + 1 \in Places /\ queue'[i] = queue[i + 1]
        /\ \A i \in Places : i # 1 => i - 1 \in Places' /\ queue'[i - 1] = queue[i]
    BY Dropped DEF SessionInv
  <1>2. /\ \A K : Queued(K)' => Queued(K)
        /\ \A K : Queued(K) /\ Head(queue).kind \notin K => Queued(K)'
    BY Dropped DEF SessionInv
  <1>3. AllNumbered'
    BY <1>1 DEF SessionInv, AllNumbered
  <1>4. InTurn'
    BY <1>1, StillInTurn DEF SessionInv
  <1>5. ClosedInv'
    BY <1>2 DEF SessionInv, ClosedInv
  <1>6. OpenInv'
    <2>1. /\ Queued({"xx3"}) => Queued({"xx3"})'
          /\ Queued({"hi"}) => Queued({"hi"})'
          /\ Queued(Early)' => Queued(Early)
          /\ Queued({"xx3", "hi"})' => Queued({"xx3", "hi"})
          /\ Queued({"kk2"})' => Queued({"kk2"})
      BY <1>2
    <2>2. OpenInv /\ sat' = sat /\ keyed' = keyed /\ clients' = clients
      BY DEF SessionInv
    <2>3. sat.conn # 0 => clients' \subseteq {sat.conn}
      BY <2>2 DEF OpenInv
    <2>4. \A i \in Places' : \E k \in Places : queue'[i] = queue[k]
      BY <1>1
    <2>5. QED
      BY <2>1, <2>2, <2>3, <2>4, OpenKept
  <1>7. OneHandshake'
    BY <1>1 DEF SessionInv, OneHandshake, Places
  <1>8. StartInv'
    BY <1>1, StartKept DEF SessionInv
  <1>9. QED
    BY <1>3, <1>4, <1>5, <1>6, <1>7, <1>8 DEF SessionInv

\* What a handshake that is complete means, and who a client is.
LEMMA EventIsConnected ==
  ASSUME SessionInv
  PROVE  /\ sat.event => Connected
         /\ clients # {} => Connected /\ sat.event /\ sat.conn \in keyed
         /\ clients \subseteq {sat.conn}
         /\ ~sat.event => sat.transport = 0 /\ clients = {}
         /\ Queued(Early) => ~sat.event
         /\ sat.conn \in Nat /\ opened \in Nat /\ sat.conn <= opened
  <1>1. sat.conn \in Nat /\ opened \in Nat
    <2>1. sat \in Satellites /\ opened \in Numbers
      BY DEF SessionInv, TypeInv, TypeOK
    <2>2. sat.conn \in Numbers
      BY <2>1, SatFields
    <2>3. QED
      BY <2>1, <2>2, ConstantsAssumption DEF ConstantsAssumption, Numbers
  <1>2. CASE sat.conn = 0
    BY <1>1, <1>2 DEF SessionInv, ClosedInv
  <1>3. CASE sat.conn # 0
    BY <1>1, <1>3 DEF SessionInv, AllNumbered, OpenInv, Connected
  <1>4. QED
    BY <1>2, <1>3

\* A step that is an exception: only the drain ends.
LEMMA Aborted ==
  ASSUME SessionInv, TypeInv', AllDecode', ~Connected,
         queue # <<>>, queue' = Tail(queue) \o <<>>,
         UNCHANGED <<keyed, clients, opened>>,
         sat' = sat \/ sat' = [sat EXCEPT !.noise = sat.server]
  PROVE  SessionInv'
  <1>1. /\ Len(queue) \in Nat /\ Len(queue') = Len(queue) - 1 /\ Len(queue') \in Nat
        /\ 1 \in Places /\ Head(queue) = queue[1]
        /\ \A i \in Places' : i + 1 \in Places /\ queue'[i] = queue[i + 1]
        /\ \A K : Queued(K)' => Queued(K)
    BY Dropped DEF SessionInv
  <1>2. /\ sat'.conn = sat.conn /\ sat'.master = sat.master /\ sat'.event = sat.event
        /\ sat'.transport = sat.transport /\ sat'.server = sat.server
        /\ sat'.noise \in {sat.noise, sat.server}
    BY DEF SessionInv, TypeInv, TypeOK, Satellites
  <1>3. AllNumbered'
    BY <1>1, <1>2 DEF SessionInv, AllNumbered
  <1>4. InTurn'
    BY <1>1, StillInTurn DEF SessionInv
  <1>5. ClosedInv'
    <2>1. Queued(Noise2)' => Queued(Noise2)
      BY <1>1
    <2>2. QED
      BY <1>2, <2>1 DEF SessionInv, ClosedInv
  <1>6. OpenInv'
    <2>1. /\ Queued(Early)' => Queued(Early)
          /\ Queued({"xx3", "hi"})' => Queued({"xx3", "hi"})
          /\ Queued({"kk2"})' => Queued({"kk2"})
      BY <1>1
    <2>2. ~sat.event /\ clients \subseteq {sat.conn}
      BY EventIsConnected
    <2>3. OpenInv /\ keyed' = keyed /\ clients' = clients
      BY DEF SessionInv
    <2>4. \A i \in Places' : \E k \in Places : queue'[i] = queue[k]
      BY <1>1
    <2>5. QED
      BY <1>2, <2>1, <2>2, <2>3, <2>4, OpenKept
  <1>7. OneHandshake'
    BY <1>1, <1>2 DEF SessionInv, OneHandshake, Connected
  <1>8. StartInv'
    BY <1>1, <1>2, StartKept DEF SessionInv
  <1>9. QED
    BY <1>3, <1>4, <1>5, <1>6, <1>7, <1>8 DEF SessionInv

\* A step that ends the connection.
LEMMA Close ==
  ASSUME SessionInv, TypeInv', AllDecode',
         \/ queue' = queue
         \/ queue # <<>> /\ queue' = Tail(queue) \o <<>>,
         UNCHANGED <<keyed, opened>>, clients' = {},
         sat' = ForgetSession(sat) \/ sat' = ForgetSession([sat EXCEPT !.master = FALSE])
  PROVE  SessionInv'
  <1>1. \A K : Queued(K)' => Queued(K)
    <2>1. CASE queue' = queue
      BY <2>1 DEF Queued, Places
    <2>2. CASE queue # <<>> /\ queue' = Tail(queue) \o <<>>
      BY <2>2, Dropped DEF SessionInv
    <2>3. QED
      BY <2>1, <2>2
  <1>2. /\ sat'.conn = 0 /\ ~sat'.event /\ sat'.transport = 0 /\ sat'.server = 0
        /\ sat'.noise = 0
    BY DEF SessionInv, TypeInv, TypeOK, Satellites, ForgetSession
  <1>3. opened \in Nat /\ opened' = opened
    BY EventIsConnected
  <1>4. AllNumbered'
    <2>1. CASE queue' = queue
      BY <1>2, <1>3, <2>1 DEF SessionInv, AllNumbered, Places
    <2>2. CASE queue # <<>> /\ queue' = Tail(queue) \o <<>>
      <3>1. \A i \in Places' : i + 1 \in Places /\ queue'[i] = queue[i + 1]
        BY <2>2, Dropped DEF SessionInv
      <3>2. QED
        BY <1>2, <1>3, <3>1 DEF SessionInv, AllNumbered
    <2>3. QED
      BY <2>1, <2>2
  <1>5. InTurn'
    <2>1. CASE queue' = queue
      BY <2>1 DEF SessionInv, InTurn, Places
    <2>2. CASE queue # <<>> /\ queue' = Tail(queue) \o <<>>
      <3>1. /\ Len(queue) \in Nat /\ Len(queue') = Len(queue) - 1
            /\ \A i \in Places' : i + 1 \in Places /\ queue'[i] = queue[i + 1]
        BY <2>2, Dropped DEF SessionInv
      <3>2. QED
        BY <3>1, StillInTurn DEF SessionInv
    <2>3. QED
      BY <2>1, <2>2
  <1>6. ClosedInv' /\ OpenInv' /\ OneHandshake'
    BY <1>2 DEF ClosedInv, OpenInv, OneHandshake
  <1>7. StartInv'
    <2>1. \A i \in Places : queue[i].kind \in Hellos => queue[i].conn # 0
      BY DEF SessionInv, AllNumbered, Numbered, Hellos, Downs
    <2>2. CASE queue' = queue
      <3>1. Len(queue) \in Nat /\ \A i \in Places' : i + 0 \in Places /\ queue'[i] = queue[i + 0]
        BY <2>2 DEF SessionInv, TypeInv, TypeOK, Places
      <3>2. QED
        BY <1>2, <2>1, <2>2, <3>1, StartKept DEF SessionInv
    <2>3. CASE queue # <<>> /\ queue' = Tail(queue) \o <<>>
      <3>1. /\ Len(queue) \in Nat /\ Len(queue') \in Nat
            /\ \A i \in Places' : i + 1 \in Places /\ queue'[i] = queue[i + 1]
        BY <2>3, Dropped DEF SessionInv
      <3>2. QED
        BY <1>2, <2>1, <3>1, StartKept DEF SessionInv
    <2>4. QED
      BY <2>2, <2>3
  <1>8. QED
    BY <1>4, <1>5, <1>6, <1>7 DEF SessionInv

\* Application traffic that is queued, either way.
LEMMA Push ==
  ASSUME SessionInv, TypeInv', AllDecode', Connected,
         NEW job \in Jobs, Appended(job), job.conn = sat.conn,
         \/ job.kind = "data" /\ job.key = 0
         \/ job.kind = "app" /\ job.key = sat.conn /\ sat.event,
         UNCHANGED <<sat, keyed, clients, opened>>
  PROVE  SessionInv'
  <1>1. /\ Len(queue) \in Nat /\ Len(queue') = Len(queue) + 1
        /\ \A i \in Places : i \in Places' /\ queue'[i] = queue[i] /\ i < Len(queue')
        /\ \A i \in Places' : i \in Places \/ i = Len(queue')
        /\ Len(queue') \in Places' /\ queue'[Len(queue')] = job
        /\ \A K : Queued(K)' <=> Queued(K) \/ job.kind \in K
    BY DEF Appended
  <1>2. sat.conn \in Nat /\ sat.conn # 0 /\ sat.conn <= opened /\ opened \in Nat
    BY EventIsConnected DEF Connected
  <1>3. AllNumbered'
    <2>1. Numbered(job, opened)
      BY <1>2 DEF Numbered, Hellos, Noise2
    <2>2. QED
      BY <1>1, <2>1 DEF SessionInv, AllNumbered
  <1>4. InTurn'
    <2>1. \A i \in Places : Turn(queue[i], job)
      BY DEF Turn, Hellos, Late, Noise2
    <2>2. QED
      BY <1>1, <2>1 DEF SessionInv, InTurn, Places
  <1>5. ClosedInv'
    BY <1>2 DEF ClosedInv
  <1>6. OpenInv'
    <2>1. /\ Queued(Early)' <=> Queued(Early)
          /\ Queued({"xx3"})' <=> Queued({"xx3"})
          /\ Queued({"hi"})' <=> Queued({"hi"})
          /\ Queued({"xx3", "hi"})' <=> Queued({"xx3", "hi"})
          /\ Queued({"kk2"})' <=> Queued({"kk2"})
      BY <1>1 DEF Early, Hellos, Others
    <2>2. OpenInv /\ sat' = sat /\ clients' = clients /\ keyed' = keyed
      BY DEF SessionInv
    <2>3. job.kind \notin {"hello", "handshake"} /\ (job.kind = "app" => sat.event)
      OBVIOUS
    <2>4. \A i \in Places' : \/ \E k \in Places : queue'[i] = queue[k]
                             \/ /\ queue'[i].kind \notin {"hello", "handshake"}
                                /\ queue'[i].kind = "app" => sat.event
      BY <1>1, <2>3
    <2>5. clients \subseteq {sat.conn}
      BY <1>2, <2>2 DEF OpenInv
    <2>6. QED
      BY <2>1, <2>2, <2>4, <2>5, OpenKept
  <1>7. OneHandshake'
    <2>1. ~Token(job, sat.conn) /\ job.kind \notin Early
      BY DEF Token, Noise1, Noise2, Early, Hellos, Others
    <2>2. QED
      BY <1>1, <2>1 DEF SessionInv, OneHandshake
  <1>8. StartInv'
    <2>1. job.kind \notin Early
      BY DEF Early, Hellos, Others
    <2>2. \A i \in Places' : queue'[i].kind \in Early => i + 0 \in Places /\ queue'[i] = queue[i + 0]
      BY <1>1, <2>1 DEF Places
    <2>3. QED
      BY <1>1, <2>2, StartKept DEF SessionInv
  <1>9. QED
    BY <1>3, <1>4, <1>5, <1>6, <1>7, <1>8 DEF SessionInv

\* A connection whose handshake is not complete.
QuietInv ==
  /\ ~sat.event /\ sat.transport = 0 /\ clients = {}
  /\ sat.server = sat.conn =>
       \A i \in Places : /\ queue[i].kind # "hello"
                         /\ queue[i].kind = "handshake" => queue[i].conn = sat.conn
  /\ ~Queued({"xx3", "hi"})
  /\ Queued({"kk2"}) => sat.conn \in keyed
  /\ \A i \in Places : queue[i].kind = "app" => queue[i].conn # sat.conn

LEMMA QuietIsOpen == QuietInv => OpenInv
  BY DEF QuietInv, OpenInv

\* connect has queued its jobs.
Called ==
  /\ Len(queue) \in Nat /\ Len(queue') \in Nat
  /\ \A i \in Places : i \in Places' /\ queue'[i] = queue[i]
  /\ \A i \in Places' :
       \/ i \in Places
       \/ i > Len(queue) /\ queue'[i].kind \in Others /\ queue'[i].key = 0
  /\ queue = <<>> =>
       \A i, j \in Places' :
         queue'[i].kind = "start" => j = i \/ (j < i /\ queue'[j].kind = "connect")

LEMMA CalledShape ==
  ASSUME TypeInv, NEW a \in Jobs, a.kind = "connect", a.key = 0,
         NEW b \in Jobs, b.kind = "start", b.key = 0,
         \/ queue' = queue \o <<a>>
         \/ queue' = queue \o <<a, b>>
         \/ queue = <<>> /\ queue' = <<b>>
  PROVE  Called
  <1>1. queue \in Seq(Jobs)
    BY DEF TypeInv, TypeOK
  <1>2. CASE queue' = queue \o <<a>>
    <2>1. queue' = Append(queue, a)
      BY <1>1, <1>2, AppendShape
    <2>2. /\ Len(queue) \in Nat /\ Len(queue') = Len(queue) + 1
          /\ \A i \in 1..Len(queue) : queue'[i] = queue[i]
          /\ queue'[Len(queue) + 1] = a
      BY <1>1, <2>1, AppendShape
    <2>3. queue = <<>> => Len(queue) = 0
      OBVIOUS
    <2>4. QED
      BY <2>2, <2>3 DEF Called, Places, Others
  <1>3. CASE queue' = queue \o <<a, b>>
    <2> DEFINE q == Append(queue, a)
    <2>1. /\ Len(queue) \in Nat /\ Len(q) = Len(queue) + 1 /\ q \in Seq(Jobs)
          /\ \A i \in 1..Len(queue) : q[i] = queue[i]
          /\ q[Len(queue) + 1] = a
      BY <1>1, AppendShape
    <2>2. queue' = Append(q, b)
      BY <1>1, <1>3, JoinTwo
    <2> HIDE DEF q
    <2>3. /\ Len(queue') = Len(q) + 1
          /\ \A i \in 1..Len(q) : queue'[i] = q[i]
          /\ queue'[Len(q) + 1] = b
      BY <2>1, <2>2, AppendShape
    <2>4. /\ Len(queue') = Len(queue) + 2
          /\ \A i \in 1..Len(queue) : queue'[i] = queue[i]
          /\ queue'[Len(queue) + 1] = a /\ queue'[Len(queue) + 2] = b
      BY <2>1, <2>3
    <2>5. queue = <<>> => Len(queue) = 0
      OBVIOUS
    <2>6. QED
      BY <2>1, <2>4, <2>5 DEF Called, Places, Others
  <1>4. CASE queue = <<>> /\ queue' = <<b>>
    <2>1. Len(queue) = 0 /\ Len(queue') = 1 /\ queue'[1] = b
      BY <1>4
    <2>2. QED
      BY <2>1 DEF Called, Places, Others
  <1>5. QED
    BY <1>2, <1>3, <1>4

\* connect, for a satellite that is down or half-open with nothing queued.
LEMMA Calling ==
  ASSUME SessionInv, TypeInv', AllDecode', Called, ~sat.event, sat.conn # 0 => queue = <<>>,
         sat'.conn = sat.conn, sat'.event = sat.event, sat'.noise = sat.noise,
         sat'.transport = sat.transport, sat'.server = sat.server,
         UNCHANGED <<keyed, clients, opened>>
  PROVE  SessionInv'
  <1>1. /\ Len(queue) \in Nat /\ Len(queue') \in Nat
        /\ \A i \in Places : i \in Places' /\ queue'[i] = queue[i]
        /\ \A i \in Places' :
             \/ i \in Places
             \/ i > Len(queue) /\ queue'[i].kind \in Others /\ queue'[i].key = 0
        /\ queue = <<>> =>
             \A i, j \in Places' :
               queue'[i].kind = "start" => j = i \/ (j < i /\ queue'[j].kind = "connect")
    BY DEF Called
  <1>2. opened \in Nat /\ sat.conn \in Nat /\ sat.transport = 0 /\ clients = {}
    BY EventIsConnected
  <1>3. sat.conn # 0 => Places = {} /\ \A i \in Places' : queue'[i].kind \in Others
    <2>1. sat.conn # 0 => Places = {}
      BY DEF Places
    <2>2. QED
      BY <1>1, <2>1
  <1>4. AllNumbered'
    <2>1. \A i \in Places' : Numbered(queue'[i], opened)
      BY <1>1, <1>2
         DEF SessionInv, AllNumbered, Numbered, Hellos, Noise2, Ups, Downs, Others
    <2>2. QED
      BY <2>1 DEF SessionInv, AllNumbered
  <1>5. InTurn'
    <2>1. \A i \in Places', j \in Places : i < j => i \in Places
      BY <1>1 DEF Places
    <2>2. \A i, j \in Places' : queue'[j].kind \in Others => Turn(queue'[i], queue'[j])
      BY DEF Turn, Others, Hellos, Late, Noise2
    <2>3. QED
      BY <1>1, <2>1, <2>2 DEF SessionInv, InTurn
  <1>6. ClosedInv'
    <2>1. Queued(Noise2)' => Queued(Noise2)
      BY <1>1 DEF Queued, Noise2, Others
    <2>2. QED
      BY <2>1 DEF SessionInv, ClosedInv
  <1>7. OpenInv'
    <2> SUFFICES ASSUME sat.conn # 0
                 PROVE  OpenInv'
      BY DEF OpenInv
    <2>1. \A i \in Places' : queue'[i].kind \in Others
      BY <1>3
    <2>2. QuietInv'
      BY <1>2, <2>1 DEF QuietInv, Queued, Others
    <2>3. QED
      BY <2>2, QuietIsOpen, PTL
  <1>8. OneHandshake'
    BY <1>3 DEF OneHandshake, Token, Noise1, Noise2, Others
  <1>9. StartInv'
    <2>1. CASE sat.conn # 0
      BY <1>1, <1>3, <2>1 DEF StartInv, Hellos, Others
    <2>2. CASE sat.conn = 0
      <3>1. \A j \in Places : queue[j].kind \in Hellos => queue[j].conn # 0
        BY DEF SessionInv, AllNumbered, Numbered, Hellos, Downs
      <3>2. \A j \in Places' : queue'[j].kind \in Hellos => queue'[j].conn # 0
        BY <1>1, <3>1 DEF Hellos, Others
      <3>3. QED
        BY <2>2, <3>2 DEF StartInv
    <2>3. QED
      BY <2>1, <2>2
  <1>10. QED
    BY <1>4, <1>5, <1>6, <1>7, <1>8, <1>9 DEF SessionInv

\* Noise message 1 is queued, over the payloads the satellite holds.
LEMMA MessageOne ==
  ASSUME SessionInv, TypeInv', AllDecode', Connected,
         queue[1].kind \in {"start", "handshake"},
         NEW job \in Jobs, Swapped(job), job.kind \in Noise1, job.conn = sat.conn,
         job.key = sat.server,
         sat'.conn = sat.conn, sat'.master = sat.master, sat'.event = sat.event,
         sat'.transport = sat.transport, sat'.server = sat.server, sat'.noise = sat.server,
         UNCHANGED <<keyed, clients, opened>>
  PROVE  SessionInv'
  <1>1. /\ Len(queue) \in Nat \ {0} /\ Len(queue') = Len(queue) /\ 1 \in Places
        /\ \A i \in Places' : i # Len(queue') => i + 1 \in Places /\ queue'[i] = queue[i + 1]
        /\ \A i \in Places : i # 1 => i - 1 \in Places' /\ queue'[i - 1] = queue[i]
        /\ Len(queue') \in Places' /\ queue'[Len(queue')] = job
        /\ \A K : Queued(K)' => Queued(K) \/ job.kind \in K
        /\ \A K : (Queued(K) /\ queue[1].kind \notin K) \/ job.kind \in K => Queued(K)'
    BY DEF Swapped
  <1>2. /\ sat.conn \in Nat /\ opened \in Nat /\ sat.conn <= opened /\ sat.conn # 0 /\ sat.master
        /\ Queued(Early) => ~sat.event
        /\ clients \subseteq {sat.conn}
    BY EventIsConnected DEF Connected
  <1>3. ~sat.event
    BY <1>1, <1>2 DEF Queued, Early, Hellos, Others
  <1>4. AllNumbered'
    <2>1. Numbered(job, opened) /\ sat.server <= opened
      BY <1>2 DEF Numbered, Hellos, Noise1, Noise2, SessionInv, AllNumbered
    <2>2. QED
      BY <1>1, <2>1 DEF SessionInv, AllNumbered
  <1>5. InTurn'
    <2>1. \A i \in Places : Turn(queue[i], job)
      BY DEF Turn, Hellos, Late, Noise1, Noise2
    <2>2. \A i, j \in Places : i < j => Turn(queue[i], queue[j])
      BY DEF SessionInv, InTurn
    <2>3. \A i, j \in Places' : i < j =>
            /\ i + 1 \in Places /\ queue'[i] = queue[i + 1]
            /\ \/ j + 1 \in Places /\ queue'[j] = queue[j + 1] /\ i + 1 < j + 1
               \/ queue'[j] = job
      BY <1>1 DEF Places
    <2>4. QED
      BY <2>1, <2>2, <2>3 DEF InTurn
  <1>6. ClosedInv'
    BY <1>2 DEF ClosedInv
  <1>7. OpenInv'
    <2>1. /\ Queued(Early)' => Queued(Early)
          /\ Queued({"xx3"}) => Queued({"xx3"})'
          /\ Queued({"hi"}) => Queued({"hi"})'
          /\ Queued({"xx3", "hi"})' => Queued({"xx3", "hi"})
          /\ Queued({"kk2"})' => Queued({"kk2"})
      BY <1>1 DEF Early, Hellos, Others, Noise1
    <2>2. \A i \in Places' : \/ \E k \in Places : queue'[i] = queue[k]
                             \/ queue'[i].kind \notin {"hello", "handshake", "app"}
      BY <1>1 DEF Noise1
    <2>3. OpenInv /\ keyed' = keyed /\ clients' = clients
      BY DEF SessionInv
    <2>4. QED
      BY <1>2, <2>1, <2>2, <2>3, OpenKept
  <1>8. \A i \in Places : ~Token(queue[i], sat.conn)
    BY <1>1, <1>2 DEF SessionInv, OneHandshake, Early, Hellos, Others
  <1>9. sat.server = sat.conn => \A i \in Places : i # 1 => queue[i].kind \notin Early
    <2> SUFFICES ASSUME sat.server = sat.conn, NEW i \in Places, i # 1, queue[i].kind \in Early
                 PROVE  FALSE
      OBVIOUS
    <2>1. CASE queue[1].kind = "start"
      BY <1>1, <1>2, <2>1 DEF SessionInv, StartInv, Places
    <2>2. CASE queue[1].kind = "handshake"
      <3>1. queue[1].conn = sat.conn
        BY <1>1, <1>2, <2>2 DEF SessionInv, OpenInv
      <3>2. queue[i].kind \notin Others
        BY <1>1, <2>2, <3>1 DEF SessionInv, StartInv, Places, Hellos
      <3>3. queue[i].kind = "handshake" /\ queue[i].conn = sat.conn
        BY <1>2, <3>2 DEF SessionInv, OpenInv, Early, Hellos
      <3>4. Turn(queue[1], queue[i])
        BY <1>1 DEF SessionInv, InTurn, Places
      <3>5. QED
        BY <1>2, <2>2, <3>1, <3>3, <3>4 DEF Turn, Hellos
    <2>3. QED
      BY <2>1, <2>2
  <1>10. OneHandshake'
    <2> SUFFICES ASSUME NEW i \in Places', Token(queue'[i], sat.conn)
                 PROVE  /\ ~sat'.event /\ sat'.master
                        /\ sat'.server = sat'.conn /\ sat'.noise = sat'.conn
                        /\ \A j \in Places' :
                             /\ Token(queue'[j], sat.conn) => i = j
                             /\ queue'[j].kind \notin Early
      BY DEF OneHandshake
    <2>1. i = Len(queue') /\ queue'[i] = job
      BY <1>1, <1>8
    <2>2. sat.server = sat.conn
      BY <2>1 DEF Token, Noise1, Noise2
    <2>3. ASSUME NEW j \in Places'
          PROVE  /\ Token(queue'[j], sat.conn) => i = j
                 /\ queue'[j].kind \notin Early
      <3>1. CASE j = Len(queue')
        BY <1>1, <2>1, <3>1 DEF Early, Hellos, Others, Noise1
      <3>2. CASE j # Len(queue')
        <4>1. j + 1 \in Places /\ j + 1 # 1 /\ queue'[j] = queue[j + 1]
          BY <1>1, <3>2 DEF Places
        <4>2. QED
          BY <1>8, <1>9, <2>2, <4>1
      <3>3. QED
        BY <3>1, <3>2
    <2>4. QED
      BY <1>2, <1>3, <2>1, <2>2, <2>3
  <1>11. StartInv'
    <2>1. job.kind \notin Early
      BY DEF Noise1, Early, Hellos, Others
    <2>2. \A i \in Places' : queue'[i].kind \in Early => i + 1 \in Places /\ queue'[i] = queue[i + 1]
      BY <1>1, <2>1
    <2>3. QED
      BY <1>1, <2>2, StartKept DEF SessionInv
  <1>12. QED
    BY <1>4, <1>5, <1>6, <1>7, <1>10, <1>11 DEF SessionInv

\* connect_satellite: the next connection, with what it sends of its HELLO and
\* HANDSHAKE.
Greeting(a, b) ==
  /\ Len(queue) \in Nat \ {0} /\ Len(queue') \in Nat /\ 1 \in Places
  /\ \A i \in Places' :
       \/ i < Len(queue) /\ i + 1 \in Places /\ queue'[i] = queue[i + 1]
       \/ i = Len(queue) /\ queue'[i] = a
       \/ i = Len(queue) + 1 /\ queue'[i] = b

LEMMA GreetingShape ==
  ASSUME TypeInv, queue # <<>>, NEW a \in Jobs, NEW b \in Jobs,
         queue' \in {Tail(queue) \o <<>>, Tail(queue) \o <<a>>, Tail(queue) \o <<a, b>>}
  PROVE  Greeting(a, b) /\ Head(queue) = queue[1]
  <1>1. CASE queue' = Tail(queue) \o <<>>
    <2>1. /\ Len(queue) \in Nat /\ Len(queue') = Len(queue) - 1 /\ Len(queue') \in Nat
          /\ 1 \in Places /\ Head(queue) = queue[1]
          /\ \A i \in Places' : i + 1 \in Places /\ queue'[i] = queue[i + 1]
      BY <1>1, Dropped
    <2>2. QED
      BY <2>1 DEF Greeting, Places
  <1>2. CASE queue' = Tail(queue) \o <<a>>
    <2>1. Swapped(a) /\ Head(queue) = queue[1]
      BY <1>2, Replaced
    <2>2. QED
      BY <2>1 DEF Greeting, Swapped, Places
  <1>3. CASE queue' = Tail(queue) \o <<a, b>>
    <2>1. SwappedForTwo(a, b) /\ Head(queue) = queue[1]
      BY <1>3, ReplacedByTwo
    <2>2. QED
      BY <2>1 DEF Greeting, SwappedForTwo
  <1>4. QED
    BY <1>1, <1>2, <1>3

LEMMA Accepting ==
  ASSUME SessionInv, TypeInv', AllDecode',
         queue[1].kind = "connect",
         NEW a \in Jobs, NEW b \in Jobs, Greeting(a, b),
         a.kind = "hello", b.kind = "handshake", a.conn = opened + 1, b.conn = opened + 1,
         a.key = 0, b.key = 0,
         sat'.conn = opened + 1, sat'.master = sat.master, sat'.event = sat.event,
         sat'.transport = sat.transport, sat'.server = sat.server,
         opened' = opened + 1, UNCHANGED <<keyed, clients>>
  PROVE  SessionInv'
  <1>1. /\ Len(queue) \in Nat \ {0} /\ Len(queue') \in Nat /\ 1 \in Places
        /\ \A i \in Places' :
             \/ i < Len(queue) /\ i + 1 \in Places /\ queue'[i] = queue[i + 1]
             \/ i = Len(queue) /\ queue'[i] = a
             \/ i = Len(queue) + 1 /\ queue'[i] = b
    BY DEF Greeting
  <1>2. /\ sat.conn \in Nat /\ opened \in Nat /\ sat.conn <= opened
        /\ ~sat.event /\ sat.transport = 0 /\ clients = {}
    <2>1. Queued(Early)
      BY <1>1 DEF Queued, Early, Others
    <2>2. QED
      BY <2>1, EventIsConnected
  <1>3. \A i \in Places : Numbered(queue[i], opened)
    BY DEF SessionInv, AllNumbered
  <1>4. \A i \in Places : queue[i].kind \notin Late
    <2>1. \A i \in Places : i # 1 => Turn(queue[1], queue[i])
      BY <1>1 DEF SessionInv, InTurn, Places
    <2>2. QED
      BY <2>1 DEF Turn, Early, Others, Late, Noise2
  <1>5. \A i \in Places : Numbered(queue[i], opened + 1)
    <2>1. ASSUME NEW i \in Places PROVE queue[i].key \in Nat /\ queue[i].conn \in Nat
      <3>1. queue[i] \in Jobs
        BY DEF SessionInv, TypeInv, TypeOK, Places
      <3>2. QED
        BY <3>1, ConstantsAssumption DEF Jobs, Numbers, ConstantsAssumption
    <2>2. QED
      BY <1>2, <1>3, <2>1 DEF Numbered
  <1>0. sat.server \in Nat /\ sat.server <= opened
    <2>1. sat \in Satellites
      BY DEF SessionInv, TypeInv, TypeOK
    <2>2. sat.server \in Numbers
      BY <2>1, SatFields
    <2>3. QED
      BY <2>2, ConstantsAssumption DEF SessionInv, AllNumbered, Numbers, ConstantsAssumption
  <1>6. AllNumbered'
    <2>1. Numbered(a, opened + 1) /\ Numbered(b, opened + 1)
      BY <1>2 DEF Numbered, Hellos, Noise2
    <2>2. QED
      BY <1>1, <1>2, <1>5, <1>0, <2>1 DEF AllNumbered
  <1>7. InTurn'
    <2>1. \A i, j \in Places : i < j => Turn(queue[i], queue[j])
      BY DEF SessionInv, InTurn
    <2>2. \A i \in Places : Turn(queue[i], a) /\ Turn(queue[i], b)
      <3>1. \A i \in Places : queue[i].kind \in Hellos => queue[i].conn <= opened
        BY <1>3 DEF Numbered, Hellos, Downs
      <3>2. \A i \in Places : queue[i].kind \in Hellos => queue[i].conn \in Nat
        <4>1. ASSUME NEW i \in Places PROVE queue[i].conn \in Nat
          <5>1. queue[i] \in Jobs
            BY DEF SessionInv, TypeInv, TypeOK, Places
          <5>2. QED
            BY <5>1, ConstantsAssumption DEF Jobs, Numbers, ConstantsAssumption
        <4>2. QED
          BY <4>1
      <3>3. QED
        BY <1>2, <3>1, <3>2 DEF Turn, Hellos, Late, Noise2
    <2>3. Turn(a, b)
      BY DEF Turn, Hellos, Late, Noise2
    <2>4. QED
      BY <1>1, <2>1, <2>2, <2>3 DEF InTurn, Places
  <1>8. ClosedInv'
    BY <1>2 DEF ClosedInv
  <1>9. \A K \in SUBSET Late : ~Queued(K)'
    <2>1. a.kind \notin Late /\ b.kind \notin Late
      BY DEF Late, Noise2
    <2>2. \A i \in Places' : queue'[i].kind \notin Late
      BY <1>1, <1>4, <2>1
    <2>3. QED
      BY <2>2 DEF Queued
  <1>10. OpenInv'
    <2>1. ~Queued({"xx3", "hi"})' /\ ~Queued({"kk2"})'
      BY <1>9 DEF Late, Noise2
    <2>2. sat'.server # sat'.conn
      BY <1>2 DEF SessionInv, AllNumbered
    <2>3. \A i \in Places' : ~(queue'[i].kind = "app" /\ queue'[i].conn = sat'.conn)
      BY <1>1, <1>2, <1>3 DEF Numbered, Downs
    <2>4. QED
      BY <1>2, <2>1, <2>2, <2>3 DEF OpenInv
  <1>11. OneHandshake'
    <2>1. \A i \in Places' : ~Token(queue'[i], sat'.conn)
      BY <1>1, <1>2, <1>3, <1>4 DEF Token, Numbered, Late, Noise1, Noise2
    <2>2. QED
      BY <2>1 DEF OneHandshake
  <1>12. StartInv'
    <2>1. sat'.server # sat'.conn
      BY <1>2, <1>0
    <2>2. \A i, j \in Places' :
            queue'[i].kind \in Others /\ j < i => j + 1 \in Places /\ queue'[j] = queue[j + 1]
      <3>1. \A i \in Places' : queue'[i].kind \in Others => i < Len(queue)
        BY <1>1 DEF Others
      <3>2. \A i, j \in Places' : j < i /\ i < Len(queue) => j < Len(queue)
        BY <1>1 DEF Places
      <3>3. \A j \in Places' : j < Len(queue) => j + 1 \in Places /\ queue'[j] = queue[j + 1]
        BY <1>1 DEF Places
      <3>4. QED
        BY <3>1, <3>2, <3>3
    <2>3. \A j \in Places : queue[j].kind \in Hellos => queue[j].conn # opened + 1
      BY <1>2, <1>3 DEF Numbered, Hellos, Downs
    <2>4. QED
      BY <2>1, <2>2, <2>3 DEF StartInv
  <1>13. QED
    BY <1>6, <1>7, <1>8, <1>10, <1>11, <1>12 DEF SessionInv

\* A HELLO is taken: the satellite holds the payloads of its connection.
LEMMA Greeted ==
  ASSUME SessionInv, TypeInv', AllDecode', OneTaken, queue[1].kind = "hello",
         sat'.conn = sat.conn, sat'.master = sat.master, sat'.event = sat.event,
         sat'.transport = sat.transport, sat'.server = queue[1].conn, sat'.noise = sat.noise,
         UNCHANGED <<keyed, clients, opened>>
  PROVE  SessionInv'
  <1>1. /\ Len(queue) \in Nat /\ Len(queue') = Len(queue) - 1 /\ Len(queue') \in Nat
        /\ 1 \in Places
        /\ \A i \in Places' : i + 1 \in Places /\ queue'[i] = queue[i + 1]
        /\ \A K : Queued(K)' => Queued(K)
        /\ \A K : Queued(K) /\ queue[1].kind \notin K => Queued(K)'
    BY DEF OneTaken
  <1>2. /\ sat.conn \in Nat /\ opened \in Nat /\ sat.conn <= opened
        /\ ~sat.event /\ sat.transport = 0 /\ clients = {}
    <2>1. Queued(Early)
      BY <1>1 DEF Queued, Early, Hellos
    <2>2. QED
      BY <2>1, EventIsConnected
  <1>3. \A i \in Places : i # 1 => Turn(queue[1], queue[i])
    BY <1>1 DEF SessionInv, InTurn, Places
  <1>4. \A i \in Places : /\ queue[i].conn \in Nat
                          /\ queue[i].kind \in Hellos => queue[i].conn <= opened
    <2>1. ASSUME NEW i \in Places
          PROVE  /\ queue[i].conn \in Nat
                 /\ queue[i].kind \in Hellos => queue[i].conn <= opened
      <3>1. queue[i] \in Jobs /\ Numbered(queue[i], opened)
        BY DEF SessionInv, TypeInv, TypeOK, AllNumbered, Places
      <3>2. QED
        BY <3>1, ConstantsAssumption
           DEF Jobs, Numbers, ConstantsAssumption, Numbered, Hellos, Downs
    <2>2. QED
      BY <2>1
  <1>5. AllNumbered'
    BY <1>1, <1>4 DEF SessionInv, AllNumbered, Hellos
  <1>6. InTurn'
    BY <1>1, StillInTurn DEF SessionInv
  <1>7. \A i \in Places : queue[i].kind \notin Late
    BY <1>3 DEF Turn, Early, Hellos, Late, Noise2
  <1>8. \A K \in SUBSET Late : ~Queued(K)'
    BY <1>1, <1>7 DEF Queued
  <1>9. ClosedInv'
    <2>1. ~Queued(Noise2)'
      BY <1>8 DEF Late
    <2>2. QED
      BY <1>2, <2>1 DEF ClosedInv
  <1>10. OpenInv'
    <2> SUFFICES ASSUME sat.conn # 0
                 PROVE  OpenInv'
      BY DEF OpenInv
    <2>1. ~Queued({"xx3", "hi"})' /\ ~Queued({"kk2"})'
      BY <1>8 DEF Late, Noise2
    <2>2. sat'.server = sat'.conn =>
            \A i \in Places' : /\ queue'[i].kind # "hello"
                               /\ queue'[i].kind = "handshake" => queue'[i].conn = sat'.conn
      <3> SUFFICES ASSUME queue[1].conn = sat.conn, NEW i \in Places'
                   PROVE  /\ queue'[i].kind # "hello"
                          /\ queue'[i].kind = "handshake" => queue'[i].conn = sat'.conn
        OBVIOUS
      <3>1. i + 1 \in Places /\ i + 1 # 1 /\ queue'[i] = queue[i + 1]
        BY <1>1 DEF Places
      <3>2. Turn(queue[1], queue[i + 1]) /\ queue[i + 1].conn \in Nat
            /\ (queue[i + 1].kind \in Hellos => queue[i + 1].conn <= opened)
        BY <1>3, <1>4, <3>1
      <3>3. sat.conn = opened
        BY DEF SessionInv, AllNumbered
      <3>4. QED
        BY <1>2, <3>1, <3>2, <3>3 DEF Turn, Hellos
    <2>3. \A i \in Places' : queue'[i].kind = "app" => queue'[i].conn # sat'.conn
      BY <1>1, <1>2 DEF SessionInv, OpenInv
    <2>4. QuietInv'
      BY <1>2, <2>1, <2>2, <2>3 DEF QuietInv
    <2>5. QED
      BY <2>4, QuietIsOpen, PTL
  <1>11. OneHandshake'
    <2>1. sat.conn # 0 => \A i \in Places : ~Token(queue[i], sat.conn)
      BY <1>1 DEF SessionInv, OneHandshake, Early, Hellos
    <2>2. QED
      BY <1>1, <2>1 DEF OneHandshake
  <1>12. StartInv'
    <2> SUFFICES ASSUME NEW i \in Places', queue'[i].kind \in Others, sat.conn # 0
                 PROVE  /\ queue[1].conn # sat.conn
                        /\ \A j \in Places' :
                             j < i /\ queue'[j].kind \in Hellos => queue'[j].conn # sat.conn
      <3>1. sat.conn = 0 => \A j \in Places : queue[j].kind \in Hellos => queue[j].conn # sat.conn
        BY DEF SessionInv, AllNumbered, Numbered, Hellos, Downs
      <3>2. QED
        BY <1>1, <3>1 DEF StartInv, Others
    <2>1. i + 1 \in Places /\ queue'[i] = queue[i + 1] /\ 1 < i + 1 /\ i \in Nat
      BY <1>1 DEF Places
    <2>2. \A j \in Places : j < i + 1 /\ queue[j].kind \in Hellos => queue[j].conn # sat.conn
      BY <2>1 DEF SessionInv, StartInv
    <2>3. \A j \in Places' : j < i => j + 1 < i + 1 /\ j + 1 \in Places /\ queue'[j] = queue[j + 1]
      BY <1>1, <2>1 DEF Places
    <2>4. QED
      BY <1>1, <2>1, <2>2, <2>3 DEF Hellos
  <1>13. QED
    BY <1>5, <1>6, <1>9, <1>10, <1>11, <1>12 DEF SessionInv

\* Noise message 2 completes the handshake of the connection that is up: its
\* place is taken by message 3, in XX, and by the HELLO.
Finished(a, b) ==
  /\ Len(queue) \in Nat \ {0} /\ 1 \in Places
  /\ \A i \in Places' : \/ i < Len(queue) /\ i + 1 \in Places /\ queue'[i] = queue[i + 1]
                        \/ i >= Len(queue) /\ queue'[i] \in {a, b}
  /\ \A i, j \in Places' : i < j /\ i >= Len(queue) => queue'[i] = a /\ queue'[j] = b
  /\ \A K : Queued(K)' => Queued(K) \/ a.kind \in K \/ b.kind \in K
  /\ \A K : b.kind \in K => Queued(K)'
  /\ queue[1].kind = "xx2" => \A K : a.kind \in K => Queued(K)'

LEMMA FinishedShape ==
  ASSUME NEW a \in Jobs, NEW b \in Jobs,
         \/ queue[1].kind = "xx2" /\ SwappedForTwo(a, b)
         \/ queue[1].kind = "kk2" /\ Swapped(b)
  PROVE  Finished(a, b)
  <1>1. CASE queue[1].kind = "xx2" /\ SwappedForTwo(a, b)
    <2>1. /\ Len(queue) \in Nat \ {0} /\ 1 \in Places /\ Len(queue') = Len(queue) + 1
          /\ \A i \in Places' :
               \/ i < Len(queue) /\ i + 1 \in Places /\ queue'[i] = queue[i + 1]
               \/ i = Len(queue) /\ queue'[i] = a
               \/ i = Len(queue') /\ queue'[i] = b
          /\ \A K : Queued(K)' => Queued(K) \/ a.kind \in K \/ b.kind \in K
          /\ \A K : (Queued(K) /\ queue[1].kind \notin K) \/ a.kind \in K \/ b.kind \in K
                       => Queued(K)'
      BY <1>1 DEF SwappedForTwo
    <2>2. \A i \in Places' : \/ i < Len(queue) /\ i + 1 \in Places /\ queue'[i] = queue[i + 1]
                             \/ i >= Len(queue) /\ queue'[i] \in {a, b}
      BY <2>1
    <2>3. \A i, j \in Places' : i < j /\ i >= Len(queue) => queue'[i] = a /\ queue'[j] = b
      BY <2>1 DEF Places
    <2>4. QED
      BY <2>1, <2>2, <2>3 DEF Finished
  <1>2. CASE queue[1].kind = "kk2" /\ Swapped(b)
    <2>1. /\ Len(queue) \in Nat \ {0} /\ Len(queue') = Len(queue) /\ 1 \in Places
          /\ \A i \in Places' : i # Len(queue') => i + 1 \in Places /\ queue'[i] = queue[i + 1]
          /\ queue'[Len(queue')] = b
          /\ \A K : Queued(K)' => Queued(K) \/ b.kind \in K
          /\ \A K : (Queued(K) /\ queue[1].kind \notin K) \/ b.kind \in K => Queued(K)'
      BY <1>2 DEF Swapped
    <2>2. \A i \in Places' : \/ i < Len(queue) /\ i + 1 \in Places /\ queue'[i] = queue[i + 1]
                             \/ i >= Len(queue) /\ queue'[i] \in {a, b}
      BY <2>1 DEF Places
    <2>3. \A i, j \in Places' : i < j /\ i >= Len(queue) => queue'[i] = a /\ queue'[j] = b
      BY <2>1 DEF Places
    <2>4. QED
      BY <1>2, <2>1, <2>2, <2>3 DEF Finished
  <1>3. QED
    BY <1>1, <1>2

LEMMA Completing ==
  ASSUME SessionInv, TypeInv', AllDecode', queue[1].kind \in Noise2,
         sat.noise # 0, NEW a \in Jobs, NEW b \in Jobs,
         a.kind = "xx3", a.conn = sat.conn, a.key = sat.noise,
         b.kind = "hi", b.conn = sat.conn, b.key = 0, Finished(a, b),
         sat'.conn = sat.conn, sat'.master = sat.master, sat'.event = TRUE,
         sat'.transport = sat.noise, sat'.server = sat.server,
         UNCHANGED <<keyed, clients, opened>>
  PROVE  SessionInv'
  <1>1. /\ Len(queue) \in Nat \ {0} /\ 1 \in Places
        /\ \A i \in Places' : \/ i < Len(queue) /\ i + 1 \in Places /\ queue'[i] = queue[i + 1]
                              \/ i >= Len(queue) /\ queue'[i] \in {a, b}
        /\ \A i, j \in Places' : i < j /\ i >= Len(queue) => queue'[i] = a /\ queue'[j] = b
        /\ \A K : Queued(K)' => Queued(K) \/ a.kind \in K \/ b.kind \in K
        /\ \A K : b.kind \in K => Queued(K)'
        /\ queue[1].kind = "xx2" => \A K : a.kind \in K => Queued(K)'
    BY DEF Finished
  <1>2. sat.conn \in Nat /\ opened \in Nat /\ sat.conn <= opened
    BY EventIsConnected
  <1>3. sat.conn # 0
    <2>1. Queued(Noise2)
      BY <1>1 DEF Queued
    <2>2. QED
      BY <2>1 DEF SessionInv, ClosedInv
  <1>4. /\ ~sat.event /\ sat.master /\ sat.server = sat.conn /\ sat.noise = sat.conn
        /\ \A j \in Places : j # 1 => ~Token(queue[j], sat.conn)
        /\ \A j \in Places : queue[j].kind \notin Early
    <2>1. Token(queue[1], sat.conn)
      BY DEF Token
    <2>2. QED
      BY <1>1, <1>3, <2>1 DEF SessionInv, OneHandshake
  <1>5. \A j \in Places : queue[j].kind # "hi" /\ queue[j].kind # "xx3"
    <2>1. ~Queued({"xx3", "hi"})
      BY <1>3, <1>4 DEF SessionInv, OpenInv
    <2>2. QED
      BY <2>1 DEF Queued
  <1>6. AllNumbered'
    <2>1. Numbered(a, opened) /\ Numbered(b, opened)
      BY <1>2, <1>3, <1>4 DEF Numbered, Hellos, Noise2
    <2>2. QED
      BY <1>1, <2>1 DEF SessionInv, AllNumbered
  <1>7. InTurn'
    <2> SUFFICES ASSUME NEW i \in Places', NEW j \in Places', i < j
                 PROVE  Turn(queue'[i], queue'[j])
      BY DEF InTurn
    <2>1. CASE i >= Len(queue)
      <3>1. queue'[i] = a /\ queue'[j] = b
        BY <1>1, <2>1
      <3>2. Turn(a, b)
        BY DEF Turn, Hellos, Early, Others
      <3>3. QED
        BY <3>1, <3>2
    <2>2. CASE j < Len(queue)
      <3>1. /\ i < Len(queue) /\ i + 1 \in Places /\ queue'[i] = queue[i + 1]
            /\ j + 1 \in Places /\ queue'[j] = queue[j + 1] /\ i + 1 < j + 1
        BY <1>1, <2>2 DEF Places
      <3>2. QED
        BY <3>1 DEF SessionInv, InTurn
    <2>3. CASE i < Len(queue) /\ j >= Len(queue)
      <3>1. i + 1 \in Places /\ queue'[i] = queue[i + 1] /\ queue'[j] \in {a, b}
        BY <1>1, <2>3 DEF Places
      <3>2. queue'[i].kind \notin Early /\ queue'[i].kind # "hi"
        BY <1>4, <1>5, <3>1
      <3>3. QED
        BY <3>1, <3>2 DEF Turn, Hellos
    <2>4. QED
      BY <1>1, <2>1, <2>2, <2>3 DEF Places
  <1>8. ClosedInv'
    BY <1>3 DEF ClosedInv
  <1>9. OpenInv'
    <2>1. ~Queued(Early)'
      <3>1. ~Queued(Early)
        BY <1>4 DEF Queued
      <3>2. QED
        BY <1>1, <3>1 DEF Early, Hellos, Others
    <2>2. sat.conn \in keyed \/ Queued({"xx3"})'
      <3>1. CASE queue[1].kind = "xx2"
        BY <1>1, <3>1
      <3>2. CASE queue[1].kind = "kk2"
        <4>1. Queued({"kk2"})
          BY <1>1, <3>2 DEF Queued
        <4>2. QED
          BY <1>3, <4>1 DEF SessionInv, OpenInv
      <3>3. QED
        BY <3>1, <3>2 DEF Noise2
    <2>3. Queued({"hi"})'
      BY <1>1
    <2>4. Queued({"kk2"})' => sat.conn \in keyed
      <3>1. Queued({"kk2"})' => Queued({"kk2"})
        BY <1>1
      <3>2. QED
        BY <1>3, <3>1 DEF SessionInv, OpenInv
    <2>5. clients = {}
      BY <1>4, EventIsConnected
    <2>6. \A i \in Places' : queue'[i].kind # "hello" /\ queue'[i].kind # "handshake"
      BY <1>1, <1>4 DEF Early, Hellos
    <2>7. QED
      BY <1>4, <2>1, <2>2, <2>3, <2>4, <2>5, <2>6 DEF OpenInv
  <1>10. OneHandshake'
    <2>1. \A i \in Places' : ~Token(queue'[i], sat.conn)
      <3>1. ~Token(a, sat.conn) /\ ~Token(b, sat.conn)
        BY DEF Token, Noise1, Noise2
      <3>2. \A i \in Places' : i + 1 # 1
        BY DEF Places
      <3>3. QED
        BY <1>1, <1>4, <3>1, <3>2
    <2>2. QED
      BY <2>1 DEF OneHandshake
  <1>11. StartInv'
    BY <1>1, <1>4 DEF StartInv, Early, Others
  <1>12. QED
    BY <1>6, <1>7, <1>8, <1>9, <1>10, <1>11 DEF SessionInv

\* Noise message 1 over the payloads of its own connection: message 2 answers it.
LEMMA Answering ==
  ASSUME SessionInv, TypeInv', AllDecode', Connected,
         queue[1].kind \in Noise1, queue[1].key = sat.conn,
         NEW job \in Jobs, Swapped(job), job.kind \in Noise2, job.conn = sat.conn, job.key = 0,
         keyed \subseteq keyed', job.kind = "kk2" => sat.conn \in keyed',
         UNCHANGED <<sat, clients, opened>>
  PROVE  SessionInv'
  <1>1. /\ Len(queue) \in Nat \ {0} /\ Len(queue') = Len(queue) /\ 1 \in Places
        /\ \A i \in Places' : i # Len(queue') => i + 1 \in Places /\ queue'[i] = queue[i + 1]
        /\ Len(queue') \in Places' /\ queue'[Len(queue')] = job
        /\ \A K : Queued(K)' => Queued(K) \/ job.kind \in K
        /\ \A K : (Queued(K) /\ queue[1].kind \notin K) \/ job.kind \in K => Queued(K)'
    BY DEF Swapped
  <1>2. sat.conn \in Nat /\ opened \in Nat /\ sat.conn <= opened /\ sat.conn # 0
    BY EventIsConnected DEF Connected
  <1>4. /\ ~sat.event /\ sat.master /\ sat.server = sat.conn /\ sat.noise = sat.conn
        /\ \A j \in Places : j # 1 => ~Token(queue[j], sat.conn)
        /\ \A j \in Places : queue[j].kind \notin Early
    <2>1. Token(queue[1], sat.conn)
      BY DEF Token
    <2>2. QED
      BY <1>1, <1>2, <2>1 DEF SessionInv, OneHandshake
  <1>5. \A i \in Places' : \/ /\ i # Len(queue') /\ i + 1 \in Places /\ i + 1 # 1
                              /\ queue'[i] = queue[i + 1]
                           \/ i = Len(queue') /\ queue'[i] = job
    BY <1>1 DEF Places
  <1>6. AllNumbered'
    <2>1. Numbered(job, opened)
      BY <1>2 DEF Numbered, Hellos, Noise2
    <2>2. QED
      BY <1>5, <2>1 DEF SessionInv, AllNumbered
  <1>7. InTurn'
    <2>1. \A i \in Places : Turn(queue[i], job)
      BY <1>4 DEF Turn, Hellos, Noise2
    <2>2. QED
      BY <1>1, <2>1 DEF SessionInv, InTurn, Places
  <1>8. ClosedInv'
    BY <1>2 DEF ClosedInv
  <1>9. OpenInv'
    <2>1. /\ Queued(Early)' => Queued(Early)
          /\ Queued({"xx3"}) => Queued({"xx3"})'
          /\ Queued({"hi"}) => Queued({"hi"})'
          /\ Queued({"xx3", "hi"})' => Queued({"xx3", "hi"})
          /\ Queued({"kk2"})' => Queued({"kk2"}) \/ sat.conn \in keyed'
      BY <1>1 DEF Early, Hellos, Others, Noise1, Noise2
    <2>2. \A i \in Places' : \/ \E k \in Places : queue'[i] = queue[k]
                             \/ queue'[i].kind \notin {"hello", "handshake", "app"}
      BY <1>5 DEF Noise2
    <2>3. OpenInv /\ clients' = clients /\ clients \subseteq {sat.conn} /\ sat' = sat
      BY EventIsConnected DEF SessionInv
    <2>4. QED
      BY <2>1, <2>2, <2>3, OpenKept
  <1>10. OneHandshake'
    <2> SUFFICES ASSUME NEW i \in Places', Token(queue'[i], sat'.conn)
                 PROVE  /\ ~sat'.event /\ sat'.master
                        /\ sat'.server = sat'.conn /\ sat'.noise = sat'.conn
                        /\ \A j \in Places' :
                             /\ Token(queue'[j], sat'.conn) => i = j
                             /\ queue'[j].kind \notin Early
      BY DEF OneHandshake
    <2>1. \A j \in Places' : Token(queue'[j], sat.conn) => j = Len(queue')
      BY <1>4, <1>5
    <2>2. \A j \in Places' : queue'[j].kind \notin Early
      BY <1>4, <1>5 DEF Noise2, Early, Hellos, Others
    <2>3. QED
      BY <1>4, <2>1, <2>2
  <1>11. StartInv'
    BY <1>4, <1>5 DEF StartInv, Early, Others, Noise2
  <1>12. QED
    BY <1>6, <1>7, <1>8, <1>9, <1>10, <1>11 DEF SessionInv

\* The end of the handshake at the master: message 3 keys the connection, the
\* HELLO makes it a client.
LEMMA Registering ==
  ASSUME SessionInv, TypeInv', AllDecode', Connected,
         OneTaken, queue[1].kind \in {"xx3", "hi"},
         \/ queue[1].kind = "xx3" /\ keyed' = keyed \cup {sat.conn} /\ clients' = clients
         \/ queue[1].kind = "hi" /\ keyed' = keyed /\ clients' = clients \cup {sat.conn},
         UNCHANGED <<sat, opened>>
  PROVE  SessionInv'
  <1>1. /\ Len(queue) \in Nat /\ Len(queue') = Len(queue) - 1 /\ Len(queue') \in Nat
        /\ 1 \in Places
        /\ \A i \in Places' : i + 1 \in Places /\ queue'[i] = queue[i + 1]
        /\ \A K : Queued(K)' => Queued(K)
        /\ \A K : Queued(K) /\ queue[1].kind \notin K => Queued(K)'
    BY DEF OneTaken
  <1>2. sat.conn \in Nat /\ sat.conn # 0 /\ clients \subseteq {sat.conn}
    BY EventIsConnected DEF Connected
  <1>3. sat.event
    <2>1. Queued({"xx3", "hi"})
      BY <1>1 DEF Queued
    <2>2. QED
      BY <1>2, <2>1 DEF SessionInv, OpenInv
  <1>4. queue[1].kind = "hi" => sat.conn \in keyed
    <2> SUFFICES ASSUME queue[1].kind = "hi"
                 PROVE  ~Queued({"xx3"})
      BY <1>2, <1>3 DEF SessionInv, OpenInv
    <2>1. \A i \in Places : i # 1 => Turn(queue[1], queue[i])
      BY <1>1 DEF SessionInv, InTurn, Places
    <2>2. QED
      BY <2>1 DEF Turn, Queued
  <1>5. AllNumbered'
    BY <1>1 DEF SessionInv, AllNumbered
  <1>6. InTurn'
    BY <1>1, StillInTurn DEF SessionInv
  <1>7. ClosedInv'
    BY <1>2 DEF ClosedInv
  <1>8. OpenInv'
    <2>1. /\ Queued(Early)' => Queued(Early)
          /\ Queued({"xx3"}) => Queued({"xx3"})' \/ sat.conn \in keyed'
          /\ Queued({"hi"}) => Queued({"hi"})' \/ sat.conn \in clients'
          /\ Queued({"xx3", "hi"})' => Queued({"xx3", "hi"})
          /\ Queued({"kk2"})' => Queued({"kk2"})
      BY <1>1
    <2>2. \A i \in Places' : \E k \in Places : queue'[i] = queue[k]
      BY <1>1
    <2>3. /\ OpenInv /\ sat' = sat /\ keyed \subseteq keyed' /\ clients \subseteq clients'
          /\ clients' \subseteq {sat.conn}
          /\ clients' # {} => clients # {} \/ (sat.event /\ sat.conn \in keyed')
      BY <1>2, <1>3, <1>4 DEF SessionInv
    <2>4. QED
      BY <2>1, <2>2, <2>3, OpenKept
  <1>9. OneHandshake'
    <2>1. \A i \in Places : ~Token(queue[i], sat.conn)
      BY <1>2, <1>3 DEF SessionInv, OneHandshake
    <2>2. QED
      BY <1>1, <2>1 DEF OneHandshake
  <1>10. StartInv'
    BY <1>1, StartKept DEF SessionInv
  <1>11. QED
    BY <1>5, <1>6, <1>7, <1>8, <1>9, <1>10 DEF SessionInv

-----------------------------------------------------------------------------
(***************************************************************************)
(* The session invariant holds of every reachable state in which connect   *)
(* was not called over a connection in use.                                *)
(***************************************************************************)
LEMMA SessionInit == Init => SessionInv
  <1> SUFFICES ASSUME Init
               PROVE  SessionInv
    OBVIOUS
  <1>1. TypeInv
    BY TypeInit
  <1>2. Places = {} /\ \A K : ~Queued(K)
    BY DEF Init, Places, Queued
  <1> HIDE DEF Places
  <1>3. AllNumbered /\ InTurn /\ ClosedInv /\ OpenInv /\ OneHandshake
    BY <1>2 DEF Init, Down, AllNumbered, InTurn, ClosedInv, OpenInv, OneHandshake
  <1>4. StartInv /\ AllDecode
    BY <1>2 DEF Init, StartInv, AllDecode
  <1>5. QED
    BY <1>1, <1>3, <1>4 DEF SessionInv

\* The record of the satellite after each of its updates.
LEMMA SatUpdates ==
  ASSUME NEW s \in Satellites, NEW n
  PROVE  /\ [s EXCEPT !.master = TRUE].conn = s.conn
         /\ [s EXCEPT !.master = TRUE].master
         /\ [s EXCEPT !.master = TRUE].event = s.event
         /\ [s EXCEPT !.master = TRUE].transport = s.transport
         /\ [s EXCEPT !.master = TRUE].noise = s.noise
         /\ [s EXCEPT !.master = TRUE].server = s.server
         /\ [s EXCEPT !.conn = n].conn = n
         /\ [s EXCEPT !.conn = n].master = s.master
         /\ [s EXCEPT !.conn = n].event = s.event
         /\ [s EXCEPT !.conn = n].transport = s.transport
         /\ [s EXCEPT !.conn = n].server = s.server
         /\ [s EXCEPT !.server = n].conn = s.conn
         /\ [s EXCEPT !.server = n].master = s.master
         /\ [s EXCEPT !.server = n].event = s.event
         /\ [s EXCEPT !.server = n].transport = s.transport
         /\ [s EXCEPT !.server = n].noise = s.noise
         /\ [s EXCEPT !.server = n].server = n
         /\ [s EXCEPT !.noise = n].conn = s.conn
         /\ [s EXCEPT !.noise = n].master = s.master
         /\ [s EXCEPT !.noise = n].event = s.event
         /\ [s EXCEPT !.noise = n].transport = s.transport
         /\ [s EXCEPT !.noise = n].noise = n
         /\ [s EXCEPT !.noise = n].server = s.server
         /\ [s EXCEPT !.transport = n, !.event = TRUE, !.noise = 0].conn = s.conn
         /\ [s EXCEPT !.transport = n, !.event = TRUE, !.noise = 0].master = s.master
         /\ [s EXCEPT !.transport = n, !.event = TRUE, !.noise = 0].event = TRUE
         /\ [s EXCEPT !.transport = n, !.event = TRUE, !.noise = 0].transport = n
         /\ [s EXCEPT !.transport = n, !.event = TRUE, !.noise = 0].server = s.server
  BY DEF Satellites

LEMMA StepTypes ==
  ASSUME SessionInv
  PROVE  /\ sat \in Satellites /\ queue \in Seq(Jobs) /\ TypeInv
         /\ sat.conn \in Numbers /\ sat.server \in Numbers /\ sat.noise \in Numbers
         /\ 0 \in Numbers
         /\ opened \in Nat
         /\ queue # <<>> => Head(queue) = queue[1] /\ 1 \in Places
  <1>1. sat \in Satellites /\ queue \in Seq(Jobs) /\ TypeInv
    BY DEF SessionInv, TypeInv, TypeOK
  <1>2. sat.conn \in Numbers /\ sat.server \in Numbers /\ sat.noise \in Numbers
    BY <1>1, SatFields
  <1>3. 0 \in Numbers /\ opened \in Nat
    BY ConstantsAssumption, EventIsConnected DEF ConstantsAssumption, Numbers
  <1>4. queue # <<>> => Head(queue) = queue[1] /\ 1 \in Places
    BY <1>1, TailShape DEF Places
  <1>5. QED
    BY <1>1, <1>2, <1>3, <1>4

LEMMA CalledJobs ==
  /\ Job("connect", 0, 0) \in Jobs /\ Job("connect", 0, 0).kind = "connect"
  /\ Job("connect", 0, 0).key = 0
  /\ Job("start", 0, 0) \in Jobs /\ Job("start", 0, 0).kind = "start"
  /\ Job("start", 0, 0).key = 0
  <1>1. 0 \in Numbers
    BY ConstantsAssumption DEF ConstantsAssumption, Numbers
  <1>2. QED
    BY <1>1 DEF Job, Jobs, Others

LEMMA ConnectStep ==
  ASSUME SessionInv, TypeInv', Connect, overlaid' = {}
  PROVE  SessionInv'
  <1> DEFINE a == Job("connect", 0, 0)
             b == Job("start", 0, 0)
  <1>1. /\ queue' = queue \o <<a>> \/ queue' = queue \o <<a, b>>
        /\ sat' = [sat EXCEPT !.master = TRUE]
        /\ UNCHANGED <<keyed, clients, opened, refused>>
    BY DEF Connect
  <1>2. Called
    <2>1. a \in Jobs /\ a.kind = "connect" /\ a.key = 0
          /\ b \in Jobs /\ b.kind = "start" /\ b.key = 0
      BY CalledJobs
    <2> HIDE DEF a, b
    <2>2. QED
      BY <1>1, <2>1, StepTypes, CalledShape
  <1>3. InUse = {}
    BY DEF Connect
  <1>4. ~sat.event /\ (sat.conn # 0 => queue = <<>>)
    <2>1. sat.conn = 0 => ~sat.event
      BY DEF SessionInv, ClosedInv
    <2>2. sat.conn # 0 => ~sat.event /\ queue = <<>>
      BY <1>3 DEF InUse
    <2>3. QED
      BY <2>1, <2>2
  <1>5. /\ sat'.conn = sat.conn /\ sat'.event = sat.event /\ sat'.noise = sat.noise
        /\ sat'.transport = sat.transport /\ sat'.server = sat.server
    BY <1>1, StepTypes, SatUpdates
  <1>6. AllDecode'
    BY <1>1 DEF SessionInv, AllDecode
  <1>7. QED
    BY <1>1, <1>2, <1>4, <1>5, <1>6, Calling

\* A step that leaves the session as it is, but for the calls and the bounds.
LEMMA SameSession ==
  ASSUME SessionInv, TypeInv', AllDecode', UNCHANGED <<queue, sat, keyed, clients, opened>>
  PROVE  SessionInv'
  <1>1. \A K : Queued(K)' <=> Queued(K)
    BY DEF Queued, Places
  <1>2. AllNumbered' /\ InTurn' /\ ClosedInv' /\ OpenInv' /\ OneHandshake' /\ StartInv'
    BY <1>1
       DEF SessionInv, AllNumbered, InTurn, ClosedInv, OpenInv, OneHandshake, StartInv, Places
  <1>3. QED
    BY <1>2 DEF SessionInv

LEMMA CallReturnsStep ==
  ASSUME SessionInv, TypeInv', CallReturns
  PROVE  SessionInv'
  <1> DEFINE b == Job("start", 0, 0)
  <1>1. /\ queue = <<>> /\ UNCHANGED <<sat, keyed, clients, opened, refused>>
        /\ (queue' = <<b>> /\ ~sat.event) \/ queue' = queue
    BY DEF CallReturns
  <1>2. AllDecode'
    BY <1>1 DEF SessionInv, AllDecode
  <1>3. CASE queue' = <<b>> /\ ~sat.event
    <2>1. Called
      BY <1>1, <1>3, StepTypes, CalledJobs, CalledShape
    <2>2. QED
      BY <1>1, <1>2, <1>3, <2>1, Calling
  <1>4. CASE queue' = queue
    BY <1>1, <1>2, <1>4, SameSession
  <1>5. QED
    BY <1>1, <1>3, <1>4

LEMMA HandlerRaisesStep ==
  ASSUME SessionInv, TypeInv', HandlerRaises
  PROVE  SessionInv'
  <1>1. UNCHANGED <<queue, sat, keyed, clients, opened, refused>>
    BY DEF HandlerRaises
  <1>2. AllDecode'
    BY <1>1 DEF SessionInv, AllDecode
  <1>3. QED
    BY <1>1, <1>2, SameSession

LEMMA SendStep ==
  ASSUME SessionInv, TypeInv', Send
  PROVE  SessionInv'
  <1> DEFINE job == Job("data", sat.conn, 0)
  <1>1. job \in Jobs /\ job.kind = "data" /\ job.conn = sat.conn /\ job.key = 0
    <2>1. "data" \in Kinds /\ sat.conn \in Numbers /\ 0 \in Numbers
      BY StepTypes DEF Kinds, Ups
    <2>2. QED
      BY <2>1, JobType
  <1> HIDE DEF job
  <1>2. /\ Connected /\ queue' = Append(queue, job)
        /\ UNCHANGED <<sat, keyed, clients, opened, refused>>
    BY DEF Send, DeliverNew, job
  <1>3. AllDecode'
    BY <1>2 DEF SessionInv, AllDecode
  <1>4. Appended(job)
    BY <1>1, <1>2, StepTypes, Pushed
  <1>5. QED
    BY <1>1, <1>2, <1>3, <1>4, Push

LEMMA SendToSatelliteStep ==
  ASSUME SessionInv, TypeInv', NEW c \in clients, SendToSatellite(c)
  PROVE  SessionInv'
  <1> DEFINE job == Job("app", sat.conn, sat.conn)
  <1>1. Connected /\ sat.event /\ sat.conn \in keyed /\ c = sat.conn
    BY EventIsConnected
  <1>2. job \in Jobs /\ job.kind = "app" /\ job.conn = sat.conn /\ job.key = sat.conn
    <2>1. "app" \in Kinds /\ sat.conn \in Numbers
      BY StepTypes DEF Kinds, Downs
    <2>2. QED
      BY <2>1, JobType
  <1>3. queue' = queue \o <<job>>
    BY <1>1 DEF SendToSatellite, Frames, Connected
  <1> HIDE DEF job
  <1>4. queue' = Append(queue, job)
    BY <1>2, <1>3, StepTypes, AppendShape
  <1>5. UNCHANGED <<sat, keyed, clients, opened, refused>>
    BY DEF SendToSatellite
  <1>6. Appended(job)
    BY <1>2, <1>4, StepTypes, Pushed
  <1>7. AllDecode'
    BY <1>5 DEF SessionInv, AllDecode
  <1>8. QED
    BY <1>1, <1>2, <1>5, <1>6, <1>7, Push

LEMMA DisconnectStep ==
  ASSUME SessionInv, TypeInv', Disconnect \/ MasterCloses
  PROVE  SessionInv'
  <1>1. UNCHANGED <<queue, keyed, opened, refused>>
    BY DEF Disconnect, MasterCloses
  <1>2. /\ clients' = {}
        /\ sat' = ForgetSession(sat) \/ sat' = ForgetSession([sat EXCEPT !.master = FALSE])
    <2>1. CASE OnDisconnect
      BY <2>1, EventIsConnected DEF OnDisconnect
    <2>2. CASE ~Connected /\ sat' = ForgetSession(sat) /\ UNCHANGED clients
      BY <2>2, EventIsConnected
    <2>3. QED
      BY <2>1, <2>2 DEF Disconnect, MasterCloses
  <1>3. AllDecode'
    BY <1>1 DEF SessionInv, AllDecode
  <1>4. QED
    BY <1>1, <1>2, <1>3, Close

LEMMA RunConnectStep ==
  ASSUME SessionInv, TypeInv', RunConnect \/ RunConnectRaises
  PROVE  SessionInv'
  <1> DEFINE n == opened + 1
             a == Job("hello", n, 0)
             b == Job("handshake", n, 0)
             t == Tail(queue)
  <1>1. /\ queue # <<>> /\ Head(queue).kind = "connect"
        /\ UNCHANGED <<keyed, clients, refused>>
    BY DEF RunConnect, RunConnectRaises, Run
  <1>2. /\ \/ opened' = opened /\ sat' = sat /\ queue' = t \o <<>>
           \/ /\ opened' = n /\ sat' = [sat EXCEPT !.conn = n]
              /\ queue' \in {t \o <<>>, t \o <<a>>, t \o <<a, b>>}
    <2>1. Greetings = <<a, b>> /\ Head(<<a, b>>) = a
      BY DEF Greetings
    <2>2. CASE RunConnect
      BY <2>1, <2>2 DEF RunConnect, NewConnection, Then
    <2>3. CASE RunConnectRaises
      BY <2>1, <2>3 DEF RunConnectRaises, NewConnection, Then
    <2>4. QED
      BY <2>2, <2>3
  <1>3. AllDecode'
    BY <1>1 DEF SessionInv, AllDecode
  <1>4. CASE opened' = opened /\ sat' = sat /\ queue' = t \o <<>>
    BY <1>1, <1>3, <1>4, Drop
  <1>5. CASE /\ opened' = n /\ sat' = [sat EXCEPT !.conn = n]
             /\ queue' \in {t \o <<>>, t \o <<a>>, t \o <<a, b>>}
    <2>1. n \in Numbers /\ 0 \in Numbers
      BY <1>1, StepTypes, ThenType
    <2>2. /\ a \in Jobs /\ a.kind = "hello" /\ a.conn = n /\ a.key = 0
          /\ b \in Jobs /\ b.kind = "handshake" /\ b.conn = n /\ b.key = 0
      <3>1. "hello" \in Kinds /\ "handshake" \in Kinds
        BY DEF Kinds, Downs
      <3>2. QED
        BY <2>1, <3>1, JobType
    <2> HIDE DEF a, b
    <2>3. Greeting(a, b) /\ queue[1].kind = "connect"
      BY <1>1, <1>5, <2>2, StepTypes, GreetingShape
    <2>4. /\ sat'.conn = n /\ sat'.master = sat.master /\ sat'.event = sat.event
          /\ sat'.transport = sat.transport /\ sat'.server = sat.server
      BY <1>5, StepTypes, SatUpdates
    <2>5. QED
      BY <1>1, <1>3, <1>5, <2>2, <2>3, <2>4, Accepting
  <1>6. QED
    BY <1>2, <1>4, <1>5

LEMMA StartNoiseStep ==
  ASSUME SessionInv, TypeInv', RunStart \/ RunHandshake
  PROVE  SessionInv'
  <1> DEFINE kind == IF pinned THEN "kk1" ELSE "xx1"
             job == Job(kind, sat.conn, sat.server)
  <1>1. /\ queue # <<>> /\ Head(queue).kind \in {"start", "handshake"} /\ StartNoise
        /\ UNCHANGED <<keyed, clients, opened, refused>>
    BY DEF RunStart, RunHandshake, Dispatch, Run
  <1>2. /\ job \in Jobs /\ job.kind \in Noise1 /\ job.conn = sat.conn /\ job.key = sat.server
    <2>1. kind \in Kinds /\ kind \in Noise1
      BY DEF Kinds, Ups, Noise1
    <2> HIDE DEF kind
    <2>2. QED
      BY <2>1, StepTypes, JobType
  <1>3. AllDecode'
    BY <1>1 DEF SessionInv, AllDecode
  <1>4. /\ sat' = [sat EXCEPT !.noise = sat.server]
        /\ \/ Connected /\ queue' = Tail(queue) \o <<job>>
           \/ ~Connected /\ queue' = Tail(queue) \o <<>>
    BY <1>1 DEF StartNoise, Then
  <1> HIDE DEF job
  <1>5. CASE Connected /\ queue' = Tail(queue) \o <<job>>
    <2>1. Swapped(job) /\ queue[1].kind \in {"start", "handshake"}
      BY <1>1, <1>2, <1>5, StepTypes, Replaced
    <2>2. /\ sat'.conn = sat.conn /\ sat'.master = sat.master /\ sat'.event = sat.event
          /\ sat'.transport = sat.transport /\ sat'.server = sat.server
          /\ sat'.noise = sat.server
      BY <1>4, StepTypes, SatUpdates
    <2>3. QED
      BY <1>1, <1>2, <1>3, <1>5, <2>1, <2>2, MessageOne
  <1>6. CASE ~Connected /\ queue' = Tail(queue) \o <<>>
    BY <1>1, <1>3, <1>4, <1>6, Aborted
  <1>7. QED
    BY <1>4, <1>5, <1>6

\* A frame that does not decode is one of a connection that is gone.
LEMMA DecodeErrorStep ==
  ASSUME SessionInv, TypeInv', DecodeError
  PROVE  SessionInv'
  <1> DEFINE frame == Head(queue)
  <1>1. /\ queue # <<>> /\ frame.kind \in Downs /\ frame.key # sat.transport
        /\ refused' = refused \cup {<<frame, sat.conn>>} /\ queue' = Tail(queue) \o <<>>
        /\ UNCHANGED <<sat, keyed, clients, opened>>
    BY DEF DecodeError, Decodes, Run, Then
  <1>2. frame = queue[1] /\ 1 \in Places
    BY <1>1, StepTypes
  <1>3. Numbered(frame, opened)
    BY <1>2 DEF SessionInv, AllNumbered
  <1> HIDE DEF frame
  <1>4. frame.kind \notin Hellos
    <2> SUFFICES ASSUME frame.kind \in Hellos
                 PROVE  FALSE
      OBVIOUS
    <2>1. Queued(Early)
      BY <1>2 DEF Queued, Early
    <2>2. sat.transport = 0
      BY <2>1, EventIsConnected
    <2>3. QED
      BY <1>1, <1>3, <2>2 DEF Numbered
  <1>5. frame.kind \notin Noise2
    <2> SUFFICES ASSUME frame.kind \in Noise2
                 PROVE  FALSE
      OBVIOUS
    <2>1. sat.conn # 0 => ~sat.event
      BY <1>2 DEF SessionInv, OneHandshake, Token
    <2>2. sat.transport = 0
      BY <2>1, EventIsConnected DEF SessionInv, ClosedInv
    <2>3. QED
      BY <1>1, <1>3, <2>2 DEF Numbered
  <1>6. frame.kind = "app"
    BY <1>1, <1>4, <1>5 DEF Downs, Hellos, Noise2
  <1>7. frame.conn # sat.conn
    <2> SUFFICES ASSUME frame.conn = sat.conn
                 PROVE  FALSE
      OBVIOUS
    <2>1. sat.conn # 0
      BY <1>3, <1>6, EventIsConnected DEF Numbered, Downs
    <2>2. sat.transport = sat.conn
      BY <1>2, <1>6, <2>1 DEF SessionInv, OpenInv
    <2>3. QED
      BY <1>1, <1>3, <1>6, <2>2 DEF Numbered
  <1>8. AllDecode'
    BY <1>1, <1>7 DEF SessionInv, AllDecode
  <1>9. QED
    BY <1>1, <1>6, <1>8, Drop DEF frame

LEMMA RunHelloStep ==
  ASSUME SessionInv, TypeInv', RunHello
  PROVE  SessionInv'
  <1>1. /\ queue # <<>> /\ Head(queue).kind = "hello"
        /\ queue' = Tail(queue) \o <<>> /\ sat' = [sat EXCEPT !.server = Head(queue).conn]
        /\ UNCHANGED <<keyed, clients, opened, refused>>
    BY DEF RunHello, Dispatch, Run, Then
  <1>2. OneTaken /\ Head(queue) = queue[1]
    BY <1>1, StepTypes, Taken
  <1>3. /\ sat'.conn = sat.conn /\ sat'.master = sat.master /\ sat'.event = sat.event
        /\ sat'.transport = sat.transport /\ sat'.server = queue[1].conn
        /\ sat'.noise = sat.noise
    BY <1>1, <1>2, StepTypes, SatUpdates
  <1>4. AllDecode'
    BY <1>1 DEF SessionInv, AllDecode
  <1>5. QED
    BY <1>1, <1>2, <1>3, <1>4, Greeted

LEMMA RunNoise2Step ==
  ASSUME SessionInv, TypeInv', RunNoise2
  PROVE  SessionInv'
  <1> DEFINE a == Job("xx3", sat.conn, sat.noise)
             b == Job("hi", sat.conn, 0)
  <1>1. /\ queue # <<>> /\ Head(queue).kind \in Noise2
        /\ UNCHANGED <<keyed, clients, opened, refused>>
    BY DEF RunNoise2, Dispatch, Run, Noise2
  <1>2. /\ a \in Jobs /\ a.kind = "xx3" /\ a.conn = sat.conn /\ a.key = sat.noise
        /\ b \in Jobs /\ b.kind = "hi" /\ b.conn = sat.conn /\ b.key = 0
    <2>1. "xx3" \in Kinds /\ "hi" \in Kinds
      BY DEF Kinds, Ups
    <2>2. QED
      BY <2>1, StepTypes, JobType
  <1>3. AllDecode'
    BY <1>1 DEF SessionInv, AllDecode
  <1>4. CASE sat.noise = 0
    <2>1. queue' = Tail(queue) \o <<>> /\ sat' = sat
      BY <1>4 DEF RunNoise2, Then
    <2>2. sat.conn = 0
      BY <1>1, <1>4, StepTypes DEF SessionInv, OneHandshake, Token
    <2>3. QED
      BY <1>1, <1>3, <2>1, <2>2, Aborted DEF Connected
  <1>5. CASE sat.noise # 0
    <2>1. /\ sat' = [sat EXCEPT !.transport = sat.noise, !.event = TRUE, !.noise = 0]
          /\ \/ Head(queue).kind = "xx2" /\ queue' = Tail(queue) \o <<a, b>>
             \/ Head(queue).kind = "kk2" /\ queue' = Tail(queue) \o <<b>>
      BY <1>1, <1>5 DEF RunNoise2, Then, Noise2
    <2> HIDE DEF a, b
    <2>2. Finished(a, b) /\ queue[1].kind \in Noise2
      <3>1. CASE Head(queue).kind = "xx2" /\ queue' = Tail(queue) \o <<a, b>>
        <4>1. SwappedForTwo(a, b) /\ Head(queue) = queue[1]
          BY <1>1, <1>2, <3>1, StepTypes, ReplacedByTwo
        <4>2. QED
          BY <1>1, <1>2, <3>1, <4>1, FinishedShape
      <3>2. CASE Head(queue).kind = "kk2" /\ queue' = Tail(queue) \o <<b>>
        <4>1. Swapped(b) /\ Head(queue) = queue[1]
          BY <1>1, <1>2, <3>2, StepTypes, Replaced
        <4>2. QED
          BY <1>1, <1>2, <3>2, <4>1, FinishedShape
      <3>3. QED
        BY <2>1, <3>1, <3>2
    <2>3. /\ sat'.conn = sat.conn /\ sat'.master = sat.master /\ sat'.event = TRUE
          /\ sat'.transport = sat.noise /\ sat'.server = sat.server
      BY <2>1, StepTypes, SatUpdates
    <2>4. QED
      BY <1>1, <1>2, <1>3, <1>5, <2>1, <2>2, <2>3, Completing
  <1>6. QED
    BY <1>4, <1>5

LEMMA RunNoise1Step ==
  ASSUME SessionInv, TypeInv', RunNoise1
  PROVE  SessionInv'
  <1> DEFINE kind == IF Head(queue).kind = "kk1" THEN "kk2" ELSE "xx2"
             job == Job(kind, sat.conn, 0)
  <1>1. /\ queue # <<>> /\ Head(queue).kind \in Noise1 /\ Connected
        /\ UNCHANGED <<opened, refused>>
    BY DEF RunNoise1, RunUp, Run, Noise1
  <1>2. AllDecode'
    BY <1>1 DEF SessionInv, AllDecode
  <1>3. CASE Head(queue).key = sat.conn
    <2>1. /\ queue' = Tail(queue) \o <<job>> /\ UNCHANGED <<sat, clients>>
          /\ keyed' = IF Head(queue).kind = "kk1" THEN keyed \cup {sat.conn} ELSE keyed
      BY <1>3 DEF RunNoise1, OwnPrologue, SendNoise2, Then
    <2>2. kind \in Kinds /\ kind \in Noise2 /\ (kind = "kk2" => Head(queue).kind = "kk1")
      BY DEF Kinds, Downs, Noise2
    <2> HIDE DEF kind
    <2>3. job \in Jobs /\ job.kind = kind /\ job.conn = sat.conn /\ job.key = 0
      BY <2>2, StepTypes, JobType
    <2> HIDE DEF job
    <2>4. Swapped(job) /\ Head(queue) = queue[1]
      BY <1>1, <2>1, <2>3, StepTypes, Replaced
    <2>5. keyed \subseteq keyed' /\ (job.kind = "kk2" => sat.conn \in keyed')
      BY <2>1, <2>2, <2>3
    <2>6. QED
      BY <1>1, <1>2, <1>3, <2>1, <2>2, <2>3, <2>4, <2>5, Answering
  <1>4. CASE Head(queue).key # sat.conn
    <2>1. queue' = Tail(queue) \o <<>> /\ OnDisconnect /\ keyed' = keyed
      BY <1>4 DEF RunNoise1, OwnPrologue, Then
    <2>2. clients' = {} /\ sat' = ForgetSession([sat EXCEPT !.master = FALSE])
      BY <1>1, <2>1, EventIsConnected DEF OnDisconnect
    <2>3. QED
      BY <1>1, <1>2, <2>1, <2>2, Close
  <1>5. QED
    BY <1>3, <1>4

LEMMA RunUpStep ==
  ASSUME SessionInv, TypeInv', RunApp \/ RunUpClosed \/ RunNoise3 \/ RunMessage
  PROVE  SessionInv'
  <1>1. queue # <<>> /\ queue' = Tail(queue) \o <<>> /\ UNCHANGED <<opened, refused>>
    BY DEF RunApp, RunUpClosed, RunNoise3, RunMessage, RunUp, Dispatch, Run, Then
  <1>2. AllDecode'
    BY <1>1 DEF SessionInv, AllDecode
  <1>3. OneTaken /\ Head(queue) = queue[1]
    BY <1>1, StepTypes, Taken
  <1>4. CASE RunApp
    <2>1. Head(queue).kind = "app" /\ UNCHANGED <<sat, keyed, clients>>
      BY <1>4 DEF RunApp, Dispatch, Run
    <2>2. QED
      BY <1>1, <1>2, <2>1, Drop
  <1>5. CASE RunUpClosed
    <2>1. ~Connected /\ UNCHANGED <<sat, keyed, clients>>
      BY <1>5 DEF RunUpClosed
    <2>2. QED
      BY <1>1, <1>2, <2>1, Aborted
  <1>6. CASE RunNoise3
    <2>1. Connected /\ Head(queue).kind = "xx3"
      BY <1>6 DEF RunNoise3, RunUp, Run
    <2>2. CASE keyed' = keyed \cup {sat.conn} /\ UNCHANGED <<sat, clients>>
      BY <1>1, <1>2, <1>3, <2>1, <2>2, Registering
    <2>3. CASE OnDisconnect /\ keyed' = keyed
      <3>1. clients' = {} /\ sat' = ForgetSession([sat EXCEPT !.master = FALSE])
        BY <2>1, <2>3, EventIsConnected DEF OnDisconnect
      <3>2. QED
        BY <1>1, <1>2, <2>3, <3>1, Close
    <2>4. QED
      BY <1>6, <2>2, <2>3 DEF RunNoise3
  <1>7. CASE RunMessage
    <2>1. /\ Connected /\ Head(queue).kind \in {"hi", "data"} /\ UNCHANGED <<sat, keyed>>
          /\ clients' = IF Head(queue).kind = "hi" THEN clients \cup {sat.conn} ELSE clients
      BY <1>7 DEF RunMessage, RunUp, Run
    <2>2. CASE Head(queue).kind = "hi"
      BY <1>1, <1>2, <1>3, <2>1, <2>2, Registering
    <2>3. CASE Head(queue).kind = "data"
      BY <1>1, <1>2, <2>1, <2>3, Drop
    <2>4. QED
      BY <2>1, <2>2, <2>3
  <1>8. QED
    BY <1>4, <1>5, <1>6, <1>7

LEMMA SessionStep ==
  ASSUME SessionInv, [Next]_vars, overlaid' = {}
  PROVE  SessionInv'
  <1>1. TypeInv'
    BY TypeStep DEF SessionInv
  <1>2. ASSUME NEW c \in clients, SendToSatellite(c)
        PROVE  SessionInv'
    BY <1>1, <1>2, SendToSatelliteStep
  <1>3. CASE Connect
    BY <1>1, <1>3, ConnectStep
  <1>4. CASE Send
    BY <1>1, <1>4, SendStep
  <1>5. CASE Disconnect \/ MasterCloses
    BY <1>1, <1>5, DisconnectStep
  <1>6. CASE CallReturns
    BY <1>1, <1>6, CallReturnsStep
  <1>7. CASE RunConnect \/ RunConnectRaises
    BY <1>1, <1>7, RunConnectStep
  <1>8. CASE RunStart \/ RunHandshake
    BY <1>1, <1>8, StartNoiseStep
  <1>9. CASE DecodeError
    BY <1>1, <1>9, DecodeErrorStep
  <1>10. CASE RunHello
    BY <1>1, <1>10, RunHelloStep
  <1>11. CASE RunNoise2
    BY <1>1, <1>11, RunNoise2Step
  <1>12. CASE RunNoise1
    BY <1>1, <1>12, RunNoise1Step
  <1>13. CASE RunApp \/ RunUpClosed \/ RunNoise3 \/ RunMessage
    BY <1>1, <1>13, RunUpStep
  <1>14. CASE HandlerRaises
    BY <1>1, <1>14, HandlerRaisesStep
  <1>15. CASE UNCHANGED vars
    <2>1. UNCHANGED <<queue, sat, keyed, clients, opened, refused>>
      BY <1>15 DEF vars
    <2>2. AllDecode'
      BY <2>1 DEF SessionInv, AllDecode
    <2>3. QED
      BY <1>1, <2>1, <2>2, SameSession
  <1>16. QED
    BY <1>2, <1>3, <1>4, <1>5, <1>6, <1>7, <1>8, <1>9, <1>10, <1>11, <1>12, <1>13, <1>14, <1>15
       DEF Next, Drain

\* How connect was called is not forgotten.
LEMMA OverlaidGrows == [Next]_vars => overlaid \subseteq overlaid'
  <1> SUFFICES ASSUME [Next]_vars
               PROVE  overlaid \subseteq overlaid'
    OBVIOUS
  <1>1. ASSUME NEW c \in clients, SendToSatellite(c)
        PROVE  overlaid' = overlaid
    BY <1>1 DEF SendToSatellite
  <1>2. CASE Connect
    BY <1>2 DEF Connect
  <1>3. CASE Drain
    BY <1>3 DEF Drain, RunConnect, RunConnectRaises, RunStart, DecodeError, RunHello, RunHandshake,
                RunNoise2, RunApp, RunUpClosed, RunNoise1, RunNoise3, RunMessage, CallReturns
  <1>4. CASE HandlerRaises \/ Send \/ Disconnect \/ MasterCloses
    BY <1>4 DEF HandlerRaises, Send, Disconnect, MasterCloses
  <1>5. CASE UNCHANGED vars
    BY <1>5 DEF vars
  <1>6. QED
    BY <1>1, <1>2, <1>3, <1>4, <1>5 DEF Next

SessionUnlessOverlaid == overlaid = {} => SessionInv

LEMMA SessionAlways == Spec => []SessionUnlessOverlaid
  <1>1. Init => SessionUnlessOverlaid
    BY SessionInit DEF SessionUnlessOverlaid
  <1>2. SessionUnlessOverlaid /\ [Next]_vars => SessionUnlessOverlaid'
    BY SessionStep, OverlaidGrows DEF SessionUnlessOverlaid
  <1>3. QED
    BY <1>1, <1>2, PTL DEF Spec

\* A frame that fails to decode belongs to a connection that is gone: however
\* often a satellite reconnects, with XX or KK, and whatever an exception of a
\* handler has left in the queue, the session of its transport is the one that
\* encrypted what the master sends on the connection that is up, as long as
\* connect was not called over a connection in use.
THEOREM LiveFramesDecodeAlways == Spec => []LiveFramesDecode
  <1>1. SessionUnlessOverlaid => LiveFramesDecode
    BY DEF SessionUnlessOverlaid, SessionInv, AllDecode, LiveFramesDecode
  <1>2. QED
    BY <1>1, SessionAlways, PTL

\* The master's table of clients lists no connection the satellite has given up,
\* unless connect was called over it.
THEOREM NoGhostClientEver == Spec => []NoGhostClient
  <1>1. SessionUnlessOverlaid => NoGhostClient
    BY EventIsConnected DEF SessionUnlessOverlaid, NoGhostClient
  <1>2. QED
    BY <1>1, SessionAlways, PTL

\* A connect that was not called over a connection in use, and returns without
\* an exception, leaves both ends with the transport of the connection that is
\* up and the master with its client.
THEOREM ConnectSecures == Spec => ConnectReturnsSecured
  <1>1. SessionUnlessOverlaid /\ [Next]_vars => [ConnectReturns /\ overlaid = {} => Secured]_vars
    <2> SUFFICES ASSUME SessionInv, ConnectReturns
                 PROVE  Secured
      BY DEF SessionUnlessOverlaid
    <2>1. queue = <<>> /\ sat.event
      BY DEF ConnectReturns, CallReturns
    <2>2. \A K : ~Queued(K)
      BY <2>1 DEF Queued, Places
    <2>3. sat.conn # 0
      BY <2>1, EventIsConnected DEF Connected
    <2>4. QED
      BY <2>1, <2>2, <2>3 DEF SessionInv, OpenInv, Secured
  <1>2. QED
    BY <1>1, SessionAlways, PTL DEF Spec, ConnectReturnsSecured

-----------------------------------------------------------------------------
(***************************************************************************)
(* What a closed connection leaves behind, however connect was called.     *)
(* The session invariant does not hold over connections in use, but a      *)
(* weaker one does, and is enough: a node that is down completes no        *)
(* handshake with what is queued, because HELLOs come in the order of      *)
(* their connections (HellosInOrder), ahead of any message 2, and a        *)
(* message 1 that the master accepts has no HELLO behind it (HellosAhead). *)
(***************************************************************************)
KeysMade ==
  /\ sat.conn \in {0, opened} /\ sat.server <= opened
  /\ \A i \in Places : queue[i].kind \in Noise1 => queue[i].key <= opened
  /\ \A i \in Places : queue[i].kind = "hello" => queue[i].conn <= opened

HellosInOrder ==
  \A i, j \in Places : i < j /\ queue[i].kind = "hello" =>
    /\ queue[j].kind = "hello" => queue[i].conn < queue[j].conn
    /\ queue[j].kind \notin Noise2

HellosAhead ==
  \A i \in Places : queue[i].kind = "hello" =>
    /\ sat.server < queue[i].conn
    /\ \A j \in Places : queue[j].kind \in Noise1 => queue[j].key < queue[i].conn

Cleared ==
  sat.conn = 0 =>
    /\ sat.transport = 0 /\ ~sat.event
    /\ Queued(Noise2) => sat.noise = 0 /\ sat.server = 0

CloseInv == TypeInv /\ KeysMade /\ HellosInOrder /\ HellosAhead /\ Cleared

\* The numbers in a state of the right types.
LEMMA CloseNumbers ==
  ASSUME TypeInv
  PROVE  /\ queue \in Seq(Jobs) /\ Len(queue) \in Nat /\ sat \in Satellites
         /\ sat.conn \in Nat /\ sat.server \in Nat /\ sat.noise \in Nat /\ opened \in Nat
         /\ \A i \in Places : queue[i].conn \in Nat /\ queue[i].key \in Nat
  <1>1. queue \in Seq(Jobs) /\ sat \in Satellites /\ opened \in Numbers
    BY DEF TypeInv, TypeOK
  <1>2. Numbers \subseteq Nat
    BY ConstantsAssumption DEF ConstantsAssumption, Numbers
  <1>3. sat.conn \in Numbers /\ sat.server \in Numbers /\ sat.noise \in Numbers
    BY <1>1, SatFields
  <1>4. ASSUME NEW i \in Places
        PROVE  queue[i].conn \in Numbers /\ queue[i].key \in Numbers
    <2>1. queue[i] \in Jobs
      BY <1>1 DEF Places
    <2>2. QED
      BY <2>1 DEF Jobs
  <1>5. Len(queue) \in Nat
    BY <1>1
  <1>6. sat.conn \in Nat /\ sat.server \in Nat /\ sat.noise \in Nat /\ opened \in Nat
    BY <1>1, <1>2, <1>3
  <1>7. \A i \in Places : queue[i].conn \in Nat /\ queue[i].key \in Nat
    BY <1>2, <1>4
  <1>8. QED
    BY <1>1, <1>5, <1>6, <1>7

\* A queue from which d jobs are taken, and to which only jobs for which New
\* holds are added: no HELLO, a message 1 over the payloads the satellite
\* holds, a message 2 only on a connection that is up with no HELLO left.
New(job) ==
  /\ job.kind # "hello"
  /\ job.kind \in Noise1 => job.key = sat.server
  /\ job.kind \in Noise2 => sat.conn # 0 /\ \A i \in Places : queue[i].kind # "hello"

Moved(d) ==
  \A i \in Places' : \/ i + d \in Places /\ queue'[i] = queue[i + d]
                     \/ i + d > Len(queue) /\ New(queue'[i])

\* d jobs taken, and up to two added.
LEMMA MovedShape ==
  ASSUME TypeInv, NEW d \in {0, 1}, d = 1 => queue # <<>>,
         NEW q, q = IF d = 1 THEN Tail(queue) ELSE queue,
         \/ queue' = q
         \/ queue' = q \o <<>>
         \/ \E a \in Jobs : queue' = q \o <<a>> /\ New(a)
         \/ \E a, b \in Jobs : queue' = q \o <<a, b>> /\ New(a) /\ New(b)
  PROVE  Moved(d)
  <1>1. /\ Len(queue) \in Nat /\ q \in Seq(Jobs) /\ Len(q) = Len(queue) - d
        /\ \A i \in 1..Len(q) : i + d \in Places /\ q[i] = queue[i + d]
        /\ q \o <<>> = q
    <2>1. queue \in Seq(Jobs)
      BY CloseNumbers
    <2>2. CASE d = 0
      BY <2>1, <2>2 DEF Places
    <2>3. CASE d = 1
      BY <2>1, <2>3, TailShape DEF Places
    <2>4. QED
      BY <2>2, <2>3
  <1>2. CASE queue' = q \/ queue' = q \o <<>>
    BY <1>1, <1>2 DEF Moved, Places
  <1>3. ASSUME NEW a \in Jobs, queue' = q \o <<a>>, New(a)
        PROVE  Moved(d)
    <2>1. /\ Len(queue') = Len(q) + 1
          /\ \A i \in 1..Len(q) : queue'[i] = q[i]
          /\ queue'[Len(q) + 1] = a
      BY <1>1, <1>3, AppendShape
    <2>2. QED
      BY <1>1, <1>3, <2>1 DEF Moved, Places
  <1>4. ASSUME NEW a \in Jobs, NEW b \in Jobs, queue' = q \o <<a, b>>, New(a), New(b)
        PROVE  Moved(d)
    <2> DEFINE r == Append(q, a)
    <2>1. /\ r \in Seq(Jobs) /\ Len(r) = Len(q) + 1
          /\ \A i \in 1..Len(q) : r[i] = q[i]
          /\ r[Len(q) + 1] = a
      BY <1>1, AppendShape
    <2>2. queue' = Append(r, b)
      BY <1>1, <1>4, JoinTwo
    <2> HIDE DEF r
    <2>3. /\ Len(queue') = Len(r) + 1
          /\ \A i \in 1..Len(r) : queue'[i] = r[i]
          /\ queue'[Len(r) + 1] = b
      BY <2>1, <2>2, AppendShape
    <2>4. /\ Len(queue') = Len(q) + 2
          /\ \A i \in 1..Len(q) : queue'[i] = q[i]
          /\ queue'[Len(q) + 1] = a /\ queue'[Len(q) + 2] = b
      BY <1>1, <2>1, <2>3
    <2>5. QED
      BY <1>1, <1>4, <2>4 DEF Moved, Places
  <1>5. QED
    BY <1>2, <1>3, <1>4

\* A step that makes no connection and takes no payloads.
LEMMA CloseKept ==
  ASSUME CloseInv, TypeInv', NEW d \in {0, 1}, Moved(d), opened' = opened,
         \/ sat'.conn = sat.conn /\ sat'.server = sat.server
         \/ sat'.conn = 0 /\ sat'.server = 0,
         Cleared'
  PROVE  CloseInv'
  <1>1. /\ Len(queue) \in Nat /\ sat.server \in Nat /\ opened \in Nat
        /\ \A i \in Places : queue[i].conn \in Nat /\ queue[i].key \in Nat
        /\ \A i \in Places' : i \in Nat
    BY CloseNumbers DEF CloseInv, Places
  <1>2. sat'.server <= sat.server /\ sat'.server \in Nat
    BY <1>1
  <1>3. \A i \in Places' : \/ i + d \in Places /\ queue'[i] = queue[i + d]
                           \/ i + d > Len(queue) /\ New(queue'[i])
    BY DEF Moved
  <1>4. \A i \in Places' : queue'[i].kind = "hello" => i + d \in Places /\ queue'[i] = queue[i + d]
    BY <1>3 DEF New
  <1>5. KeysMade'
    <2>1. /\ sat.conn \in {0, opened} /\ sat.server <= opened
          /\ \A i \in Places : queue[i].kind \in Noise1 => queue[i].key <= opened
          /\ \A i \in Places : queue[i].kind = "hello" => queue[i].conn <= opened
      BY DEF CloseInv, KeysMade
    <2>2. \A i \in Places' : queue'[i].kind \in Noise1 => queue'[i].key <= opened
      BY <1>1, <1>3, <2>1 DEF New
    <2>3. \A i \in Places' : queue'[i].kind = "hello" => queue'[i].conn <= opened
      BY <1>4, <2>1
    <2>4. sat'.conn \in {0, opened} /\ sat'.server <= opened
      BY <1>1, <1>2, <2>1
    <2>5. QED
      BY <2>2, <2>3, <2>4 DEF KeysMade
  <1>6. HellosInOrder'
    <2> SUFFICES ASSUME NEW i \in Places', NEW j \in Places', i < j, queue'[i].kind = "hello"
                 PROVE  /\ queue'[j].kind = "hello" => queue'[i].conn < queue'[j].conn
                        /\ queue'[j].kind \notin Noise2
      BY DEF HellosInOrder
    <2>1. i + d \in Places /\ queue'[i] = queue[i + d] /\ i + d < j + d
      BY <1>1, <1>4
    <2>2. CASE j + d \in Places /\ queue'[j] = queue[j + d]
      BY <2>1, <2>2 DEF CloseInv, HellosInOrder
    <2>3. CASE New(queue'[j])
      BY <2>1, <2>3 DEF New
    <2>4. QED
      BY <1>3, <2>2, <2>3
  <1>7. HellosAhead'
    <2> SUFFICES ASSUME NEW i \in Places', queue'[i].kind = "hello"
                 PROVE  /\ sat'.server < queue'[i].conn
                        /\ \A j \in Places' :
                             queue'[j].kind \in Noise1 => queue'[j].key < queue'[i].conn
      BY DEF HellosAhead
    <2>1. i + d \in Places /\ queue'[i] = queue[i + d] /\ queue[i + d].conn \in Nat
      BY <1>1, <1>4
    <2>2. /\ sat.server < queue'[i].conn
          /\ \A j \in Places : queue[j].kind \in Noise1 => queue[j].key < queue'[i].conn
      BY <2>1 DEF CloseInv, HellosAhead
    <2>3. QED
      BY <1>1, <1>2, <1>3, <2>1, <2>2 DEF New
  <1>8. QED
    BY <1>5, <1>6, <1>7 DEF CloseInv

\* A step that closes the connection, or leaves it as it is and answers nothing.
LEMMA ClearedKept ==
  ASSUME CloseInv, NEW d \in {0, 1}, Moved(d),
         \/ /\ sat'.conn = sat.conn /\ sat'.event = sat.event /\ sat'.server = sat.server
            /\ sat'.transport = sat.transport /\ sat'.noise \in {sat.noise, sat.server}
         \/ /\ sat'.conn = 0 /\ ~sat'.event /\ sat'.server = 0
            /\ sat'.transport = 0 /\ sat'.noise = 0
  PROVE  Cleared'
  <1> SUFFICES ASSUME sat.conn = 0
               PROVE  Queued(Noise2)' => Queued(Noise2)
    BY DEF CloseInv, Cleared
  <1>1. QED
    BY DEF Moved, New, Queued

LEMMA CloseInit == Init => CloseInv
  <1> SUFFICES ASSUME Init
               PROVE  CloseInv
    OBVIOUS
  <1>1. TypeInv
    BY TypeInit
  <1>2. Places = {}
    BY DEF Init, Places
  <1> HIDE DEF Places
  <1>3. KeysMade /\ HellosInOrder /\ HellosAhead /\ Cleared
    BY <1>2 DEF Init, Down, KeysMade, HellosInOrder, HellosAhead, Cleared, Queued
  <1>4. QED
    BY <1>1, <1>3 DEF CloseInv

\* A HELLO is taken: no message 2 is behind it, and no payloads are older.
LEMMA CloseHello ==
  ASSUME CloseInv, TypeInv', RunHello
  PROVE  CloseInv'
  <1>1. /\ queue # <<>> /\ Head(queue).kind = "hello" /\ queue' = Tail(queue) \o <<>>
        /\ sat' = [sat EXCEPT !.server = Head(queue).conn] /\ opened' = opened
    BY DEF RunHello, Dispatch, Run, Then
  <1>2. /\ 1 \in Places /\ Head(queue) = queue[1] /\ sat \in Satellites
        /\ \A i \in Places' : i + 1 \in Places /\ queue'[i] = queue[i + 1] /\ 1 < i + 1
        /\ opened \in Nat /\ sat.server \in Nat /\ \A i \in Places' : i \in Nat
        /\ \A i \in Places : queue[i].conn \in Nat /\ queue[i].key \in Nat
    <2>1. TypeInv
      BY DEF CloseInv
    <2>2. /\ 1 \in Places /\ Head(queue) = queue[1]
          /\ \A i \in Places' : i + 1 \in Places /\ queue'[i] = queue[i + 1]
      BY <1>1, <2>1, Dropped
    <2>3. \A i \in Places' : i \in Nat /\ 1 < i + 1
      BY DEF Places
    <2>4. QED
      BY <2>1, <2>2, <2>3, CloseNumbers
  <1>3. /\ sat'.conn = sat.conn /\ sat'.event = sat.event /\ sat'.transport = sat.transport
        /\ sat'.server = queue[1].conn
    BY <1>1, <1>2, SatUpdates
  <1>4. KeysMade'
    BY <1>1, <1>2, <1>3 DEF CloseInv, KeysMade
  <1>5. HellosInOrder'
    <2> SUFFICES ASSUME NEW i \in Places', NEW j \in Places', i < j, queue'[i].kind = "hello"
                 PROVE  /\ queue'[j].kind = "hello" => queue'[i].conn < queue'[j].conn
                        /\ queue'[j].kind \notin Noise2
      BY DEF HellosInOrder
    <2>1. i + 1 < j + 1
      BY <1>2
    <2>2. QED
      BY <1>2, <2>1 DEF CloseInv, HellosInOrder
  <1>6. HellosAhead'
    BY <1>1, <1>2, <1>3 DEF CloseInv, HellosInOrder, HellosAhead
  <1>7. Cleared'
    <2>1. ~Queued(Noise2)'
      BY <1>1, <1>2 DEF CloseInv, HellosInOrder, Queued
    <2>2. QED
      BY <1>3, <2>1 DEF CloseInv, Cleared
  <1>8. QED
    BY <1>4, <1>5, <1>6, <1>7 DEF CloseInv

\* A new connection: its HELLO is the last.
LEMMA CloseConnection ==
  ASSUME CloseInv, TypeInv', RunConnect \/ RunConnectRaises, NewConnection
  PROVE  CloseInv'
  <1> DEFINE n == opened + 1
             a == Job("hello", n, 0)
             b == Job("handshake", n, 0)
             t == Tail(queue)
  <1>1. /\ queue # <<>> /\ opened' = n /\ sat' = [sat EXCEPT !.conn = n]
        /\ Head(queue).kind = "connect"
    BY DEF RunConnect, RunConnectRaises, Run, NewConnection
  <1>2. /\ opened \in Nat /\ sat.server \in Nat /\ sat.server <= opened /\ sat \in Satellites
        /\ \A i \in Places : queue[i].conn \in Nat /\ queue[i].key \in Nat
        /\ \A i \in Places : queue[i].kind \in Noise1 => queue[i].key <= opened
        /\ \A i \in Places : queue[i].kind = "hello" => queue[i].conn <= opened
    BY CloseNumbers DEF CloseInv, KeysMade
  <1>3. /\ a \in Jobs /\ a.kind = "hello" /\ a.conn = n /\ b \in Jobs /\ b.kind = "handshake"
    <2>1. "hello" \in Kinds /\ "handshake" \in Kinds /\ n \in Numbers /\ 0 \in Numbers
      BY <1>1, ThenType, ConstantsAssumption
         DEF CloseInv, Kinds, Downs, ConstantsAssumption, Numbers
    <2>2. QED
      BY <2>1, JobType
  <1>4. Greeting(a, b)
    <2>1. Greetings = <<a, b>> /\ Head(<<a, b>>) = a
      BY DEF Greetings
    <2>2. queue' \in {t \o <<>>, t \o <<a>>, t \o <<a, b>>}
      <3>1. CASE RunConnect
        BY <2>1, <3>1 DEF RunConnect, Then
      <3>2. CASE RunConnectRaises
        BY <1>1, <1>2, <2>1, <3>2 DEF RunConnectRaises, Then
      <3>3. QED
        BY <3>1, <3>2
    <2> HIDE DEF a, b
    <2>3. QED
      BY <1>1, <1>3, <2>2, GreetingShape DEF CloseInv
  <1> HIDE DEF a, b
  <1>5. /\ Len(queue) \in Nat
        /\ \A i \in Places' :
             \/ i < Len(queue) /\ i + 1 \in Places /\ queue'[i] = queue[i + 1]
             \/ i = Len(queue) /\ queue'[i] = a
             \/ i = Len(queue) + 1 /\ queue'[i] = b
    BY <1>4 DEF Greeting
  <1>6. sat'.conn = n /\ sat'.server = sat.server /\ \A i \in Places' : i \in Nat
    BY <1>1, <1>2, SatUpdates DEF Places
  <1>7. KeysMade'
    BY <1>1, <1>2, <1>3, <1>5, <1>6 DEF KeysMade, Noise1
  <1>8. HellosInOrder'
    <2> SUFFICES ASSUME NEW i \in Places', NEW j \in Places', i < j, queue'[i].kind = "hello"
                 PROVE  /\ queue'[j].kind = "hello" => queue'[i].conn < queue'[j].conn
                        /\ queue'[j].kind \notin Noise2
      BY DEF HellosInOrder
    <2>1. CASE j < Len(queue)
      <3>1. /\ i + 1 \in Places /\ queue'[i] = queue[i + 1] /\ i + 1 < j + 1
            /\ j + 1 \in Places /\ queue'[j] = queue[j + 1]
        BY <1>5, <1>6, <2>1
      <3>2. QED
        BY <3>1 DEF CloseInv, HellosInOrder
    <2>2. CASE ~(j < Len(queue))
      <3>1. queue'[j] = a \/ queue'[j] = b
        BY <1>5, <2>2
      <3>2. queue'[j] = a => i + 1 \in Places /\ queue'[i] = queue[i + 1]
        BY <1>3, <1>5, <1>6
      <3>3. QED
        BY <1>1, <1>2, <1>3, <3>1, <3>2 DEF Noise2
    <2>3. QED
      BY <2>1, <2>2
  <1>9. HellosAhead'
    <2>1. \A i \in Places' : queue'[i].kind \in Noise1 => queue'[i].key < n /\ queue'[i].key \in Nat
      BY <1>2, <1>3, <1>5 DEF Noise1
    <2>2. \A i \in Places' : queue'[i].kind = "hello" =>
            queue'[i] = a \/ (i + 1 \in Places /\ queue'[i] = queue[i + 1])
      BY <1>3, <1>5
    <2>3. \A i \in Places' :
            queue'[i].kind \in Noise1 => i + 1 \in Places /\ queue'[i] = queue[i + 1]
      BY <1>3, <1>5 DEF Noise1
    <2>4. QED
      BY <1>2, <1>3, <1>6, <2>1, <2>2, <2>3 DEF CloseInv, HellosAhead
  <1>10. Cleared'
    BY <1>2, <1>6 DEF Cleared
  <1>11. QED
    BY <1>7, <1>8, <1>9, <1>10 DEF CloseInv

\* A step that moves the queue, and leaves the connection as it is or closes it.
LEMMA CloseMoves ==
  ASSUME CloseInv, TypeInv', NEW d \in {0, 1}, Moved(d), opened' = opened,
         \/ sat' = sat \/ sat' = [sat EXCEPT !.master = TRUE]
         \/ sat' = [sat EXCEPT !.noise = sat.server]
         \/ sat' = ForgetSession(sat) \/ sat' = ForgetSession([sat EXCEPT !.master = FALSE])
  PROVE  CloseInv'
  <1>1. \/ /\ sat'.conn = sat.conn /\ sat'.event = sat.event /\ sat'.server = sat.server
           /\ sat'.transport = sat.transport /\ sat'.noise \in {sat.noise, sat.server}
        \/ /\ sat'.conn = 0 /\ ~sat'.event /\ sat'.server = 0
           /\ sat'.transport = 0 /\ sat'.noise = 0
    <2>1. sat \in Satellites
      BY DEF CloseInv, TypeInv, TypeOK
    <2>2. QED
      BY <2>1 DEF Satellites, ForgetSession
  <1>2. Cleared'
    BY <1>1, ClearedKept
  <1>3. QED
    BY <1>1, <1>2, CloseKept

\* The jobs a step queues, other than a HELLO.
LEMMA NewJob ==
  ASSUME CloseInv, NEW kind \in Kinds \ {"hello"}, NEW c \in Numbers, NEW k \in Numbers,
         kind \in Noise1 => k = sat.server,
         kind \in Noise2 => sat.conn # 0 /\ \A i \in Places : queue[i].kind # "hello"
  PROVE  Job(kind, c, k) \in Jobs /\ New(Job(kind, c, k))
  <1>1. /\ Job(kind, c, k) \in Jobs /\ Job(kind, c, k).kind = kind
        /\ Job(kind, c, k).key = k
    BY JobType
  <1>2. QED
    BY <1>1 DEF New

LEMMA CloseStep == CloseInv /\ [Next]_vars => CloseInv'
  <1> SUFFICES ASSUME CloseInv, [Next]_vars
               PROVE  CloseInv'
    OBVIOUS
  <1>1. TypeInv /\ TypeInv'
    BY TypeStep DEF CloseInv
  <1>2. /\ queue \in Seq(Jobs) /\ queue \o <<>> = queue /\ 0 \in Numbers
        /\ sat.conn \in Numbers /\ sat.server \in Numbers /\ sat.noise \in Numbers
    <2>1. queue \in Seq(Jobs) /\ sat \in Satellites /\ 0 \in Numbers
      BY <1>1, ConstantsAssumption DEF TypeInv, TypeOK, ConstantsAssumption, Numbers
    <2>2. queue \o <<>> = queue
      BY <2>1
    <2>3. QED
      BY <2>1, <2>2, SatFields
  <1>3. {"connect", "start", "data", "app", "xx1", "kk1", "xx2", "kk2", "xx3", "hi"}
          \subseteq Kinds \ {"hello"}
    BY DEF Kinds, Ups, Downs, Others
  <1>4. ASSUME UNCHANGED <<queue, opened>>,
               \/ sat' = sat \/ sat' = ForgetSession(sat)
               \/ sat' = ForgetSession([sat EXCEPT !.master = FALSE])
        PROVE  CloseInv'
    <2>1. Moved(0)
      BY <1>1, <1>4, MovedShape
    <2>2. QED
      BY <1>1, <1>4, <2>1, CloseMoves
  <1>5. ASSUME queue # <<>>, queue' = Tail(queue) \o <<>>, opened' = opened,
               \/ sat' = sat \/ sat' = [sat EXCEPT !.noise = sat.server]
               \/ sat' = ForgetSession([sat EXCEPT !.master = FALSE])
        PROVE  CloseInv'
    <2>1. Moved(1)
      BY <1>1, <1>5, MovedShape
    <2>2. QED
      BY <1>1, <1>5, <2>1, CloseMoves
  <1>6. CASE Connect
    <2> DEFINE a == Job("connect", 0, 0)
               b == Job("start", 0, 0)
    <2>1. a \in Jobs /\ New(a) /\ b \in Jobs /\ New(b)
      BY CalledJobs DEF New, Noise1, Noise2
    <2>2. /\ queue' = queue \o <<a>> \/ queue' = queue \o <<a, b>>
          /\ sat' = [sat EXCEPT !.master = TRUE] /\ opened' = opened
      BY <1>6 DEF Connect
    <2> HIDE DEF a, b
    <2>3. Moved(0)
      BY <1>1, <2>1, <2>2, MovedShape
    <2>4. QED
      BY <1>1, <2>2, <2>3, CloseMoves
  <1>7. CASE CallReturns
    <2> DEFINE b == Job("start", 0, 0)
    <2>1. b \in Jobs /\ New(b)
      BY CalledJobs DEF New, Noise1, Noise2
    <2>2. /\ queue = <<>> /\ sat' = sat /\ opened' = opened
          /\ queue' = <<b>> \/ queue' = queue
      BY <1>7 DEF CallReturns
    <2> HIDE DEF b
    <2>3. <<>> \in Seq(Jobs) /\ <<b>> = Append(<<>>, b)
      OBVIOUS
    <2>4. queue' = queue \/ queue' = queue \o <<b>>
      BY <2>1, <2>2, <2>3, AppendShape
    <2>5. Moved(0)
      BY <1>1, <2>1, <2>4, MovedShape
    <2>6. QED
      BY <1>1, <2>2, <2>5, CloseMoves
  <1>8. CASE Send
    <2> DEFINE job == Job("data", sat.conn, 0)
    <2>1. job \in Jobs /\ New(job)
      BY <1>2, <1>3, NewJob DEF Noise1, Noise2
    <2> HIDE DEF job
    <2>2. queue' = Append(queue, job) /\ sat' = sat /\ opened' = opened
      BY <1>8 DEF Send, DeliverNew, job
    <2>3. queue' = queue \o <<job>>
      BY <1>2, <2>1, <2>2, AppendShape
    <2>4. Moved(0)
      BY <1>1, <2>1, <2>3, MovedShape
    <2>5. QED
      BY <1>1, <2>2, <2>4, CloseMoves
  <1>9. ASSUME NEW c \in clients, SendToSatellite(c)
        PROVE  CloseInv'
    <2> DEFINE k == IF c \in keyed THEN c ELSE 0
               job == Job("app", sat.conn, k)
    <2>1. k \in Numbers
      BY <1>1, <1>2 DEF TypeInv, TypeOK
    <2> HIDE DEF k
    <2>2. job \in Jobs /\ New(job)
      BY <1>2, <1>3, <2>1, NewJob DEF Noise1, Noise2
    <2> HIDE DEF job
    <2>3. /\ queue' = queue \o <<job>> \/ queue' = queue \o <<>>
          /\ sat' = sat /\ opened' = opened
      BY <1>9 DEF SendToSatellite, Frames, job, k
    <2>4. Moved(0)
      BY <1>1, <2>2, <2>3, MovedShape
    <2>5. QED
      BY <1>1, <2>3, <2>4, CloseMoves
  <1>10. CASE Disconnect \/ MasterCloses \/ HandlerRaises \/ UNCHANGED vars
    <2>1. /\ UNCHANGED <<queue, opened>>
          /\ \/ sat' = sat \/ sat' = ForgetSession(sat)
             \/ sat' = ForgetSession([sat EXCEPT !.master = FALSE])
      BY <1>10 DEF Disconnect, MasterCloses, OnDisconnect, HandlerRaises, vars
    <2>2. QED
      BY <1>4, <2>1
  <1>11. CASE RunConnect \/ RunConnectRaises
    <2>1. \/ NewConnection
          \/ queue # <<>> /\ queue' = Tail(queue) \o <<>> /\ UNCHANGED <<sat, opened>>
      BY <1>11 DEF RunConnect, RunConnectRaises, Run, Then
    <2>2. QED
      BY <1>1, <1>5, <1>11, <2>1, CloseConnection
  <1>12. CASE RunStart \/ RunHandshake
    <2> DEFINE kind == IF pinned THEN "kk1" ELSE "xx1"
               job == Job(kind, sat.conn, sat.server)
    <2>1. /\ queue # <<>> /\ sat' = [sat EXCEPT !.noise = sat.server] /\ opened' = opened
          /\ queue' = Tail(queue) \o <<job>> \/ queue' = Tail(queue) \o <<>>
      BY <1>12 DEF RunStart, RunHandshake, Dispatch, Run, StartNoise, Then
    <2>2. kind \in Kinds \ {"hello"} /\ kind \notin Noise2
      BY <1>3 DEF Noise2
    <2> HIDE DEF kind
    <2>3. job \in Jobs /\ New(job)
      BY <1>2, <2>2, NewJob
    <2> HIDE DEF job
    <2>4. Moved(1)
      BY <1>1, <2>1, <2>3, MovedShape
    <2>5. QED
      BY <1>1, <2>1, <2>4, CloseMoves
  <1>13. CASE DecodeError \/ RunApp \/ RunUpClosed \/ RunMessage
    <2>1. /\ queue # <<>> /\ queue' = Tail(queue) \o <<>> /\ UNCHANGED <<sat, opened>>
      BY <1>13 DEF DecodeError, RunApp, RunUpClosed, RunMessage, RunUp, Dispatch, Run, Then
    <2>2. QED
      BY <1>5, <2>1
  <1>14. CASE RunHello
    BY <1>1, <1>14, CloseHello
  <1>15. CASE RunNoise2
    <2> DEFINE a == Job("xx3", sat.conn, sat.noise)
               b == Job("hi", sat.conn, 0)
    <2>1. a \in Jobs /\ New(a) /\ b \in Jobs /\ New(b)
      BY <1>2, <1>3, NewJob DEF Noise1, Noise2
    <2>2. queue # <<>> /\ Head(queue).kind \in Noise2 /\ opened' = opened
      BY <1>15 DEF RunNoise2, Dispatch, Run, Noise2
    <2>3. CASE sat.noise = 0
      BY <1>5, <1>15, <2>2, <2>3 DEF RunNoise2, Then
    <2>4. CASE sat.noise # 0
      <3>1. /\ sat' = [sat EXCEPT !.transport = sat.noise, !.event = TRUE, !.noise = 0]
            /\ queue' = Tail(queue) \o <<a, b>> \/ queue' = Tail(queue) \o <<b>>
        BY <1>15, <2>4 DEF RunNoise2, Then
      <3> HIDE DEF a, b
      <3>2. Moved(1)
        BY <1>1, <2>1, <2>2, <3>1, MovedShape
      <3>3. sat'.conn = sat.conn /\ sat'.server = sat.server
        BY <1>1, <3>1, SatUpdates DEF TypeInv, TypeOK
      <3>4. sat.conn # 0
        <4>1. Queued(Noise2)
          BY <1>2, <2>2, TailShape DEF Queued, Places
        <4>2. QED
          BY <2>4, <4>1 DEF CloseInv, Cleared
      <3>5. QED
        BY <1>1, <2>2, <3>2, <3>3, <3>4, CloseKept DEF Cleared
    <2>5. QED
      BY <2>3, <2>4
  <1>16. CASE RunNoise1 \/ RunNoise3
    <2> DEFINE kind == IF Head(queue).kind = "kk1" THEN "kk2" ELSE "xx2"
               job == Job(kind, sat.conn, 0)
    <2>1. queue # <<>> /\ Connected /\ opened' = opened
      BY <1>16 DEF RunNoise1, RunNoise3, RunUp, Run
    <2>2. \/ /\ queue' = Tail(queue) \o <<>>
             /\ sat' = sat \/ sat' = ForgetSession([sat EXCEPT !.master = FALSE])
          \/ /\ Head(queue).kind \in Noise1 /\ Head(queue).key = sat.conn
             /\ queue' = Tail(queue) \o <<job>> /\ sat' = sat
      BY <1>16
         DEF RunNoise1, RunNoise3, RunUp, Run, OwnPrologue, OnDisconnect, SendNoise2, Then, Noise1
    <2>3. CASE /\ Head(queue).kind \in Noise1 /\ Head(queue).key = sat.conn
               /\ queue' = Tail(queue) \o <<job>> /\ sat' = sat
      <3>1. 1 \in Places /\ queue[1].kind \in Noise1 /\ queue[1].key = sat.conn
        BY <1>2, <2>1, <2>3, TailShape DEF Places
      <3>2. \A i \in Places : queue[i].kind # "hello"
        BY <1>1, <2>1, <3>1, CloseNumbers DEF CloseInv, KeysMade, HellosAhead, Connected
      <3>3. kind \in Kinds \ {"hello"} /\ kind \notin Noise1
        BY <1>3 DEF Noise1
      <3> HIDE DEF kind
      <3>4. job \in Jobs /\ New(job)
        BY <1>2, <2>1, <3>2, <3>3, NewJob DEF Connected
      <3> HIDE DEF job
      <3>5. Moved(1)
        BY <1>1, <2>1, <2>3, <3>4, MovedShape
      <3>6. QED
        BY <1>1, <2>1, <2>3, <3>5, CloseMoves
    <2>4. QED
      BY <1>5, <2>1, <2>2, <2>3
  <1>17. QED
    BY <1>6, <1>7, <1>8, <1>9, <1>10, <1>11, <1>12, <1>13, <1>14, <1>15, <1>16 DEF Next, Drain

\* A node whose connection is closed, by either side or by a handshake that the
\* master rejects, holds nothing of the session, and nothing that an exception
\* left in the queue brings it back, even if connect was called over a
\* connection in use.
THEOREM NothingSurvivesCloseAlways == Spec => []NothingSurvivesClose
  <1>1. CloseInv => NothingSurvivesClose
    BY DEF CloseInv, Cleared, NothingSurvivesClose
  <1>2. QED
    BY <1>1, CloseInit, CloseStep, PTL DEF Spec

=============================================================================
