----------------------- MODULE ProbeAssertionsProofs -----------------------
(***************************************************************************)
(* Theorems about ProbeAssertions, for every number of satellites, types,  *)
(* probes and messages per probe, and for every timeout and pause.         *)
(***************************************************************************)
EXTENDS ProbeAssertions, FiniteSetTheorems, SequenceTheorems, WellFoundedInduction, TLAPS

-----------------------------------------------------------------------------
(***************************************************************************)
(* The first and the last place of a set of places.                        *)
(***************************************************************************)
Less == {ss \in Nat \X Nat : ss[1] < ss[2]}

LEMMA LessWF == IsWellFoundedOn(Less, Nat)
  BY NatLessThanWellFounded DEF OpToRel, Less

LEMMA HasLeast ==
  ASSUME NEW S \in SUBSET Nat, S # {}
  PROVE  \E x \in S : \A y \in S : x <= y
  <1>1. PICK x \in S : \A y \in S : ~(<<y, x>> \in Less)
    BY LessWF, WFMin
  <1>2. \A y \in S : <<y, x>> \in Nat \X Nat /\ <<y, x>>[1] = y /\ <<y, x>>[2] = x
    OBVIOUS
  <1>3. \A y \in S : ~(y < x)
    BY <1>1, <1>2 DEF Less
  <1>4. \A y \in S : y \in Nat /\ x \in Nat
    OBVIOUS
  <1>5. QED
    BY <1>3, <1>4

LEMMA MinIn ==
  ASSUME NEW S \in SUBSET Nat, S # {}
  PROVE  Min(S) \in S
  BY HasLeast DEF Min

LEMMA MaxIn ==
  ASSUME NEW n \in Nat, NEW S \in SUBSET (1..n), S # {}
  PROVE  Max(S) \in S
  <1> DEFINE T == {k \in Nat : \E x \in S : k = n - x}
  <1>1. T \in SUBSET Nat /\ T # {}
    <2>1. PICK x \in S : TRUE
      OBVIOUS
    <2>2. x \in 1..n /\ n - x \in Nat
      BY <2>1
    <2>3. n - x \in T
      BY <2>1, <2>2
    <2>4. QED
      BY <2>3
  <1> HIDE DEF T
  <1>2. PICK k \in T : \A y \in T : k <= y
    BY <1>1, HasLeast
  <1>3. PICK x \in S : k = n - x
    BY <1>2 DEF T
  <1>4. \A y \in S : n - y \in T /\ y \in 1..n
    BY DEF T
  <1>5. \A y \in S : x >= y
    BY <1>2, <1>3, <1>4
  <1>6. QED
    BY <1>5 DEF Max

-----------------------------------------------------------------------------
(***************************************************************************)
(* Messages, records and calls.                                            *)
(***************************************************************************)
Types == {"propagate", "query", "bus"} \cup Kinds \cup {NoKind}
Bodies == {"probe", "answer", "denied", "admitted", "refused"}
Dirs == {"in", "out", "bus_inject"}
Pcs == {"idle", "sent", "look", "check", "final", "wait", "again", "settle", "others", "passed",
        "failed"}

Messages ==
  [type : Types, kind : Kinds \cup {NoKind}, body : Bodies, peer : Nodes, probe : Nat, seq : Nat]
Records ==
  [type : Types, kind : Kinds \cup {NoKind}, body : Bodies, peer : Nodes, probe : Nat, seq : Nat,
   dir : Dirs, at : Nat]
Calls ==
  [pc : Pcs, helper : Helpers, sat : Nodes, kind : Kinds \cup {NoKind}, peer : Nodes \cup {NoPeer},
   probe : Nat, since : Nat, deadline : Nat, clean : BOOLEAN, strict : BOOLEAN,
   allowed : BOOLEAN, window : Int, left : SUBSET Satellites, bad : BOOLEAN]

LEMMA MessageType ==
  ASSUME NEW type \in Types, NEW kind \in Kinds \cup {NoKind}, NEW body \in Bodies,
         NEW peer \in Nodes, NEW probe \in Nat, NEW seq \in Nat
  PROVE  LET m == Message(type, kind, body, peer, probe, seq)
         IN  /\ m \in Messages
             /\ m.type = type /\ m.kind = kind /\ m.body = body
             /\ m.peer = peer /\ m.probe = probe /\ m.seq = seq
  BY DEF Message, Messages

LEMMA StampedType ==
  ASSUME NEW m \in Messages, NEW dir \in Dirs, clock \in Nat
  PROVE  LET r == Stamped(m, dir)
         IN  /\ r \in Records
             /\ r.type = m.type /\ r.kind = m.kind /\ r.body = m.body
             /\ r.peer = m.peer /\ r.probe = m.probe /\ r.seq = m.seq
             /\ r.dir = dir /\ r.at = clock
  BY DEF Stamped, Messages, Records

LEMMA PeerType ==
  ASSUME NEW m \in Messages, NEW peer \in Nodes
  PROVE  LET a == [m EXCEPT !.peer = peer]
         IN  /\ a \in Messages
             /\ a.type = m.type /\ a.kind = m.kind /\ a.body = m.body
             /\ a.peer = peer /\ a.probe = m.probe /\ a.seq = m.seq
  BY DEF Messages

\* What a helper leaves of the call it works for.
SameProbe(c, d) ==
  /\ d.helper = c.helper /\ d.sat = c.sat /\ d.probe = c.probe
  /\ d.since = c.since /\ d.clean = c.clean
SameQuestion(c, d) ==
  d.kind = c.kind /\ d.peer = c.peer /\ d.strict = c.strict /\ d.allowed = c.allowed
SameWait(c, d) ==
  d.deadline = c.deadline /\ d.window = c.window /\ d.left = c.left /\ d.bad = c.bad

-----------------------------------------------------------------------------
(***************************************************************************)
(* What is left of the records and the queues when something is added at   *)
(* the end or taken out.                                                   *)
(***************************************************************************)
Grown(N, r, r2, n, new) ==
  /\ \A m \in N : \A i \in DOMAIN r[m] : i \in DOMAIN r2[m] /\ r2[m][i] = r[m][i]
  /\ \A m \in N : \A i \in DOMAIN r2[m] :
       \/ i \in DOMAIN r[m]
       \/ m = n /\ \E k \in 1..Len(new) : i = Len(r[n]) + k /\ r2[m][i] = new[k]
  /\ \A k \in 1..Len(new) :
       Len(r[n]) + k \in DOMAIN r2[n] /\ r2[n][Len(r[n]) + k] = new[k]

Shrunk(q, q2, s, i) ==
  /\ \A o \in Satellites : o # s => q2[o] = q[o]
  /\ Len(q2[s]) = Len(q[s]) - 1
  /\ \A k \in 1..Len(q2[s]) : q2[s][k] = q[s][IF k < i THEN k ELSE k + 1]

LEMMA JoinShape ==
  ASSUME NEW T, NEW q \in Seq(T), NEW new \in Seq(T)
  PROVE  LET p == q \o new
         IN  /\ p \in Seq(T)
             /\ Len(q) \in Nat /\ Len(new) \in Nat /\ Len(p) = Len(q) + Len(new)
             /\ DOMAIN q = 1..Len(q) /\ DOMAIN p = 1..(Len(q) + Len(new))
             /\ \A i \in 1..Len(q) : p[i] = q[i]
             /\ \A k \in 1..Len(new) : p[Len(q) + k] = new[k]
  OBVIOUS

LEMMA GrownShape ==
  ASSUME NEW N, NEW T, NEW r \in [N -> Seq(T)], NEW n \in N, NEW new \in Seq(T)
  PROVE  LET r2 == [r EXCEPT ![n] = @ \o new]
         IN  r2 \in [N -> Seq(T)] /\ Grown(N, r, r2, n, new)
  <1> DEFINE r2 == [r EXCEPT ![n] = @ \o new]
             p == r[n] \o new
  <1>1. /\ p \in Seq(T)
        /\ Len(r[n]) \in Nat /\ Len(new) \in Nat
        /\ DOMAIN r[n] = 1..Len(r[n]) /\ DOMAIN p = 1..(Len(r[n]) + Len(new))
        /\ \A i \in 1..Len(r[n]) : p[i] = r[n][i]
        /\ \A k \in 1..Len(new) : p[Len(r[n]) + k] = new[k]
    BY JoinShape
  <1>2. /\ r2[n] = p /\ \A m \in N : m # n => r2[m] = r[m]
        /\ DOMAIN r = N
    OBVIOUS
  <1> HIDE DEF p
  <1>3. r2 \in [N -> Seq(T)]
    BY <1>1 DEF p
  <1> HIDE DEF r2
  <1>4. \A m \in N : \A i \in DOMAIN r[m] : i \in DOMAIN r2[m] /\ r2[m][i] = r[m][i]
    <2>1. \A i \in DOMAIN r[n] : i \in DOMAIN r2[n] /\ r2[n][i] = r[n][i]
      BY <1>1, <1>2
    <2>2. QED
      BY <1>2, <2>1
  <1>5. ASSUME NEW m \in N, NEW i \in DOMAIN r2[m], i \notin DOMAIN r[m]
        PROVE  m = n /\ \E k \in 1..Len(new) : i = Len(r[n]) + k /\ r2[m][i] = new[k]
    <2>1. m = n /\ i \in 1..(Len(r[n]) + Len(new)) /\ ~(i <= Len(r[n]))
      BY <1>1, <1>2, <1>5
    <2>2. i - Len(r[n]) \in 1..Len(new) /\ i = Len(r[n]) + (i - Len(r[n]))
      BY <1>1, <2>1
    <2>3. p[i] = new[i - Len(r[n])]
      BY <1>1, <2>2
    <2>4. QED
      BY <1>2, <2>1, <2>2, <2>3
  <1>6. \A k \in 1..Len(new) : Len(r[n]) + k \in DOMAIN r2[n] /\ r2[n][Len(r[n]) + k] = new[k]
    BY <1>1, <1>2
  <1>7. Grown(N, r, r2, n, new)
    BY <1>2, <1>4, <1>5, <1>6 DEF Grown
  <1>8. QED
    BY <1>3, <1>7 DEF r2

LEMMA RemovedShape ==
  ASSUME NEW T, NEW q \in Seq(T), NEW i \in DOMAIN q
  PROVE  LET p == RemoveAt(q, i)
         IN  /\ p \in Seq(T) /\ Len(q) \in Nat
             /\ DOMAIN q = 1..Len(q) /\ DOMAIN p = 1..(Len(q) - 1)
             /\ Len(p) = Len(q) - 1
             /\ \A k \in 1..(Len(q) - 1) : p[k] = q[IF k < i THEN k ELSE k + 1]
  <1> DEFINE a == SubSeq(q, 1, i - 1)
             b == SubSeq(q, i + 1, Len(q))
  <1>1. /\ Len(q) \in Nat /\ DOMAIN q = 1..Len(q) /\ i \in 1..Len(q)
    OBVIOUS
  <1>2. /\ a \in Seq(T) /\ Len(a) = i - 1 /\ \A k \in 1..(i - 1) : a[k] = q[k]
    BY <1>1
  <1>3. /\ b \in Seq(T) /\ Len(b) = Len(q) - i /\ \A k \in 1..(Len(q) - i) : b[k] = q[i + k]
    BY <1>1
  <1> HIDE DEF a, b
  <1>4. /\ a \o b \in Seq(T) /\ DOMAIN (a \o b) = 1..(Len(q) - 1) /\ Len(a \o b) = Len(q) - 1
    <2>0. a \in Seq(T) /\ b \in Seq(T)
      BY <1>2, <1>3
    <2>1. /\ a \o b \in Seq(T) /\ Len(a \o b) = Len(a) + Len(b)
          /\ DOMAIN (a \o b) = 1..(Len(a) + Len(b))
      BY ONLY <2>0, JoinShape
    <2>2. Len(a) + Len(b) = Len(q) - 1
      BY <1>1, <1>2, <1>3
    <2>3. QED
      BY <2>1, <2>2
  <1>5. ASSUME NEW k \in 1..(Len(q) - 1)
        PROVE  (a \o b)[k] = q[IF k < i THEN k ELSE k + 1]
    <2>1. CASE k < i
      BY <1>1, <1>2, <1>3, <2>1
    <2>2. CASE ~(k < i)
      <3>1. k - (i - 1) \in 1..(Len(q) - i) /\ i + (k - (i - 1)) = k + 1
        BY <1>1, <2>2
      <3>2. (a \o b)[k] = b[k - (i - 1)]
        BY <1>1, <1>2, <1>3, <2>2
      <3>3. QED
        BY <1>3, <2>2, <3>1, <3>2
    <2>3. QED
      BY <2>1, <2>2
  <1>6. RemoveAt(q, i) = a \o b
    BY DEF RemoveAt, a, b
  <1>7. QED
    BY <1>1, <1>4, <1>5, <1>6

LEMMA ShrunkShape ==
  ASSUME NEW q \in [Satellites -> Seq(Messages)], NEW s \in Satellites, NEW i \in DOMAIN q[s]
  PROVE  LET q2 == [q EXCEPT ![s] = RemoveAt(@, i)]
         IN  q2 \in [Satellites -> Seq(Messages)] /\ Shrunk(q, q2, s, i)
  <1> DEFINE p == RemoveAt(q[s], i)
             q2 == [q EXCEPT ![s] = RemoveAt(@, i)]
  <1>1. /\ p \in Seq(Messages) /\ Len(p) = Len(q[s]) - 1
        /\ \A k \in 1..(Len(q[s]) - 1) : p[k] = q[s][IF k < i THEN k ELSE k + 1]
    BY RemovedShape
  <1>2. q2[s] = p /\ q2 = [q EXCEPT ![s] = p] /\ \A o \in Satellites : o # s => q2[o] = q[o]
    OBVIOUS
  <1> HIDE DEF p
  <1>3. q2 \in [Satellites -> Seq(Messages)]
    BY <1>1, <1>2
  <1> HIDE DEF q2
  <1>4. QED
    BY <1>1, <1>2, <1>3 DEF Shrunk, q2

LEMMA TailShape ==
  ASSUME NEW q \in [Satellites -> Seq(Messages)], NEW s \in Satellites, q[s] # <<>>
  PROVE  LET q2 == [q EXCEPT ![s] = Tail(@)]
         IN  /\ q2 \in [Satellites -> Seq(Messages)] /\ Shrunk(q, q2, s, 1)
             /\ Head(q[s]) = q[s][1] /\ 1 \in DOMAIN q[s] /\ Head(q[s]) \in Messages
  <1> DEFINE p == Tail(q[s])
             q2 == [q EXCEPT ![s] = Tail(@)]
  <1>1. /\ p \in Seq(Messages) /\ Len(p) = Len(q[s]) - 1 /\ Len(q[s]) \in Nat \ {0}
        /\ \A k \in 1..(Len(q[s]) - 1) : p[k] = q[s][k + 1]
        /\ Head(q[s]) = q[s][1] /\ 1 \in DOMAIN q[s] /\ Head(q[s]) \in Messages
    OBVIOUS
  <1>2. q2[s] = p /\ q2 = [q EXCEPT ![s] = p] /\ \A o \in Satellites : o # s => q2[o] = q[o]
    OBVIOUS
  <1> HIDE DEF p
  <1>3. q2 \in [Satellites -> Seq(Messages)]
    BY <1>1, <1>2
  <1> HIDE DEF q2
  <1>4. \A k \in 1..(Len(q[s]) - 1) : ~(k < 1)
    BY <1>1
  <1>5. QED
    BY <1>1, <1>2, <1>3, <1>4 DEF Shrunk, q2

\* What a queue holds after something was taken out it held before, at another place
\* or the same, and no two of its messages were one before.
KeptFrom(q, q2, s, i) ==
  \A k \in DOMAIN q2[s] : \E j \in DOMAIN q[s] :
    /\ j # i /\ (k < i => j = k) /\ (k >= i => j = k + 1)
    /\ q2[s][k] = q[s][j]

LEMMA ShrunkFrom ==
  ASSUME NEW q \in [Satellites -> Seq(Messages)], NEW q2 \in [Satellites -> Seq(Messages)],
         NEW s \in Satellites, NEW i \in DOMAIN q[s], Shrunk(q, q2, s, i)
  PROVE  /\ KeptFrom(q, q2, s, i)
         /\ \A j \in DOMAIN q[s] : j # i => \E k \in DOMAIN q2[s] : q2[s][k] = q[s][j]
  <1>1. /\ Len(q[s]) \in Nat /\ DOMAIN q[s] = 1..Len(q[s]) /\ DOMAIN q2[s] = 1..(Len(q[s]) - 1)
        /\ \A k \in 1..(Len(q[s]) - 1) : q2[s][k] = q[s][IF k < i THEN k ELSE k + 1]
    BY DEF Shrunk
  <1>2. ASSUME NEW k \in DOMAIN q2[s]
        PROVE  \E j \in DOMAIN q[s] :
                 /\ j # i /\ (k < i => j = k) /\ (k >= i => j = k + 1)
                 /\ q2[s][k] = q[s][j]
    <2>1. CASE k < i
      BY <1>1, <2>1
    <2>2. CASE k >= i
      BY <1>1, <2>2
    <2>3. QED
      BY <1>1, <2>1, <2>2
  <1>3. ASSUME NEW j \in DOMAIN q[s], j # i
        PROVE  \E k \in DOMAIN q2[s] : q2[s][k] = q[s][j]
    <2>1. CASE j < i
      <3>1. j \in 1..(Len(q[s]) - 1)
        BY <1>1, <2>1
      <3>2. QED
        BY <1>1, <2>1, <3>1
    <2>2. CASE j > i
      <3>1. j - 1 \in 1..(Len(q[s]) - 1) /\ ~(j - 1 < i) /\ (j - 1) + 1 = j
        BY <1>1, <2>2
      <3>2. q2[s][j - 1] = q[s][j]
        BY <1>1, <3>1
      <3>3. QED
        BY <1>1, <3>1, <3>2
    <2>3. QED
      BY <1>1, <1>3, <2>1, <2>2
  <1>4. QED
    BY <1>2, <1>3 DEF KeptFrom

LEMMA ShrunkHeld ==
  ASSUME NEW q \in [Satellites -> Seq(Messages)], NEW q2 \in [Satellites -> Seq(Messages)],
         NEW s \in Satellites, NEW i \in DOMAIN q[s], Shrunk(q, q2, s, i),
         NEW o \in Satellites, NEW k \in DOMAIN q2[o]
  PROVE  \E j \in DOMAIN q[o] : q2[o][k] = q[o][j]
  <1>1. CASE o = s
    <2>1. /\ Len(q[s]) \in Nat /\ DOMAIN q[s] = 1..Len(q[s]) /\ DOMAIN q2[s] = 1..(Len(q[s]) - 1)
          /\ \A m \in 1..(Len(q[s]) - 1) : q2[s][m] = q[s][IF m < i THEN m ELSE m + 1]
      BY DEF Shrunk
    <2>2. k \in 1..(Len(q[s]) - 1) /\ k \in DOMAIN q[s] /\ k + 1 \in DOMAIN q[s]
      BY <1>1, <2>1
    <2>3. q2[s][k] = q[s][k] \/ q2[s][k] = q[s][k + 1]
      BY <2>1, <2>2
    <2>4. QED
      BY <1>1, <2>2, <2>3
  <1>2. CASE o # s
    BY <1>2 DEF Shrunk
  <1>3. QED
    BY <1>1, <1>2

-----------------------------------------------------------------------------
(***************************************************************************)
(* Type correctness.  Records are stamped as they are appended, so their   *)
(* times never decrease; what is recorded or in transit was caused by a    *)
(* probe that was sent.                                                    *)
(***************************************************************************)
RecordsSound(r, t, p) ==
  \A n \in Nodes : \A i \in DOMAIN r[n] :
    /\ r[n][i].at \in 1..t /\ r[n][i].probe \in 1..p
    /\ r[n][i].dir = "bus_inject" => n = Master
    /\ \A j \in 1..i : r[n][j].at <= r[n][i].at

TransitSound(q, p) == \A s \in Satellites : \A i \in DOMAIN q[s] : q[s][i].probe \in 1..p

PhaseSound(c, t) ==
  /\ c.since <= t
  /\ c.pc \in {"look", "check"} => c.helper \in Polls
  /\ c.pc = "final" => c.helper \in Relooks
  /\ c.pc \in {"wait", "again", "settle", "others"} => c.helper = "destination"
  /\ c.left \subseteq Satellites \ {c.sat}
  /\ c.pc # "idle" => c.sat \in Satellites

TypeInv ==
  /\ loopback \in BOOLEAN /\ clock \in 1..MaxClock /\ gone \in SUBSET Satellites
  /\ rec \in [Nodes -> Seq(Records)]
  /\ up \in [Satellites -> Seq(Messages)] /\ down \in [Satellites -> Seq(Messages)]
  /\ call \in Calls
  /\ RecordsSound(rec, clock, call.probe)
  /\ TransitSound(up, call.probe) /\ TransitSound(down, call.probe)
  /\ PhaseSound(call, clock)

LEMMA RecordsGrow ==
  ASSUME NEW t \in Nat, NEW p \in Nat, NEW p2 \in Nat, p <= p2,
         NEW r \in [Nodes -> Seq(Records)], NEW r2 \in [Nodes -> Seq(Records)],
         NEW n \in Nodes, NEW new \in Seq(Records),
         RecordsSound(r, t, p), Grown(Nodes, r, r2, n, new), t >= 1,
         \A k \in 1..Len(new) : /\ new[k].at = t /\ new[k].probe \in 1..p2
                                /\ new[k].dir = "bus_inject" => n = Master
  PROVE  RecordsSound(r2, t, p2)
  <1> SUFFICES ASSUME NEW m \in Nodes, NEW i \in DOMAIN r2[m]
               PROVE  /\ r2[m][i].at \in 1..t /\ r2[m][i].probe \in 1..p2
                      /\ r2[m][i].dir = "bus_inject" => m = Master
                      /\ \A j \in 1..i : r2[m][j].at <= r2[m][i].at
    BY DEF RecordsSound
  <1>1. /\ DOMAIN r[m] = 1..Len(r[m]) /\ DOMAIN r2[m] = 1..Len(r2[m])
        /\ Len(r[m]) \in Nat /\ Len(r2[m]) \in Nat /\ i \in Nat /\ DOMAIN r = Nodes
    OBVIOUS
  <1>2. \A j \in DOMAIN r[m] : r2[m][j] = r[m][j]
    BY DEF Grown
  <1>3. CASE i \in DOMAIN r[m]
    <2>1. \A j \in 1..i : j \in DOMAIN r[m]
      BY <1>1, <1>3
    <2>2. /\ r[m][i].at \in 1..t /\ r[m][i].probe \in 1..p
          /\ r[m][i].dir = "bus_inject" => m = Master
          /\ \A j \in 1..i : r[m][j].at <= r[m][i].at
      BY <1>3 DEF RecordsSound
    <2>3. r2[m][i] = r[m][i] /\ \A j \in 1..i : r2[m][j] = r[m][j]
      BY <1>2, <1>3, <2>1
    <2>4. r2[m][i].probe \in 1..p2
      BY <2>2, <2>3
    <2>5. QED
      BY <2>2, <2>3, <2>4
  <1>4. CASE i \notin DOMAIN r[m]
    <2>1. m = n /\ \E k \in 1..Len(new) : r2[m][i] = new[k]
      BY <1>4 DEF Grown
    <2>2. /\ r2[m][i].at = t /\ r2[m][i].probe \in 1..p2
          /\ r2[m][i].dir = "bus_inject" => m = Master
      BY <2>1
    <2>3. ASSUME NEW j \in 1..i
          PROVE  r2[m][j].at <= t
      <3>1. j \in DOMAIN r2[m]
        BY <1>1
      <3>2. CASE j \in DOMAIN r[m]
        <4>1. r[m][j].at \in 1..t
          BY <3>2 DEF RecordsSound
        <4>2. QED
          BY <1>2, <3>2, <4>1
      <3>3. CASE j \notin DOMAIN r[m]
        <4>1. \E k \in 1..Len(new) : r2[m][j] = new[k]
          BY <3>1, <3>3 DEF Grown
        <4>2. r2[m][j].at = t
          BY <4>1
        <4>3. QED
          BY <4>2
      <3>4. QED
        BY <3>2, <3>3
    <2>4. QED
      BY <2>2, <2>3
  <1>5. QED
    BY <1>3, <1>4

LEMMA TransitGrows ==
  ASSUME NEW p \in Nat, NEW p2 \in Nat, p <= p2,
         NEW q \in [Satellites -> Seq(Messages)], NEW q2 \in [Satellites -> Seq(Messages)],
         NEW s \in Satellites, NEW new \in Seq(Messages),
         TransitSound(q, p), Grown(Satellites, q, q2, s, new),
         \A k \in 1..Len(new) : new[k].probe \in 1..p2
  PROVE  TransitSound(q2, p2)
  <1> SUFFICES ASSUME NEW o \in Satellites, NEW i \in DOMAIN q2[o]
               PROVE  q2[o][i].probe \in 1..p2
    BY DEF TransitSound
  <1>2. CASE i \in DOMAIN q[o]
    <2>1. q2[o][i] = q[o][i] /\ q[o][i].probe \in 1..p
      BY <1>2 DEF Grown, TransitSound
    <2>2. QED
      BY <2>1
  <1>3. CASE i \notin DOMAIN q[o]
    <2>1. \E k \in 1..Len(new) : q2[o][i] = new[k]
      BY <1>3 DEF Grown
    <2>2. QED
      BY <2>1
  <1>4. QED
    BY <1>2, <1>3

LEMMA TransitShrinks ==
  ASSUME NEW p, NEW q \in [Satellites -> Seq(Messages)], NEW q2 \in [Satellites -> Seq(Messages)],
         NEW s \in Satellites, NEW i \in DOMAIN q[s], TransitSound(q, p), Shrunk(q, q2, s, i)
  PROVE  TransitSound(q2, p)
  <1> SUFFICES ASSUME NEW o \in Satellites, NEW k \in DOMAIN q2[o]
               PROVE  q2[o][k].probe \in 1..p
    BY DEF TransitSound
  <1>1. \E j \in DOMAIN q[o] : q2[o][k] = q[o][j]
    BY ShrunkHeld
  <1>2. QED
    BY <1>1 DEF TransitSound

LEMMA IdleType == Idle \in Calls
  BY ConstantsAssumption DEF Idle, Calls, Pcs, Helpers, Polls, Nodes, NoMark

\* What the call is after a probe of s for the helper h.
Probed(h, s) ==
  /\ call' \in Calls /\ call'.pc = "sent" /\ call'.helper = h /\ call'.sat = s
  /\ call'.probe = call.probe + 1 /\ call'.clean = NoQueries(s)
  /\ call'.since \in {NoMark, clock} /\ call'.left = {}
  /\ s \notin gone
  /\ loopback \/ Drained
  /\ \A n \in Nodes : \A i \in DOMAIN rec[n] : rec[n][i].at < clock
  /\ UNCHANGED <<loopback, clock, gone>>

LEMMA ProbeEffect ==
  ASSUME TypeInv, NEW h \in Helpers, NEW s \in Satellites, NEW k \in Kinds \cup {NoKind},
         Probe(h, s, k)
  PROVE  Probed(h, s) /\ call'.kind = k
  <1>1. PICK mark \in MarksOf(h) :
          call' = [Idle EXCEPT !.pc = "sent", !.helper = h, !.sat = s, !.kind = k, !.peer = s,
                               !.probe = call.probe + 1, !.clean = NoQueries(s), !.since = mark]
    BY DEF Probe
  <1>2. mark \in {NoMark, clock} /\ mark \in Nat
    BY DEF MarksOf, NoMark, TypeInv
  <1> DEFINE p == call.probe + 1
  <1>3. p \in Nat
    BY DEF TypeInv, Calls
  <1>4. PICK clean \in BOOLEAN : clean = NoQueries(s)
    BY DEF NoQueries
  <1>5. Idle.left = {}
    BY DEF Idle
  <1> HIDE DEF p
  <1>8. call' = [Idle EXCEPT !.pc = "sent", !.helper = h, !.sat = s, !.kind = k, !.peer = s,
                             !.probe = p, !.clean = clean, !.since = mark]
    BY <1>1, <1>4 DEF p
  <1>6. /\ call' \in Calls /\ call'.pc = "sent" /\ call'.helper = h /\ call'.sat = s
        /\ call'.probe = p /\ call'.clean = clean /\ call'.kind = k
        /\ call'.since = mark /\ call'.left = {}
    BY <1>8, <1>2, <1>3, <1>5, IdleType DEF Calls, Pcs, Nodes
  <1>7. QED
    BY <1>2, <1>4, <1>6 DEF Probe, Probed, p

\* A satellite's probe: what it recorded and sent.
SentUp(h, s, k, sent, out) ==
  /\ sent \in Seq(Messages) /\ out \in Seq(Records) /\ call'.kind = k
  /\ Len(sent) = Count[h] /\ Len(out) = Count[h]
  /\ \A i \in 1..Count[h] :
       /\ sent[i].type = (CASE h = "ping" -> "propagate" [] h = "query" -> "query" [] OTHER -> "bus")
       /\ sent[i].kind = k /\ sent[i].body = "probe" /\ sent[i].peer = s
       /\ sent[i].probe = call.probe + 1
       /\ sent[i].seq = (IF h = "fifo" THEN i ELSE 0)
       /\ out[i].dir = "out" /\ out[i].at = clock /\ out[i].probe = call.probe + 1
       /\ out[i].body = "probe"
  /\ rec' \in [Nodes -> Seq(Records)] /\ Grown(Nodes, rec, rec', s, out)
  /\ up' \in [Satellites -> Seq(Messages)] /\ Grown(Satellites, up, up', s, sent)
  /\ down' = down

LEMMA ProbeUpEffect ==
  ASSUME TypeInv, NEW h \in Helpers, NEW s \in Satellites, ProbeUp(h, s)
  PROVE  /\ Probed(h, s) /\ h \notin {"routed", "destination"}
         /\ \E k \in KindsOf(h) : \E sent, out : SentUp(h, s, k, sent, out)
  <1>1. PICK k \in KindsOf(h) :
          LET type == CASE h = "ping" -> "propagate" [] h = "query" -> "query" [] OTHER -> "bus"
              sent == [i \in 1..Count[h] |-> Message(type, k, "probe", s, call.probe + 1,
                                                     IF h = "fifo" THEN i ELSE 0)]
          IN  /\ h \notin {"routed", "destination"}
              /\ Probe(h, s, k)
              /\ rec' = Wrote(s, [i \in 1..Count[h] |-> Stamped(sent[i], "out")])
              /\ up' = [up EXCEPT ![s] = @ \o sent]
              /\ UNCHANGED down
    BY DEF ProbeUp
  <1> DEFINE type == CASE h = "ping" -> "propagate" [] h = "query" -> "query" [] OTHER -> "bus"
             sent == [i \in 1..Count[h] |-> Message(type, k, "probe", s, call.probe + 1,
                                                    IF h = "fifo" THEN i ELSE 0)]
             out == [i \in 1..Count[h] |-> Stamped(sent[i], "out")]
  <1>2. k \in Kinds \cup {NoKind}
    BY DEF KindsOf
  <1>3. Probed(h, s) /\ call'.kind = k
    BY <1>1, <1>2, ProbeEffect
  <1>4. Count[h] \in Nat
    BY ConstantsAssumption
  <1>5. type \in Types /\ s \in Nodes /\ call.probe + 1 \in Nat /\ "probe" \in Bodies
    BY DEF Types, Nodes, Bodies, TypeInv, Calls
  <1>6. type = CASE h = "ping" -> "propagate" [] h = "query" -> "query" [] OTHER -> "bus"
    OBVIOUS
  <1>7. clock \in Nat /\ "out" \in Dirs
    BY DEF TypeInv, Dirs
  <1> HIDE DEF type
  <1>8. ASSUME NEW i \in 1..Count[h]
        PROVE  /\ sent[i] \in Messages
               /\ sent[i].type = type /\ sent[i].kind = k /\ sent[i].body = "probe"
               /\ sent[i].peer = s /\ sent[i].probe = call.probe + 1
               /\ sent[i].seq = (IF h = "fifo" THEN i ELSE 0)
    <2> DEFINE seq == IF h = "fifo" THEN i ELSE 0
    <2>1. seq \in Nat
      BY <1>4
    <2>2. sent[i] = Message(type, k, "probe", s, call.probe + 1, seq)
      OBVIOUS
    <2>4. seq = IF h = "fifo" THEN i ELSE 0
      OBVIOUS
    <2>5. "probe" \in Bodies /\ s \in Nodes /\ call.probe + 1 \in Nat /\ type \in Types
      BY <1>5
    <2> DEFINE p == call.probe + 1
               made == Message(type, k, "probe", s, p, seq)
    <2> HIDE DEF seq, sent, out
    <2>6. /\ made \in Messages /\ made.type = type /\ made.kind = k /\ made.body = "probe"
          /\ made.peer = s /\ made.probe = p /\ made.seq = seq
      <3>1. p \in Nat
        BY <2>5
      <3> HIDE DEF p
      <3>2. QED
        BY <1>2, <2>1, <2>5, <3>1, MessageType
    <2>7. sent[i] = made /\ p = call.probe + 1
      BY <2>2
    <2> HIDE DEF made, p
    <2>3. QED
      BY <2>4, <2>6, <2>7
  <1>9. sent \in Seq(Messages) /\ Len(sent) = Count[h]
    <2> DEFINE n == Count[h]
    <2>1. n \in Nat /\ sent \in [1..n -> Messages]
      <3>1. \A i \in 1..n : sent[i] \in Messages
        BY <1>8
      <3>2. sent = [i \in 1..n |-> sent[i]]
        OBVIOUS
      <3> HIDE DEF sent
      <3>3. QED
        BY <1>4, <3>1, <3>2
    <2> HIDE DEF sent, n
    <2>2. sent \in Seq(Messages) /\ Len(sent) = n
      BY <2>1
    <2>3. QED
      BY <2>2 DEF n
  <1> HIDE DEF sent
  <1>10. ASSUME NEW i \in 1..Count[h]
         PROVE  /\ out[i] \in Records
                /\ out[i].dir = "out" /\ out[i].at = clock /\ out[i].probe = call.probe + 1
                /\ out[i].body = "probe"
    <2>1. out[i] = Stamped(sent[i], "out")
      OBVIOUS
    <2> HIDE DEF out
    <2>2. QED
      BY <1>7, <1>8, <2>1, StampedType
  <1>11. out \in Seq(Records) /\ Len(out) = Count[h]
    <2> DEFINE n == Count[h]
    <2>1. n \in Nat /\ out \in [1..n -> Records]
      <3>1. \A i \in 1..n : out[i] \in Records
        BY <1>10
      <3>2. out = [i \in 1..n |-> out[i]]
        OBVIOUS
      <3> HIDE DEF out
      <3>3. QED
        BY <1>4, <3>1, <3>2
    <2> HIDE DEF out, n
    <2>2. out \in Seq(Records) /\ Len(out) = n
      BY <2>1
    <2>3. QED
      BY <2>2 DEF n
  <1>12. rec' = Wrote(s, out) /\ up' = [up EXCEPT ![s] = @ \o sent] /\ down' = down
    BY <1>1 DEF sent, type
  <1> HIDE DEF out
  <1>13. rec' \in [Nodes -> Seq(Records)] /\ Grown(Nodes, rec, rec', s, out)
    BY <1>5, <1>11, <1>12, GrownShape DEF Wrote, TypeInv
  <1>14. up' \in [Satellites -> Seq(Messages)] /\ Grown(Satellites, up, up', s, sent)
    BY <1>9, <1>12, GrownShape DEF TypeInv
  <1>15. SentUp(h, s, k, sent, out)
    BY <1>3, <1>6, <1>8, <1>9, <1>10, <1>11, <1>12, <1>13, <1>14 DEF SentUp
  <1>16. QED
    BY <1>1, <1>3, <1>15

\* The master's probe: what it sent to the satellites it reached.
SentDown(h, s, sent) ==
  /\ sent \in Seq(Messages)
  /\ \A i \in 1..Len(sent) : sent[i].probe = call.probe + 1 /\ sent[i].body = "probe"
  /\ rec' = rec /\ up' = up
  /\ down' \in [Satellites -> Seq(Messages)]
  /\ \A o \in Satellites : down'[o] = down[o] \/ down'[o] = down[o] \o sent

LEMMA ProbeDownEffect ==
  ASSUME TypeInv, NEW h \in Helpers, NEW s \in Satellites, ProbeDown(h, s)
  PROVE  /\ Probed(h, s) /\ h \in {"routed", "destination"}
         /\ \E sent : SentDown(h, s, sent)
  <1>1. PICK reached \in SUBSET (Satellites \ gone) :
          LET sent == [i \in 1..Count[h] |->
                         Message("bus", NoKind, "probe", Master, call.probe + 1, 0)]
          IN  /\ h \in {"routed", "destination"}
              /\ Probe(h, s, NoKind)
              /\ down' = [o \in Satellites |-> IF o \in reached THEN down[o] \o sent ELSE down[o]]
              /\ UNCHANGED <<rec, up>>
    BY DEF ProbeDown
  <1> DEFINE m == Message("bus", NoKind, "probe", Master, call.probe + 1, 0)
             sent == [i \in 1..Count[h] |-> m]
  <1>2. Probed(h, s)
    BY <1>1, ProbeEffect
  <1>3. m \in Messages /\ m.probe = call.probe + 1 /\ m.body = "probe"
    <2>1. /\ "bus" \in Types /\ NoKind \in Kinds \cup {NoKind} /\ "probe" \in Bodies
          /\ Master \in Nodes /\ call.probe + 1 \in Nat /\ 0 \in Nat
      BY DEF Types, Bodies, Nodes, TypeInv, Calls
    <2>2. QED
      BY <2>1, MessageType
  <1> HIDE DEF m
  <1>4. Count[h] \in Nat
    BY ConstantsAssumption
  <1>5. sent \in Seq(Messages) /\ \A i \in 1..Len(sent) : sent[i] = m
    BY <1>3, <1>4
  <1>6. down' = [o \in Satellites |-> IF o \in reached THEN down[o] \o sent ELSE down[o]]
    BY <1>1 DEF m
  <1> HIDE DEF sent
  <1>7. \A o \in Satellites : down[o] \o sent \in Seq(Messages)
    BY <1>5, JoinShape DEF TypeInv
  <1>8. /\ down' \in [Satellites -> Seq(Messages)]
        /\ \A o \in Satellites : down'[o] = down[o] \/ down'[o] = down[o] \o sent
    BY <1>6, <1>7 DEF TypeInv
  <1>9. SentDown(h, s, sent)
    BY <1>1, <1>3, <1>5, <1>8 DEF SentDown
  <1>10. QED
    BY <1>1, <1>2, <1>9

LEMMA DownShape ==
  ASSUME TypeInv, NEW h, NEW s, NEW sent, SentDown(h, s, sent), NEW o \in Satellites
  PROVE  /\ \A i \in DOMAIN down[o] : i \in DOMAIN down'[o] /\ down'[o][i] = down[o][i]
         /\ \A i \in DOMAIN down'[o] :
              \/ i \in DOMAIN down[o] /\ down'[o][i] = down[o][i]
              \/ down'[o][i].probe = call.probe + 1 /\ down'[o][i].body = "probe"
  <1>1. /\ sent \in Seq(Messages)
        /\ \A i \in 1..Len(sent) : sent[i].probe = call.probe + 1 /\ sent[i].body = "probe"
        /\ down'[o] = down[o] \/ down'[o] = down[o] \o sent
    BY DEF SentDown
  <1> DEFINE q == down[o]
             p == q \o sent
  <1>2. q \in Seq(Messages)
    BY DEF TypeInv
  <1>3. down'[o] = q \/ down'[o] = p
    BY <1>1
  <1>4. /\ Len(q) \in Nat /\ Len(sent) \in Nat /\ DOMAIN q = 1..Len(q)
        /\ DOMAIN p = 1..(Len(q) + Len(sent))
        /\ \A j \in 1..Len(q) : p[j] = q[j]
        /\ \A k \in 1..Len(sent) : p[Len(q) + k] = sent[k]
    BY <1>1, <1>2, JoinShape
  <1> HIDE DEF p
  <1>5. \A i \in DOMAIN q : i \in DOMAIN down'[o] /\ down'[o][i] = q[i]
    BY <1>3, <1>4
  <1>6. ASSUME NEW i \in DOMAIN p
        PROVE  \/ i \in DOMAIN q /\ p[i] = q[i]
               \/ p[i].probe = call.probe + 1 /\ p[i].body = "probe"
    <2>1. CASE i <= Len(q)
      BY <1>4, <2>1
    <2>2. CASE i > Len(q)
      <3>1. i - Len(q) \in 1..Len(sent) /\ i = Len(q) + (i - Len(q))
        BY <1>4, <2>2
      <3>2. p[i] = sent[i - Len(q)]
        BY <1>4, <3>1
      <3>3. QED
        BY <1>1, <3>1, <3>2
    <2>3. QED
      BY <1>4, <2>1, <2>2
  <1>7. QED
    BY <1>3, <1>5, <1>6

\* What the master makes of a message m of s that it takes out of the queue at place i:
\* it records it, and may answer; or it records it and injects it, and denies it or not.
Answered(s, m, a, answers) ==
  /\ m.type # "bus"
  /\ a \in Records /\ a.dir = "in" /\ a.at = clock /\ a.probe = m.probe /\ a.body = m.body
  /\ rec' \in [Nodes -> Seq(Records)] /\ Grown(Nodes, rec, rec', Master, <<a>>)
  /\ answers \in Seq(Messages)
  /\ \A k \in 1..Len(answers) :
       /\ answers[k].probe = m.probe /\ answers[k].type = m.type
       /\ answers[k].body \in {m.body, "answer"}
  /\ down' \in [Satellites -> Seq(Messages)] /\ Grown(Satellites, down, down', s, answers)

Injects(s, m, fate, a, b, denials) ==
  /\ m.type = "bus"
  /\ a \in Records /\ a.dir = "in" /\ a.at = clock /\ a.probe = m.probe /\ a.body = m.body
  /\ b \in Records /\ b.dir = "bus_inject" /\ b.at = clock /\ b.probe = m.probe
  /\ b.body = fate /\ b.type = m.kind /\ b.peer = m.peer /\ b.seq = m.seq
  /\ fate \in {"admitted", "refused"}
  /\ rec' \in [Nodes -> Seq(Records)] /\ Grown(Nodes, rec, rec', Master, <<a, b>>)
  /\ denials \in Seq(Messages)
  /\ Len(denials) = IF fate = "admitted" THEN 0 ELSE 1
  /\ \A k \in 1..Len(denials) :
       /\ denials[k].type = "bus" /\ denials[k].body = "denied" /\ denials[k].probe = m.probe
       /\ denials[k].kind \in {m.kind, NoKind}
  /\ down' \in [Satellites -> Seq(Messages)] /\ Grown(Satellites, down, down', s, denials)

Takes(s, i) ==
  /\ Unjudged
  /\ up' \in [Satellites -> Seq(Messages)] /\ Shrunk(up, up', s, i)
  /\ UNCHANGED <<loopback, clock, gone, call>>

LEMMA MasterEffect ==
  ASSUME TypeInv, NEW s \in Satellites, MasterHandles(s)
  PROVE  \E i \in DOMAIN up[s] :
           /\ Takes(s, i)
           /\ \/ \E a, answers : Answered(s, up[s][i], a, answers)
              \/ \E fate, a, b, denials : Injects(s, up[s][i], fate, a, b, denials)
  <1>1. PICK i \in DOMAIN up[s] :
          LET m == up[s][i]
              answer == IF m.type = "query" THEN [m EXCEPT !.body = "answer", !.peer = Master]
                                            ELSE [m EXCEPT !.peer = Master]
          IN  /\ Unjudged
              /\ up' = [up EXCEPT ![s] = RemoveAt(@, i)]
              /\ \/ /\ m.type # "bus"
                    /\ rec' = Wrote(Master, <<Stamped(m, "in")>>)
                    /\ \E sent \in {<<>>, <<answer>>} : down' = [down EXCEPT ![s] = @ \o sent]
                 \/ /\ m.type = "bus"
                    /\ \E fate \in IF m.seq = 0 THEN {"admitted", "refused"} ELSE {"admitted"},
                          echo \in {m.kind, NoKind} :
                         LET injected == [m EXCEPT !.type = m.kind, !.body = fate]
                             denial == Message("bus", echo, "denied", Master, m.probe, 0)
                         IN  /\ rec' = Wrote(Master, <<Stamped(m, "in"), Stamped(injected, "bus_inject")>>)
                             /\ down' = IF fate = "admitted" THEN down
                                        ELSE [down EXCEPT ![s] = Append(@, denial)]
              /\ UNCHANGED <<loopback, clock, gone, call>>
    BY DEF MasterHandles
  <1> DEFINE m == up[s][i]
             a == Stamped(m, "in")
  <1>2. m \in Messages /\ up \in [Satellites -> Seq(Messages)]
    BY DEF TypeInv
  <1>3. /\ m.kind \in Types /\ m.kind \in Kinds \cup {NoKind}
        /\ m.probe \in Nat /\ m.body \in Bodies
    BY <1>2 DEF Messages, Types
  <1>4. Takes(s, i)
    BY <1>1, <1>2, ShrunkShape DEF Takes
  <1>5. clock \in Nat /\ Master \in Nodes /\ "in" \in Dirs /\ "bus_inject" \in Dirs
    BY DEF TypeInv, Nodes, Dirs
  <1>6. rec \in [Nodes -> Seq(Records)] /\ down \in [Satellites -> Seq(Messages)]
    BY DEF TypeInv
  <1> HIDE DEF m
  <1>7. a \in Records /\ a.dir = "in" /\ a.at = clock /\ a.probe = m.probe /\ a.body = m.body
    BY <1>2, <1>5, StampedType
  <1> HIDE DEF a
  <1>8. ASSUME m.type # "bus", rec' = Wrote(Master, <<a>>),
               \E sent \in {<<>>, <<IF m.type = "query" THEN [m EXCEPT !.body = "answer", !.peer = Master]
                                                        ELSE [m EXCEPT !.peer = Master]>>} :
                 down' = [down EXCEPT ![s] = @ \o sent]
        PROVE  \E answers : Answered(s, m, a, answers)
    <2> DEFINE answer == IF m.type = "query" THEN [m EXCEPT !.body = "answer", !.peer = Master]
                                             ELSE [m EXCEPT !.peer = Master]
    <2>1. /\ answer \in Messages /\ answer.probe = m.probe /\ answer.type = m.type
          /\ answer.body \in {m.body, "answer"}
      <3>1. CASE m.type = "query"
        <4>1. "answer" \in Bodies
          BY DEF Bodies
        <4>2. answer = [m EXCEPT !.body = "answer", !.peer = Master]
          BY <3>1
        <4> HIDE DEF answer
        <4>3. QED
          BY <1>2, <1>5, <4>1, <4>2 DEF Messages
      <3>2. CASE m.type # "query"
        BY <1>2, <1>5, <3>2, PeerType
      <3>3. QED
        BY <3>1, <3>2
    <2> HIDE DEF answer
    <2>2. PICK sent \in {<<>>, <<answer>>} : down' = [down EXCEPT ![s] = @ \o sent]
      BY <1>8 DEF answer
    <2>3. /\ sent \in Seq(Messages)
          /\ \A k \in 1..Len(sent) : sent[k] = answer
      <3>1. CASE sent = <<>>
        BY <3>1
      <3>2. CASE sent = <<answer>>
        BY <2>1, <3>2
      <3>3. QED
        BY <2>2, <3>1, <3>2
    <2>4. down' \in [Satellites -> Seq(Messages)] /\ Grown(Satellites, down, down', s, sent)
      BY <1>6, <2>2, <2>3, GrownShape
    <2>5. <<a>> \in Seq(Records)
      BY <1>7
    <2>6. rec' \in [Nodes -> Seq(Records)] /\ Grown(Nodes, rec, rec', Master, <<a>>)
      BY <1>5, <1>6, <1>8, <2>5, GrownShape DEF Wrote
    <2>7. QED
      BY <1>7, <1>8, <2>1, <2>3, <2>4, <2>6 DEF Answered
  <1>9. ASSUME m.type = "bus", NEW fate \in {"admitted", "refused"}, NEW echo \in {m.kind, NoKind},
               rec' = Wrote(Master, <<a, Stamped([m EXCEPT !.type = m.kind, !.body = fate], "bus_inject")>>),
               down' = IF fate = "admitted" THEN down
                       ELSE [down EXCEPT ![s] = Append(@, Message("bus", echo, "denied", Master, m.probe, 0))]
        PROVE  \E b, denials : Injects(s, m, fate, a, b, denials)
    <2> DEFINE injected == [m EXCEPT !.type = m.kind, !.body = fate]
               b == Stamped(injected, "bus_inject")
               denial == Message("bus", echo, "denied", Master, m.probe, 0)
               denials == IF fate = "admitted" THEN <<>> ELSE <<denial>>
    <2>1. /\ injected \in Messages /\ injected.type = m.kind /\ injected.body = fate
          /\ injected.peer = m.peer /\ injected.probe = m.probe /\ injected.seq = m.seq
      <3>1. fate \in Bodies
        BY DEF Bodies
      <3>2. injected = [m EXCEPT !.type = m.kind, !.body = fate]
        OBVIOUS
      <3> DEFINE type == m.kind
      <3>3. type \in Types /\ type = m.kind /\ injected = [m EXCEPT !.type = type, !.body = fate]
        BY <1>3
      <3> HIDE DEF injected, type
      <3>4. QED
        BY <1>2, <3>1, <3>3 DEF Messages
    <2> HIDE DEF injected
    <2>2. /\ b \in Records /\ b.dir = "bus_inject" /\ b.at = clock /\ b.probe = m.probe
          /\ b.body = fate /\ b.type = m.kind /\ b.peer = m.peer /\ b.seq = m.seq
      BY <1>5, <2>1, StampedType
    <2>3. /\ denial \in Messages /\ denial.type = "bus" /\ denial.body = "denied"
          /\ denial.probe = m.probe /\ denial.kind = echo
      <3>1. /\ "bus" \in Types /\ echo \in Kinds \cup {NoKind} /\ "denied" \in Bodies /\ 0 \in Nat
        BY <1>3 DEF Types, Bodies
      <3>2. QED
        BY <1>3, <1>5, <3>1, MessageType
    <2>4. /\ rec' = [rec EXCEPT ![Master] = @ \o <<a, b>>]
          /\ down' = IF fate = "admitted" THEN down ELSE [down EXCEPT ![s] = Append(@, denial)]
      BY <1>9 DEF injected, Wrote
    <2> HIDE DEF b, denial
    <2>5. /\ denials \in Seq(Messages) /\ Len(denials) = IF fate = "admitted" THEN 0 ELSE 1
          /\ \A k \in 1..Len(denials) : denials[k] = denial
      BY <2>3
    <2>6. down' = [down EXCEPT ![s] = @ \o denials]
      <3>1. down[s] \o <<>> = down[s] /\ down[s] \o <<denial>> = Append(down[s], denial)
        BY <1>6, <2>3
      <3>2. CASE fate = "admitted"
        BY <1>6, <2>4, <3>1, <3>2
      <3>3. CASE fate # "admitted"
        BY <1>6, <2>4, <3>1, <3>3
      <3>4. QED
        BY <3>2, <3>3
    <2> HIDE DEF denials
    <2>7. down' \in [Satellites -> Seq(Messages)] /\ Grown(Satellites, down, down', s, denials)
      BY <1>6, <2>5, <2>6, GrownShape
    <2>8. <<a, b>> \in Seq(Records)
      BY <1>7, <2>2
    <2>9. rec' \in [Nodes -> Seq(Records)] /\ Grown(Nodes, rec, rec', Master, <<a, b>>)
      BY <1>5, <1>6, <2>4, <2>8, GrownShape
    <2>10. Injects(s, m, fate, a, b, denials)
      BY <1>7, <1>9, <2>2, <2>3, <2>5, <2>7, <2>9 DEF Injects
    <2>11. QED
      BY <2>10
  <1>10. CASE m.type = "bus"
    <2>1. \E fate \in {"admitted", "refused"}, echo \in {m.kind, NoKind} :
            /\ rec' = Wrote(Master, <<a, Stamped([m EXCEPT !.type = m.kind, !.body = fate], "bus_inject")>>)
            /\ down' = IF fate = "admitted" THEN down
                       ELSE [down EXCEPT ![s] = Append(@, Message("bus", echo, "denied", Master, m.probe, 0))]
      BY <1>1, <1>10 DEF m, a
    <2>2. QED
      BY <1>4, <1>9, <1>10, <2>1 DEF m
  <1>11. CASE m.type # "bus"
    <2>1. /\ rec' = Wrote(Master, <<a>>)
          /\ \E sent \in {<<>>, <<IF m.type = "query" THEN [m EXCEPT !.body = "answer", !.peer = Master]
                                                      ELSE [m EXCEPT !.peer = Master]>>} :
               down' = [down EXCEPT ![s] = @ \o sent]
      BY <1>1, <1>11 DEF m, a
    <2>2. QED
      BY <1>4, <1>8, <1>11, <2>1 DEF m
  <1>12. QED
    BY <1>10, <1>11

\* A satellite records what it receives.
Receives(s, a) ==
  /\ a \in Records /\ a.dir = "in" /\ a.at = clock /\ a.probe = down[s][1].probe
  /\ a.type = down[s][1].type /\ a.kind = down[s][1].kind /\ a.body = down[s][1].body
  /\ 1 \in DOMAIN down[s]
  /\ rec' \in [Nodes -> Seq(Records)] /\ Grown(Nodes, rec, rec', s, <<a>>)
  /\ down' \in [Satellites -> Seq(Messages)] /\ Shrunk(down, down', s, 1)
  /\ UNCHANGED <<loopback, clock, up, gone, call>>

LEMMA ReceiveEffect ==
  ASSUME TypeInv, NEW s \in Satellites, SatelliteReceives(s)
  PROVE  \E a : Receives(s, a)
  <1> DEFINE m == Head(down[s])
             a == Stamped(m, "in")
  <1>1. /\ down[s] # <<>> /\ rec' = [rec EXCEPT ![s] = @ \o <<a>>]
        /\ down' = [down EXCEPT ![s] = Tail(@)]
        /\ UNCHANGED <<loopback, clock, up, gone, call>>
    BY DEF SatelliteReceives, Wrote
  <1>2. clock \in Nat /\ "in" \in Dirs /\ s \in Nodes /\ rec \in [Nodes -> Seq(Records)]
    BY DEF TypeInv, Dirs, Nodes
  <1>3. /\ down' \in [Satellites -> Seq(Messages)] /\ Shrunk(down, down', s, 1)
        /\ m = down[s][1] /\ 1 \in DOMAIN down[s] /\ m \in Messages
    BY <1>1, TailShape DEF TypeInv
  <1> HIDE DEF m
  <1>4. /\ a \in Records /\ a.dir = "in" /\ a.at = clock /\ a.probe = m.probe
        /\ a.type = m.type /\ a.kind = m.kind /\ a.body = m.body
    BY <1>2, <1>3, StampedType
  <1> HIDE DEF a
  <1>5. <<a>> \in Seq(Records)
    BY <1>4
  <1>6. rec' \in [Nodes -> Seq(Records)] /\ Grown(Nodes, rec, rec', s, <<a>>)
    BY <1>1, <1>2, <1>5, GrownShape
  <1>7. Receives(s, a)
    BY <1>1, <1>3, <1>4, <1>6 DEF Receives
  <1>8. QED
    BY <1>7

\* A step of a helper, which changes nothing but its own call.
Judges == UNCHANGED <<loopback, clock, rec, up, down, gone>>

HelperStep ==
  \/ \E o \in Satellites : LookAtOther(o)
  \/ AssertQueryRouted \/ AssertPingResponded \/ AssertMessageRouted
  \/ AssertFifoOrder \/ WaitForSkillEmission \/ WaitLastInjected
  \/ AssertDestinationRouted \/ AssertAclEnforced
  \/ Look \/ CheckDeadline \/ FinalLook
  \/ WaitTarget \/ WaitExpires \/ SettleEnds \/ JudgeRouting

\* The calls: the helper that was meant begins, with the peer of that time.
Begins(h, pcs) ==
  /\ call.pc = "sent" /\ call.helper = h
  /\ loopback \/ Drained
  /\ Judges /\ call' \in Calls /\ SameProbe(call, call') /\ call'.pc \in pcs
  /\ call'.left = call.left
  /\ h # "acl" => /\ call'.kind = call.kind
                  /\ call'.peer = IF call.sat \in gone THEN NoPeer ELSE call.sat

LEMMA GoesEffect ==
  ASSUME TypeInv, NEW h \in Helpers, NEW pc \in Pcs, Called(h), Goes(pc)
  PROVE  Begins(h, {pc})
  <1> DEFINE t == clock + Timeout
             peer == IF call.sat \in gone THEN NoPeer ELSE call.sat
  <1>1. t \in Nat /\ peer \in Nodes \cup {NoPeer} /\ call \in Calls
    BY ConstantsAssumption DEF TypeInv, Calls
  <1>2. call' = [call EXCEPT !.pc = pc, !.deadline = t, !.peer = peer]
    BY DEF Goes
  <1> HIDE DEF t, peer
  <1>3. /\ call' \in Calls /\ call'.pc = pc /\ call'.left = call.left
        /\ SameProbe(call, call') /\ call'.kind = call.kind /\ call'.peer = peer
    BY <1>1, <1>2 DEF Calls, SameProbe
  <1>4. QED
    BY <1>3 DEF Begins, Called, Judges, peer

LEMMA AclEffect ==
  ASSUME TypeInv, AssertAclEnforced
  PROVE  Begins("acl", {"passed", "failed"})
  <1>1. PICK k \in Kinds, allowed \in BOOLEAN, strict \in BOOLEAN :
          LET c == [call EXCEPT !.kind = k, !.allowed = allowed, !.strict = strict,
                                !.peer = IF call.sat \in gone THEN NoPeer ELSE call.sat]
          IN  /\ Called("acl")
              /\ call' = [c EXCEPT !.pc = IF AclHolds(c) THEN "passed" ELSE "failed"]
    BY DEF AssertAclEnforced
  <1> DEFINE peer == IF call.sat \in gone THEN NoPeer ELSE call.sat
             c == [call EXCEPT !.kind = k, !.allowed = allowed, !.strict = strict, !.peer = peer]
  <1>2. peer \in Nodes \cup {NoPeer} /\ call \in Calls
    BY DEF TypeInv, Calls
  <1>3. PICK pc \in {"passed", "failed"} : call' = [c EXCEPT !.pc = pc]
    BY <1>1
  <1> HIDE DEF peer
  <1>4. c \in Calls /\ SameProbe(call, c) /\ c.left = call.left
    BY <1>2 DEF Calls, SameProbe
  <1> HIDE DEF c
  <1>5. pc \in Pcs
    BY DEF Pcs
  <1>6. call' \in Calls /\ call'.pc = pc /\ SameProbe(c, call') /\ call'.left = c.left
    BY <1>3, <1>4, <1>5 DEF Calls, SameProbe
  <1>7. SameProbe(call, call') /\ call'.left = call.left
    BY <1>4, <1>6 DEF SameProbe
  <1>8. QED
    BY <1>1, <1>6, <1>7 DEF Begins, Called, Judges

\* A step within a helper: what it was at, and what it goes to.
Moves(from, to) ==
  /\ call.pc = from /\ Judges
  /\ call' \in Calls /\ SameProbe(call, call') /\ SameQuestion(call, call')
  /\ call'.pc = to /\ SameWait(call, call')

LEMMA MoveEffect ==
  ASSUME TypeInv, NEW from, NEW to \in Pcs, Running(from), call' = [call EXCEPT !.pc = to]
  PROVE  Moves(from, to)
  <1>1. call \in Calls
    BY DEF TypeInv
  <1>2. /\ call' \in Calls /\ SameProbe(call, call') /\ SameQuestion(call, call')
        /\ call'.pc = to /\ SameWait(call, call')
    BY <1>1 DEF Calls, SameProbe, SameQuestion, SameWait
  <1>3. QED
    BY <1>2 DEF Moves, Running, Judges

LEMMA FoundPlace ==
  ASSUME TypeInv, NEW n \in Nodes, NEW type, NEW dir, Find(n, type, dir) # {}
  PROVE  Max(Find(n, type, dir)) \in Find(n, type, dir)
  <1>1. Find(n, type, dir) \in SUBSET (1..Len(rec[n])) /\ Len(rec[n]) \in Nat
    BY DEF Find, TypeInv
  <1>2. QED
    BY <1>1, MaxIn

\* A lookup of the wait for a target: in the call, or later.
Awaits ==
  /\ call.pc \in {"sent", "wait"} /\ call.helper = "destination"
  /\ call.pc = "sent" => loopback \/ Drained
  /\ Judges /\ call' \in Calls /\ SameProbe(call, call') /\ SameQuestion(call, call')
  /\ call'.left = call.left /\ call'.bad = call.bad

\* The target was found, and the pause begins.
Pauses ==
  /\ Awaits /\ Find(call.sat, "bus", "in") # {}
  /\ call'.pc = "settle" /\ call'.deadline = clock + Settle
  /\ call.since # NoMark => call'.window = call.since

\* It was not.
Misses ==
  /\ Awaits /\ Find(call.sat, "bus", "in") = {}
  /\ call'.pc = "again"
  /\ call'.deadline = IF call.pc = "sent" THEN clock + Timeout ELSE call.deadline

LEMMA LookupEffect ==
  ASSUME TypeInv, NEW deadline \in Nat, TargetLookup(deadline), Judges,
         \/ call.pc = "wait" /\ deadline = call.deadline
         \/ /\ call.pc = "sent" /\ call.helper = "destination"
            /\ deadline = clock + Timeout /\ (loopback \/ Drained)
  PROVE  Pauses \/ Misses
  <1> DEFINE found == Find(call.sat, "bus", "in")
             t == clock + Settle
             w == IF call.since # NoMark THEN call.since ELSE rec[call.sat][Max(found)].at - Settle
  <1>1. /\ call \in Calls /\ t \in Nat /\ call.sat \in Nodes /\ call.since \in Nat /\ Settle \in Nat
        /\ call.helper = "destination" /\ {"settle", "again"} \subseteq Pcs
    BY ConstantsAssumption DEF TypeInv, Calls, PhaseSound, Pcs
  <1>2. CASE /\ found # {}
             /\ call' = [call EXCEPT !.pc = "settle", !.deadline = t, !.window = w]
    <2>2. w \in Int
      <3>1. Max(found) \in found
        BY <1>1, <1>2, FoundPlace
      <3>2. rec[call.sat] \in Seq(Records) /\ Max(found) \in DOMAIN rec[call.sat]
        BY <1>1, <3>1 DEF Find, TypeInv
      <3>3. rec[call.sat][Max(found)] \in Records
        BY <3>2
      <3>4. rec[call.sat][Max(found)].at \in Nat
        BY <3>3 DEF Records
      <3>5. QED
        BY <1>1, <3>4
    <2>4. call.since # NoMark => w = call.since
      OBVIOUS
    <2> HIDE DEF w, t
    <2>5. /\ call' \in Calls /\ SameProbe(call, call') /\ SameQuestion(call, call')
          /\ call'.pc = "settle" /\ call'.deadline = t /\ call'.window = w
          /\ call'.left = call.left /\ call'.bad = call.bad
      BY <1>1, <1>2, <2>2 DEF Calls, SameProbe, SameQuestion
    <2>6. QED
      BY <1>1, <1>2, <2>4, <2>5 DEF Pauses, Awaits, t
  <1>3. CASE found = {} /\ call' = [call EXCEPT !.pc = "again", !.deadline = deadline]
    <2>1. /\ call' \in Calls /\ SameProbe(call, call') /\ SameQuestion(call, call')
          /\ call'.pc = "again" /\ call'.deadline = deadline
          /\ call'.left = call.left /\ call'.bad = call.bad
      BY <1>1, <1>3 DEF Calls, SameProbe, SameQuestion
    <2>2. QED
      BY <1>1, <1>3, <2>1 DEF Misses, Awaits
  <1>4. QED
    BY <1>2, <1>3 DEF TargetLookup

LEMMA WaitEffect ==
  ASSUME TypeInv, AssertDestinationRouted \/ WaitTarget
  PROVE  Pauses \/ Misses
  <1>1. clock + Timeout \in Nat /\ call.deadline \in Nat
    BY ConstantsAssumption DEF TypeInv, Calls
  <1>2. QED
    BY <1>1, LookupEffect DEF AssertDestinationRouted, WaitTarget, Called, Running, Judges

\* The deadline of the wait is tested.
Expires == \E to \in {"wait", "failed"} : Moves("again", to)

LEMMA ExpiryEffect ==
  ASSUME TypeInv, WaitExpires
  PROVE  Expires
  <1>1. PICK to \in {"wait", "failed"} : call' = [call EXCEPT !.pc = to]
    BY DEF WaitExpires
  <1>2. to \in Pcs /\ Running("again")
    BY DEF Pcs, WaitExpires
  <1>3. QED
    BY <1>1, <1>2, MoveEffect DEF Expires

\* The pause is over.
Turns ==
  /\ call.pc = "settle" /\ clock >= call.deadline
  /\ Judges /\ call' \in Calls /\ SameProbe(call, call') /\ SameQuestion(call, call')
  /\ call'.pc = "others" /\ call'.deadline = call.deadline /\ call'.window = call.window
  /\ call'.left = Satellites \ {call.sat} /\ call'.bad = call.bad

LEMMA SettleEffect ==
  ASSUME TypeInv, SettleEnds
  PROVE  Turns
  <1> DEFINE left == Satellites \ {call.sat}
  <1>1. call \in Calls /\ left \in SUBSET Satellites /\ "others" \in Pcs
    BY DEF TypeInv, Pcs
  <1>2. call' = [call EXCEPT !.pc = "others", !.left = left]
    BY DEF SettleEnds
  <1> HIDE DEF left
  <1>3. /\ call' \in Calls /\ SameProbe(call, call') /\ SameQuestion(call, call')
        /\ call'.pc = "others" /\ call'.deadline = call.deadline /\ call'.window = call.window
        /\ call'.left = left /\ call'.bad = call.bad
    BY <1>1, <1>2 DEF Calls, SameProbe, SameQuestion
  <1>4. QED
    BY <1>3 DEF Turns, SettleEnds, Running, Judges, left

\* One of the others is looked at.
LooksAt(o) ==
  /\ call.pc = "others" /\ o \in call.left
  /\ Judges /\ call' \in Calls /\ SameProbe(call, call') /\ SameQuestion(call, call')
  /\ call'.pc = "others" /\ call'.deadline = call.deadline /\ call'.window = call.window
  /\ call'.left = call.left \ {o}
  /\ call'.bad = (call.bad \/ \E i \in Find(o, "bus", "in") : rec[o][i].at >= call.window)

LEMMA OtherEffect ==
  ASSUME TypeInv, NEW o \in Satellites, LookAtOther(o)
  PROVE  LooksAt(o)
  <1> DEFINE found == {i \in Find(o, "bus", "in") : rec[o][i].at >= call.window}
             left == call.left \ {o}
  <1>1. PICK bad \in BOOLEAN : bad <=> (call.bad \/ found # {})
    OBVIOUS
  <1>2. call \in Calls /\ left \in SUBSET Satellites /\ call.bad \in BOOLEAN
    BY DEF TypeInv, Calls
  <1>3. call' = [call EXCEPT !.left = left, !.bad = bad]
    BY <1>1, <1>2 DEF LookAtOther
  <1>4. bad <=> (call.bad \/ \E i \in Find(o, "bus", "in") : rec[o][i].at >= call.window)
    BY <1>1
  <1> HIDE DEF left, found
  <1>5. /\ call' \in Calls /\ SameProbe(call, call') /\ SameQuestion(call, call')
        /\ call'.pc = call.pc /\ call'.deadline = call.deadline /\ call'.window = call.window
        /\ call'.left = left /\ call'.bad = bad
    BY <1>2, <1>3 DEF Calls, SameProbe, SameQuestion
  <1>6. QED
    BY <1>4, <1>5 DEF LooksAt, LookAtOther, Running, Judges, left

\* What each step of a helper is, one disjunct per kind.
BeginsToWait ==
  \E h \in Helpers \ {"acl"}, pc \in {"look", "check", "failed"} :
    /\ Begins(h, {pc})
    /\ pc \in {"look", "check"} => h \in Polls
    /\ h = "ping" /\ pc \in {"look", "check"} => Pings(call.sat, "out") # {}
LooksOnce ==
  \E to \in {"check", "final", "passed"} :
    /\ Moves("look", to)
    /\ to = "passed" => Enough /\ call.helper \notin {"routed", "fifo"}
    /\ to = "final" => call.helper \in {"routed", "fifo"}
ChecksDeadline ==
  \E to \in {"look", "final", "failed"} :
    Moves("check", to) /\ (to = "final" => call.helper \in Relooks)
LooksLast ==
  \E to \in {"passed", "failed"} :
    Moves("final", to) /\ (to = "passed" /\ call.helper = "fifo" => InSendOrder)
JudgesRouting ==
  \E to \in {"passed", "failed"} :
    Moves("others", to) /\ call.left = {} /\ (to = "passed" => ~call.bad)

HelperKinds ==
  \/ BeginsToWait
  \/ AssertAclEnforced /\ Begins("acl", {"passed", "failed"})
  \/ LooksOnce \/ ChecksDeadline \/ LooksLast
  \/ Pauses \/ Misses \/ Expires \/ Turns
  \/ \E o \in Satellites : LooksAt(o)
  \/ JudgesRouting

LEMMA HelperEffect ==
  ASSUME TypeInv, HelperStep
  PROVE  HelperKinds
  <1> USE DEF HelperKinds
  <1>1. {"look", "check", "failed", "final", "passed"} \subseteq Pcs
    BY DEF Pcs
  <1>2. ASSUME NEW h \in Helpers \ {"acl"}, NEW pc \in {"look", "check", "failed"},
               Called(h), Goes(pc), pc \in {"look", "check"} => h \in Polls,
               h = "ping" /\ pc \in {"look", "check"} => Pings(call.sat, "out") # {}
        PROVE  BeginsToWait
    <2>1. Begins(h, {pc})
      BY <1>1, <1>2, GoesEffect
    <2>2. QED
      BY <1>2, <2>1 DEF BeginsToWait
  <1>3. CASE AssertQueryRouted
    <2>1. "query" \in Helpers \ {"acl"} /\ "query" \in Polls
      BY DEF Helpers, Polls
    <2>2. Called("query") /\ (Goes("look") \/ Goes("failed"))
      BY <1>3 DEF AssertQueryRouted
    <2>3. QED
      BY <1>2, <2>1, <2>2
  <1>4. CASE AssertPingResponded
    <2>1. "ping" \in Helpers \ {"acl"} /\ "ping" \in Polls
      BY DEF Helpers, Polls
    <2>2. /\ Called("ping")
          /\ Goes("failed") \/ (Goes("look") /\ Pings(call.sat, "out") # {})
      BY <1>4 DEF AssertPingResponded
    <2>3. QED
      BY <1>2, <2>1, <2>2
  <1>5. CASE AssertMessageRouted \/ AssertFifoOrder \/ WaitForSkillEmission \/ WaitLastInjected
    <2>1. {"routed", "fifo", "emission", "last"} \subseteq (Helpers \ {"acl"}) \cap (Polls \ {"ping"})
      BY DEF Helpers, Polls
    <2>2. \E h \in {"routed", "fifo", "emission", "last"}, pc \in {"look", "check"} :
            Called(h) /\ Goes(pc)
      BY <1>5 DEF AssertMessageRouted, AssertFifoOrder, WaitForSkillEmission, WaitLastInjected
    <2>3. QED
      BY <1>2, <2>1, <2>2
  <1>6. CASE WaitExpires
    BY <1>6, ExpiryEffect
  <1>7. CASE AssertAclEnforced
    BY <1>7, AclEffect
  <1>8. CASE Look
    <2>1. PICK to \in {"check", "final", "passed"} :
            /\ Running("look") /\ call' = [call EXCEPT !.pc = to]
            /\ to = "passed" => Enough /\ call.helper \notin {"routed", "fifo"}
            /\ to = "final" => call.helper \in {"routed", "fifo"}
      BY <1>8 DEF Look
    <2>2. Moves("look", to)
      BY <1>1, <2>1, MoveEffect
    <2>3. QED
      BY <2>1, <2>2 DEF LooksOnce
  <1>9. CASE CheckDeadline
    <2>1. PICK to \in {"look", "final", "failed"} :
            /\ Running("check") /\ call' = [call EXCEPT !.pc = to]
            /\ to = "final" => call.helper \in Relooks
      BY <1>9 DEF CheckDeadline
    <2>2. Moves("check", to)
      BY <1>1, <2>1, MoveEffect
    <2>3. QED
      BY <2>1, <2>2 DEF ChecksDeadline
  <1>10. CASE FinalLook
    <2>1. PICK to \in {"passed", "failed"} :
            /\ Running("final") /\ call' = [call EXCEPT !.pc = to]
            /\ to = "passed" /\ call.helper = "fifo" => InSendOrder
      BY <1>10 DEF FinalLook
    <2>2. Moves("final", to)
      BY <1>1, <2>1, MoveEffect
    <2>3. QED
      BY <2>1, <2>2 DEF LooksLast
  <1>11. CASE AssertDestinationRouted \/ WaitTarget
    BY <1>11, WaitEffect
  <1>12. CASE SettleEnds
    BY <1>12, SettleEffect
  <1>13. CASE \E o \in Satellites : LookAtOther(o)
    BY <1>13, OtherEffect
  <1>14. CASE JudgeRouting
    <2>1. PICK to \in {"passed", "failed"} :
            /\ Running("others") /\ call' = [call EXCEPT !.pc = to]
            /\ call.left = {} /\ (to = "passed" => ~call.bad)
      BY <1>14 DEF JudgeRouting
    <2>2. Moves("others", to)
      BY <1>1, <2>1, MoveEffect
    <2>3. QED
      BY <2>1, <2>2 DEF JudgesRouting
  <1>15. QED
    BY <1>3, <1>4, <1>5, <1>6, <1>7, <1>8, <1>9, <1>10, <1>11, <1>12, <1>13, <1>14 DEF HelperStep

LEMMA HelperPhase ==
  ASSUME TypeInv, HelperKinds
  PROVE  /\ Judges /\ call' \in Calls /\ SameProbe(call, call') /\ PhaseSound(call', clock)
         /\ call.pc \notin {"idle", "passed", "failed"}
         /\ call.pc # "sent" => SameQuestion(call, call')
  <1>1. PhaseSound(call, clock) /\ Relooks \subseteq Polls /\ {"routed", "fifo"} \subseteq Relooks
    BY DEF TypeInv, Polls, Relooks
  <1> DEFINE Goal == /\ Judges /\ call' \in Calls /\ SameProbe(call, call')
                     /\ PhaseSound(call', clock)
                     /\ call.pc \notin {"idle", "passed", "failed"}
                     /\ call.pc # "sent" => SameQuestion(call, call')
  <1>2. ASSUME NEW h, NEW pcs, Begins(h, pcs),
               \A pc \in pcs : /\ pc \in {"look", "check"} => h \in Polls
                               /\ pc \notin {"final", "wait", "again", "settle", "others"}
        PROVE  Goal
    <2>1. /\ Judges /\ call' \in Calls /\ SameProbe(call, call')
          /\ call'.pc \in pcs /\ call'.left = call.left /\ call.helper = h /\ call.pc = "sent"
      BY <1>2 DEF Begins
    <2>2. PhaseSound(call', clock)
      BY <1>1, <1>2, <2>1 DEF PhaseSound, SameProbe
    <2>3. QED
      BY <2>1, <2>2
  <1>3. ASSUME NEW from \in {"look", "check", "final", "again", "others"},
               NEW to \in {"look", "check", "final", "wait", "passed", "failed"}, Moves(from, to),
               to \in {"look", "check"} => from \in {"look", "check"},
               to = "wait" => from = "again",
               to = "final" => call.helper \in Relooks
        PROVE  Goal
    <2>1. /\ Judges /\ call' \in Calls /\ SameProbe(call, call') /\ call'.pc = to
          /\ call'.left = call.left /\ call.pc = from /\ SameQuestion(call, call')
      BY <1>3 DEF Moves, SameWait
    <2>2. PhaseSound(call', clock)
      BY <1>1, <1>3, <2>1 DEF PhaseSound, SameProbe
    <2>3. QED
      BY <2>1, <2>2
  <1>4. CASE BeginsToWait
    <2>1. PICK h \in Helpers \ {"acl"}, pc \in {"look", "check", "failed"} :
            /\ Begins(h, {pc})
            /\ pc \in {"look", "check"} => h \in Polls
      BY <1>4 DEF BeginsToWait
    <2>2. \A x \in {pc} : /\ x \in {"look", "check"} => h \in Polls
                          /\ x \notin {"final", "wait", "again", "settle", "others"}
      BY <2>1
    <2>3. QED
      BY <1>2, <2>1, <2>2
  <1>5. CASE Begins("acl", {"passed", "failed"})
    BY <1>2, <1>5
  <1>6. CASE LooksOnce
    BY <1>1, <1>3, <1>6 DEF LooksOnce
  <1>7. CASE ChecksDeadline
    BY <1>3, <1>7 DEF ChecksDeadline
  <1>8. CASE LooksLast
    BY <1>3, <1>8 DEF LooksLast
  <1>9. CASE Expires
    BY <1>3, <1>9 DEF Expires
  <1>10. CASE Pauses \/ Misses
    BY <1>1, <1>10 DEF Pauses, Misses, Awaits, PhaseSound, SameProbe
  <1>11. CASE Turns
    BY <1>1, <1>11 DEF Turns, PhaseSound, SameProbe
  <1>12. CASE \E o \in Satellites : LooksAt(o)
    BY <1>1, <1>12 DEF LooksAt, PhaseSound, SameProbe
  <1>13. CASE JudgesRouting
    BY <1>3, <1>13 DEF JudgesRouting
  <1>14. QED
    BY <1>4, <1>5, <1>6, <1>7, <1>8, <1>9, <1>10, <1>11, <1>12, <1>13 DEF HelperKinds

LEMMA HelperTypes ==
  ASSUME TypeInv, HelperStep
  PROVE  TypeInv'
  <1>1. Judges /\ call' \in Calls /\ SameProbe(call, call') /\ PhaseSound(call', clock)
    BY HelperEffect, HelperPhase
  <1>2. /\ clock' = clock /\ rec' = rec /\ up' = up /\ down' = down /\ gone' = gone
        /\ loopback' = loopback /\ call'.probe = call.probe
    BY <1>1 DEF Judges, SameProbe
  <1>3. PhaseSound(call', clock')
    BY <1>1, <1>2
  <1>4. QED
    BY <1>1, <1>2, <1>3 DEF TypeInv

LEMMA ProbedTypes ==
  ASSUME TypeInv, NEW h \in Helpers, NEW s \in Satellites, Probed(h, s)
  PROVE  /\ PhaseSound(call', clock) /\ call.probe \in Nat /\ call'.probe \in Nat
         /\ call.probe <= call'.probe /\ call'.probe = call.probe + 1
         /\ call.probe + 1 \in 1..call'.probe
         /\ loopback' = loopback /\ clock' = clock /\ gone' = gone /\ call' \in Calls
         /\ clock \in Nat /\ clock >= 1
  <1>1. call.probe \in Nat /\ clock \in Nat /\ clock >= 1
    BY DEF TypeInv, Calls
  <1>2. PhaseSound(call', clock)
    BY <1>1 DEF Probed, PhaseSound, NoMark
  <1>3. QED
    BY <1>1, <1>2 DEF Probed

LEMMA TransitLater ==
  ASSUME NEW p \in Nat, NEW p2 \in Nat, p <= p2, NEW q \in [Satellites -> Seq(Messages)],
         TransitSound(q, p)
  PROVE  TransitSound(q, p2)
  BY DEF TransitSound

LEMMA RecordsLater ==
  ASSUME NEW p \in Nat, NEW p2 \in Nat, p <= p2, NEW t \in Nat, NEW t2 \in Nat, t <= t2,
         NEW r \in [Nodes -> Seq(Records)], RecordsSound(r, t, p)
  PROVE  RecordsSound(r, t2, p2)
  BY DEF RecordsSound

LEMMA UpTypes ==
  ASSUME TypeInv, NEW h \in Helpers, NEW s \in Satellites, ProbeUp(h, s)
  PROVE  TypeInv'
  <1>1. Probed(h, s)
    BY ProbeUpEffect
  <1>2. PICK k, sent, out : SentUp(h, s, k, sent, out)
    BY ProbeUpEffect
  <1>3. /\ PhaseSound(call', clock) /\ call.probe \in Nat /\ call'.probe \in Nat
        /\ call.probe <= call'.probe /\ call'.probe = call.probe + 1
        /\ call.probe + 1 \in 1..call'.probe
        /\ loopback' = loopback /\ clock' = clock /\ gone' = gone /\ call' \in Calls
        /\ clock \in Nat /\ clock >= 1
    BY <1>1, ProbedTypes
  <1>4. /\ sent \in Seq(Messages) /\ out \in Seq(Records)
        /\ \A i \in 1..Len(sent) : sent[i].probe \in 1..call'.probe
        /\ \A i \in 1..Len(out) : /\ out[i].at = clock /\ out[i].probe \in 1..call'.probe
                                  /\ out[i].dir = "out"
        /\ rec' \in [Nodes -> Seq(Records)] /\ Grown(Nodes, rec, rec', s, out)
        /\ up' \in [Satellites -> Seq(Messages)] /\ Grown(Satellites, up, up', s, sent)
        /\ down' = down
    BY <1>2, <1>3 DEF SentUp
  <1>5. /\ rec \in [Nodes -> Seq(Records)] /\ up \in [Satellites -> Seq(Messages)]
        /\ down \in [Satellites -> Seq(Messages)]
        /\ RecordsSound(rec, clock, call.probe)
        /\ TransitSound(up, call.probe) /\ TransitSound(down, call.probe)
    BY DEF TypeInv
  <1>6. RecordsSound(rec', clock, call'.probe)
    <2>1. s \in Nodes /\ "out" # "bus_inject"
      BY DEF Nodes
    <2>2. \A i \in 1..Len(out) : /\ out[i].at = clock /\ out[i].probe \in 1..call'.probe
                                 /\ out[i].dir = "bus_inject" => s = Master
      BY <1>4, <2>1
    <2>3. QED
      BY <1>3, <1>4, <1>5, <2>1, <2>2, RecordsGrow
  <1>7. TransitSound(up', call'.probe)
    BY <1>3, <1>4, <1>5, TransitGrows
  <1>8. TransitSound(down, call'.probe)
    BY <1>3, <1>5, TransitLater
  <1>9. QED
    BY <1>3, <1>4, <1>5, <1>6, <1>7, <1>8 DEF TypeInv

LEMMA DownTypes ==
  ASSUME TypeInv, NEW h \in Helpers, NEW s \in Satellites, ProbeDown(h, s)
  PROVE  TypeInv'
  <1>1. Probed(h, s)
    BY ProbeDownEffect
  <1>2. PICK sent : SentDown(h, s, sent)
    BY ProbeDownEffect
  <1>3. /\ PhaseSound(call', clock) /\ call.probe \in Nat /\ call'.probe \in Nat
        /\ call.probe <= call'.probe /\ call'.probe = call.probe + 1
        /\ call.probe + 1 \in 1..call'.probe
        /\ loopback' = loopback /\ clock' = clock /\ gone' = gone /\ call' \in Calls
        /\ clock \in Nat /\ clock >= 1
    BY <1>1, ProbedTypes
  <1>4. /\ rec \in [Nodes -> Seq(Records)] /\ up \in [Satellites -> Seq(Messages)]
        /\ down \in [Satellites -> Seq(Messages)]
        /\ RecordsSound(rec, clock, call.probe)
        /\ TransitSound(up, call.probe) /\ TransitSound(down, call.probe)
    BY DEF TypeInv
  <1>5. /\ rec' = rec /\ up' = up /\ down' \in [Satellites -> Seq(Messages)]
        /\ sent \in Seq(Messages)
        /\ \A i \in 1..Len(sent) : sent[i].probe \in 1..call'.probe
        /\ \A o \in Satellites : down'[o] = down[o] \/ down'[o] = down[o] \o sent
    BY <1>2, <1>3 DEF SentDown
  <1>6. RecordsSound(rec, clock, call'.probe)
    BY <1>3, <1>4, RecordsLater
  <1>7. TransitSound(up, call'.probe) /\ TransitSound(down, call'.probe)
    BY <1>3, <1>4, TransitLater
  <1>8. TransitSound(down', call'.probe)
    <2> SUFFICES ASSUME NEW o \in Satellites, NEW i \in DOMAIN down'[o]
                 PROVE  down'[o][i].probe \in 1..call'.probe
      BY DEF TransitSound
    <2>1. \/ i \in DOMAIN down[o] /\ down'[o][i] = down[o][i]
          \/ down'[o][i].probe = call.probe + 1
      BY <1>2, DownShape
    <2>2. QED
      BY <1>3, <1>7, <2>1 DEF TransitSound
  <1>9. QED
    BY <1>3, <1>4, <1>5, <1>6, <1>7, <1>8 DEF TypeInv

LEMMA MasterTypes ==
  ASSUME TypeInv, NEW s \in Satellites, MasterHandles(s)
  PROVE  TypeInv'
  <1>1. PICK i \in DOMAIN up[s] :
          /\ Takes(s, i)
          /\ \/ \E a, answers : Answered(s, up[s][i], a, answers)
             \/ \E fate, a, b, denials : Injects(s, up[s][i], fate, a, b, denials)
    BY MasterEffect
  <1>2. /\ rec \in [Nodes -> Seq(Records)] /\ up \in [Satellites -> Seq(Messages)]
        /\ down \in [Satellites -> Seq(Messages)]
        /\ RecordsSound(rec, clock, call.probe)
        /\ TransitSound(up, call.probe) /\ TransitSound(down, call.probe)
        /\ clock \in Nat /\ clock >= 1 /\ call.probe \in Nat /\ call.probe <= call.probe
    BY DEF TypeInv, Calls
  <1>3. /\ up' \in [Satellites -> Seq(Messages)] /\ Shrunk(up, up', s, i)
        /\ loopback' = loopback /\ clock' = clock /\ gone' = gone /\ call' = call
    BY <1>1 DEF Takes
  <1>4. TransitSound(up', call.probe)
    BY <1>2, <1>3, TransitShrinks
  <1>5. up[s][i].probe \in 1..call.probe
    BY <1>2 DEF TransitSound
  <1>6. Master \in Nodes
    BY DEF Nodes
  <1>7. ASSUME NEW records \in Seq(Records), NEW sent \in Seq(Messages),
               rec' \in [Nodes -> Seq(Records)], Grown(Nodes, rec, rec', Master, records),
               down' \in [Satellites -> Seq(Messages)], Grown(Satellites, down, down', s, sent),
               \A k \in 1..Len(records) : records[k].at = clock /\ records[k].probe \in 1..call.probe,
               \A k \in 1..Len(sent) : sent[k].probe \in 1..call.probe
        PROVE  TypeInv'
    <2>1. RecordsSound(rec', clock, call.probe)
      BY <1>2, <1>6, <1>7, RecordsGrow
    <2>2. TransitSound(down', call.probe)
      BY <1>2, <1>7, TransitGrows
    <2>3. QED
      BY <1>3, <1>4, <1>7, <2>1, <2>2 DEF TypeInv
  <1>8. ASSUME NEW a, NEW answers, Answered(s, up[s][i], a, answers)
        PROVE  TypeInv'
    <2>1. /\ <<a>> \in Seq(Records) /\ Len(<<a>>) = 1 /\ <<a>>[1] = a
          /\ a.at = clock /\ a.probe = up[s][i].probe
      BY <1>8 DEF Answered
    <2>2. \A k \in 1..Len(<<a>>) : <<a>>[k].at = clock /\ <<a>>[k].probe \in 1..call.probe
      BY <1>5, <2>1
    <2>3. /\ rec' \in [Nodes -> Seq(Records)] /\ Grown(Nodes, rec, rec', Master, <<a>>)
          /\ answers \in Seq(Messages) /\ \A k \in 1..Len(answers) : answers[k].probe \in 1..call.probe
          /\ down' \in [Satellites -> Seq(Messages)] /\ Grown(Satellites, down, down', s, answers)
      BY <1>5, <1>8 DEF Answered
    <2>4. QED
      BY <1>7, <2>1, <2>2, <2>3
  <1>9. ASSUME NEW fate, NEW a, NEW b, NEW denials, Injects(s, up[s][i], fate, a, b, denials)
        PROVE  TypeInv'
    <2>1. /\ <<a, b>> \in Seq(Records) /\ Len(<<a, b>>) = 2 /\ <<a, b>>[1] = a /\ <<a, b>>[2] = b
          /\ a.at = clock /\ a.probe = up[s][i].probe /\ b.at = clock /\ b.probe = up[s][i].probe
      BY <1>9 DEF Injects
    <2>2. \A k \in 1..Len(<<a, b>>) : <<a, b>>[k].at = clock /\ <<a, b>>[k].probe \in 1..call.probe
      BY <1>5, <2>1
    <2>3. /\ rec' \in [Nodes -> Seq(Records)] /\ Grown(Nodes, rec, rec', Master, <<a, b>>)
          /\ denials \in Seq(Messages) /\ \A k \in 1..Len(denials) : denials[k].probe \in 1..call.probe
          /\ down' \in [Satellites -> Seq(Messages)] /\ Grown(Satellites, down, down', s, denials)
      BY <1>5, <1>9 DEF Injects
    <2>4. QED
      BY <1>7, <2>1, <2>2, <2>3
  <1>10. QED
    BY <1>1, <1>8, <1>9

LEMMA ReceiveTypes ==
  ASSUME TypeInv, NEW s \in Satellites, SatelliteReceives(s)
  PROVE  TypeInv'
  <1>1. PICK a : Receives(s, a)
    BY ReceiveEffect
  <1>2. /\ rec \in [Nodes -> Seq(Records)] /\ down \in [Satellites -> Seq(Messages)]
        /\ RecordsSound(rec, clock, call.probe) /\ TransitSound(down, call.probe)
        /\ clock \in Nat /\ clock >= 1 /\ call.probe \in Nat /\ call.probe <= call.probe
    BY DEF TypeInv, Calls
  <1>3. /\ a \in Records /\ a.dir = "in" /\ a.at = clock /\ a.probe = down[s][1].probe
        /\ 1 \in DOMAIN down[s]
        /\ rec' \in [Nodes -> Seq(Records)] /\ Grown(Nodes, rec, rec', s, <<a>>)
        /\ down' \in [Satellites -> Seq(Messages)] /\ Shrunk(down, down', s, 1)
        /\ UNCHANGED <<loopback, clock, up, gone, call>>
    BY <1>1 DEF Receives
  <1>4. TransitSound(down', call.probe)
    BY <1>2, <1>3, TransitShrinks
  <1>5. a.probe \in 1..call.probe
    BY <1>2, <1>3 DEF TransitSound
  <1>6. s \in Nodes /\ <<a>> \in Seq(Records) /\ "in" # "bus_inject"
    BY <1>3 DEF Nodes
  <1>7. \A k \in 1..Len(<<a>>) : /\ <<a>>[k].at = clock /\ <<a>>[k].probe \in 1..call.probe
                                 /\ <<a>>[k].dir = "bus_inject" => s = Master
    BY <1>3, <1>5, <1>6
  <1>8. RecordsSound(rec', clock, call.probe)
    BY <1>2, <1>3, <1>6, <1>7, RecordsGrow
  <1>9. QED
    BY <1>3, <1>4, <1>8 DEF TypeInv

LEMMA DisconnectTypes ==
  ASSUME TypeInv, NEW s \in Satellites, Disconnect(s)
  PROVE  TypeInv'
  <1>1. /\ gone' = gone \cup {s} /\ up' = [up EXCEPT ![s] = <<>>] /\ down' = [down EXCEPT ![s] = <<>>]
        /\ UNCHANGED <<loopback, clock, rec, call>>
    BY DEF Disconnect
  <1>2. /\ up \in [Satellites -> Seq(Messages)] /\ down \in [Satellites -> Seq(Messages)]
        /\ TransitSound(up, call.probe) /\ TransitSound(down, call.probe) /\ <<>> \in Seq(Messages)
    BY DEF TypeInv
  <1>3. up' \in [Satellites -> Seq(Messages)] /\ down' \in [Satellites -> Seq(Messages)]
    BY <1>1, <1>2
  <1>4. TransitSound(up', call.probe) /\ TransitSound(down', call.probe)
    BY <1>1, <1>2 DEF TransitSound
  <1>5. QED
    BY <1>1, <1>3, <1>4 DEF TypeInv

LEMMA TickTypes ==
  ASSUME TypeInv, Tick
  PROVE  TypeInv'
  <1>1. /\ clock' = clock + 1 /\ clock < MaxClock
        /\ UNCHANGED <<loopback, rec, up, down, gone, call>>
    BY DEF Tick
  <1>2. /\ clock \in 1..MaxClock /\ MaxClock \in Nat /\ call.probe \in Nat /\ call.since \in Nat
        /\ rec \in [Nodes -> Seq(Records)]
        /\ RecordsSound(rec, clock, call.probe) /\ PhaseSound(call, clock)
    BY ConstantsAssumption DEF TypeInv, Calls
  <1>3. RecordsSound(rec, clock + 1, call.probe)
    BY <1>2, RecordsLater
  <1>4. PhaseSound(call, clock + 1)
    BY <1>2 DEF PhaseSound
  <1>5. QED
    BY <1>1, <1>2, <1>3, <1>4 DEF TypeInv

LEMMA TypeInit == Init => TypeInv
  <1> SUFFICES ASSUME Init
               PROVE  TypeInv
    OBVIOUS
  <1>1. /\ call = Idle /\ clock = 1 /\ gone = {} /\ loopback \in BOOLEAN
        /\ rec = [n \in Nodes |-> <<>>]
        /\ up = [s \in Satellites |-> <<>>] /\ down = [s \in Satellites |-> <<>>]
    BY DEF Init
  <1>2. call \in Calls /\ clock \in 1..MaxClock
    BY <1>1, IdleType, ConstantsAssumption
  <1>3. /\ rec \in [Nodes -> Seq(Records)]
        /\ up \in [Satellites -> Seq(Messages)] /\ down \in [Satellites -> Seq(Messages)]
    BY <1>1
  <1>4. RecordsSound(rec, clock, call.probe)
    BY <1>1 DEF RecordsSound
  <1>5. TransitSound(up, call.probe) /\ TransitSound(down, call.probe)
    BY <1>1 DEF TransitSound
  <1>6. PhaseSound(call, clock)
    <2>1. call.since = 0 /\ call.pc = "idle" /\ call.left = {}
      BY <1>1 DEF Idle, NoMark
    <2>2. QED
      BY <1>1, <2>1 DEF PhaseSound
  <1>7. QED
    BY <1>1, <1>2, <1>3, <1>4, <1>5, <1>6 DEF TypeInv

LEMMA TypeStep == TypeInv /\ [Next]_vars => TypeInv'
  <1> SUFFICES ASSUME TypeInv, [Next]_vars
               PROVE  TypeInv'
    OBVIOUS
  <1>1. CASE UNCHANGED vars
    BY <1>1 DEF vars, TypeInv
  <1>2. CASE \E h \in Helpers, s \in Satellites : ProbeUp(h, s) \/ ProbeDown(h, s)
    BY <1>2, UpTypes, DownTypes
  <1>3. CASE \E s \in Satellites : MasterHandles(s) \/ SatelliteReceives(s) \/ Disconnect(s)
    BY <1>3, MasterTypes, ReceiveTypes, DisconnectTypes
  <1>4. CASE HelperStep
    BY <1>4, HelperTypes
  <1>5. CASE Tick
    BY <1>5, TickTypes
  <1>6. QED
    BY <1>1, <1>2, <1>3, <1>4, <1>5 DEF Next, HelperStep

LEMMA TypesOK == TypeInv => TypeOK
  <1> SUFFICES ASSUME TypeInv
               PROVE  TypeOK
    OBVIOUS
  <1>1. ASSUME NEW n \in Nodes, NEW i \in DOMAIN rec[n]
        PROVE  LET r == rec[n][i]
               IN  /\ r.dir \in {"in", "out"} \/ (r.dir = "bus_inject" /\ n = Master)
                   /\ r.at \in 1..clock /\ r.probe \in 1..call.probe
                   /\ r.peer \in Nodes
                   /\ i > 1 => rec[n][i - 1].at <= r.at
    <2>1. rec[n] \in Seq(Records)
      BY DEF TypeInv
    <2>2. rec[n][i] \in Records /\ i \in Nat
      BY <2>1
    <2>3. rec[n][i].dir \in Dirs /\ rec[n][i].peer \in Nodes
      BY <2>2 DEF Records
    <2>4. /\ rec[n][i].at \in 1..clock /\ rec[n][i].probe \in 1..call.probe
          /\ rec[n][i].dir = "bus_inject" => n = Master
          /\ \A j \in 1..i : rec[n][j].at <= rec[n][i].at
      BY DEF TypeInv, RecordsSound
    <2>5. i > 1 => i - 1 \in 1..i
      BY <2>2
    <2>6. QED
      BY <2>3, <2>4, <2>5 DEF Dirs
  <1>2. call.pc \in Pcs /\ call.helper \in Helpers
    BY DEF TypeInv, Calls
  <1>3. Relooks \subseteq Polls
    BY DEF Relooks, Polls
  <1>4. QED
    BY <1>1, <1>2, <1>3 DEF TypeInv, TypeOK, PhaseSound, Pcs

\* The probes, the recorders and the helpers keep to their types: what is recorded was
\* caused by a probe that was sent, bus_inject records are the master's only, times
\* never decrease, and a helper that polls is one that polls.
THEOREM TypeCorrect == Spec => []TypeOK
  <1>1. Spec => []TypeInv
    BY TypeInit, TypeStep, PTL DEF Spec
  <1>2. QED
    BY <1>1, TypesOK, PTL

-----------------------------------------------------------------------------
(***************************************************************************)
(* A helper that looks again after its loop fails only for what was not    *)
(* there in time: what was recorded before the deadline is part of what    *)
(* the last look finds.                                                    *)
(***************************************************************************)
LEMMA PlacesFinite ==
  ASSUME TypeInv, NEW n \in Nodes, NEW S \in SUBSET (DOMAIN rec[n])
  PROVE  IsFiniteSet(S) /\ Cardinality(S) \in Nat
  <1>1. DOMAIN rec[n] = 1..Len(rec[n]) /\ Len(rec[n]) \in Nat
    BY DEF TypeInv
  <1>2. IsFiniteSet(1..Len(rec[n]))
    BY <1>1, FS_Interval
  <1>3. IsFiniteSet(S)
    BY <1>1, <1>2, FS_Subset
  <1>4. QED
    BY <1>3, FS_CardinalityType

LEMMA EvidencePlaces ==
  ASSUME TypeInv, call.helper \in Polls
  PROVE  EvidenceAt \in Nodes /\ Evidence \in SUBSET (DOMAIN rec[EvidenceAt])
  <1>1. call.sat \in Nodes /\ Master \in Nodes
    BY DEF TypeInv, Calls, Nodes
  <1>2. EvidenceAt \in Nodes
    BY <1>1 DEF EvidenceAt
  <1>3. CASE call.helper = "query"
    <2>1. Evidence = Answers /\ EvidenceAt = call.sat
      BY <1>3 DEF Evidence, EvidenceAt
    <2>2. Answers \in SUBSET (DOMAIN rec[call.sat])
      BY DEF Answers, Since, Find
    <2>3. QED
      BY <1>2, <2>1, <2>2
  <1>4. CASE call.helper = "ping"
    <2>1. Evidence = Responses /\ EvidenceAt = call.sat
      BY <1>4 DEF Evidence, EvidenceAt
    <2>2. Responses \in SUBSET (DOMAIN rec[call.sat])
      BY DEF Responses, Pings, Since, Find
    <2>3. QED
      BY <1>2, <2>1, <2>2
  <1>5. CASE call.helper = "routed"
    <2>1. Evidence = Find(call.sat, "bus", "in") /\ EvidenceAt = call.sat
      BY <1>5 DEF Evidence, EvidenceAt
    <2>2. Find(call.sat, "bus", "in") \in SUBSET (DOMAIN rec[call.sat])
      BY DEF Find
    <2>3. QED
      BY <1>2, <2>1, <2>2
  <1>6. CASE call.helper = "fifo"
    <2>1. Evidence = Injections(call) /\ EvidenceAt = Master
      BY <1>6 DEF Evidence, EvidenceAt
    <2>2. Injections(call) \in SUBSET (DOMAIN rec[Master])
      BY DEF Injections, Find
    <2>3. QED
      BY <1>2, <2>1, <2>2
  <1>7. CASE call.helper \in {"emission", "last"}
    <2>1. Evidence = Injected /\ EvidenceAt = Master
      BY <1>7 DEF Evidence, EvidenceAt
    <2>2. Injected \in SUBSET (DOMAIN rec[Master])
      BY DEF Injected, Find
    <2>3. QED
      BY <1>2, <2>1, <2>2
  <1>8. QED
    BY <1>2, <1>3, <1>4, <1>5, <1>6, <1>7 DEF Polls

LEMMA NeededType ==
  ASSUME call.helper \in Helpers
  PROVE  Needed \in Nat \ {0}
  BY ConstantsAssumption DEF Needed

LEMMA FewInTime ==
  ASSUME TypeInv, call.helper \in Polls
  PROVE  LET early == InTime(EvidenceAt, Evidence)
         IN  /\ Cardinality(early) \in Nat /\ Cardinality(Evidence) \in Nat
             /\ Cardinality(early) <= Cardinality(Evidence)
             /\ Cardinality(Evidence) < 1 => early = {}
  <1> DEFINE early == InTime(EvidenceAt, Evidence)
             all == Evidence
  <1>1. EvidenceAt \in Nodes /\ all \in SUBSET (DOMAIN rec[EvidenceAt]) /\ early \in SUBSET all
    BY EvidencePlaces DEF InTime
  <1> HIDE DEF early, all
  <1>2. IsFiniteSet(all) /\ Cardinality(all) \in Nat
    BY <1>1, PlacesFinite
  <1>3. IsFiniteSet(early) /\ Cardinality(early) <= Cardinality(all) /\ Cardinality(early) \in Nat
    BY <1>1, <1>2, FS_Subset, FS_CardinalityType
  <1>4. Cardinality(all) < 1 => all = {}
    BY <1>2, FS_EmptySet
  <1>5. QED
    BY <1>1, <1>2, <1>3, <1>4 DEF early, all

FailsLate ==
  call.pc \in {"check", "final", "again"} /\ call.helper \in Relooks \cup {"destination"}
  /\ call'.pc = "failed" =>
    LET early == InTime(EvidenceAt, Evidence)
    IN  CASE call.helper = "destination" ->
               \A i \in Find(call.sat, "bus", "in") :
                 rec[call.sat][i].at >= call.deadline - Timeout
          [] call.helper = "routed" ->
               Cardinality(early) < Needed \/ Cardinality(Evidence) > Needed
          [] call.helper = "fifo" -> Cardinality(early) < Needed \/ ~InSendOrder
          [] OTHER -> early = {}

LEMMA FinalFailsLate ==
  ASSUME TypeInv, FinalLook
  PROVE  FailsLate
  <1>1. call.helper \in Relooks /\ call.helper \in Polls /\ call.helper \in Helpers /\ call \in Calls
    BY DEF TypeInv, PhaseSound, FinalLook, Running, Relooks, Polls, Helpers
  <1> DEFINE early == InTime(EvidenceAt, Evidence)
             holds == CASE call.helper = "routed" -> Cardinality(Evidence) = Needed
                        [] call.helper = "fifo"   -> InSendOrder
                        [] OTHER                  -> Enough
  <1>2. SUFFICES ASSUME call'.pc = "failed"
                 PROVE  CASE call.helper = "destination" ->
                               \A i \in Find(call.sat, "bus", "in") :
                                 rec[call.sat][i].at >= call.deadline - Timeout
                          [] call.helper = "routed" ->
                               Cardinality(early) < Needed \/ Cardinality(Evidence) > Needed
                          [] call.helper = "fifo" -> Cardinality(early) < Needed \/ ~InSendOrder
                          [] OTHER -> early = {}
    BY DEF FailsLate
  <1>3. call' = [call EXCEPT !.pc = IF holds THEN "passed" ELSE "failed"]
    BY DEF FinalLook
  <1>4. ~holds
    <2> HIDE DEF holds
    <2>1. call'.pc = IF holds THEN "passed" ELSE "failed"
      BY <1>1, <1>3 DEF Calls
    <2>2. QED
      BY <1>2, <2>1
  <1>5. Needed \in Nat \ {0} /\ Relooks = {"routed", "fifo", "last"}
    BY <1>1, NeededType DEF Relooks
  <1>6. /\ Cardinality(early) \in Nat /\ Cardinality(Evidence) \in Nat
        /\ Cardinality(early) <= Cardinality(Evidence)
        /\ Cardinality(Evidence) < 1 => early = {}
    BY <1>1, FewInTime
  <1> HIDE DEF early
  <1>7. CASE call.helper = "routed"
    <2>1. Cardinality(Evidence) # Needed
      BY <1>4, <1>7
    <2>2. Cardinality(early) < Needed \/ Cardinality(Evidence) > Needed
      BY <1>5, <1>6, <2>1
    <2>3. QED
      BY <1>7, <2>2
  <1>8. CASE call.helper = "fifo"
    <2>1. ~InSendOrder
      BY <1>4, <1>8
    <2>2. QED
      BY <1>8, <2>1
  <1>9. CASE call.helper = "last"
    <2>1. ~Enough
      BY <1>4, <1>9
    <2>2. Needed = 1
      BY <1>9 DEF Needed
    <2>3. early = {}
      BY <1>6, <2>1, <2>2 DEF Enough
    <2>4. QED
      BY <1>9, <2>3
  <1>10. QED
    BY <1>1, <1>5, <1>7, <1>8, <1>9

\* A wait that goes on found nothing: what the target has recorded since came after
\* the call.
WaitInv ==
  call.pc \in {"wait", "again"} =>
    /\ call.deadline - Timeout <= clock
    /\ \A i \in Find(call.sat, "bus", "in") :
         rec[call.sat][i].at >= call.deadline - Timeout

\* What the master or a satellite records is stamped with the time.
LEMMA WaitGrows ==
  ASSUME TypeInv, WaitInv, call' = call, clock' = clock, NEW n \in Nodes, NEW new \in Seq(Records),
         Grown(Nodes, rec, rec', n, new), \A k \in 1..Len(new) : new[k].at = clock
  PROVE  WaitInv'
  <1> SUFFICES ASSUME call.pc \in {"wait", "again"}, NEW i \in Find(call.sat, "bus", "in")'
               PROVE  rec'[call.sat][i].at >= call.deadline - Timeout
    BY DEF WaitInv
  <1>1. /\ call.sat \in Nodes /\ i \in DOMAIN rec'[call.sat] /\ call.deadline \in Nat /\ clock \in Nat
        /\ rec'[call.sat][i].type = "bus" /\ rec'[call.sat][i].dir = "in"
    BY DEF TypeInv, Calls, Find
  <1>2. CASE i \in DOMAIN rec[call.sat]
    <2>1. rec'[call.sat][i] = rec[call.sat][i]
      BY <1>1, <1>2 DEF Grown
    <2>2. i \in Find(call.sat, "bus", "in")
      BY <1>1, <1>2, <2>1 DEF Find
    <2>3. QED
      BY <2>1, <2>2 DEF WaitInv
  <1>3. CASE i \notin DOMAIN rec[call.sat]
    <2>1. PICK k \in 1..Len(new) : rec'[call.sat][i] = new[k]
      BY <1>1, <1>3 DEF Grown
    <2>2. QED
      BY <2>1 DEF WaitInv
  <1>4. QED
    BY <1>2, <1>3

LEMMA WaitStep == TypeInv /\ WaitInv /\ [Next]_vars => WaitInv'
  <1> SUFFICES ASSUME TypeInv, WaitInv, Next \/ UNCHANGED vars
               PROVE  WaitInv'
    OBVIOUS
  <1>0. clock \in Nat /\ Timeout \in Nat /\ call.deadline \in Nat
    BY ConstantsAssumption DEF TypeInv, Calls
  <1>1. CASE \E h \in Helpers, s \in Satellites : ProbeUp(h, s) \/ ProbeDown(h, s)
    <2>1. call'.pc = "sent"
      BY <1>1, ProbeUpEffect, ProbeDownEffect DEF Probed
    <2>2. QED
      BY <2>1 DEF WaitInv
  <1>2. CASE \E s \in Satellites : MasterHandles(s)
    <2>1. PICK s \in Satellites : MasterHandles(s)
      BY <1>2
    <2>2. PICK i \in DOMAIN up[s] :
            /\ Takes(s, i)
            /\ \/ \E a, answers : Answered(s, up[s][i], a, answers)
               \/ \E fate, a, b, denials : Injects(s, up[s][i], fate, a, b, denials)
      BY <2>1, MasterEffect
    <2>3. call' = call /\ clock' = clock /\ Master \in Nodes
      BY <2>2 DEF Takes, Nodes
    <2>4. CASE \E a, answers : Answered(s, up[s][i], a, answers)
      <3>1. PICK a : /\ a \in Records /\ a.at = clock
                     /\ Grown(Nodes, rec, rec', Master, <<a>>)
        BY <2>4 DEF Answered
      <3>2. <<a>> \in Seq(Records) /\ \A k \in 1..Len(<<a>>) : <<a>>[k].at = clock
        BY <3>1
      <3>3. QED
        BY <2>3, <3>1, <3>2, WaitGrows
    <2>5. CASE \E fate, a, b, denials : Injects(s, up[s][i], fate, a, b, denials)
      <3>1. PICK a, b : /\ a \in Records /\ a.at = clock /\ b \in Records /\ b.at = clock
                        /\ Grown(Nodes, rec, rec', Master, <<a, b>>)
        BY <2>5 DEF Injects
      <3>2. <<a, b>> \in Seq(Records) /\ \A k \in 1..Len(<<a, b>>) : <<a, b>>[k].at = clock
        BY <3>1
      <3>3. QED
        BY <2>3, <3>1, <3>2, WaitGrows
    <2>6. QED
      BY <2>2, <2>4, <2>5
  <1>3. CASE \E s \in Satellites : SatelliteReceives(s)
    <2>0. PICK s \in Satellites : SatelliteReceives(s)
      BY <1>3
    <2>1. PICK a : Receives(s, a)
      BY <2>0, ReceiveEffect
    <2>2. /\ call' = call /\ clock' = clock /\ s \in Nodes /\ a \in Records /\ a.at = clock
          /\ Grown(Nodes, rec, rec', s, <<a>>)
      BY <2>1 DEF Receives, Nodes
    <2>3. <<a>> \in Seq(Records) /\ \A k \in 1..Len(<<a>>) : <<a>>[k].at = clock
      BY <2>2
    <2>4. QED
      BY <2>2, <2>3, WaitGrows
  <1>4. CASE Tick \/ (\E s \in Satellites : Disconnect(s)) \/ UNCHANGED vars
    <2>1. /\ call' = call /\ rec' = rec /\ clock' >= clock /\ clock' \in Nat
      BY <1>0, <1>4 DEF Tick, Disconnect, vars
    <2>2. QED
      BY <1>0, <2>1 DEF WaitInv, Find
  <1>5. CASE HelperStep
    <2>1. HelperKinds /\ Judges /\ SameProbe(call, call')
      BY <1>5, HelperEffect, HelperPhase
    <2>2. rec' = rec /\ clock' = clock /\ call'.sat = call.sat
      BY <2>1 DEF Judges, SameProbe
    <2>3. CASE Misses
      BY <1>0, <2>2, <2>3 DEF Misses, Awaits, WaitInv, Find
    <2>4. CASE Expires
      BY <1>0, <2>2, <2>4 DEF Expires, Moves, SameWait, WaitInv, Find
    <2>5. CASE ~Misses /\ ~Expires
      <3>1. call'.pc \notin {"wait", "again"}
        BY <2>1, <2>5 DEF HelperKinds, BeginsToWait, Begins, LooksOnce, ChecksDeadline, LooksLast,
                          Pauses, Turns, LooksAt, JudgesRouting, Moves
      <3>2. QED
        BY <3>1 DEF WaitInv
    <2>6. QED
      BY <2>3, <2>4, <2>5
  <1>6. QED
    BY <1>1, <1>2, <1>3, <1>4, <1>5 DEF Next, HelperStep

LEMMA FailStep == TypeInv /\ WaitInv /\ [Next]_vars => [FailsLate]_vars
  <1> SUFFICES ASSUME TypeInv, WaitInv, Next
               PROVE  FailsLate
    OBVIOUS
  <1>1. CASE \E h \in Helpers, s \in Satellites : ProbeUp(h, s) \/ ProbeDown(h, s)
    <2>1. call'.pc = "sent"
      BY <1>1, ProbeUpEffect, ProbeDownEffect DEF Probed
    <2>2. QED
      BY <2>1 DEF FailsLate
  <1>2. CASE \/ \E s \in Satellites : MasterHandles(s) \/ SatelliteReceives(s) \/ Disconnect(s)
             \/ Tick
    <2>1. call' = call
      BY <1>2 DEF MasterHandles, SatelliteReceives, Disconnect, Tick
    <2>2. QED
      BY <2>1 DEF FailsLate
  <1>3. CASE FinalLook
    BY <1>3, FinalFailsLate
  <1>4. CASE WaitExpires
    <2>1. call.pc = "again" /\ call.helper = "destination"
      BY <1>4 DEF TypeInv, PhaseSound, WaitExpires, Running
    <2>2. QED
      BY <2>1 DEF FailsLate, WaitInv
  <1>5. CASE CheckDeadline
    <2>1. call.pc = "check" /\ call.helper \in Polls /\ "destination" \notin Polls
      BY <1>5 DEF TypeInv, PhaseSound, CheckDeadline, Running, Polls
    <2>2. CASE call.helper \in Relooks
      <3>1. PICK to \in {"look", "final"} : call' = [call EXCEPT !.pc = to]
        BY <1>5, <2>2 DEF CheckDeadline
      <3>2. call'.pc = to
        BY <3>1 DEF TypeInv, Calls
      <3>3. QED
        BY <3>2 DEF FailsLate
    <2>3. CASE call.helper \notin Relooks
      BY <2>1, <2>3 DEF FailsLate
    <2>4. QED
      BY <2>2, <2>3
  <1>6. CASE \/ AssertQueryRouted \/ AssertPingResponded \/ AssertMessageRouted
             \/ AssertFifoOrder \/ WaitForSkillEmission \/ WaitLastInjected
             \/ AssertDestinationRouted \/ AssertAclEnforced
    <2>1. call.pc = "sent"
      BY <1>6 DEF AssertQueryRouted, AssertPingResponded, AssertMessageRouted, AssertFifoOrder,
                  WaitForSkillEmission, WaitLastInjected, AssertDestinationRouted,
                  AssertAclEnforced, Called
    <2>2. QED
      BY <2>1 DEF FailsLate
  <1>7. CASE Look \/ WaitTarget \/ SettleEnds \/ JudgeRouting \/ \E o \in Satellites : LookAtOther(o)
    <2>1. call.pc \in {"look", "wait", "settle", "others"}
      BY <1>7 DEF Look, WaitTarget, SettleEnds, JudgeRouting, LookAtOther, Running
    <2>2. QED
      BY <2>1 DEF FailsLate
  <1>8. QED
    BY <1>1, <1>2, <1>3, <1>4, <1>5, <1>6, <1>7 DEF Next

\* A helper that looks again after its loop fails only for want of what was not
\* recorded before the deadline, whatever arrived between its last look in the loop
\* and the deadline; the wait for a target fails only if the target had recorded
\* nothing before the call.
THEOREM FailsOnlyLate == Spec => FailIsLate
  <1>1. Spec => [](TypeInv /\ WaitInv)
    <2>1. Init => WaitInv
      BY DEF Init, Idle, WaitInv
    <2>2. QED
      BY <2>1, TypeInit, TypeStep, WaitStep, PTL DEF Spec
  <1>2. [FailsLate]_vars =>
          [ call.pc \in {"check", "final", "again"} /\ call.helper \in Relooks \cup {"destination"}
            /\ call'.pc = "failed" =>
              LET early == InTime(EvidenceAt, Evidence)
              IN  CASE call.helper = "destination" ->
                         \A i \in Find(call.sat, "bus", "in") :
                           rec[call.sat][i].at >= call.deadline - Timeout
                    [] call.helper = "routed" ->
                         Cardinality(early) < Needed \/ Cardinality(Evidence) > Needed
                    [] call.helper = "fifo" -> Cardinality(early) < Needed \/ ~InSendOrder
                    [] OTHER -> early = {} ]_vars
    BY DEF FailsLate
  <1>3. QED
    BY <1>1, <1>2, FailStep, PTL DEF Spec, FailIsLate

-----------------------------------------------------------------------------
(***************************************************************************)
(* What assert_acl_enforced finds.  Every denial that a satellite was sent *)
(* or received stands for a refused injection of its own, and every        *)
(* refused injection of a connected satellite has its denial, in transit   *)
(* or recorded.  In process nothing is in transit when the helper looks,   *)
(* and nothing moves after it has.                                         *)
(***************************************************************************)
Refused(r, s, kind) ==
  \E j \in DOMAIN r[Master] :
    /\ r[Master][j].dir = "bus_inject" /\ r[Master][j].body = "refused"
    /\ r[Master][j].peer = s /\ r[Master][j].type \in Kinds
    /\ kind = NoKind \/ r[Master][j].type = kind

Told(r, q, s, kind) ==
  \/ \E i \in DOMAIN q[s] :
       q[s][i].type = "bus" /\ q[s][i].body = "denied" /\ q[s][i].kind \in {kind, NoKind}
  \/ \E i \in DOMAIN r[s] :
       /\ r[s][i].type = "bus" /\ r[s][i].dir = "in" /\ r[s][i].body = "denied"
       /\ r[s][i].kind \in {kind, NoKind}

UpShape(u) ==
  \A s \in Satellites : \A i \in DOMAIN u[s] :
    /\ u[s][i].body = "probe" /\ u[s][i].peer = s
    /\ u[s][i].type = "bus" => u[s][i].kind \in Kinds

InjectShape(r) ==
  \A j \in DOMAIN r[Master] : r[Master][j].dir = "bus_inject" =>
    r[Master][j].body \in {"admitted", "refused"} /\ r[Master][j].type \in Kinds

DeniedSent(r, q) ==
  \A s \in Satellites : \A i \in DOMAIN q[s] :
    q[s][i].body = "denied" => Refused(r, s, q[s][i].kind)
DeniedSeen(r) ==
  \A s \in Satellites : \A i \in DOMAIN r[s] :
    r[s][i].body = "denied" => Refused(r, s, r[s][i].kind)

RefusedTold(r, q, g) ==
  \A s \in Satellites \ g : \A j \in DOMAIN r[Master] :
    r[Master][j].dir = "bus_inject" /\ r[Master][j].body = "refused" /\ r[Master][j].peer = s =>
      Told(r, q, s, r[Master][j].type)

AdmitInv ==
  /\ ~loopback /\ call.pc # "sent" => Drained
  /\ UpShape(up) /\ InjectShape(rec)
  /\ DeniedSent(rec, down) /\ DeniedSeen(rec) /\ RefusedTold(rec, down, gone)

LEMMA NodesFacts == Master \in Nodes /\ Satellites \subseteq Nodes /\ Master \notin Satellites
  BY ConstantsAssumption DEF Nodes

LEMMA RefusedStays ==
  ASSUME NEW r, NEW r2, NEW n, NEW new, Grown(Nodes, r, r2, n, new), NEW s, NEW kind,
         Refused(r, s, kind)
  PROVE  Refused(r2, s, kind)
  BY NodesFacts DEF Refused, Grown

LEMMA ToldStays ==
  ASSUME NEW r, NEW r2, NEW n, NEW new, Grown(Nodes, r, r2, n, new),
         NEW q, NEW q2, NEW o, NEW sent, Grown(Satellites, q, q2, o, sent),
         NEW s \in Satellites, NEW kind, Told(r, q, s, kind)
  PROVE  Told(r2, q2, s, kind)
  <1>1. s \in Nodes
    BY NodesFacts
  <1>2. CASE \E i \in DOMAIN q[s] :
               q[s][i].type = "bus" /\ q[s][i].body = "denied" /\ q[s][i].kind \in {kind, NoKind}
    BY <1>2 DEF Told, Grown
  <1>3. CASE \E i \in DOMAIN r[s] :
               /\ r[s][i].type = "bus" /\ r[s][i].dir = "in" /\ r[s][i].body = "denied"
               /\ r[s][i].kind \in {kind, NoKind}
    BY <1>1, <1>3 DEF Told, Grown
  <1>4. QED
    BY <1>2, <1>3 DEF Told

\* What is recorded at a node other than the master's, and is no new denial.
LEMMA SeenGrows ==
  ASSUME NEW r, NEW r2, NEW n, NEW new, Grown(Nodes, r, r2, n, new), DeniedSeen(r),
         \A k \in 1..Len(new) : new[k].body = "denied" /\ n \in Satellites =>
                                  Refused(r, n, new[k].kind)
  PROVE  DeniedSeen(r2)
  <1> SUFFICES ASSUME NEW s \in Satellites, NEW i \in DOMAIN r2[s], r2[s][i].body = "denied"
               PROVE  Refused(r2, s, r2[s][i].kind)
    BY DEF DeniedSeen
  <1>1. s \in Nodes
    BY NodesFacts
  <1>2. Refused(r, s, r2[s][i].kind)
    <2>1. CASE i \in DOMAIN r[s]
      <3>1. r2[s][i] = r[s][i]
        BY <1>1, <2>1 DEF Grown
      <3>2. QED
        BY <2>1, <3>1 DEF DeniedSeen
    <2>2. CASE i \notin DOMAIN r[s]
      <3>1. s = n /\ \E k \in 1..Len(new) : r2[s][i] = new[k]
        BY <1>1, <2>2 DEF Grown
      <3>2. QED
        BY <3>1
    <2>3. QED
      BY <2>1, <2>2
  <1>3. QED
    BY <1>2, RefusedStays

LEMMA SentGrows ==
  ASSUME NEW r, NEW r2, NEW n, NEW new, Grown(Nodes, r, r2, n, new),
         NEW q, NEW q2, NEW o, NEW sent, Grown(Satellites, q, q2, o, sent), DeniedSent(r, q),
         \A k \in 1..Len(sent) : sent[k].body = "denied" => Refused(r2, o, sent[k].kind)
  PROVE  DeniedSent(r2, q2)
  <1> SUFFICES ASSUME NEW s \in Satellites, NEW i \in DOMAIN q2[s], q2[s][i].body = "denied"
               PROVE  Refused(r2, s, q2[s][i].kind)
    BY DEF DeniedSent
  <1>1. CASE i \in DOMAIN q[s]
    <2>1. q2[s][i] = q[s][i]
      BY <1>1 DEF Grown
    <2>2. Refused(r, s, q[s][i].kind)
      BY <1>1, <2>1 DEF DeniedSent
    <2>3. QED
      BY <2>1, <2>2, RefusedStays
  <1>2. CASE i \notin DOMAIN q[s]
    <2>1. s = o /\ \E k \in 1..Len(sent) : q2[s][i] = sent[k]
      BY <1>2 DEF Grown
    <2>2. QED
      BY <2>1
  <1>3. QED
    BY <1>1, <1>2

\* Nothing was refused, and nothing taken out of a queue.
LEMMA ToldGrows ==
  ASSUME NEW r, NEW r2, NEW n, NEW new, Grown(Nodes, r, r2, n, new),
         NEW q, NEW q2, NEW o, NEW sent, Grown(Satellites, q, q2, o, sent),
         NEW g, RefusedTold(r, q, g),
         \A k \in 1..Len(new) :
           n = Master /\ new[k].dir = "bus_inject" /\ new[k].body = "refused"
           /\ new[k].peer \in Satellites \ g => Told(r2, q2, new[k].peer, new[k].type)
  PROVE  RefusedTold(r2, q2, g)
  <1> SUFFICES ASSUME NEW s \in Satellites \ g, NEW j \in DOMAIN r2[Master],
                      r2[Master][j].dir = "bus_inject", r2[Master][j].body = "refused",
                      r2[Master][j].peer = s
               PROVE  Told(r2, q2, s, r2[Master][j].type)
    BY DEF RefusedTold
  <1>1. CASE j \in DOMAIN r[Master]
    <2>1. r2[Master][j] = r[Master][j]
      BY <1>1, NodesFacts DEF Grown
    <2>2. Told(r, q, s, r[Master][j].type)
      BY <1>1, <2>1 DEF RefusedTold
    <2>3. QED
      BY <2>1, <2>2, ToldStays
  <1>2. CASE j \notin DOMAIN r[Master]
    <2>1. Master = n /\ \E k \in 1..Len(new) : r2[Master][j] = new[k]
      BY <1>2, NodesFacts DEF Grown
    <2>2. QED
      BY <2>1
  <1>3. QED
    BY <1>1, <1>2

LEMMA InjectGrows ==
  ASSUME NEW r, NEW r2, NEW n, NEW new, Grown(Nodes, r, r2, n, new), InjectShape(r),
         \A k \in 1..Len(new) : n = Master /\ new[k].dir = "bus_inject" =>
                                  new[k].body \in {"admitted", "refused"} /\ new[k].type \in Kinds
  PROVE  InjectShape(r2)
  <1> SUFFICES ASSUME NEW j \in DOMAIN r2[Master], r2[Master][j].dir = "bus_inject"
               PROVE  r2[Master][j].body \in {"admitted", "refused"} /\ r2[Master][j].type \in Kinds
    BY DEF InjectShape
  <1>1. CASE j \in DOMAIN r[Master]
    <2>1. r2[Master][j] = r[Master][j]
      BY <1>1, NodesFacts DEF Grown
    <2>2. QED
      BY <1>1, <2>1 DEF InjectShape
  <1>2. CASE j \notin DOMAIN r[Master]
    <2>1. Master = n /\ \E k \in 1..Len(new) : r2[Master][j] = new[k]
      BY <1>2, NodesFacts DEF Grown
    <2>2. QED
      BY <2>1
  <1>3. QED
    BY <1>1, <1>2

LEMMA UpGrows ==
  ASSUME NEW u, NEW u2, NEW o, NEW sent, Grown(Satellites, u, u2, o, sent), UpShape(u),
         \A k \in 1..Len(sent) : /\ sent[k].body = "probe" /\ sent[k].peer = o
                                 /\ sent[k].type = "bus" => sent[k].kind \in Kinds
  PROVE  UpShape(u2)
  <1> SUFFICES ASSUME NEW s \in Satellites, NEW i \in DOMAIN u2[s]
               PROVE  /\ u2[s][i].body = "probe" /\ u2[s][i].peer = s
                      /\ u2[s][i].type = "bus" => u2[s][i].kind \in Kinds
    BY DEF UpShape
  <1>1. CASE i \in DOMAIN u[s]
    <2>1. u2[s][i] = u[s][i]
      BY <1>1 DEF Grown
    <2>2. QED
      BY <1>1, <2>1 DEF UpShape
  <1>2. CASE i \notin DOMAIN u[s]
    <2>1. s = o /\ \E k \in 1..Len(sent) : u2[s][i] = sent[k]
      BY <1>2 DEF Grown
    <2>2. QED
      BY <2>1
  <1>3. QED
    BY <1>1, <1>2

LEMMA NothingGrows ==
  ASSUME NEW N, NEW r, NEW n
  PROVE  Grown(N, r, r, n, <<>>)
  BY DEF Grown

LEMMA HelperQuiet ==
  ASSUME HelperStep
  PROVE  Judges /\ (call.pc = "sent" => loopback \/ Drained)
  <1>1. CASE \/ AssertQueryRouted \/ AssertPingResponded \/ AssertMessageRouted
             \/ AssertFifoOrder \/ WaitForSkillEmission \/ WaitLastInjected
             \/ AssertDestinationRouted \/ AssertAclEnforced
    BY <1>1 DEF AssertQueryRouted, AssertPingResponded, AssertMessageRouted, AssertFifoOrder,
                WaitForSkillEmission, WaitLastInjected, AssertDestinationRouted,
                AssertAclEnforced, Called, Judges
  <1>2. CASE \/ Look \/ CheckDeadline \/ FinalLook \/ WaitTarget \/ WaitExpires \/ SettleEnds
             \/ JudgeRouting \/ \E o \in Satellites : LookAtOther(o)
    BY <1>2 DEF Look, CheckDeadline, FinalLook, WaitTarget, WaitExpires, SettleEnds, JudgeRouting,
                LookAtOther, Running, Judges
  <1>3. QED
    BY <1>1, <1>2 DEF HelperStep

LEMMA AdmitInit == Init => AdmitInv
  <1> SUFFICES ASSUME Init
               PROVE  AdmitInv
    OBVIOUS
  <1>1. /\ rec = [n \in Nodes |-> <<>>]
        /\ up = [s \in Satellites |-> <<>>] /\ down = [s \in Satellites |-> <<>>]
    BY DEF Init
  <1>2. /\ \A n \in Nodes : DOMAIN rec[n] = {}
        /\ \A s \in Satellites : DOMAIN up[s] = {} /\ DOMAIN down[s] = {} /\ up[s] = <<>> /\ down[s] = <<>>
    BY <1>1
  <1>3. QED
    BY <1>2, NodesFacts DEF AdmitInv, Drained, UpShape, InjectShape, DeniedSent, DeniedSeen, RefusedTold

LEMMA AdmitUp ==
  ASSUME TypeInv, AdmitInv, NEW h \in Helpers, NEW s \in Satellites, ProbeUp(h, s)
  PROVE  AdmitInv'
  <1>1. Probed(h, s) /\ h \notin {"routed", "destination"}
    BY ProbeUpEffect
  <1>0. PICK k \in KindsOf(h) : \E sent, out : SentUp(h, s, k, sent, out)
    BY ProbeUpEffect
  <1>2. PICK sent, out : SentUp(h, s, k, sent, out)
    BY <1>0
  <1>3. call'.pc = "sent" /\ gone' = gone
    BY <1>1 DEF Probed
  <1>4. /\ Grown(Nodes, rec, rec', s, out) /\ Grown(Satellites, up, up', s, sent) /\ down' = down
        /\ \A i \in 1..Len(out) : out[i].dir = "out" /\ out[i].body = "probe"
    BY <1>2 DEF SentUp
  <1>5. \A i \in 1..Len(sent) :
          /\ sent[i].body = "probe" /\ sent[i].peer = s /\ sent[i].kind = k
          /\ sent[i].type = (CASE h = "ping" -> "propagate" [] h = "query" -> "query" [] OTHER -> "bus")
    BY <1>2 DEF SentUp
  <1>6. h \notin {"ping", "query"} => k \in Kinds
    BY <1>1, <1>0 DEF KindsOf, Helpers, Polls
  <1>7. \A i \in 1..Len(sent) : /\ sent[i].body = "probe" /\ sent[i].peer = s
                                /\ sent[i].type = "bus" => sent[i].kind \in Kinds
    BY <1>5, <1>6
  <1>8. Grown(Satellites, down, down', s, <<>>)
    BY <1>4, NothingGrows
  <1>9. /\ UpShape(up) /\ InjectShape(rec)
        /\ DeniedSent(rec, down) /\ DeniedSeen(rec) /\ RefusedTold(rec, down, gone)
    BY DEF AdmitInv
  <1>10. UpShape(up')
    BY <1>4, <1>7, <1>9, UpGrows
  <1>11. InjectShape(rec')
    BY <1>4, <1>9, InjectGrows
  <1>12. DeniedSeen(rec')
    BY <1>4, <1>9, SeenGrows
  <1>13. DeniedSent(rec', down')
    BY <1>4, <1>8, <1>9, SentGrows
  <1>14. RefusedTold(rec', down', gone)
    BY <1>4, <1>8, <1>9, ToldGrows
  <1>15. QED
    BY <1>3, <1>10, <1>11, <1>12, <1>13, <1>14 DEF AdmitInv

LEMMA AdmitDown ==
  ASSUME TypeInv, AdmitInv, NEW h \in Helpers, NEW s \in Satellites, ProbeDown(h, s)
  PROVE  AdmitInv'
  <1>1. Probed(h, s)
    BY ProbeDownEffect
  <1>2. PICK sent : SentDown(h, s, sent)
    BY ProbeDownEffect
  <1>3. call'.pc = "sent" /\ gone' = gone /\ rec' = rec /\ up' = up
    BY <1>1, <1>2 DEF Probed, SentDown
  <1>4. \A o \in Satellites :
          /\ \A i \in DOMAIN down[o] : i \in DOMAIN down'[o] /\ down'[o][i] = down[o][i]
          /\ \A i \in DOMAIN down'[o] :
               \/ i \in DOMAIN down[o] /\ down'[o][i] = down[o][i]
               \/ down'[o][i].body = "probe"
    BY <1>2, DownShape
  <1>5. /\ UpShape(up) /\ InjectShape(rec)
        /\ DeniedSent(rec, down) /\ DeniedSeen(rec) /\ RefusedTold(rec, down, gone)
    BY DEF AdmitInv
  <1>6. DeniedSent(rec, down')
    BY <1>4, <1>5 DEF DeniedSent
  <1>7. \A o \in Satellites : \A kind : Told(rec, down, o, kind) => Told(rec, down', o, kind)
    BY <1>4 DEF Told
  <1>8. RefusedTold(rec, down', gone)
    BY <1>5, <1>7 DEF RefusedTold
  <1>9. QED
    BY <1>3, <1>5, <1>6, <1>8 DEF AdmitInv

LEMMA AdmitMaster ==
  ASSUME TypeInv, AdmitInv, NEW s \in Satellites, MasterHandles(s)
  PROVE  AdmitInv'
  <1>1. PICK i \in DOMAIN up[s] :
          /\ Takes(s, i)
          /\ \/ \E a, answers : Answered(s, up[s][i], a, answers)
             \/ \E fate, a, b, denials : Injects(s, up[s][i], fate, a, b, denials)
    BY MasterEffect
  <1> DEFINE m == up[s][i]
  <1>2. /\ UpShape(up) /\ InjectShape(rec)
        /\ DeniedSent(rec, down) /\ DeniedSeen(rec) /\ RefusedTold(rec, down, gone)
        /\ up \in [Satellites -> Seq(Messages)]
    BY DEF AdmitInv, TypeInv
  <1>3. /\ up' \in [Satellites -> Seq(Messages)] /\ Shrunk(up, up', s, i)
        /\ loopback' = loopback /\ gone' = gone /\ call' = call
    BY <1>1 DEF Takes
  <1>4. ~Drained
    <2>1. up[s] # <<>>
      OBVIOUS
    <2>2. QED
      BY <2>1 DEF Drained
  <1>5. loopback \/ call.pc = "sent"
    BY <1>4 DEF AdmitInv
  <1>6. UpShape(up')
    <2> SUFFICES ASSUME NEW o \in Satellites, NEW k \in DOMAIN up'[o]
                 PROVE  /\ up'[o][k].body = "probe" /\ up'[o][k].peer = o
                        /\ up'[o][k].type = "bus" => up'[o][k].kind \in Kinds
      BY DEF UpShape
    <2>1. \E j \in DOMAIN up[o] : up'[o][k] = up[o][j]
      BY <1>2, <1>3, ShrunkHeld
    <2>2. QED
      BY <1>2, <2>1 DEF UpShape
  <1>7. m.body = "probe" /\ m.peer = s /\ (m.type = "bus" => m.kind \in Kinds)
    BY <1>2 DEF UpShape
  <1> HIDE DEF m
  <1>8. s # Master /\ Master \notin Satellites
    BY NodesFacts
  <1>9. ASSUME NEW a, NEW answers, Answered(s, m, a, answers)
        PROVE  AdmitInv'
    <2>1. /\ Grown(Nodes, rec, rec', Master, <<a>>) /\ a.dir = "in"
          /\ Grown(Satellites, down, down', s, answers)
          /\ \A k \in 1..Len(answers) : answers[k].body # "denied"
      BY <1>7, <1>9 DEF Answered
    <2>2. \A k \in 1..Len(<<a>>) : <<a>>[k].dir = "in"
      BY <2>1
    <2>3. InjectShape(rec')
      BY <1>2, <2>1, <2>2, InjectGrows
    <2>4. DeniedSeen(rec')
      BY <1>2, <1>8, <2>1, SeenGrows
    <2>5. DeniedSent(rec', down')
      BY <1>2, <2>1, SentGrows
    <2>6. RefusedTold(rec', down', gone)
      BY <1>2, <2>1, <2>2, ToldGrows
    <2>7. QED
      BY <1>3, <1>5, <1>6, <2>3, <2>4, <2>5, <2>6 DEF AdmitInv
  <1>10. ASSUME NEW fate, NEW a, NEW b, NEW denials, Injects(s, m, fate, a, b, denials)
         PROVE  AdmitInv'
    <2>1. /\ Grown(Nodes, rec, rec', Master, <<a, b>>) /\ a.dir = "in" /\ a.body = "probe"
          /\ b.dir = "bus_inject" /\ b.body = fate /\ b.type = m.kind /\ b.peer = s
          /\ fate \in {"admitted", "refused"} /\ m.kind \in Kinds
          /\ Grown(Satellites, down, down', s, denials)
          /\ Len(denials) = IF fate = "admitted" THEN 0 ELSE 1
          /\ \A k \in 1..Len(denials) :
               /\ denials[k].type = "bus" /\ denials[k].body = "denied"
               /\ denials[k].kind \in {m.kind, NoKind}
      BY <1>7, <1>10 DEF Injects
    <2>2. Len(<<a, b>>) = 2 /\ <<a, b>>[1] = a /\ <<a, b>>[2] = b /\ 1..2 = {1, 2}
      OBVIOUS
    <2>3. \A k \in 1..Len(<<a, b>>) : <<a, b>>[k] \in {a, b}
      BY <2>2
    <2>4. InjectShape(rec')
      BY <1>2, <2>1, <2>3, InjectGrows
    <2>5. DeniedSeen(rec')
      BY <1>2, <1>8, <2>1, SeenGrows
    <2>6. \A k \in 1..Len(denials) : Refused(rec', s, denials[k].kind)
      <3> SUFFICES ASSUME NEW k \in 1..Len(denials)
                   PROVE  Refused(rec', s, denials[k].kind)
        OBVIOUS
      <3>1. fate = "refused"
        BY <2>1
      <3>2. 2 \in 1..Len(<<a, b>>)
        BY <2>2
      <3>3. Len(rec[Master]) + 2 \in DOMAIN rec'[Master] /\ rec'[Master][Len(rec[Master]) + 2] = b
        BY <2>1, <2>2, <3>2 DEF Grown
      <3>4. QED
        BY <2>1, <3>1, <3>3 DEF Refused
    <2>7. DeniedSent(rec', down')
      BY <1>2, <2>1, <2>6, SentGrows
    <2>8. fate = "refused" => Told(rec', down', s, m.kind)
      <3> SUFFICES ASSUME fate = "refused"
                   PROVE  Told(rec', down', s, m.kind)
        OBVIOUS
      <3>1. 1 \in 1..Len(denials)
        BY <2>1
      <3>2. Len(down[s]) + 1 \in DOMAIN down'[s] /\ down'[s][Len(down[s]) + 1] = denials[1]
        BY <2>1, <3>1 DEF Grown
      <3>3. QED
        BY <2>1, <3>1, <3>2 DEF Told
    <2>9. RefusedTold(rec', down', gone)
      BY <1>2, <2>1, <2>3, <2>8, ToldGrows
    <2>10. QED
      BY <1>3, <1>5, <1>6, <2>4, <2>5, <2>7, <2>9 DEF AdmitInv
  <1>11. QED
    BY <1>1, <1>9, <1>10 DEF m

LEMMA AdmitReceive ==
  ASSUME TypeInv, AdmitInv, NEW s \in Satellites, SatelliteReceives(s)
  PROVE  AdmitInv'
  <1>1. PICK a : Receives(s, a)
    BY ReceiveEffect
  <1>2. /\ UpShape(up) /\ InjectShape(rec)
        /\ DeniedSent(rec, down) /\ DeniedSeen(rec) /\ RefusedTold(rec, down, gone)
        /\ down \in [Satellites -> Seq(Messages)]
    BY DEF AdmitInv, TypeInv
  <1>3. /\ a.dir = "in" /\ a.type = down[s][1].type /\ a.kind = down[s][1].kind
        /\ a.body = down[s][1].body
        /\ 1 \in DOMAIN down[s] /\ Grown(Nodes, rec, rec', s, <<a>>)
        /\ down' \in [Satellites -> Seq(Messages)] /\ Shrunk(down, down', s, 1)
        /\ UNCHANGED <<loopback, clock, up, gone, call>>
    BY <1>1 DEF Receives
  <1>4. s # Master /\ Len(<<a>>) = 1 /\ <<a>>[1] = a /\ 1..1 = {1} /\ s \in Nodes
    BY NodesFacts
  <1>5. loopback \/ call.pc = "sent"
    <2>1. down[s] # <<>>
      BY <1>3
    <2>2. QED
      BY <2>1 DEF AdmitInv, Drained
  <1>6. InjectShape(rec')
    BY <1>2, <1>3, <1>4, InjectGrows
  <1>7. a.body = "denied" => Refused(rec, s, a.kind)
    BY <1>2, <1>3 DEF DeniedSent
  <1>8. DeniedSeen(rec')
    <2>1. \A k \in 1..Len(<<a>>) : <<a>>[k].body = "denied" /\ s \in Satellites =>
                                     Refused(rec, s, <<a>>[k].kind)
      BY <1>4, <1>7
    <2>2. QED
      BY <1>2, <1>3, <2>1, SeenGrows
  <1>9. DeniedSent(rec', down')
    <2> SUFFICES ASSUME NEW o \in Satellites, NEW k \in DOMAIN down'[o], down'[o][k].body = "denied"
                 PROVE  Refused(rec', o, down'[o][k].kind)
      BY DEF DeniedSent
    <2>1. PICK j \in DOMAIN down[o] : down'[o][k] = down[o][j]
      BY <1>2, <1>3, ShrunkHeld
    <2>2. Refused(rec, o, down'[o][k].kind)
      BY <1>2, <2>1 DEF DeniedSent
    <2>3. QED
      BY <1>3, <2>2, RefusedStays
  <1>10. ASSUME NEW o \in Satellites, NEW kind, Told(rec, down, o, kind)
         PROVE  Told(rec', down', o, kind)
    <2>1. CASE \E i \in DOMAIN rec[o] :
                 /\ rec[o][i].type = "bus" /\ rec[o][i].dir = "in" /\ rec[o][i].body = "denied"
                 /\ rec[o][i].kind \in {kind, NoKind}
      <3>1. PICK i \in DOMAIN rec[o] :
              /\ rec[o][i].type = "bus" /\ rec[o][i].dir = "in" /\ rec[o][i].body = "denied"
              /\ rec[o][i].kind \in {kind, NoKind}
        BY <2>1
      <3>2. i \in DOMAIN rec'[o] /\ rec'[o][i] = rec[o][i]
        BY <1>3, NodesFacts DEF Grown
      <3>3. QED
        BY <3>1, <3>2 DEF Told
    <2>2. ASSUME NEW i \in DOMAIN down[o], down[o][i].type = "bus", down[o][i].body = "denied",
                 down[o][i].kind \in {kind, NoKind}
          PROVE  Told(rec', down', o, kind)
      <3>1. CASE o = s /\ i = 1
        <4>1. Len(rec[s]) + 1 \in DOMAIN rec'[s] /\ rec'[s][Len(rec[s]) + 1] = a
          BY <1>3, <1>4 DEF Grown
        <4>2. QED
          BY <1>3, <2>2, <3>1, <4>1 DEF Told
      <3>2. CASE o = s /\ i # 1
        <4>1. \A j \in DOMAIN down[s] : j # 1 => \E k \in DOMAIN down'[s] : down'[s][k] = down[s][j]
          BY <1>2, <1>3, ShrunkFrom
        <4>2. PICK k \in DOMAIN down'[s] : down'[s][k] = down[s][i]
          BY <3>2, <4>1
        <4>3. QED
          BY <2>2, <3>2, <4>2 DEF Told
      <3>3. CASE o # s
        <4>1. down'[o] = down[o]
          BY <1>3, <3>3 DEF Shrunk
        <4>2. QED
          BY <2>2, <4>1 DEF Told
      <3>4. QED
        BY <3>1, <3>2, <3>3
    <2>3. QED
      BY <1>10, <2>1, <2>2 DEF Told
  <1>11. RefusedTold(rec', down', gone)
    <2> SUFFICES ASSUME NEW o \in Satellites \ gone, NEW j \in DOMAIN rec'[Master],
                        rec'[Master][j].dir = "bus_inject", rec'[Master][j].body = "refused",
                        rec'[Master][j].peer = o
                 PROVE  Told(rec', down', o, rec'[Master][j].type)
      BY DEF RefusedTold
    <2>1. j \in DOMAIN rec[Master] /\ rec'[Master][j] = rec[Master][j]
      BY <1>3, <1>4, NodesFacts DEF Grown
    <2>2. Told(rec, down, o, rec'[Master][j].type)
      BY <1>2, <2>1 DEF RefusedTold
    <2>3. QED
      BY <1>10, <2>2
  <1>12. QED
    BY <1>2, <1>3, <1>5, <1>6, <1>8, <1>9, <1>11 DEF AdmitInv

LEMMA AdmitDisconnect ==
  ASSUME TypeInv, AdmitInv, NEW s \in Satellites, Disconnect(s)
  PROVE  AdmitInv'
  <1>1. /\ gone' = gone \cup {s} /\ up' = [up EXCEPT ![s] = <<>>] /\ down' = [down EXCEPT ![s] = <<>>]
        /\ UNCHANGED <<loopback, clock, rec, call>> /\ call.pc = "sent"
    BY DEF Disconnect
  <1>2. /\ UpShape(up) /\ InjectShape(rec)
        /\ DeniedSent(rec, down) /\ DeniedSeen(rec) /\ RefusedTold(rec, down, gone)
        /\ up \in [Satellites -> Seq(Messages)] /\ down \in [Satellites -> Seq(Messages)]
    BY DEF AdmitInv, TypeInv
  <1>3. /\ \A o \in Satellites : o # s => up'[o] = up[o] /\ down'[o] = down[o]
        /\ DOMAIN up'[s] = {} /\ DOMAIN down'[s] = {}
    BY <1>1, <1>2
  <1>4. UpShape(up')
    BY <1>2, <1>3 DEF UpShape
  <1>5. DeniedSent(rec, down')
    BY <1>2, <1>3 DEF DeniedSent
  <1>6. RefusedTold(rec, down', gone')
    BY <1>1, <1>2, <1>3 DEF RefusedTold, Told
  <1>7. QED
    BY <1>1, <1>2, <1>4, <1>5, <1>6 DEF AdmitInv

LEMMA AdmitStep == TypeInv /\ AdmitInv /\ [Next]_vars => AdmitInv'
  <1> SUFFICES ASSUME TypeInv, AdmitInv, [Next]_vars
               PROVE  AdmitInv'
    OBVIOUS
  <1>1. CASE UNCHANGED vars
    BY <1>1 DEF vars, AdmitInv, Drained
  <1>2. CASE \E h \in Helpers, s \in Satellites : ProbeUp(h, s) \/ ProbeDown(h, s)
    BY <1>2, AdmitUp, AdmitDown
  <1>3. CASE \E s \in Satellites : MasterHandles(s) \/ SatelliteReceives(s) \/ Disconnect(s)
    BY <1>3, AdmitMaster, AdmitReceive, AdmitDisconnect
  <1>4. CASE HelperStep
    <2>1. Judges /\ (call.pc = "sent" => loopback \/ Drained)
      BY <1>4, HelperQuiet
    <2>2. QED
      BY <2>1 DEF Judges, AdmitInv, Drained
  <1>5. CASE Tick
    BY <1>5 DEF Tick, AdmitInv, Drained
  <1>6. QED
    BY <1>1, <1>2, <1>3, <1>4, <1>5 DEF Next, HelperStep

\* What the policy did with the messages that a verdict c is about.
Handled(r, c, kinds) ==
  {j \in DOMAIN r[Master] : /\ r[Master][j].dir = "bus_inject" /\ r[Master][j].type \in kinds
                            /\ r[Master][j].peer = c.peer}
Denied(r, s) ==
  {i \in DOMAIN r[s] : r[s][i].type = "bus" /\ r[s][i].dir = "in" /\ r[s][i].body = "denied"}

Truth(r, c) ==
  /\ c.allowed /\ ((\A i \in Denied(r, c.sat) : r[c.sat][i].kind # NoKind) \/ ~c.strict) =>
       /\ Handled(r, c, {c.kind}) # {}
       /\ \A j \in Handled(r, c, {c.kind}) : r[Master][j].body = "admitted"
  /\ ~c.allowed =>
       \E j \in Handled(r, c, IF c.strict THEN {c.kind} ELSE Kinds) : r[Master][j].body = "refused"

TruthInv ==
  call.helper = "acl" /\ call.pc = "passed" /\ ~loopback /\ call.peer # NoPeer => Truth(rec, call)

\* The verdict is what the policy did, when the helper gives it.
LEMMA AclTruth ==
  ASSUME TypeInv, AdmitInv, NEW c \in Calls, Drained, c.peer = c.sat, c.sat \in Satellites \ gone,
         c.kind \in Kinds, AclHolds(c)
  PROVE  Truth(rec, c)
  <1> DEFINE s == c.sat
             mine == Handled(rec, c, {c.kind})
             denied == Denied(rec, s)
  <1>1. c.allowed \in BOOLEAN /\ c.strict \in BOOLEAN /\ NoPeer \notin Satellites /\ NoKind \notin Kinds
    BY ConstantsAssumption DEF Calls
  <1>2. InjectShape(rec) /\ DeniedSeen(rec) /\ RefusedTold(rec, down, gone)
    BY DEF AdmitInv
  <1>3. Denials(s) = denied
    BY DEF Denials, Denied, Find
  <1> DEFINE echoing(kind) == {i \in denied : rec[s][i].kind = kind}
  <1>4. DeniedRecords(c) = IF echoing(c.kind) # {} \/ c.strict THEN echoing(c.kind) ELSE echoing(NoKind)
    BY <1>3 DEF DeniedRecords
  <1>5. ASSUME NEW j \in DOMAIN rec[Master], rec[Master][j].dir = "bus_inject",
               rec[Master][j].body = "refused", rec[Master][j].peer = s
        PROVE  \E i \in denied : rec[s][i].kind \in {rec[Master][j].type, NoKind}
    <2>1. Told(rec, down, s, rec[Master][j].type)
      BY <1>2, <1>5 DEF RefusedTold
    <2>2. DOMAIN down[s] = {}
      BY DEF Drained
    <2>3. QED
      BY <2>1, <2>2 DEF Told, Denied
  <1>6. ASSUME NEW i \in denied
        PROVE  Refused(rec, s, rec[s][i].kind)
    BY <1>2 DEF DeniedSeen, Denied
  <1>7. ASSUME c.allowed
        PROVE  DeniedRecords(c) = {} /\ mine # {}
    <2>1. PICK i \in Find(Master, c.kind, "bus_inject") : c.peer \in {NoPeer, rec[Master][i].peer}
      BY <1>7 DEF AclHolds
    <2>2. i \in mine
      BY <1>1, <2>1 DEF Find, Handled
    <2>3. QED
      BY <1>7, <2>2 DEF AclHolds
  <1>8. ASSUME c.allowed, (\A i \in denied : rec[s][i].kind # NoKind) \/ ~c.strict,
               NEW j \in mine
        PROVE  rec[Master][j].body = "admitted"
    <2>1. /\ j \in DOMAIN rec[Master] /\ rec[Master][j].dir = "bus_inject"
          /\ rec[Master][j].type = c.kind /\ rec[Master][j].peer = s
      BY DEF Handled
    <2>2. rec[Master][j].body \in {"admitted", "refused"}
      BY <1>2, <2>1 DEF InjectShape
    <2>3. SUFFICES ASSUME rec[Master][j].body = "refused"
                   PROVE  FALSE
      BY <2>2
    <2>4. PICK i \in denied : rec[s][i].kind \in {c.kind, NoKind}
      BY <1>5, <2>1, <2>3
    <2>5. DeniedRecords(c) = {}
      BY <1>7, <1>8
    <2>6. CASE rec[s][i].kind = c.kind
      BY <1>4, <2>5, <2>6
    <2>7. CASE rec[s][i].kind = NoKind
      BY <1>4, <1>8, <2>5, <2>7
    <2>8. QED
      BY <2>4, <2>6, <2>7
  <1>9. ASSUME ~c.allowed
        PROVE  \E j \in Handled(rec, c, IF c.strict THEN {c.kind} ELSE Kinds) :
                 rec[Master][j].body = "refused"
    <2>1. DeniedRecords(c) # {}
      BY <1>9 DEF AclHolds
    <2>2. PICK i \in denied : rec[s][i].kind = c.kind \/ (~c.strict /\ rec[s][i].kind = NoKind)
      BY <1>4, <2>1
    <2>3. PICK j \in DOMAIN rec[Master] :
            /\ rec[Master][j].dir = "bus_inject" /\ rec[Master][j].body = "refused"
            /\ rec[Master][j].peer = s /\ rec[Master][j].type \in Kinds
            /\ rec[s][i].kind = NoKind \/ rec[Master][j].type = rec[s][i].kind
      BY <1>6 DEF Refused
    <2>4. c.strict => rec[Master][j].type = c.kind
      BY <1>1, <2>2, <2>3
    <2>5. j \in Handled(rec, c, IF c.strict THEN {c.kind} ELSE Kinds)
      BY <2>3, <2>4 DEF Handled
    <2>6. QED
      BY <2>3, <2>5
  <1>10. QED
    BY <1>7, <1>8, <1>9 DEF Truth

LEMMA AclVerdict ==
  ASSUME TypeInv, AdmitInv, AssertAclEnforced
  PROVE  TruthInv'
  <1>1. PICK k \in Kinds, allowed \in BOOLEAN, strict \in BOOLEAN :
          LET c == [call EXCEPT !.kind = k, !.allowed = allowed, !.strict = strict,
                                !.peer = IF call.sat \in gone THEN NoPeer ELSE call.sat]
          IN  /\ Called("acl")
              /\ call' = [c EXCEPT !.pc = IF AclHolds(c) THEN "passed" ELSE "failed"]
    BY DEF AssertAclEnforced
  <1> DEFINE peer == IF call.sat \in gone THEN NoPeer ELSE call.sat
             c == [call EXCEPT !.kind = k, !.allowed = allowed, !.strict = strict, !.peer = peer]
  <1>2. peer \in Nodes \cup {NoPeer} /\ call \in Calls
    BY DEF TypeInv, Calls
  <1>3. /\ Called("acl")
        /\ call' = [c EXCEPT !.pc = IF AclHolds(c) THEN "passed" ELSE "failed"]
    BY <1>1
  <1>4. peer # NoPeer => call.sat \notin gone /\ peer = call.sat
    OBVIOUS
  <1> HIDE DEF peer
  <1>5. /\ c \in Calls /\ c.kind = k /\ c.peer = peer /\ c.sat = call.sat
    BY <1>2 DEF Calls
  <1> HIDE DEF c
  <1>6. PICK pc \in {"passed", "failed"} : pc = IF AclHolds(c) THEN "passed" ELSE "failed"
    OBVIOUS
  <1>7. /\ call'.kind = c.kind /\ call'.allowed = c.allowed /\ call'.strict = c.strict
        /\ call'.peer = c.peer /\ call'.sat = c.sat /\ call'.pc = pc
    <2>1. call' = [c EXCEPT !.pc = pc]
      BY <1>3, <1>6
    <2>2. QED
      BY <1>5, <2>1 DEF Calls
  <1>8. call.sat \in Satellites /\ rec' = rec /\ loopback' = loopback /\ (loopback \/ Drained)
    BY <1>3 DEF Called, TypeInv, PhaseSound
  <1>9. ASSUME call'.pc = "passed", ~loopback, call'.peer # NoPeer
        PROVE  Truth(rec, call')
    <2>1. AclHolds(c)
      BY <1>6, <1>7, <1>9
    <2>2. c.peer = c.sat /\ c.sat \in Satellites \ gone /\ c.kind \in Kinds
      BY <1>4, <1>5, <1>7, <1>8, <1>9
    <2>3. Truth(rec, c)
      BY <1>5, <1>8, <1>9, <2>1, <2>2, AclTruth
    <2>4. QED
      BY <1>7, <2>3 DEF Truth, Handled
  <1>10. QED
    BY <1>8, <1>9 DEF TruthInv

LEMMA TruthStep == TypeInv /\ AdmitInv /\ TruthInv /\ [Next]_vars => TruthInv'
  <1> SUFFICES ASSUME TypeInv, AdmitInv, TruthInv, [Next]_vars
               PROVE  TruthInv'
    OBVIOUS
  <1>1. CASE UNCHANGED vars
    BY <1>1 DEF vars, TruthInv
  <1>2. CASE \E h \in Helpers, s \in Satellites : ProbeUp(h, s) \/ ProbeDown(h, s)
    <2>1. call'.pc = "sent"
      BY <1>2, ProbeUpEffect, ProbeDownEffect DEF Probed
    <2>2. QED
      BY <2>1 DEF TruthInv
  <1>3. ASSUME NEW s \in Satellites, MasterHandles(s) \/ SatelliteReceives(s)
        PROVE  TruthInv'
    <2>1. call' = call /\ loopback' = loopback /\ (up[s] # <<>> \/ down[s] # <<>>)
      <3>1. CASE MasterHandles(s)
        <4>1. PICK i \in DOMAIN up[s] : Takes(s, i)
          BY <3>1, MasterEffect
        <4>2. up[s] # <<>>
          OBVIOUS
        <4>3. QED
          BY <4>1, <4>2 DEF Takes
      <3>2. CASE SatelliteReceives(s)
        BY <3>2 DEF SatelliteReceives
      <3>3. QED
        BY <1>3, <3>1, <3>2
    <2>2. loopback \/ call.pc = "sent"
      BY <2>1 DEF AdmitInv, Drained
    <2>3. QED
      BY <2>1, <2>2 DEF TruthInv
  <1>4. CASE Tick \/ \E s \in Satellites : Disconnect(s)
    BY <1>4 DEF Tick, Disconnect, TruthInv
  <1>5. CASE AssertAclEnforced
    BY <1>5, AclVerdict
  <1>6. CASE HelperStep /\ ~AssertAclEnforced
    <2>1. HelperKinds /\ Judges /\ SameProbe(call, call') /\ PhaseSound(call, clock)
      BY <1>6, HelperEffect, HelperPhase DEF TypeInv
    <2>2. SUFFICES ASSUME call.helper = "acl", call'.pc = "passed"
                   PROVE  FALSE
      BY <2>1 DEF TruthInv, SameProbe
    <2>3. "acl" \notin Polls /\ "acl" \notin Relooks
      BY DEF Polls, Relooks
    <2>4. CASE BeginsToWait
      BY <2>2, <2>4 DEF BeginsToWait, Begins
    <2>5. CASE LooksOnce \/ ChecksDeadline \/ LooksLast \/ JudgesRouting
      BY <2>1, <2>2, <2>3, <2>5
         DEF LooksOnce, ChecksDeadline, LooksLast, JudgesRouting, Moves, PhaseSound
    <2>6. CASE Pauses \/ Misses \/ Expires \/ Turns \/ \E o \in Satellites : LooksAt(o)
      BY <2>1, <2>2, <2>6 DEF Pauses, Misses, Expires, Moves, Turns, LooksAt
    <2>7. QED
      BY <1>6, <2>1, <2>4, <2>5, <2>6 DEF HelperKinds
  <1>7. QED
    BY <1>1, <1>2, <1>3, <1>4, <1>5, <1>6 DEF Next, HelperStep

LEMMA TruthJudged == TruthInv => AdmissionJudged
  <1> SUFFICES ASSUME TruthInv, call.helper = "acl", call.pc = "passed", ~loopback,
                      call.peer # NoPeer
               PROVE  /\ call.allowed /\ ((\A i \in Denials(call.sat) : rec[call.sat][i].kind # NoKind)
                                          \/ ~call.strict) => Fates({call.kind}) = {"admitted"}
                      /\ ~call.allowed =>
                           "refused" \in Fates(IF call.strict THEN {call.kind} ELSE Kinds)
    BY DEF AdmissionJudged
  <1>1. Truth(rec, call)
    BY DEF TruthInv
  <1>2. Denials(call.sat) = Denied(rec, call.sat)
    BY DEF Denials, Denied, Find
  <1>3. \A kinds : Fates(kinds) = {rec[Master][j].body : j \in Handled(rec, call, kinds)}
    <2> SUFFICES ASSUME NEW kinds
                 PROVE  Fates(kinds) = {rec[Master][j].body : j \in Handled(rec, call, kinds)}
      OBVIOUS
    <2>1. {j \in UNION {Find(Master, k, "bus_inject") : k \in kinds} : rec[Master][j].peer = call.peer}
            = Handled(rec, call, kinds)
      BY DEF Find, Handled
    <2>2. QED
      BY <2>1 DEF Fates
  <1> DEFINE mine == Handled(rec, call, {call.kind})
  <1>4. ASSUME call.allowed, (\A i \in Denials(call.sat) : rec[call.sat][i].kind # NoKind) \/ ~call.strict
        PROVE  Fates({call.kind}) = {"admitted"}
    <2>1. mine # {} /\ \A j \in mine : rec[Master][j].body = "admitted"
      BY <1>1, <1>2, <1>4 DEF Truth
    <2> HIDE DEF mine
    <2>2. {rec[Master][j].body : j \in mine} = {"admitted"}
      BY <2>1
    <2>3. QED
      BY <1>3, <2>2 DEF mine
  <1>5. ASSUME ~call.allowed
        PROVE  "refused" \in Fates(IF call.strict THEN {call.kind} ELSE Kinds)
    BY <1>1, <1>3, <1>5 DEF Truth
  <1>6. QED
    BY <1>4, <1>5

\* In process, what assert_acl_enforced found of a connected satellite is what the
\* policy had done with its messages, and stays so until the next probe.
THEOREM AdmissionsJudged == Spec => []AdmissionJudged
  <1>1. Init => TruthInv
    BY DEF Init, Idle, TruthInv
  <1>2. Spec => [](TypeInv /\ AdmitInv /\ TruthInv)
    BY <1>1, TypeInit, TypeStep, AdmitInit, AdmitStep, TruthStep, PTL DEF Spec
  <1>3. QED
    BY <1>2, TruthJudged, PTL
-----------------------------------------------------------------------------
(***************************************************************************)
(* A pass is earned.  Whatever the probe of a call caused was recorded at  *)
(* its mark or later, and at its mark or later a satellite sends nothing   *)
(* else; if no query of it was in transit at the mark, it is answered none *)
(* but the probe's own.  The messages of a fifo probe are numbered, and    *)
(* each number is in transit once or was injected once.  Those that were   *)
(* looked at after the pause of a destination had nothing of the probe     *)
(* before its end.                                                         *)
(***************************************************************************)
Mine(r, c, n, dir, type) ==
  {i \in DOMAIN r[n] : r[n][i].type = type /\ r[n][i].dir = dir /\ r[n][i].probe = c.probe}

OwnTimed(r, c) ==
  \A n \in Nodes : \A i \in DOMAIN r[n] :
    /\ r[n][i].probe = c.probe => r[n][i].at >= c.since
    /\ c.since # NoMark /\ r[n][i].at >= c.since /\ r[n][i].dir = "out" =>
         r[n][i].probe = c.probe
    /\ c.since # NoMark /\ r[n][i].at >= c.since
         /\ c.clean /\ n \in Satellites /\ n = c.sat /\ r[n][i].type = "query" =>
         r[n][i].probe = c.probe

OwnTransit(q, c) ==
  c.since # NoMark /\ c.clean =>
    \A s \in Satellites : \A i \in DOMAIN q[s] :
      s = c.sat /\ q[s][i].type = "query" => q[s][i].probe = c.probe

Pinged(r, c) ==
  c.pc \in {"look", "check"} /\ c.helper = "ping" =>
    \E i \in DOMAIN r[c.sat] :
      r[c.sat][i].type = "propagate" /\ r[c.sat][i].dir = "out" /\ r[c.sat][i].at >= c.since

Judging(c) == c.pc = "others" \/ (c.pc = "passed" /\ c.helper = "destination")

Clear(r, c, o) ==
  \A i \in DOMAIN r[o] :
    r[o][i].type = "bus" /\ r[o][i].dir = "in" /\ r[o][i].probe = c.probe =>
      r[o][i].at >= c.deadline

Routed(r, c, t) ==
  /\ c.pc \in {"settle", "others"} /\ c.since # NoMark => c.window = c.since
  /\ Judging(c) =>
       /\ t >= c.deadline
       /\ c.since # NoMark /\ ~c.bad =>
            \A o \in Satellites \ (c.left \cup {c.sat}) : Clear(r, c, o)
  /\ c.pc = "passed" /\ c.helper = "destination" => c.left = {} /\ ~c.bad

\* What was injected for the probe, and what carries the type and the peer asked for.
Done(r, c) == {i \in DOMAIN r[Master] : r[Master][i].dir = "bus_inject" /\ r[Master][i].probe = c.probe}
Asked(r, c) ==
  {i \in DOMAIN r[Master] :
     r[Master][i].type = c.kind /\ r[Master][i].dir = "bus_inject" /\ r[Master][i].peer = c.peer}

Numbered(r, u, c) ==
  c.helper = "fifo" =>
    /\ \A s \in Satellites : \A i \in DOMAIN u[s] : u[s][i].probe = c.probe =>
         /\ s = c.sat /\ u[s][i].seq \in 1..Count["fifo"]
         /\ \A j \in DOMAIN u[s] :
              u[s][j].probe = c.probe /\ u[s][j].seq = u[s][i].seq => j = i
         /\ \A j \in Done(r, c) : r[Master][j].seq # u[s][i].seq
    /\ \A i \in Done(r, c) :
         /\ r[Master][i].seq \in 1..Count["fifo"]
         /\ \A j \in Done(r, c) : r[Master][j].seq = r[Master][i].seq => j = i

InOrder(r, c) ==
  (\A i \in Asked(r, c) : r[Master][i].probe = c.probe) =>
    /\ {r[Master][i].seq : i \in Asked(r, c)} = 1..Count["fifo"]
    /\ \A i, j \in Asked(r, c) : i < j => r[Master][i].seq < r[Master][j].seq

Earned(r, c) ==
  c.pc = "passed" =>
    /\ c.helper = "ping" /\ c.since # NoMark => Mine(r, c, c.sat, "in", "propagate") # {}
    /\ c.helper = "query" /\ c.since # NoMark /\ c.clean =>
         Cardinality(Mine(r, c, c.sat, "in", "query")) >= Count["query"]
    /\ c.helper = "fifo" => InOrder(r, c)

EarnInv ==
  /\ OwnTimed(rec, call) /\ OwnTransit(up, call) /\ OwnTransit(down, call)
  /\ Pinged(rec, call) /\ Routed(rec, call, clock)
  /\ Numbered(rec, up, call) /\ Earned(rec, call)

\* Of the records that are new at a node, the queries are the probe's own, if it asked
\* while none was in transit.
OwnQueries(n, new, c) ==
  n \in Satellites /\ n = c.sat /\ c.since # NoMark /\ c.clean =>
    \A k \in 1..Len(new) : new[k].type = "query" => new[k].probe = c.probe

\* What arrives at a node: nothing a satellite sends, and of a fifo probe only numbers
\* that were not injected yet.
Arrives(n, new) ==
  /\ n \in Nodes /\ rec' \in [Nodes -> Seq(Records)] /\ Grown(Nodes, rec, rec', n, new)
  /\ OwnQueries(n, new, call)
  /\ \A k \in 1..Len(new) :
       /\ new[k].at = clock /\ new[k].dir # "out"
       /\ call.helper = "fifo" /\ new[k].dir = "bus_inject" /\ new[k].probe = call.probe =>
            /\ new[k].seq \in 1..Count["fifo"]
            /\ \A j \in Done(rec, call) : rec[Master][j].seq # new[k].seq

LEMMA TimedGrows ==
  ASSUME NEW r, NEW r2, NEW n, NEW new, Grown(Nodes, r, r2, n, new), NEW c, OwnTimed(r, c),
         OwnQueries(n, new, c),
         \A k \in 1..Len(new) : new[k].at >= c.since /\ new[k].dir # "out"
  PROVE  OwnTimed(r2, c)
  <1> SUFFICES ASSUME NEW m \in Nodes, NEW i \in DOMAIN r2[m]
               PROVE  /\ r2[m][i].probe = c.probe => r2[m][i].at >= c.since
                      /\ c.since # NoMark /\ r2[m][i].at >= c.since
                           /\ r2[m][i].dir = "out" => r2[m][i].probe = c.probe
                      /\ c.since # NoMark /\ r2[m][i].at >= c.since
                           /\ c.clean /\ m \in Satellites /\ m = c.sat /\ r2[m][i].type = "query" =>
                           r2[m][i].probe = c.probe
    BY DEF OwnTimed
  <1>1. CASE i \in DOMAIN r[m]
    <2>1. r2[m][i] = r[m][i]
      BY <1>1 DEF Grown
    <2>2. QED
      BY <1>1, <2>1 DEF OwnTimed
  <1>2. CASE i \notin DOMAIN r[m]
    <2>1. m = n /\ \E k \in 1..Len(new) : r2[m][i] = new[k]
      BY <1>2 DEF Grown
    <2>2. QED
      BY <2>1 DEF OwnQueries
  <1>3. QED
    BY <1>1, <1>2

LEMMA RoutedGrows ==
  ASSUME NEW r, NEW r2, NEW n, NEW new, Grown(Nodes, r, r2, n, new), NEW c, NEW t, Routed(r, c, t),
         \A k \in 1..Len(new) : Judging(c) => new[k].at >= c.deadline
  PROVE  Routed(r2, c, t)
  <1>1. ASSUME NEW o \in Satellites, Clear(r, c, o), Judging(c)
        PROVE  Clear(r2, c, o)
    <2> SUFFICES ASSUME NEW i \in DOMAIN r2[o], r2[o][i].type = "bus", r2[o][i].dir = "in",
                        r2[o][i].probe = c.probe
                 PROVE  r2[o][i].at >= c.deadline
      BY DEF Clear
    <2>1. o \in Nodes
      BY NodesFacts
    <2>2. CASE i \in DOMAIN r[o]
      <3>1. r2[o][i] = r[o][i]
        BY <2>1, <2>2 DEF Grown
      <3>2. QED
        BY <1>1, <2>2, <3>1 DEF Clear
    <2>3. CASE i \notin DOMAIN r[o]
      <3>1. \E k \in 1..Len(new) : r2[o][i] = new[k]
        BY <2>1, <2>3 DEF Grown
      <3>2. QED
        BY <1>1, <3>1
    <2>4. QED
      BY <2>2, <2>3
  <1>2. QED
    BY <1>1 DEF Routed

LEMMA MineGrows ==
  ASSUME NEW r \in [Nodes -> Seq(Records)], NEW r2 \in [Nodes -> Seq(Records)], NEW n, NEW new,
         Grown(Nodes, r, r2, n, new), NEW c, NEW o \in Nodes, NEW dir, NEW type
  PROVE  /\ Mine(r, c, o, dir, type) \subseteq Mine(r2, c, o, dir, type)
         /\ Cardinality(Mine(r, c, o, dir, type)) \in Nat
         /\ Cardinality(Mine(r2, c, o, dir, type)) \in Nat
         /\ Cardinality(Mine(r, c, o, dir, type)) <= Cardinality(Mine(r2, c, o, dir, type))
  <1> DEFINE S == Mine(r, c, o, dir, type)
             T == Mine(r2, c, o, dir, type)
  <1>1. S \subseteq T
    BY DEF Mine, Grown
  <1>2. T \in SUBSET (1..Len(r2[o])) /\ Len(r2[o]) \in Nat
    BY DEF Mine
  <1> HIDE DEF S, T
  <1>3. IsFiniteSet(1..Len(r2[o]))
    BY <1>2, FS_Interval
  <1>4. IsFiniteSet(T)
    BY <1>2, <1>3, FS_Subset
  <1>5. IsFiniteSet(S) /\ Cardinality(S) <= Cardinality(T)
    BY <1>1, <1>4, FS_Subset
  <1>6. Cardinality(S) \in Nat /\ Cardinality(T) \in Nat
    BY <1>4, <1>5, FS_CardinalityType
  <1>7. QED
    BY <1>1, <1>5, <1>6 DEF S, T

LEMMA OrderGrows ==
  ASSUME NEW r, NEW r2, NEW n, NEW new, Grown(Nodes, r, r2, n, new), NEW c, InOrder(r, c),
         \A k \in 1..Len(new) : new[k].dir = "bus_inject" /\ new[k].probe = c.probe =>
           /\ new[k].seq \in 1..Count["fifo"]
           /\ \A j \in Done(r, c) : r[Master][j].seq # new[k].seq
  PROVE  InOrder(r2, c)
  <1> SUFFICES ASSUME \A i \in Asked(r2, c) : r2[Master][i].probe = c.probe
               PROVE  /\ {r2[Master][i].seq : i \in Asked(r2, c)} = 1..Count["fifo"]
                      /\ \A i, j \in Asked(r2, c) : i < j => r2[Master][i].seq < r2[Master][j].seq
    BY DEF InOrder
  <1>1. \A i \in Asked(r, c) : i \in Asked(r2, c) /\ r2[Master][i] = r[Master][i]
    BY NodesFacts DEF Asked, Grown
  <1>2. \A i \in Asked(r, c) : r[Master][i].probe = c.probe
    BY <1>1
  <1>3. /\ {r[Master][i].seq : i \in Asked(r, c)} = 1..Count["fifo"]
        /\ \A i, j \in Asked(r, c) : i < j => r[Master][i].seq < r[Master][j].seq
    BY <1>2 DEF InOrder
  <1>4. ASSUME NEW i \in Asked(r2, c), i \notin Asked(r, c)
        PROVE  FALSE
    <2>1. i \in DOMAIN r2[Master] /\ r2[Master][i].dir = "bus_inject" /\ r2[Master][i].probe = c.probe
      BY DEF Asked
    <2>2. i \notin DOMAIN r[Master]
      <3>1. SUFFICES ASSUME i \in DOMAIN r[Master]
                     PROVE  i \in Asked(r, c)
        BY <1>4
      <3>2. r2[Master][i] = r[Master][i]
        BY <3>1, NodesFacts DEF Grown
      <3>3. QED
        BY <3>1, <3>2 DEF Asked
    <2>3. PICK k \in 1..Len(new) : r2[Master][i] = new[k]
      BY <2>1, <2>2, NodesFacts DEF Grown
    <2>4. /\ new[k].seq \in 1..Count["fifo"]
          /\ \A j \in Done(r, c) : r[Master][j].seq # new[k].seq
      BY <2>1, <2>3
    <2>5. PICK j \in Asked(r, c) : r[Master][j].seq = new[k].seq
      BY <1>3, <2>4
    <2>6. j \in Done(r, c)
      BY <1>2, <2>5 DEF Asked, Done
    <2>7. QED
      BY <2>4, <2>5, <2>6
  <1>5. Asked(r2, c) = Asked(r, c)
    BY <1>1, <1>4
  <1> DEFINE B == Asked(r, c)
  <1>6. \A i \in B : r2[Master][i].seq = r[Master][i].seq
    BY <1>1
  <1>7. /\ {r[Master][i].seq : i \in B} = 1..Count["fifo"]
        /\ \A i, j \in B : i < j => r[Master][i].seq < r[Master][j].seq
        /\ Asked(r2, c) = B
    BY <1>3, <1>5
  <1> HIDE DEF B
  <1>8. {r2[Master][i].seq : i \in B} = {r[Master][i].seq : i \in B}
    BY <1>6
  <1>9. QED
    BY <1>6, <1>7, <1>8

LEMMA ArrivalKeeps ==
  ASSUME TypeInv, EarnInv, NEW n, NEW new, Arrives(n, new)
  PROVE  /\ OwnTimed(rec', call) /\ Pinged(rec', call)
         /\ Routed(rec', call, clock) /\ Earned(rec', call)
  <1>1. /\ OwnTimed(rec, call) /\ Pinged(rec, call) /\ Routed(rec, call, clock) /\ Earned(rec, call)
    BY DEF EarnInv
  <1>2. /\ rec \in [Nodes -> Seq(Records)] /\ rec' \in [Nodes -> Seq(Records)]
        /\ Grown(Nodes, rec, rec', n, new) /\ call.sat \in Nodes
        /\ clock >= call.since /\ clock \in Nat /\ Count["query"] \in Nat
    <2>1. Count["query"] \in Nat
      BY ConstantsAssumption DEF Helpers, Polls
    <2>2. clock \in Nat /\ call.since \in Nat /\ call.sat \in Nodes
      BY DEF TypeInv, Calls
    <2>3. clock >= call.since
      BY <2>2 DEF TypeInv, PhaseSound
    <2>4. QED
      BY <2>1, <2>2, <2>3 DEF TypeInv, Arrives
  <1>3. OwnTimed(rec', call)
    <2>1. \A k \in 1..Len(new) :
            new[k].at >= call.since /\ new[k].dir # "out"
      BY <1>2 DEF Arrives
    <2>2. OwnQueries(n, new, call)
      BY DEF Arrives
    <2>3. QED
      BY <1>1, <1>2, <2>1, <2>2, TimedGrows
  <1>4. Pinged(rec', call)
    BY <1>1, <1>2 DEF Pinged, Grown
  <1>5. Routed(rec', call, clock)
    <2>1. \A k \in 1..Len(new) : Judging(call) => new[k].at >= call.deadline
      BY <1>1 DEF Routed, Arrives
    <2>2. QED
      BY <1>1, <1>2, <2>1, RoutedGrows
  <1>6. Earned(rec', call)
    <2>1. Mine(rec, call, call.sat, "in", "propagate") \subseteq Mine(rec', call, call.sat, "in", "propagate")
      BY <1>2, MineGrows
    <2> DEFINE a == Cardinality(Mine(rec, call, call.sat, "in", "query"))
               b == Cardinality(Mine(rec', call, call.sat, "in", "query"))
    <2>2. a \in Nat /\ b \in Nat /\ a <= b
      BY <1>2, MineGrows
    <2> HIDE DEF a, b
    <2>3. a >= Count["query"] => b >= Count["query"]
      BY <1>2, <2>2
    <2>4. ASSUME call.helper = "fifo", InOrder(rec, call)
          PROVE  InOrder(rec', call)
      <3>1. \A k \in 1..Len(new) : new[k].dir = "bus_inject" /\ new[k].probe = call.probe =>
              /\ new[k].seq \in 1..Count["fifo"]
              /\ \A j \in Done(rec, call) : rec[Master][j].seq # new[k].seq
        BY <2>4 DEF Arrives
      <3>2. QED
        BY <1>2, <2>4, <3>1, OrderGrows
    <2>5. QED
      BY <1>1, <2>1, <2>3, <2>4 DEF Earned, a, b
  <1>7. QED
    BY <1>3, <1>4, <1>5, <1>6

\* What the queues hold of the probe.
LEMMA OwnShrinks ==
  ASSUME NEW q \in [Satellites -> Seq(Messages)], NEW q2 \in [Satellites -> Seq(Messages)],
         NEW s \in Satellites, NEW i \in DOMAIN q[s], Shrunk(q, q2, s, i), NEW c, OwnTransit(q, c)
  PROVE  OwnTransit(q2, c)
  <1> SUFFICES ASSUME c.since # NoMark, c.clean, NEW o \in Satellites, NEW k \in DOMAIN q2[o],
                      o = c.sat, q2[o][k].type = "query"
               PROVE  q2[o][k].probe = c.probe
    BY DEF OwnTransit
  <1>1. \E j \in DOMAIN q[o] : q2[o][k] = q[o][j]
    BY ShrunkHeld
  <1>2. QED
    BY <1>1 DEF OwnTransit

LEMMA OwnGrows ==
  ASSUME NEW q, NEW q2, NEW s, NEW sent, Grown(Satellites, q, q2, s, sent), NEW c, OwnTransit(q, c),
         s = c.sat /\ c.since # NoMark /\ c.clean =>
           \A k \in 1..Len(sent) : sent[k].type = "query" => sent[k].probe = c.probe
  PROVE  OwnTransit(q2, c)
  <1> SUFFICES ASSUME c.since # NoMark, c.clean, NEW o \in Satellites, NEW k \in DOMAIN q2[o],
                      o = c.sat, q2[o][k].type = "query"
               PROVE  q2[o][k].probe = c.probe
    BY DEF OwnTransit
  <1>1. CASE k \in DOMAIN q[o]
    BY <1>1 DEF OwnTransit, Grown
  <1>2. CASE k \notin DOMAIN q[o]
    BY <1>2 DEF Grown
  <1>3. QED
    BY <1>1, <1>2

\* No message of the probe in the queues carries the number n.
Absent(u, c, n) ==
  \A o \in Satellites : \A k \in DOMAIN u[o] : u[o][k].probe = c.probe => u[o][k].seq # n

LEMMA NumberedTakes ==
  ASSUME NEW u \in [Satellites -> Seq(Messages)], NEW u2 \in [Satellites -> Seq(Messages)],
         NEW s \in Satellites, NEW i \in DOMAIN u[s], Shrunk(u, u2, s, i),
         NEW r, NEW c, Numbered(r, u, c)
  PROVE  /\ Numbered(r, u2, c)
         /\ c.helper = "fifo" /\ u[s][i].probe = c.probe => Absent(u2, c, u[s][i].seq)
  <1> SUFFICES ASSUME c.helper = "fifo"
               PROVE  /\ Numbered(r, u2, c)
                      /\ u[s][i].probe = c.probe =>
                           \A o \in Satellites : \A k \in DOMAIN u2[o] :
                             u2[o][k].probe = c.probe => u2[o][k].seq # u[s][i].seq
    BY DEF Numbered, Absent
  <1>1. \A o \in Satellites : \A k \in DOMAIN u[o] : u[o][k].probe = c.probe =>
          /\ o = c.sat /\ u[o][k].seq \in 1..Count["fifo"]
          /\ \A j \in DOMAIN u[o] : u[o][j].probe = c.probe /\ u[o][j].seq = u[o][k].seq => j = k
          /\ \A j \in Done(r, c) : r[Master][j].seq # u[o][k].seq
    BY DEF Numbered
  <1>2. \A k \in DOMAIN u2[s] : \E j \in DOMAIN u[s] :
          /\ j # i /\ (k < i => j = k) /\ (k >= i => j = k + 1)
          /\ u2[s][k] = u[s][j]
    <2>1. /\ u \in [Satellites -> Seq(Messages)] /\ u2 \in [Satellites -> Seq(Messages)]
          /\ s \in Satellites /\ i \in DOMAIN u[s] /\ Shrunk(u, u2, s, i)
      OBVIOUS
    <2>2. KeptFrom(u, u2, s, i)
      BY <2>1, ShrunkFrom
    <2>3. QED
      BY <2>2 DEF KeptFrom
  <1>3. \A o \in Satellites : o # s => u2[o] = u[o]
    BY DEF Shrunk
  <1>4. /\ \A k \in DOMAIN u2[s] : k \in Nat
        /\ i \in Nat
    <2>1. u[s] \in Seq(Messages) /\ u2[s] \in Seq(Messages)
      OBVIOUS
    <2>2. DOMAIN u[s] = 1..Len(u[s]) /\ DOMAIN u2[s] = 1..Len(u2[s])
      BY <2>1
    <2>3. QED
      BY <2>2
  <1>5. ASSUME NEW k \in DOMAIN u2[s], u2[s][k].probe = c.probe
        PROVE  /\ s = c.sat /\ u2[s][k].seq \in 1..Count["fifo"]
               /\ \A l \in DOMAIN u2[s] : u2[s][l].probe = c.probe /\ u2[s][l].seq = u2[s][k].seq => l = k
               /\ \A j \in Done(r, c) : r[Master][j].seq # u2[s][k].seq
               /\ u[s][i].probe = c.probe => u2[s][k].seq # u[s][i].seq
    <2>1. PICK j \in DOMAIN u[s] :
            /\ j # i /\ (k < i => j = k) /\ (k >= i => j = k + 1)
            /\ u2[s][k] = u[s][j]
      BY <1>2
    <2>2. /\ s = c.sat /\ u[s][j].seq \in 1..Count["fifo"]
          /\ \A l \in Done(r, c) : r[Master][l].seq # u[s][j].seq
          /\ u[s][i].probe = c.probe => u[s][j].seq # u[s][i].seq
      BY <1>1, <1>5, <2>1
    <2>3. ASSUME NEW l \in DOMAIN u2[s], u2[s][l].probe = c.probe, u2[s][l].seq = u2[s][k].seq
          PROVE  l = k
      <3>1. PICK h \in DOMAIN u[s] :
              /\ h # i /\ (l < i => h = l) /\ (l >= i => h = l + 1)
              /\ u2[s][l] = u[s][h]
        BY <1>2
      <3>2. h = j
        BY <1>1, <1>5, <2>1, <2>3, <3>1
      <3>3. k \in Nat /\ l \in Nat /\ i \in Nat
        BY <1>4
      <3>4. QED
        BY ONLY <2>1, <3>1, <3>2, <3>3
    <2>4. QED
      BY <2>1, <2>2, <2>3
  <1>6. ASSUME NEW o \in Satellites, NEW k \in DOMAIN u2[o], u2[o][k].probe = c.probe
        PROVE  /\ o = c.sat /\ u2[o][k].seq \in 1..Count["fifo"]
               /\ \A l \in DOMAIN u2[o] : u2[o][l].probe = c.probe /\ u2[o][l].seq = u2[o][k].seq => l = k
               /\ \A j \in Done(r, c) : r[Master][j].seq # u2[o][k].seq
               /\ u[s][i].probe = c.probe => u2[o][k].seq # u[s][i].seq
    <2>1. CASE o = s
      BY <1>5, <1>6, <2>1
    <2>2. CASE o # s
      <3>1. u2[o] = u[o]
        BY <1>3, <2>2
      <3>2. u[s][i].probe # c.probe
        BY <1>1, <1>6, <2>2, <3>1
      <3>3. k \in DOMAIN u[o] /\ u[o][k].probe = c.probe
        BY <1>6, <3>1
      <3>4. /\ o = c.sat /\ u[o][k].seq \in 1..Count["fifo"]
            /\ \A l \in DOMAIN u[o] : u[o][l].probe = c.probe /\ u[o][l].seq = u[o][k].seq => l = k
            /\ \A j \in Done(r, c) : r[Master][j].seq # u[o][k].seq
        BY <1>1, <3>3
      <3>5. QED
        BY ONLY <3>1, <3>2, <3>4
    <2>3. QED
      BY <2>1, <2>2
  <1>7. \A j \in Done(r, c) :
          /\ r[Master][j].seq \in 1..Count["fifo"]
          /\ \A l \in Done(r, c) : r[Master][l].seq = r[Master][j].seq => l = j
    BY DEF Numbered
  <1>8. QED
    BY <1>6, <1>7 DEF Numbered

\* At most one of the new records is an injection of the probe, with a number that is
\* neither injected nor in transit.
LEMMA NumberedGrows ==
  ASSUME NEW r, NEW r2, NEW n, NEW new, Grown(Nodes, r, r2, n, new),
         NEW u, NEW c, Numbered(r, u, c),
         \A k \in 1..Len(new) :
           c.helper = "fifo" /\ new[k].dir = "bus_inject" /\ new[k].probe = c.probe =>
             /\ new[k].seq \in 1..Count["fifo"]
             /\ \A j \in Done(r, c) : r[Master][j].seq # new[k].seq
             /\ \A o \in Satellites : \A i \in DOMAIN u[o] :
                  u[o][i].probe = c.probe => u[o][i].seq # new[k].seq
             /\ \A l \in 1..Len(new) :
                  new[l].dir = "bus_inject" /\ new[l].probe = c.probe => l = k
  PROVE  Numbered(r2, u, c)
  <1> SUFFICES ASSUME c.helper = "fifo"
               PROVE  Numbered(r2, u, c)
    BY DEF Numbered
  <1> DEFINE old(i) == i \in Done(r, c) /\ r2[Master][i] = r[Master][i]
             fresh(i) == \E k \in 1..Len(new) :
                           /\ i = Len(r[Master]) + k /\ r2[Master][i] = new[k]
                           /\ new[k].dir = "bus_inject" /\ new[k].probe = c.probe
  <1>1. ASSUME NEW i \in Done(r2, c)
        PROVE  old(i) \/ fresh(i)
    <2>1. i \in DOMAIN r2[Master] /\ r2[Master][i].dir = "bus_inject" /\ r2[Master][i].probe = c.probe
      BY DEF Done
    <2>2. CASE i \in DOMAIN r[Master]
      <3>1. r2[Master][i] = r[Master][i]
        BY <2>2, NodesFacts DEF Grown
      <3>2. QED
        BY <2>1, <2>2, <3>1 DEF Done
    <2>3. CASE i \notin DOMAIN r[Master]
      <3>1. n = Master /\ \E k \in 1..Len(new) : i = Len(r[n]) + k /\ r2[Master][i] = new[k]
        BY <2>1, <2>3, NodesFacts DEF Grown
      <3>2. QED
        BY <2>1, <3>1
    <2>4. QED
      BY <2>2, <2>3
  <1>2. \A i \in Done(r, c) :
          /\ r[Master][i].seq \in 1..Count["fifo"]
          /\ \A j \in Done(r, c) : r[Master][j].seq = r[Master][i].seq => j = i
    BY DEF Numbered
  <1>3. ASSUME NEW i \in Done(r2, c)
        PROVE  /\ r2[Master][i].seq \in 1..Count["fifo"]
               /\ \A j \in Done(r2, c) : r2[Master][j].seq = r2[Master][i].seq => j = i
    <2>1. r2[Master][i].seq \in 1..Count["fifo"]
      BY <1>1, <1>2
    <2>2. ASSUME NEW j \in Done(r2, c), r2[Master][j].seq = r2[Master][i].seq
          PROVE  j = i
      <3>1. (old(i) \/ fresh(i)) /\ (old(j) \/ fresh(j))
        BY <1>1
      <3>2. CASE old(i) /\ old(j)
        BY <1>2, <2>2, <3>2
      <3>3. CASE fresh(i) /\ fresh(j)
        BY <3>3
      <3>4. CASE old(i) /\ fresh(j)
        BY <2>2, <3>4
      <3>5. CASE fresh(i) /\ old(j)
        BY <2>2, <3>5
      <3>6. QED
        BY <3>1, <3>2, <3>3, <3>4, <3>5
    <2>3. QED
      BY <2>1, <2>2
  <1>4. ASSUME NEW s \in Satellites, NEW i \in DOMAIN u[s], u[s][i].probe = c.probe
        PROVE  /\ s = c.sat /\ u[s][i].seq \in 1..Count["fifo"]
               /\ \A j \in DOMAIN u[s] :
                    u[s][j].probe = c.probe /\ u[s][j].seq = u[s][i].seq => j = i
               /\ \A j \in Done(r2, c) : r2[Master][j].seq # u[s][i].seq
    <2>1. /\ s = c.sat /\ u[s][i].seq \in 1..Count["fifo"]
          /\ \A j \in DOMAIN u[s] :
               u[s][j].probe = c.probe /\ u[s][j].seq = u[s][i].seq => j = i
          /\ \A j \in Done(r, c) : r[Master][j].seq # u[s][i].seq
      BY <1>4 DEF Numbered
    <2>2. ASSUME NEW j \in Done(r2, c)
          PROVE  r2[Master][j].seq # u[s][i].seq
      <3>1. CASE old(j)
        BY <2>1, <3>1
      <3>2. CASE fresh(j)
        BY <1>4, <3>2
      <3>3. QED
        BY <1>1, <3>1, <3>2
    <2>3. QED
      BY <2>1, <2>2
  <1>5. QED
    BY <1>3, <1>4 DEF Numbered

LEMMA EarnMaster ==
  ASSUME TypeInv, EarnInv, NEW s \in Satellites, MasterHandles(s)
  PROVE  EarnInv'
  <1>1. PICK i \in DOMAIN up[s] :
          /\ Takes(s, i)
          /\ \/ \E a, answers : Answered(s, up[s][i], a, answers)
             \/ \E fate, a, b, denials : Injects(s, up[s][i], fate, a, b, denials)
    BY MasterEffect
  <1> DEFINE m == up[s][i]
  <1>2. /\ OwnTransit(up, call) /\ OwnTransit(down, call) /\ Numbered(rec, up, call)
        /\ up \in [Satellites -> Seq(Messages)] /\ Master \in Nodes
    BY NodesFacts DEF EarnInv, TypeInv
  <1>3. /\ up' \in [Satellites -> Seq(Messages)] /\ Shrunk(up, up', s, i)
        /\ clock' = clock /\ call' = call
    BY <1>1 DEF Takes
  <1>4. OwnTransit(up', call)
    BY <1>2, <1>3, OwnShrinks
  <1>5. /\ Numbered(rec, up', call)
        /\ call.helper = "fifo" /\ m.probe = call.probe => Absent(up', call, m.seq)
    <2>1. /\ up \in [Satellites -> Seq(Messages)] /\ up' \in [Satellites -> Seq(Messages)]
          /\ s \in Satellites /\ i \in DOMAIN up[s] /\ Shrunk(up, up', s, i)
          /\ Numbered(rec, up, call)
      BY <1>2, <1>3
    <2>2. QED
      BY <2>1, NumberedTakes
  <1>6. s = call.sat /\ call.since # NoMark /\ call.clean /\ m.type = "query" =>
          m.probe = call.probe
    BY <1>2 DEF OwnTransit
  <1>7. call.helper = "fifo" /\ m.probe = call.probe =>
          /\ m.seq \in 1..Count["fifo"]
          /\ \A j \in Done(rec, call) : rec[Master][j].seq # m.seq
    BY <1>2 DEF Numbered
  <1> HIDE DEF m
  <1>8. ASSUME NEW a, NEW answers, Answered(s, m, a, answers)
        PROVE  EarnInv'
    <2>1. /\ rec' \in [Nodes -> Seq(Records)] /\ Grown(Nodes, rec, rec', Master, <<a>>)
          /\ a.dir = "in" /\ a.at = clock /\ a.probe = m.probe
          /\ Grown(Satellites, down, down', s, answers)
          /\ \A k \in 1..Len(answers) : answers[k].probe = m.probe /\ answers[k].type = m.type
      BY <1>8 DEF Answered
    <2>2. \A k \in 1..Len(<<a>>) : <<a>>[k] = a
      OBVIOUS
    <2>3. Arrives(Master, <<a>>)
      BY <1>2, <2>1, <2>2, NodesFacts DEF Arrives, OwnQueries
    <2>4. /\ OwnTimed(rec', call) /\ Pinged(rec', call)
          /\ Routed(rec', call, clock) /\ Earned(rec', call)
      BY <2>3, ArrivalKeeps
    <2>5. Numbered(rec', up', call)
      BY <1>5, <2>1, <2>2, NumberedGrows
    <2>6. OwnTransit(down', call)
      BY <1>2, <1>6, <2>1, OwnGrows
    <2>7. QED
      BY <1>3, <1>4, <2>4, <2>5, <2>6 DEF EarnInv
  <1>9. ASSUME NEW fate, NEW a, NEW b, NEW denials, Injects(s, m, fate, a, b, denials)
        PROVE  EarnInv'
    <2>1. /\ rec' \in [Nodes -> Seq(Records)] /\ Grown(Nodes, rec, rec', Master, <<a, b>>)
          /\ a.dir = "in" /\ a.at = clock /\ a.probe = m.probe
          /\ b.dir = "bus_inject" /\ b.at = clock /\ b.probe = m.probe /\ b.seq = m.seq
          /\ Grown(Satellites, down, down', s, denials)
          /\ \A k \in 1..Len(denials) : denials[k].type = "bus"
      BY <1>9 DEF Injects
    <2>2. Len(<<a, b>>) = 2 /\ <<a, b>>[1] = a /\ <<a, b>>[2] = b /\ 1..2 = {1, 2}
      OBVIOUS
    <2> DEFINE new == <<a, b>>
    <2>3. \A k \in 1..Len(new) : (k = 1 /\ new[k] = a) \/ (k = 2 /\ new[k] = b)
      BY <2>2
    <2>4. Grown(Nodes, rec, rec', Master, new)
      BY <2>1
    <2> HIDE DEF new
    <2>5. Arrives(Master, new)
      BY <1>2, <1>7, <2>1, <2>3, <2>4, NodesFacts DEF Arrives, OwnQueries
    <2>6. /\ OwnTimed(rec', call) /\ Pinged(rec', call)
          /\ Routed(rec', call, clock) /\ Earned(rec', call)
      BY <2>5, ArrivalKeeps
    <2>7. \A k \in 1..Len(new) :
            call.helper = "fifo" /\ new[k].dir = "bus_inject" /\ new[k].probe = call.probe =>
              /\ new[k].seq \in 1..Count["fifo"]
              /\ \A j \in Done(rec, call) : rec[Master][j].seq # new[k].seq
              /\ \A o \in Satellites : \A l \in DOMAIN up'[o] :
                   up'[o][l].probe = call.probe => up'[o][l].seq # new[k].seq
              /\ \A l \in 1..Len(new) :
                   new[l].dir = "bus_inject" /\ new[l].probe = call.probe => l = k
      BY <1>5, <1>7, <2>1, <2>3 DEF Absent
    <2>8. Numbered(rec', up', call)
      BY <1>5, <2>4, <2>7, NumberedGrows
    <2>9. OwnTransit(down', call)
      BY <1>2, <2>1, OwnGrows
    <2>10. QED
      BY <1>3, <1>4, <2>6, <2>8, <2>9 DEF EarnInv
  <1>10. QED
    BY <1>1, <1>8, <1>9 DEF m

LEMMA EarnReceive ==
  ASSUME TypeInv, EarnInv, NEW s \in Satellites, SatelliteReceives(s)
  PROVE  EarnInv'
  <1>1. PICK a : Receives(s, a)
    BY ReceiveEffect
  <1>2. /\ rec' \in [Nodes -> Seq(Records)] /\ Grown(Nodes, rec, rec', s, <<a>>)
        /\ a.dir = "in" /\ a.at = clock /\ a.probe = down[s][1].probe /\ 1 \in DOMAIN down[s]
        /\ a.type = down[s][1].type
        /\ down' \in [Satellites -> Seq(Messages)] /\ Shrunk(down, down', s, 1)
        /\ clock' = clock /\ call' = call /\ up' = up
    BY <1>1 DEF Receives
  <1>3. /\ OwnTransit(up, call) /\ OwnTransit(down, call) /\ Numbered(rec, up, call)
        /\ down \in [Satellites -> Seq(Messages)] /\ s \in Nodes
    BY NodesFacts DEF EarnInv, TypeInv
  <1>4. \A k \in 1..Len(<<a>>) : <<a>>[k] = a
    OBVIOUS
  <1>5. s = call.sat /\ call.since # NoMark /\ call.clean /\ a.type = "query" =>
          a.probe = call.probe
    BY <1>2, <1>3 DEF OwnTransit
  <1>6. Arrives(s, <<a>>)
    BY <1>2, <1>3, <1>4, <1>5 DEF Arrives, OwnQueries
  <1>7. /\ OwnTimed(rec', call) /\ Pinged(rec', call)
        /\ Routed(rec', call, clock) /\ Earned(rec', call)
    BY <1>6, ArrivalKeeps
  <1>8. Numbered(rec', up, call)
    BY <1>2, <1>3, <1>4, NumberedGrows
  <1>9. OwnTransit(down', call)
    BY <1>2, <1>3, OwnShrinks
  <1>10. QED
    BY <1>2, <1>3, <1>7, <1>8, <1>9 DEF EarnInv

\* A probe is new: nothing that is recorded or in transit is its own.
LEMMA ProbedFresh ==
  ASSUME TypeInv, NEW h \in Helpers, NEW s \in Satellites, Probed(h, s)
  PROVE  /\ \A n \in Nodes : \A i \in DOMAIN rec[n] :
              rec[n][i].probe # call'.probe /\ rec[n][i].at < clock /\ rec[n][i].at \in Nat
         /\ \A o \in Satellites :
              /\ \A i \in DOMAIN up[o] : up[o][i].probe # call'.probe
              /\ \A i \in DOMAIN down[o] : down[o][i].probe # call'.probe
         /\ call'.since = NoMark \/ call'.since = clock
         /\ clock >= call'.since /\ clock \in Nat
         /\ call'.clean => NoQueries(s)
         /\ call'.pc = "sent" /\ call'.helper = h /\ call'.sat = s /\ call'.probe = call.probe + 1
  <1>1. call.probe \in Nat /\ clock \in Nat /\ call'.probe = call.probe + 1
    BY DEF TypeInv, Calls, Probed
  <1>2. \A x \in 1..call.probe : x # call'.probe
    BY <1>1
  <1>3. /\ \A n \in Nodes : \A i \in DOMAIN rec[n] :
             rec[n][i].probe \in 1..call.probe /\ rec[n][i].at \in 1..clock
        /\ \A o \in Satellites :
             /\ \A i \in DOMAIN up[o] : up[o][i].probe \in 1..call.probe
             /\ \A i \in DOMAIN down[o] : down[o][i].probe \in 1..call.probe
    BY DEF TypeInv, RecordsSound, TransitSound
  <1>4. /\ \A n \in Nodes : \A i \in DOMAIN rec[n] : rec[n][i].at < clock
        /\ call'.since \in {NoMark, clock} /\ call'.clean = NoQueries(s)
        /\ call'.pc = "sent" /\ call'.helper = h /\ call'.sat = s
    BY DEF Probed
  <1>5. clock >= call'.since
    BY <1>1, <1>4 DEF NoMark
  <1>6. \A x \in 1..clock : x \in Nat
    BY <1>1
  <1>7. QED
    BY <1>1, <1>2, <1>3, <1>4, <1>5, <1>6

LEMMA EarnUp ==
  ASSUME TypeInv, NEW h \in Helpers, NEW s \in Satellites, ProbeUp(h, s)
  PROVE  EarnInv'
  <1>1. Probed(h, s) /\ h \notin {"routed", "destination"}
    BY ProbeUpEffect
  <1>0. PICK k \in KindsOf(h) : \E sent, out : SentUp(h, s, k, sent, out)
    BY ProbeUpEffect
  <1>2. PICK sent, out : SentUp(h, s, k, sent, out)
    BY <1>0
  <1> DEFINE p == call.probe + 1
  <1>3. /\ \A n \in Nodes : \A i \in DOMAIN rec[n] :
             rec[n][i].probe # p /\ rec[n][i].at < clock /\ rec[n][i].at \in Nat
        /\ \A o \in Satellites :
             /\ \A i \in DOMAIN up[o] : up[o][i].probe # p
             /\ \A i \in DOMAIN down[o] : down[o][i].probe # p
        /\ call'.since = NoMark \/ call'.since = clock
        /\ clock >= call'.since /\ clock \in Nat
        /\ call'.clean => NoQueries(s)
        /\ call'.pc = "sent" /\ call'.helper = h /\ call'.sat = s /\ call'.probe = p
    BY <1>1, ProbedFresh
  <1>4. /\ Grown(Nodes, rec, rec', s, out) /\ Grown(Satellites, up, up', s, sent) /\ down' = down
        /\ Len(sent) = Count[h] /\ Len(out) = Count[h] /\ Count[h] \in Nat
        /\ \A i \in 1..Count[h] :
             /\ sent[i].probe = p
             /\ sent[i].seq = (IF h = "fifo" THEN i ELSE 0)
             /\ out[i].dir = "out" /\ out[i].at = clock /\ out[i].probe = p
    BY <1>2, ConstantsAssumption DEF SentUp
  <1>5. \A o \in Satellites : DOMAIN up[o] = 1..Len(up[o]) /\ Len(up[o]) \in Nat
    BY DEF TypeInv
  <1> HIDE DEF p
  <1>6. ASSUME NEW n \in Nodes, NEW i \in DOMAIN rec'[n]
        PROVE  \/ rec'[n][i].probe # p /\ rec'[n][i].at < clock /\ rec'[n][i].at \in Nat
               \/ rec'[n][i].probe = p /\ rec'[n][i].at = clock /\ rec'[n][i].dir = "out"
    <2>1. CASE i \in DOMAIN rec[n]
      <3>1. rec'[n][i] = rec[n][i]
        BY <1>4, <2>1 DEF Grown
      <3>2. QED
        BY <1>3, <2>1, <3>1
    <2>2. CASE i \notin DOMAIN rec[n]
      <3>1. \E l \in 1..Len(out) : rec'[n][i] = out[l]
        BY <1>4, <2>2 DEF Grown
      <3>2. QED
        BY <1>4, <3>1
    <2>3. QED
      BY <2>1, <2>2
  <1>7. OwnTimed(rec', call')
    <2> SUFFICES ASSUME NEW n \in Nodes, NEW i \in DOMAIN rec'[n]
                 PROVE  /\ rec'[n][i].probe = p => rec'[n][i].at >= call'.since
                        /\ call'.since # NoMark /\ rec'[n][i].at >= call'.since =>
                             rec'[n][i].probe = p
      BY <1>3 DEF OwnTimed
    <2>1. QED
      BY <1>3, <1>6
  <1>8. ASSUME NEW o \in Satellites, NEW i \in DOMAIN up'[o]
        PROVE  \/ i \in DOMAIN up[o] /\ up'[o][i] = up[o][i] /\ up'[o][i].probe # p
               \/ o = s /\ \E l \in 1..Count[h] :
                    /\ i = Len(up[s]) + l /\ up'[o][i].probe = p
                    /\ h = "fifo" => up'[o][i].seq = l
    <2>1. CASE i \in DOMAIN up[o]
      <3>1. up'[o][i] = up[o][i]
        BY <1>4, <2>1 DEF Grown
      <3>2. QED
        BY <1>3, <2>1, <3>1
    <2>2. CASE i \notin DOMAIN up[o]
      <3>1. o = s /\ \E l \in 1..Len(sent) : i = Len(up[s]) + l /\ up'[o][i] = sent[l]
        BY <1>4, <2>2 DEF Grown
      <3>2. QED
        BY <1>4, <3>1
    <2>3. QED
      BY <2>1, <2>2
  <1>9. OwnTransit(up', call') /\ OwnTransit(down', call')
    <2>1. call'.clean => /\ \A i \in DOMAIN up[s] : up[s][i].type # "query"
                         /\ \A i \in DOMAIN down[s] : down[s][i].type # "query"
      BY <1>3 DEF NoQueries
    <2>2. OwnTransit(up', call')
      <3> SUFFICES ASSUME call'.clean, NEW i \in DOMAIN up'[s], up'[s][i].type = "query"
                   PROVE  up'[s][i].probe = p
        BY <1>3 DEF OwnTransit
      <3>1. ~(i \in DOMAIN up[s] /\ up'[s][i] = up[s][i])
        BY <2>1
      <3>2. QED
        BY <1>8, <3>1
    <2>3. OwnTransit(down', call')
      BY <1>3, <1>4, <2>1 DEF OwnTransit
    <2>4. QED
      BY <2>2, <2>3
  <1>10. Done(rec', call') = {}
    <2> SUFFICES ASSUME NEW i \in DOMAIN rec'[Master]
                 PROVE  ~(rec'[Master][i].dir = "bus_inject" /\ rec'[Master][i].probe = p)
      BY <1>3 DEF Done
    <2>1. QED
      BY <1>6, NodesFacts
  <1>11. Numbered(rec', up', call')
    <2> SUFFICES ASSUME h = "fifo", NEW o \in Satellites, NEW i \in DOMAIN up'[o], up'[o][i].probe = p
                 PROVE  /\ o = s /\ up'[o][i].seq \in 1..Count["fifo"]
                        /\ \A j \in DOMAIN up'[o] :
                             up'[o][j].probe = p /\ up'[o][j].seq = up'[o][i].seq => j = i
      BY <1>3, <1>10 DEF Numbered
    <2>1. /\ o = s /\ \E l \in 1..Count[h] : i = Len(up[s]) + l /\ up'[o][i].seq = l
      BY <1>8
    <2>2. ASSUME NEW j \in DOMAIN up'[o], up'[o][j].probe = p, up'[o][j].seq = up'[o][i].seq
          PROVE  j = i
      <3>1. \E l \in 1..Count[h] : j = Len(up[s]) + l /\ up'[o][j].seq = l
        BY <1>8, <2>2
      <3>2. QED
        BY <2>1, <2>2, <3>1
    <2>3. QED
      BY <2>1, <2>2
  <1>12. Pinged(rec', call') /\ Routed(rec', call', clock') /\ Earned(rec', call')
    BY <1>3 DEF Pinged, Routed, Judging, Earned
  <1>13. QED
    BY <1>7, <1>9, <1>11, <1>12 DEF EarnInv

LEMMA EarnDown ==
  ASSUME TypeInv, NEW h \in Helpers, NEW s \in Satellites, ProbeDown(h, s)
  PROVE  EarnInv'
  <1>1. Probed(h, s) /\ h \in {"routed", "destination"}
    BY ProbeDownEffect
  <1>2. PICK sent : SentDown(h, s, sent)
    BY ProbeDownEffect
  <1>3. /\ \A n \in Nodes : \A i \in DOMAIN rec[n] :
             rec[n][i].probe # call'.probe /\ rec[n][i].at < clock /\ rec[n][i].at \in Nat
        /\ call'.since = NoMark \/ call'.since = clock
        /\ clock >= call'.since /\ clock \in Nat
        /\ call'.clean => NoQueries(s)
        /\ call'.pc = "sent" /\ call'.helper = h /\ call'.sat = s /\ call'.probe = call.probe + 1
    BY <1>1, ProbedFresh
  <1>4. rec' = rec /\ up' = up
    BY <1>2 DEF SentDown
  <1>5. OwnTimed(rec', call')
    <2> SUFFICES ASSUME NEW n \in Nodes, NEW i \in DOMAIN rec[n]
                 PROVE  /\ rec[n][i].probe # call'.probe
                        /\ ~(call'.since # NoMark /\ rec[n][i].at >= call'.since)
      BY <1>4 DEF OwnTimed
    <2>1. QED
      BY <1>3
  <1>6. call'.clean => /\ \A i \in DOMAIN up[s] : up[s][i].type # "query"
                       /\ \A i \in DOMAIN down[s] : down[s][i].type # "query"
    BY <1>3 DEF NoQueries
  <1>7. OwnTransit(up', call')
    BY <1>3, <1>4, <1>6 DEF OwnTransit
  <1>8. OwnTransit(down', call')
    <2> SUFFICES ASSUME call'.clean, NEW o \in Satellites, NEW i \in DOMAIN down'[o],
                        o = call'.sat, down'[o][i].type = "query"
                 PROVE  down'[o][i].probe = call'.probe
      BY DEF OwnTransit
    <2>1. \/ i \in DOMAIN down[o] /\ down'[o][i] = down[o][i]
          \/ down'[o][i].probe = call.probe + 1 /\ down'[o][i].body = "probe"
      BY <1>2, DownShape
    <2>2. QED
      BY <1>3, <1>6, <2>1
  <1>9. Numbered(rec', up', call')
    BY <1>1, <1>3 DEF Numbered
  <1>10. Pinged(rec', call') /\ Routed(rec', call', clock') /\ Earned(rec', call')
    BY <1>3 DEF Pinged, Routed, Judging, Earned
  <1>11. QED
    BY <1>5, <1>7, <1>8, <1>9, <1>10 DEF EarnInv

LEMMA EarnDisconnect ==
  ASSUME TypeInv, EarnInv, NEW s \in Satellites, Disconnect(s)
  PROVE  EarnInv'
  <1>1. /\ up' = [up EXCEPT ![s] = <<>>] /\ down' = [down EXCEPT ![s] = <<>>]
        /\ UNCHANGED <<clock, rec, call>>
    BY DEF Disconnect
  <1>2. /\ up \in [Satellites -> Seq(Messages)] /\ down \in [Satellites -> Seq(Messages)]
        /\ OwnTransit(up, call) /\ OwnTransit(down, call) /\ Numbered(rec, up, call)
        /\ OwnTimed(rec, call) /\ Pinged(rec, call) /\ Routed(rec, call, clock) /\ Earned(rec, call)
    BY DEF TypeInv, EarnInv
  <1>3. /\ \A o \in Satellites : o # s => up'[o] = up[o] /\ down'[o] = down[o]
        /\ DOMAIN up'[s] = {} /\ DOMAIN down'[s] = {}
    BY <1>1, <1>2
  <1> DEFINE u == up'
             d == down'
  <1>4. /\ \A o \in Satellites : \A i \in DOMAIN u[o] : u[o] = up[o]
        /\ \A o \in Satellites : \A i \in DOMAIN d[o] : d[o] = down[o]
    BY <1>3
  <1> HIDE DEF u, d
  <1>5. OwnTransit(u, call) /\ OwnTransit(d, call)
    BY <1>2, <1>4 DEF OwnTransit
  <1>6. Numbered(rec, u, call)
    <2> SUFFICES ASSUME call.helper = "fifo", NEW o \in Satellites, NEW i \in DOMAIN u[o],
                        u[o][i].probe = call.probe
                 PROVE  /\ o = call.sat /\ u[o][i].seq \in 1..Count["fifo"]
                        /\ \A j \in DOMAIN u[o] :
                             u[o][j].probe = call.probe /\ u[o][j].seq = u[o][i].seq => j = i
                        /\ \A j \in Done(rec, call) : rec[Master][j].seq # u[o][i].seq
      BY <1>2 DEF Numbered
    <2>1. u[o] = up[o]
      BY <1>4
    <2>2. i \in DOMAIN up[o] /\ up[o][i].probe = call.probe
      BY <2>1
    <2>3. /\ o = call.sat /\ up[o][i].seq \in 1..Count["fifo"]
          /\ \A j \in DOMAIN up[o] :
               up[o][j].probe = call.probe /\ up[o][j].seq = up[o][i].seq => j = i
          /\ \A j \in Done(rec, call) : rec[Master][j].seq # up[o][i].seq
      BY <1>2, <2>2 DEF Numbered
    <2>4. QED
      BY ONLY <2>1, <2>3
  <1>7. QED
    BY <1>1, <1>2, <1>5, <1>6 DEF EarnInv, u, d

-----------------------------------------------------------------------------
\* The verdicts.  The first of the floods the satellite sent since the mark is the
\* probe's own, and so is whatever answers it.
LEMMA PingEarns ==
  ASSUME TypeInv, OwnTimed(rec, call), Pinged(rec, call), call.pc = "look",
         call.helper = "ping", Enough, call.since # NoMark
  PROVE  Mine(rec, call, call.sat, "in", "propagate") # {}
  <1>1. Evidence = Responses /\ Needed = 1
    BY DEF Evidence, Needed
  <1>2. Responses # {}
    <2>1. Cardinality({}) = 0
      BY FS_EmptySet
    <2>2. Cardinality(Responses) >= 1
      BY <1>1 DEF Enough
    <2>3. QED
      BY <2>1, <2>2
  <1>3. call.sat \in Nodes /\ rec[call.sat] \in Seq(Records)
    BY DEF TypeInv, Calls
  <1> DEFINE pings == Pings(call.sat, "out")
             first == Min(pings)
  <1>4. /\ pings \in SUBSET Nat /\ pings # {}
        /\ \A i \in pings : /\ i \in DOMAIN rec[call.sat] /\ rec[call.sat][i].dir = "out"
                            /\ rec[call.sat][i].at >= call.since
    <2>1. pings \subseteq DOMAIN rec[call.sat]
      BY DEF Pings, Since, Find
    <2>2. pings # {}
      BY DEF Pings, Since, Find, Pinged
    <2>3. \A i \in pings : rec[call.sat][i].dir = "out" /\ rec[call.sat][i].at >= call.since
      BY DEF Pings, Since, Find
    <2> HIDE DEF pings
    <2>4. DOMAIN rec[call.sat] \subseteq Nat
      BY <1>3
    <2>5. QED
      BY <2>1, <2>2, <2>3, <2>4
  <1>5. PICK i \in Responses : TRUE
    BY <1>2
  <1>6. /\ i \in Pings(call.sat, "in") /\ rec[call.sat][i].probe = rec[call.sat][first].probe
    BY <1>5 DEF Responses
  <1>7. i \in DOMAIN rec[call.sat] /\ rec[call.sat][i].type = "propagate" /\ rec[call.sat][i].dir = "in"
    BY <1>6 DEF Pings, Since, Find
  <1> HIDE DEF pings
  <1>8. first \in pings
    BY <1>4, MinIn
  <1>9. rec[call.sat][first].probe = call.probe
    BY <1>3, <1>4, <1>8 DEF OwnTimed
  <1>10. QED
    BY <1>6, <1>7, <1>9 DEF Mine

\* Whatever answer came since the mark is one to the probe.
LEMMA QueryEarns ==
  ASSUME TypeInv, OwnTimed(rec, call), call.pc = "look", call.helper = "query", Enough,
         call.since # NoMark, call.clean
  PROVE  Cardinality(Mine(rec, call, call.sat, "in", "query")) >= Count["query"]
  <1> DEFINE M == Mine(rec, call, call.sat, "in", "query")
             A == Answers
  <1>1. call.sat \in Nodes /\ call.sat \in Satellites
    BY DEF TypeInv, Calls, PhaseSound
  <1>2. A \subseteq M
    <2>1. \A i \in A : /\ i \in DOMAIN rec[call.sat] /\ rec[call.sat][i].type = "query"
                       /\ rec[call.sat][i].dir = "in" /\ rec[call.sat][i].at >= call.since
      BY DEF Answers, Since, Find
    <2>2. \A i \in A : rec[call.sat][i].probe = call.probe
      BY <1>1, <2>1 DEF OwnTimed
    <2>3. QED
      BY <2>1, <2>2 DEF Mine
  <1>3. M \in SUBSET (DOMAIN rec[call.sat])
    BY DEF Mine
  <1>4. Cardinality(A) >= Count["query"]
    BY DEF Enough, Evidence, Needed
  <1> HIDE DEF M, A
  <1>5. IsFiniteSet(M) /\ Cardinality(M) \in Nat
    BY <1>1, <1>3, PlacesFinite
  <1>6. IsFiniteSet(A) /\ Cardinality(A) <= Cardinality(M)
    BY <1>2, <1>5, FS_Subset
  <1>7. Cardinality(A) \in Nat /\ Count["query"] \in Nat
    BY <1>6, FS_CardinalityType, ConstantsAssumption DEF Helpers, Polls
  <1>8. QED
    BY <1>4, <1>5, <1>6, <1>7 DEF M

\* As many injections as there are numbers, in increasing order and all of the probe,
\* have all the numbers: nothing else of the probe was injected.
LEMMA FifoEarns ==
  ASSUME TypeInv, Numbered(rec, up, call), call.helper = "fifo", InSendOrder
  PROVE  InOrder(rec, call)
  <1> DEFINE N == Count["fifo"]
             B == Asked(rec, call)
             L == LastOf(B, N)
             seq(i) == rec[Master][i].seq
             f == [i \in L |-> seq(i)]
  <1>1. SUFFICES ASSUME \A i \in B : rec[Master][i].probe = call.probe
                 PROVE  /\ {seq(i) : i \in B} = 1..N
                        /\ \A i, j \in B : i < j => seq(i) < seq(j)
    BY DEF InOrder
  <1>2. Injections(call) = B
    BY DEF Injections, Find, Asked
  <1>3. Cardinality(L) = N /\ \A i, j \in L : i < j => seq(i) < seq(j)
    BY <1>2 DEF InSendOrder
  <1>4. L \subseteq B
    BY DEF LastOf
  <1>5. \A i \in B : i \in Done(rec, call)
    BY <1>1 DEF Asked, Done
  <1>6. \A i \in B : seq(i) \in 1..N /\ \A j \in B : seq(j) = seq(i) => j = i
    BY <1>5 DEF Numbered
  <1>7. N \in Nat
    BY ConstantsAssumption DEF Helpers, Polls
  <1> HIDE DEF B, L, N, seq
  <1>8. IsFiniteSet(1..N) /\ Cardinality(1..N) = N
    BY <1>7, FS_Interval
  <1>9. f \in Injection(L, 1..N)
    BY <1>4, <1>6 DEF Injection, IsInjective
  <1>10. f \in Surjection(L, 1..N)
    BY <1>3, <1>8, <1>9, FS_Injection
  <1>11. \A v \in 1..N : \E i \in L : seq(i) = v
    BY <1>10 DEF Surjection
  <1>12. B = L
    BY <1>4, <1>6, <1>11
  <1>13. {seq(i) : i \in B} = 1..N
    BY <1>6, <1>11, <1>12
  <1>14. QED
    BY <1>3, <1>12, <1>13

\* What does not depend on where the helper is.
LEMMA SameEarns ==
  ASSUME EarnInv, NEW d, SameProbe(call, d)
  PROVE  /\ OwnTimed(rec, d) /\ OwnTransit(up, d) /\ OwnTransit(down, d) /\ Numbered(rec, up, d)
         /\ d.sat = call.sat /\ d.helper = call.helper
  <1>1. /\ d.helper = call.helper /\ d.sat = call.sat /\ d.probe = call.probe
        /\ d.since = call.since /\ d.clean = call.clean
    BY DEF SameProbe
  <1>2. /\ OwnTimed(rec, call) /\ OwnTransit(up, call) /\ OwnTransit(down, call)
        /\ Numbered(rec, up, call)
    BY DEF EarnInv
  <1>3. OwnTimed(rec, d)
    BY <1>1, <1>2 DEF OwnTimed
  <1>4. OwnTransit(up, d) /\ OwnTransit(down, d)
    BY <1>1, <1>2 DEF OwnTransit
  <1>5. Done(rec, d) = Done(rec, call)
    BY <1>1 DEF Done
  <1>6. Numbered(rec, up, d)
    BY <1>1, <1>2, <1>5 DEF Numbered
  <1>7. QED
    BY <1>1, <1>3, <1>4, <1>6

\* The verdict over the others: one that is looked at after the pause, and has nothing
\* since the mark, has nothing of the probe.
LEMMA LookRoutes ==
  ASSUME TypeInv, EarnInv, NEW o \in Satellites, LooksAt(o)
  PROVE  Routed(rec, call', clock)
  <1>1. /\ call.pc = "others" /\ o \in call.left /\ SameProbe(call, call')
        /\ call'.pc = "others" /\ call'.deadline = call.deadline /\ call'.window = call.window
        /\ call'.left = call.left \ {o}
        /\ call'.bad = (call.bad \/ \E i \in Find(o, "bus", "in") : rec[o][i].at >= call.window)
    BY DEF LooksAt
  <1>2. /\ call'.sat = call.sat /\ call'.probe = call.probe /\ call'.since = call.since
    BY <1>1 DEF SameProbe
  <1>3. Judging(call) /\ Judging(call')
    BY <1>1 DEF Judging
  <1>4. /\ OwnTimed(rec, call)
        /\ call.since # NoMark => call.window = call.since
        /\ clock >= call.deadline
        /\ call.since # NoMark /\ ~call.bad =>
             \A x \in Satellites \ (call.left \cup {call.sat}) : Clear(rec, call, x)
    BY <1>1, <1>3 DEF EarnInv, Routed
  <1>6. ASSUME call'.since # NoMark, ~call'.bad,
               NEW x \in Satellites \ (call'.left \cup {call'.sat})
        PROVE  Clear(rec, call', x)
    <2>1. ~call.bad /\ ~\E i \in Find(o, "bus", "in") : rec[o][i].at >= call.window
      BY <1>1, <1>6
    <2>2. call.since # NoMark /\ call.window = call.since
      BY <1>2, <1>4, <1>6
    <2>3. CASE x = o
      <3> SUFFICES ASSUME NEW i \in DOMAIN rec[o], rec[o][i].type = "bus", rec[o][i].dir = "in",
                          rec[o][i].probe = call.probe
                   PROVE  FALSE
        BY <1>2, <2>3 DEF Clear
      <3>1. o \in Nodes
        BY NodesFacts
      <3>2. rec[o][i].at >= call.since
        BY <1>4, <3>1 DEF OwnTimed
      <3>3. i \in Find(o, "bus", "in")
        BY DEF Find
      <3>4. QED
        BY <2>1, <2>2, <3>2, <3>3
    <2>4. CASE x # o
      <3>1. x \in Satellites \ (call.left \cup {call.sat})
        BY <1>1, <1>2, <1>6, <2>4
      <3>2. Clear(rec, call, x)
        BY <1>4, <2>1, <2>2, <3>1
      <3>3. QED
        BY <1>1, <1>2, <3>2 DEF Clear
    <2>5. QED
      BY <2>3, <2>4
  <1>7. QED
    BY <1>1, <1>2, <1>4, <1>6 DEF Routed

LEMMA EarnHelper ==
  ASSUME TypeInv, EarnInv, HelperStep
  PROVE  EarnInv'
  <1>1. HelperKinds /\ Judges /\ call' \in Calls /\ SameProbe(call, call') /\ PhaseSound(call, clock)
    BY HelperEffect, HelperPhase DEF TypeInv
  <1>2. /\ clock' = clock /\ rec' = rec /\ up' = up /\ down' = down
        /\ call'.helper = call.helper /\ call'.sat = call.sat /\ call'.probe = call.probe
        /\ call'.since = call.since /\ call'.clean = call.clean
    BY <1>1 DEF Judges, SameProbe
  <1>3. /\ OwnTimed(rec, call') /\ OwnTransit(up, call') /\ OwnTransit(down, call')
        /\ Numbered(rec, up, call')
    BY <1>1, SameEarns
  <1>4. /\ OwnTimed(rec, call) /\ Pinged(rec, call) /\ Routed(rec, call, clock)
        /\ Numbered(rec, up, call)
    BY DEF EarnInv
  <1> DEFINE Goal == Pinged(rec, call') /\ Routed(rec, call', clock) /\ Earned(rec, call')
  <1> SUFFICES Goal
    BY <1>2, <1>3 DEF EarnInv
  <1>5. ASSUME call'.pc \notin {"look", "check", "settle", "others", "passed"}
        PROVE  Goal
    BY <1>5 DEF Pinged, Routed, Judging, Earned
  <1>6. ASSUME call.pc \in {"look", "check"}, call'.pc \in {"look", "check"}
        PROVE  Goal
    BY <1>2, <1>4, <1>6 DEF Pinged, Routed, Judging, Earned
  <1>7. CASE BeginsToWait
    <2>1. PICK h \in Helpers \ {"acl"}, pc \in {"look", "check", "failed"} :
            /\ Begins(h, {pc})
            /\ h = "ping" /\ pc \in {"look", "check"} => Pings(call.sat, "out") # {}
      BY <1>7 DEF BeginsToWait
    <2>2. call'.pc = pc /\ call.helper = h
      BY <2>1 DEF Begins
    <2>3. Pings(call.sat, "out") # {} =>
            \E i \in DOMAIN rec[call.sat] :
              /\ rec[call.sat][i].type = "propagate" /\ rec[call.sat][i].dir = "out"
              /\ rec[call.sat][i].at >= call.since
      BY DEF Pings, Since, Find
    <2>4. Pinged(rec, call')
      BY <1>2, <2>1, <2>2, <2>3 DEF Pinged
    <2>5. Routed(rec, call', clock) /\ Earned(rec, call')
      BY <2>2 DEF Routed, Judging, Earned
    <2>6. QED
      BY <2>4, <2>5
  <1>8. CASE Begins("acl", {"passed", "failed"})
    <2>1. call'.pc \in {"passed", "failed"} /\ call'.helper = "acl"
      BY <1>2, <1>8 DEF Begins
    <2>2. QED
      BY <2>1 DEF Pinged, Routed, Judging, Earned
  <1>9. CASE LooksOnce
    <2>1. PICK to \in {"check", "final", "passed"} :
            Moves("look", to) /\ (to = "passed" => Enough /\ call.helper \notin {"routed", "fifo"})
      BY <1>9 DEF LooksOnce
    <2>2. call'.pc = to /\ call.pc = "look" /\ call.helper \in Polls
      BY <1>1, <2>1 DEF Moves, PhaseSound
    <2>3. CASE to = "passed"
      <3>1. call.helper \notin {"fifo", "destination"}
        BY <2>1, <2>2, <2>3 DEF Polls
      <3>2. Pinged(rec, call') /\ Routed(rec, call', clock)
        BY <1>2, <2>2, <2>3, <3>1 DEF Pinged, Routed, Judging
      <3>3. call.helper = "ping" /\ call.since # NoMark =>
              Mine(rec, call, call.sat, "in", "propagate") # {}
        BY <1>4, <2>1, <2>2, <2>3, PingEarns
      <3>4. call.helper = "query" /\ call.since # NoMark /\ call.clean =>
              Cardinality(Mine(rec, call, call.sat, "in", "query")) >= Count["query"]
        BY <1>4, <2>1, <2>2, <2>3, QueryEarns
      <3>5. \A type : Mine(rec, call', call.sat, "in", type) = Mine(rec, call, call.sat, "in", type)
        BY <1>2 DEF Mine
      <3>6. Earned(rec, call')
        BY <1>2, <3>1, <3>3, <3>4, <3>5 DEF Earned
      <3>7. QED
        BY <3>2, <3>6
    <2>4. QED
      BY <1>5, <1>6, <2>2, <2>3
  <1>10. CASE ChecksDeadline
    <2>1. call.pc = "check" /\ call'.pc \in {"look", "final", "failed"}
      BY <1>10 DEF ChecksDeadline, Moves
    <2>2. QED
      BY <1>5, <1>6, <2>1
  <1>11. CASE LooksLast
    <2>1. PICK to \in {"passed", "failed"} :
            Moves("final", to) /\ (to = "passed" /\ call.helper = "fifo" => InSendOrder)
      BY <1>11 DEF LooksLast
    <2>2. call'.pc = to /\ call.pc = "final" /\ call.helper \in Relooks /\ SameQuestion(call, call')
      BY <1>1, <2>1 DEF Moves, PhaseSound
    <2>3. CASE to = "passed"
      <3>1. call.helper \notin {"ping", "query", "destination"}
        BY <2>2 DEF Relooks
      <3>2. Pinged(rec, call') /\ Routed(rec, call', clock)
        BY <1>2, <2>2, <2>3, <3>1 DEF Pinged, Routed, Judging
      <3>3. call.helper = "fifo" => InOrder(rec, call)
        BY <1>4, <2>1, <2>3, FifoEarns
      <3>4. Asked(rec, call') = Asked(rec, call)
        BY <2>2 DEF Asked, SameQuestion
      <3>5. InOrder(rec, call) => InOrder(rec, call')
        BY <1>2, <3>4 DEF InOrder
      <3>6. Earned(rec, call')
        BY <1>2, <3>1, <3>3, <3>5 DEF Earned
      <3>7. QED
        BY <3>2, <3>6
    <2>4. QED
      BY <1>5, <2>2, <2>3
  <1>12. CASE Pauses
    <2>1. call'.pc = "settle" /\ (call.since # NoMark => call'.window = call.since)
      BY <1>12 DEF Pauses
    <2>2. QED
      BY <1>2, <2>1 DEF Pinged, Routed, Judging, Earned
  <1>13. CASE Misses \/ Expires
    BY <1>5, <1>13 DEF Misses, Expires, Moves
  <1>14. CASE Turns
    <2>1. /\ call.pc = "settle" /\ clock >= call.deadline /\ call'.pc = "others"
          /\ call'.deadline = call.deadline /\ call'.window = call.window
          /\ call'.left = Satellites \ {call.sat}
      BY <1>14 DEF Turns
    <2>2. call.since # NoMark => call.window = call.since
      BY <1>4, <2>1 DEF Routed
    <2>4. Satellites \ (call'.left \cup {call'.sat}) = {}
      BY <1>2, <2>1
    <2>5. Routed(rec, call', clock)
      BY <1>2, <2>1, <2>2, <2>4 DEF Routed
    <2>6. QED
      BY <2>1, <2>5 DEF Pinged, Earned
  <1>15. CASE \E o \in Satellites : LooksAt(o)
    <2>1. Routed(rec, call', clock)
      BY <1>15, LookRoutes
    <2>2. call'.pc = "others"
      BY <1>15 DEF LooksAt
    <2>3. QED
      BY <2>1, <2>2 DEF Pinged, Earned
  <1>16. CASE JudgesRouting
    <2>1. PICK to \in {"passed", "failed"} :
            Moves("others", to) /\ call.left = {} /\ (to = "passed" => ~call.bad)
      BY <1>16 DEF JudgesRouting
    <2>2. /\ call.pc = "others" /\ call'.pc = to /\ call.helper = "destination"
          /\ call'.deadline = call.deadline /\ call'.left = call.left /\ call'.bad = call.bad
      BY <1>1, <2>1 DEF Moves, SameWait, PhaseSound
    <2>3. CASE to = "passed"
      <3>1. /\ clock >= call.deadline
            /\ call.since # NoMark /\ ~call.bad =>
                 \A o \in Satellites \ (call.left \cup {call.sat}) : Clear(rec, call, o)
        BY <1>4, <2>2 DEF Routed, Judging
      <3>2. \A o : Clear(rec, call, o) => Clear(rec, call', o)
        BY <1>2, <2>2 DEF Clear
      <3>3. Routed(rec, call', clock)
        BY <1>2, <2>1, <2>2, <2>3, <3>1, <3>2 DEF Routed
      <3>4. QED
        BY <1>2, <2>2, <2>3, <3>3 DEF Pinged, Earned
    <2>4. QED
      BY <1>5, <2>2, <2>3
  <1>17. QED
    BY <1>1, <1>7, <1>8, <1>9, <1>10, <1>11, <1>12, <1>13, <1>14, <1>15, <1>16 DEF HelperKinds

LEMMA EarnStep == TypeInv /\ EarnInv /\ [Next]_vars => EarnInv'
  <1> SUFFICES ASSUME TypeInv, EarnInv, [Next]_vars
               PROVE  EarnInv'
    OBVIOUS
  <1>1. CASE UNCHANGED vars
    BY <1>1 DEF vars, EarnInv
  <1>2. CASE \E h \in Helpers, s \in Satellites : ProbeUp(h, s) \/ ProbeDown(h, s)
    BY <1>2, EarnUp, EarnDown
  <1>3. CASE \E s \in Satellites : MasterHandles(s) \/ SatelliteReceives(s) \/ Disconnect(s)
    BY <1>3, EarnMaster, EarnReceive, EarnDisconnect
  <1>4. CASE HelperStep
    BY <1>4, EarnHelper
  <1>5. CASE Tick
    <2>1. clock' = clock + 1 /\ rec' = rec /\ up' = up /\ down' = down /\ call' = call
      BY <1>5 DEF Tick
    <2>2. clock \in Nat /\ call.deadline \in Nat
      BY DEF TypeInv, Calls
    <2>3. Routed(rec, call, clock) => Routed(rec, call, clock')
      BY <2>1, <2>2 DEF Routed
    <2>4. QED
      BY <2>1, <2>3 DEF EarnInv
  <1>6. QED
    BY <1>1, <1>2, <1>3, <1>4, <1>5 DEF Next, HelperStep

LEMMA EarnInit == Init => EarnInv
  <1> SUFFICES ASSUME Init
               PROVE  EarnInv
    OBVIOUS
  <1>1. /\ \A n \in Nodes : DOMAIN rec[n] = {}
        /\ \A s \in Satellites : DOMAIN up[s] = {} /\ DOMAIN down[s] = {}
    BY DEF Init
  <1>2. call.pc = "idle" /\ call.helper = "routed"
    BY DEF Init, Idle
  <1>3. QED
    BY <1>1, <1>2 DEF EarnInv, OwnTimed, OwnTransit, Pinged, Routed, Judging, Numbered, Earned

LEMMA EarnsPass == TypeInv /\ EarnInv => MarkedIsEarned
  <1> SUFFICES ASSUME TypeInv, EarnInv, call.pc = "passed", call.since # NoMark
               PROVE  MarkedIsEarned
    BY DEF MarkedIsEarned
  <1>1. Earned(rec, call) /\ Routed(rec, call, clock)
    BY DEF EarnInv
  <1>2. \A n, dir, type : Own(n, dir, type) = Mine(rec, call, n, dir, type)
    BY DEF Own, Find, Mine
  <1>3. call.helper = "ping" => Own(call.sat, "in", "propagate") # {}
    BY <1>1, <1>2 DEF Earned
  <1>4. call.helper = "query" /\ call.clean => Cardinality(Own(call.sat, "in", "query")) >= Needed
    BY <1>1, <1>2 DEF Earned, Needed
  <1>5. ASSUME call.helper = "destination"
        PROVE  \A o \in Satellites \ {call.sat} :
                 \A i \in Own(o, "in", "bus") : rec[o][i].at >= call.deadline
    <2>1. /\ call.left = {} /\ ~call.bad
          /\ \A o \in Satellites \ (call.left \cup {call.sat}) : Clear(rec, call, o)
      BY <1>1, <1>5 DEF Routed, Judging
    <2>2. \A o \in Satellites \ {call.sat} : Clear(rec, call, o)
      BY <2>1
    <2>3. QED
      BY <1>2, <2>2 DEF Clear, Mine
  <1>6. QED
    BY <1>3, <1>4, <1>5 DEF MarkedIsEarned

-----------------------------------------------------------------------------
(***************************************************************************)
(* A batch is in order.  In process a probe finds nothing in transit, so   *)
(* what the master injects after it is the probe's own and comes last in   *)
(* the records; and when the helper looks, everything the satellite sent   *)
(* was injected.  So the last injections, as many as were sent, are those  *)
(* of the probe.  If the satellite was gone at the call, no injection is   *)
(* found at all.                                                           *)
(***************************************************************************)
Sorted(r) ==
  \A i, j \in DOMAIN r[Master] : i < j => r[Master][i].probe <= r[Master][j].probe

OnlyOwn(u, c) == \A s \in Satellites : \A i \in DOMAIN u[s] : u[s][i].probe = c.probe

Shaped(r, u, c) ==
  c.helper = "fifo" =>
    /\ \A s \in Satellites : \A i \in DOMAIN u[s] :
         u[s][i].probe = c.probe => u[s][i].type = "bus" /\ u[s][i].kind = c.kind
    /\ \A j \in Done(r, c) : r[Master][j].type = c.kind /\ r[Master][j].peer = c.sat

Waits(u, c, v) == \E i \in DOMAIN u[c.sat] : u[c.sat][i].probe = c.probe /\ u[c.sat][i].seq = v
Came(r, c, v) == \E j \in Done(r, c) : r[Master][j].seq = v

Whole(r, u, g, c) ==
  c.helper = "fifo" /\ c.sat \in Satellites \ g =>
    \A v \in 1..Count["fifo"] : Waits(u, c, v) \/ Came(r, c, v)

PeersKnown(r) ==
  \A j \in DOMAIN r[Master] : r[Master][j].dir = "bus_inject" => r[Master][j].peer \in Satellites

AsksFor(g, c) ==
  c.helper = "fifo" /\ c.pc \in {"look", "check", "final", "passed"} =>
    c.peer = IF c.sat \in g THEN NoPeer ELSE c.sat

Right(r, c) ==
  /\ c.peer = c.sat
  /\ {r[Master][j].seq : j \in Done(r, c)} = 1..Count["fifo"]
  /\ \A i, j \in Done(r, c) : i < j => r[Master][i].seq < r[Master][j].seq

FifoInv ==
  /\ ~loopback => Sorted(rec) /\ OnlyOwn(up, call)
  /\ Shaped(rec, up, call) /\ Whole(rec, up, gone, call)
  /\ PeersKnown(rec) /\ AsksFor(gone, call)
  /\ ~loopback /\ call.helper = "fifo" /\ call.pc = "passed" => Right(rec, call)

LEMMA ElsewhereGrows ==
  ASSUME NEW r, NEW r2, NEW n, NEW new, Grown(Nodes, r, r2, n, new), n # Master
  PROVE  /\ DOMAIN r2[Master] = DOMAIN r[Master]
         /\ \A i \in DOMAIN r[Master] : r2[Master][i] = r[Master][i]
         /\ \A c : Done(r2, c) = Done(r, c)
  <1>1. /\ DOMAIN r2[Master] = DOMAIN r[Master]
        /\ \A i \in DOMAIN r[Master] : r2[Master][i] = r[Master][i]
    BY NodesFacts DEF Grown
  <1>2. QED
    BY <1>1 DEF Done

LEMMA FifoUp ==
  ASSUME TypeInv, FifoInv, NEW h \in Helpers, NEW s \in Satellites, ProbeUp(h, s)
  PROVE  FifoInv'
  <1>1. Probed(h, s)
    BY ProbeUpEffect
  <1>0. PICK k \in KindsOf(h) : \E sent, out : SentUp(h, s, k, sent, out)
    BY ProbeUpEffect
  <1>2. PICK sent, out : SentUp(h, s, k, sent, out)
    BY <1>0
  <1>3. /\ \A n \in Nodes : \A i \in DOMAIN rec[n] : rec[n][i].probe # call'.probe
        /\ \A o \in Satellites : \A i \in DOMAIN up[o] : up[o][i].probe # call'.probe
        /\ call'.pc = "sent" /\ call'.helper = h /\ call'.sat = s /\ call'.probe = call.probe + 1
    BY <1>1, ProbedFresh
  <1>4. /\ loopback' = loopback /\ gone' = gone /\ (loopback \/ Drained)
        /\ s # Master /\ Master \in Nodes
    BY <1>1, NodesFacts DEF Probed
  <1>5. /\ Grown(Nodes, rec, rec', s, out) /\ Grown(Satellites, up, up', s, sent)
        /\ Len(sent) = Count[h] /\ call'.kind = k
        /\ \A i \in 1..Count[h] :
             /\ h = "fifo" => sent[i].type = "bus" /\ sent[i].seq = i
             /\ sent[i].kind = k /\ sent[i].probe = call'.probe
    BY <1>2, <1>3 DEF SentUp
  <1>6. /\ DOMAIN rec'[Master] = DOMAIN rec[Master]
        /\ \A i \in DOMAIN rec[Master] : rec'[Master][i] = rec[Master][i]
    BY <1>4, <1>5, ElsewhereGrows
  <1>7. Done(rec', call') = {}
    BY <1>3, <1>4, <1>6 DEF Done
  <1>8. ASSUME NEW o \in Satellites, NEW i \in DOMAIN up'[o]
        PROVE  \/ i \in DOMAIN up[o] /\ up'[o][i] = up[o][i] /\ up'[o][i].probe # call'.probe
               \/ \E l \in 1..Count[h] : up'[o][i] = sent[l]
    <2>1. CASE i \in DOMAIN up[o]
      BY <1>3, <1>5, <2>1 DEF Grown
    <2>2. CASE i \notin DOMAIN up[o]
      BY <1>5, <2>2 DEF Grown
    <2>3. QED
      BY <2>1, <2>2
  <1>9. ~loopback => Sorted(rec') /\ OnlyOwn(up', call')
    <2> SUFFICES ASSUME ~loopback
                 PROVE  Sorted(rec') /\ OnlyOwn(up', call')
      OBVIOUS
    <2>1. Sorted(rec')
      BY <1>6 DEF FifoInv, Sorted
    <2>2. \A o \in Satellites : DOMAIN up[o] = {}
      BY <1>4 DEF Drained
    <2>3. OnlyOwn(up', call')
      BY <1>5, <1>8, <2>2 DEF OnlyOwn
    <2>4. QED
      BY <2>1, <2>3
  <1>10. Shaped(rec', up', call')
    <2> SUFFICES ASSUME h = "fifo", NEW o \in Satellites, NEW i \in DOMAIN up'[o],
                        up'[o][i].probe = call'.probe
                 PROVE  up'[o][i].type = "bus" /\ up'[o][i].kind = call'.kind
      BY <1>3, <1>7 DEF Shaped
    <2>1. QED
      BY <1>5, <1>8
  <1>11. Whole(rec', up', gone', call')
    <2> SUFFICES ASSUME h = "fifo", NEW v \in 1..Count["fifo"]
                 PROVE  Waits(up', call', v)
      BY <1>3 DEF Whole
    <2>1. Len(up[s]) + v \in DOMAIN up'[s] /\ up'[s][Len(up[s]) + v] = sent[v]
      BY <1>5 DEF Grown
    <2>2. QED
      BY <1>3, <1>5, <2>1 DEF Waits
  <1>12. PeersKnown(rec') /\ AsksFor(gone', call')
    BY <1>3, <1>6 DEF FifoInv, PeersKnown, AsksFor
  <1>13. QED
    BY <1>3, <1>4, <1>9, <1>10, <1>11, <1>12 DEF FifoInv

LEMMA FifoDown ==
  ASSUME TypeInv, FifoInv, NEW h \in Helpers, NEW s \in Satellites, ProbeDown(h, s)
  PROVE  FifoInv'
  <1>1. Probed(h, s) /\ h \in {"routed", "destination"}
    BY ProbeDownEffect
  <1>2. PICK sent : SentDown(h, s, sent)
    BY ProbeDownEffect
  <1>3. /\ rec' = rec /\ up' = up /\ loopback' = loopback /\ (loopback \/ Drained)
        /\ call'.pc = "sent" /\ call'.helper # "fifo"
    BY <1>1, <1>2 DEF SentDown, Probed
  <1>4. ~loopback => Sorted(rec) /\ OnlyOwn(up, call')
    BY <1>3 DEF FifoInv, Drained, OnlyOwn
  <1>5. QED
    BY <1>3, <1>4 DEF FifoInv, Shaped, Whole, PeersKnown, AsksFor

\* What the master records of a frame it takes keeps the order, and the injections of a
\* probe are of its satellite and type.
LEMMA SortedGrows ==
  ASSUME TypeInv, NEW new, rec' \in [Nodes -> Seq(Records)], Grown(Nodes, rec, rec', Master, new),
         Sorted(rec), \A k \in 1..Len(new) : new[k].probe = call.probe
  PROVE  Sorted(rec')
  <1> SUFFICES ASSUME NEW i \in DOMAIN rec'[Master], NEW j \in DOMAIN rec'[Master], i < j
               PROVE  rec'[Master][i].probe <= rec'[Master][j].probe
    BY DEF Sorted
  <1>1. /\ Master \in Nodes /\ call.probe \in Nat
        /\ \A k \in DOMAIN rec[Master] : rec[Master][k].probe \in 1..call.probe
        /\ DOMAIN rec[Master] = 1..Len(rec[Master]) /\ Len(rec[Master]) \in Nat
        /\ DOMAIN rec'[Master] = 1..Len(rec'[Master]) /\ Len(rec'[Master]) \in Nat
    BY NodesFacts DEF TypeInv, Calls, RecordsSound
  <1>2. ASSUME NEW k \in DOMAIN rec'[Master]
        PROVE  \/ k \in DOMAIN rec[Master] /\ rec'[Master][k] = rec[Master][k]
               \/ k \notin DOMAIN rec[Master] /\ rec'[Master][k].probe = call.probe
    BY <1>1 DEF Grown
  <1>3. CASE j \in DOMAIN rec[Master]
    <2>1. i \in DOMAIN rec[Master]
      BY <1>1, <1>3
    <2>2. rec'[Master][i] = rec[Master][i] /\ rec'[Master][j] = rec[Master][j]
      BY <1>2, <1>3, <2>1
    <2>3. QED
      BY <1>3, <2>1, <2>2 DEF Sorted
  <1>4. CASE j \notin DOMAIN rec[Master]
    <2>1. rec'[Master][j].probe = call.probe
      BY <1>2, <1>4
    <2>2. rec'[Master][i].probe = call.probe \/ rec'[Master][i].probe \in 1..call.probe
      BY <1>1, <1>2
    <2>3. QED
      BY <1>1, <2>1, <2>2
  <1>5. QED
    BY <1>3, <1>4

\* What the master does with a frame, as far as a fifo probe is concerned: it records the
\* frame, and if that is the probe's own message, it injects it.
Handles(s, i, new) ==
  /\ Shrunk(up, up', s, i) /\ up' \in [Satellites -> Seq(Messages)]
  /\ UNCHANGED <<loopback, gone, call>>
  /\ rec' \in [Nodes -> Seq(Records)] /\ Grown(Nodes, rec, rec', Master, new)
  /\ \A k \in 1..Len(new) :
       /\ new[k].probe = up[s][i].probe
       /\ new[k].dir = "bus_inject" =>
            up[s][i].type = "bus" /\ new[k].type = up[s][i].kind /\ new[k].peer = s
  /\ up[s][i].type = "bus" =>
       \E k \in 1..Len(new) : new[k].dir = "bus_inject" /\ new[k].seq = up[s][i].seq

LEMMA HandlesEffect ==
  ASSUME TypeInv, AdmitInv, NEW s \in Satellites, MasterHandles(s)
  PROVE  \E i \in DOMAIN up[s] : \E new : Handles(s, i, new)
  <1>1. PICK i \in DOMAIN up[s] :
          /\ Takes(s, i)
          /\ \/ \E a, answers : Answered(s, up[s][i], a, answers)
             \/ \E fate, a, b, denials : Injects(s, up[s][i], fate, a, b, denials)
    BY MasterEffect
  <1> DEFINE m == up[s][i]
  <1>2. m.peer = s
    BY DEF AdmitInv, UpShape
  <1>3. /\ Shrunk(up, up', s, i) /\ up' \in [Satellites -> Seq(Messages)]
        /\ UNCHANGED <<loopback, gone, call>>
    BY <1>1 DEF Takes
  <1> HIDE DEF m
  <1>4. ASSUME NEW a, NEW answers, Answered(s, m, a, answers)
        PROVE  \E new : Handles(s, i, new)
    <2>1. /\ rec' \in [Nodes -> Seq(Records)] /\ Grown(Nodes, rec, rec', Master, <<a>>)
          /\ a.dir = "in" /\ a.probe = m.probe /\ m.type # "bus"
      BY <1>4 DEF Answered
    <2>2. \A k \in 1..Len(<<a>>) : <<a>>[k] = a
      OBVIOUS
    <2>3. Handles(s, i, <<a>>)
      BY <1>3, <2>1, <2>2 DEF Handles, m
    <2>4. QED
      BY <2>3
  <1>5. ASSUME NEW fate, NEW a, NEW b, NEW denials, Injects(s, m, fate, a, b, denials)
        PROVE  \E new : Handles(s, i, new)
    <2>1. /\ rec' \in [Nodes -> Seq(Records)] /\ Grown(Nodes, rec, rec', Master, <<a, b>>)
          /\ a.dir = "in" /\ a.probe = m.probe /\ m.type = "bus"
          /\ b.dir = "bus_inject" /\ b.probe = m.probe /\ b.seq = m.seq
          /\ b.type = m.kind /\ b.peer = s
      BY <1>2, <1>5 DEF Injects
    <2> DEFINE new == <<a, b>>
    <2>2. Len(new) = 2 /\ new[1] = a /\ new[2] = b /\ 1..2 = {1, 2}
      OBVIOUS
    <2>3. Grown(Nodes, rec, rec', Master, new)
      BY <2>1
    <2> HIDE DEF new
    <2>4. \A k \in 1..Len(new) : new[k] = a \/ new[k] = b
      BY <2>2
    <2>5. Handles(s, i, new)
      BY <1>3, <2>1, <2>2, <2>3, <2>4 DEF Handles, m
    <2>6. QED
      BY <2>5
  <1>6. QED
    BY <1>1, <1>4, <1>5 DEF m

LEMMA FifoMaster ==
  ASSUME TypeInv, AdmitInv, EarnInv, FifoInv, NEW s \in Satellites, MasterHandles(s)
  PROVE  FifoInv'
  <1>0. PICK i \in DOMAIN up[s] : \E new : Handles(s, i, new)
    BY HandlesEffect
  <1>1. PICK new : Handles(s, i, new)
    BY <1>0
  <1> DEFINE m == up[s][i]
  <1>2. /\ up \in [Satellites -> Seq(Messages)] /\ up' \in [Satellites -> Seq(Messages)]
        /\ Shrunk(up, up', s, i) /\ Grown(Nodes, rec, rec', Master, new)
        /\ rec' \in [Nodes -> Seq(Records)]
        /\ loopback' = loopback /\ gone' = gone /\ call' = call
        /\ \A k \in 1..Len(new) :
             /\ new[k].probe = m.probe
             /\ new[k].dir = "bus_inject" =>
                  m.type = "bus" /\ new[k].type = m.kind /\ new[k].peer = s
        /\ m.type = "bus" =>
             \E k \in 1..Len(new) : new[k].dir = "bus_inject" /\ new[k].seq = m.seq
    BY <1>1 DEF Handles, TypeInv
  <1>3. /\ Shaped(rec, up, call) /\ Whole(rec, up, gone, call) /\ Numbered(rec, up, call)
        /\ PeersKnown(rec) /\ AsksFor(gone, call) /\ Master \in Nodes
        /\ ~loopback => Sorted(rec) /\ OnlyOwn(up, call)
    BY NodesFacts DEF FifoInv, EarnInv
  <1>4. \A o \in Satellites : \A k \in DOMAIN up'[o] : \E j \in DOMAIN up[o] : up'[o][k] = up[o][j]
    BY <1>2, ShrunkHeld
  <1>5. call.helper = "fifo" /\ m.probe = call.probe =>
          m.type = "bus" /\ m.kind = call.kind /\ s = call.sat
    BY <1>3 DEF Shaped, Numbered
  <1>6. ~loopback => m.probe = call.probe
    BY <1>3 DEF OnlyOwn
  <1>7. loopback \/ call.pc = "sent"
    <2>1. up[s] # <<>>
      OBVIOUS
    <2>2. QED
      BY <2>1 DEF AdmitInv, Drained
  <1> HIDE DEF m
  <1>8. ~loopback => Sorted(rec') /\ OnlyOwn(up', call)
    BY <1>2, <1>3, <1>4, <1>6, SortedGrows DEF OnlyOwn
  <1>9. ASSUME NEW j \in DOMAIN rec'[Master]
        PROVE  \/ j \in DOMAIN rec[Master] /\ rec'[Master][j] = rec[Master][j]
               \/ \E k \in 1..Len(new) : rec'[Master][j] = new[k]
    BY <1>2, <1>3 DEF Grown
  <1>10. PeersKnown(rec')
    BY <1>2, <1>3, <1>9 DEF PeersKnown
  <1>11. Shaped(rec', up', call)
    <2> SUFFICES ASSUME call.helper = "fifo"
                 PROVE  Shaped(rec', up', call)
      BY DEF Shaped
    <2>1. \A o \in Satellites : \A k \in DOMAIN up'[o] :
            up'[o][k].probe = call.probe => up'[o][k].type = "bus" /\ up'[o][k].kind = call.kind
      BY <1>3, <1>4 DEF Shaped
    <2>2. ASSUME NEW j \in Done(rec', call)
          PROVE  rec'[Master][j].type = call.kind /\ rec'[Master][j].peer = call.sat
      <3>1. /\ j \in DOMAIN rec'[Master] /\ rec'[Master][j].dir = "bus_inject"
            /\ rec'[Master][j].probe = call.probe
        BY DEF Done
      <3>2. CASE j \in DOMAIN rec[Master] /\ rec'[Master][j] = rec[Master][j]
        BY <1>3, <3>1, <3>2 DEF Shaped, Done
      <3>3. CASE \E k \in 1..Len(new) : rec'[Master][j] = new[k]
        BY <1>2, <1>5, <3>1, <3>3
      <3>4. QED
        BY <1>9, <3>1, <3>2, <3>3
    <2>3. QED
      BY <2>1, <2>2 DEF Shaped
  <1>12. Whole(rec', up', gone, call)
    <2> SUFFICES ASSUME call.helper = "fifo", call.sat \in Satellites \ gone, NEW v \in 1..Count["fifo"]
                 PROVE  Waits(up', call, v) \/ Came(rec', call, v)
      BY DEF Whole
    <2>1. CASE Came(rec, call, v)
      <3>1. PICK j \in Done(rec, call) : rec[Master][j].seq = v
        BY <2>1 DEF Came
      <3>2. j \in Done(rec', call) /\ rec'[Master][j] = rec[Master][j]
        BY <1>2, <1>3 DEF Done, Grown
      <3>3. QED
        BY <3>1, <3>2 DEF Came
    <2>2. CASE Waits(up, call, v)
      <3>1. PICK l \in DOMAIN up[call.sat] :
              up[call.sat][l].probe = call.probe /\ up[call.sat][l].seq = v
        BY <2>2 DEF Waits
      <3>2. CASE call.sat # s
        <4>1. up'[call.sat] = up[call.sat]
          BY <1>2, <3>2 DEF Shrunk
        <4>2. QED
          BY <3>1, <4>1 DEF Waits
      <3>3. CASE call.sat = s /\ l # i
        <4>1. \A j \in DOMAIN up[s] : j # i => \E k \in DOMAIN up'[s] : up'[s][k] = up[s][j]
          <5>1. /\ up \in [Satellites -> Seq(Messages)] /\ up' \in [Satellites -> Seq(Messages)]
                /\ s \in Satellites /\ i \in DOMAIN up[s] /\ Shrunk(up, up', s, i)
            BY <1>2
          <5>2. /\ KeptFrom(up, up', s, i)
                /\ \A j \in DOMAIN up[s] : j # i => \E k \in DOMAIN up'[s] : up'[s][k] = up[s][j]
            BY ONLY <5>1, ShrunkFrom
          <5>3. QED
            BY <5>2
        <4>2. \E k \in DOMAIN up'[s] : up'[s][k] = up[s][l]
          BY <3>3, <4>1
        <4>3. QED
          BY <3>1, <3>3, <4>2 DEF Waits
      <3>4. CASE call.sat = s /\ l = i
        <4>1. m.probe = call.probe /\ m.seq = v
          BY <3>1, <3>4 DEF m
        <4>2. PICK k \in 1..Len(new) : new[k].dir = "bus_inject" /\ new[k].seq = v
          BY <1>2, <1>5, <4>1
        <4>3. Len(rec[Master]) + k \in DOMAIN rec'[Master] /\ rec'[Master][Len(rec[Master]) + k] = new[k]
          BY <1>2 DEF Grown
        <4>4. Len(rec[Master]) + k \in Done(rec', call)
          BY <1>2, <4>1, <4>2, <4>3 DEF Done
        <4>5. QED
          BY <4>2, <4>3, <4>4 DEF Came
      <3>5. QED
        BY <3>2, <3>3, <3>4
    <2>3. QED
      BY <1>3, <2>1, <2>2 DEF Whole
  <1>13. QED
    BY <1>2, <1>3, <1>7, <1>8, <1>10, <1>11, <1>12 DEF FifoInv

LEMMA FifoReceive ==
  ASSUME TypeInv, AdmitInv, FifoInv, NEW s \in Satellites, SatelliteReceives(s)
  PROVE  FifoInv'
  <1>1. PICK a : Receives(s, a)
    BY ReceiveEffect
  <1>2. /\ Grown(Nodes, rec, rec', s, <<a>>) /\ s # Master /\ down[s] # <<>>
        /\ UNCHANGED <<loopback, up, gone, call>>
    BY <1>1, NodesFacts DEF Receives, SatelliteReceives
  <1>3. /\ DOMAIN rec'[Master] = DOMAIN rec[Master]
        /\ \A i \in DOMAIN rec[Master] : rec'[Master][i] = rec[Master][i]
        /\ Done(rec', call) = Done(rec, call)
    BY <1>2, ElsewhereGrows
  <1>4. loopback \/ call.pc = "sent"
    BY <1>2 DEF AdmitInv, Drained
  <1>5. /\ ~loopback => Sorted(rec) /\ OnlyOwn(up, call)
        /\ Shaped(rec, up, call) /\ Whole(rec, up, gone, call)
        /\ PeersKnown(rec) /\ AsksFor(gone, call)
    BY DEF FifoInv
  <1>6. Sorted(rec) => Sorted(rec')
    BY <1>3 DEF Sorted
  <1>7. PeersKnown(rec')
    BY <1>3, <1>5 DEF PeersKnown
  <1>8. \A i \in Done(rec, call) : rec'[Master][i] = rec[Master][i]
    BY <1>3 DEF Done
  <1>9. Shaped(rec', up, call)
    BY <1>3, <1>5, <1>8 DEF Shaped
  <1>10. Whole(rec', up, gone, call)
    <2>1. \A v : Came(rec, call, v) => Came(rec', call, v)
      BY <1>3, <1>8 DEF Came
    <2>2. QED
      BY <1>5, <2>1 DEF Whole
  <1>11. QED
    BY <1>2, <1>4, <1>5, <1>6, <1>7, <1>9, <1>10 DEF FifoInv

LEMMA FifoDisconnect ==
  ASSUME TypeInv, FifoInv, NEW s \in Satellites, Disconnect(s)
  PROVE  FifoInv'
  <1>1. /\ gone' = gone \cup {s} /\ up' = [up EXCEPT ![s] = <<>>]
        /\ UNCHANGED <<loopback, rec, call>> /\ call.pc = "sent"
        /\ up \in [Satellites -> Seq(Messages)]
    BY DEF Disconnect, TypeInv
  <1>2. /\ \A o \in Satellites : o # s => up'[o] = up[o]
        /\ DOMAIN up'[s] = {}
    BY <1>1
  <1>3. /\ ~loopback => Sorted(rec) /\ OnlyOwn(up, call)
        /\ Shaped(rec, up, call) /\ Whole(rec, up, gone, call) /\ PeersKnown(rec)
    BY DEF FifoInv
  <1>4. OnlyOwn(up, call) => OnlyOwn(up', call)
    BY <1>2 DEF OnlyOwn
  <1>5. Shaped(rec, up', call)
    BY <1>2, <1>3 DEF Shaped
  <1>6. Whole(rec, up', gone', call)
    BY <1>1, <1>2, <1>3 DEF Whole, Waits
  <1>7. QED
    BY <1>1, <1>3, <1>4, <1>5, <1>6 DEF FifoInv, AsksFor

\* The verdict: in process the injections of the probe are the last ones of their type and
\* peer, there are as many as were sent, and the helper found those in order.
LEMMA LastAreOwn ==
  ASSUME TypeInv, AdmitInv, EarnInv, FifoInv, ~loopback, call.helper = "fifo",
         call.pc = "final", InSendOrder
  PROVE  Right(rec, call)
  <1> DEFINE N == Count["fifo"]
             I == Injections(call)
             D == Done(rec, call)
             L == LastOf(I, N)
             seq(i) == rec[Master][i].seq
             f == [i \in D |-> seq(i)]
  <1>1. /\ Sorted(rec) /\ Shaped(rec, up, call) /\ Whole(rec, up, gone, call)
        /\ PeersKnown(rec) /\ AsksFor(gone, call) /\ Numbered(rec, up, call)
        /\ Drained /\ call.sat \in Satellites
    BY DEF FifoInv, EarnInv, AdmitInv, TypeInv, PhaseSound
  <1>2. /\ I \subseteq DOMAIN rec[Master]
        /\ \A i \in I : /\ rec[Master][i].type = call.kind /\ rec[Master][i].dir = "bus_inject"
                         /\ rec[Master][i].peer = call.peer
        /\ \A i \in DOMAIN rec[Master] :
             /\ rec[Master][i].type = call.kind /\ rec[Master][i].dir = "bus_inject"
             /\ rec[Master][i].peer = call.peer
             => i \in I
    BY DEF Injections, Find
  <1>3. DOMAIN rec[Master] = 1..Len(rec[Master]) /\ Len(rec[Master]) \in Nat /\ Master \in Nodes
    BY NodesFacts DEF TypeInv
  <1>4. N \in Nat /\ N # 0
    BY ConstantsAssumption DEF Helpers, Polls
  <1>5. Cardinality(L) = N /\ \A i, j \in L : i < j => seq(i) < seq(j)
    BY DEF InSendOrder
  <1>6. L \subseteq I /\ IsFiniteSet(I) /\ IsFiniteSet(L)
    <2>1. IsFiniteSet(DOMAIN rec[Master])
      BY <1>3, FS_Interval
    <2>2. L \subseteq I
      BY DEF LastOf
    <2>3. IsFiniteSet(I)
      BY <1>2, <2>1, FS_Subset
    <2>4. QED
      BY <2>2, <2>3, FS_Subset
  <1>7. I # {}
    <2>1. Cardinality({}) = 0
      BY FS_EmptySet
    <2>2. L # {}
      BY <1>4, <1>5, <2>1
    <2>3. QED
      BY <1>6, <2>2
  <1>8. call.peer = call.sat /\ call.sat \in Satellites \ gone
    <2>1. call.peer \in Satellites
      BY <1>1, <1>2, <1>7 DEF PeersKnown
    <2>2. QED
      BY <1>1, <2>1, ConstantsAssumption DEF AsksFor
  <1>9. \A v \in 1..N : \E j \in D : seq(j) = v
    <2> SUFFICES ASSUME NEW v \in 1..N
                 PROVE  Came(rec, call, v)
      BY DEF Came
    <2>1. DOMAIN up[call.sat] = {}
      BY <1>1 DEF Drained
    <2>2. ~Waits(up, call, v)
      BY <2>1 DEF Waits
    <2>3. QED
      BY <1>1, <1>8, <2>2 DEF Whole
  <1>10. \A i \in D : seq(i) \in 1..N /\ \A j \in D : seq(j) = seq(i) => j = i
    BY <1>1 DEF Numbered
  <1>11. D \subseteq I
    BY <1>1, <1>2, <1>8 DEF Shaped, Done
  <1>12. \A i \in D : \A j \in I : j > i => j \in D
    <2> SUFFICES ASSUME NEW i \in D, NEW j \in I, j > i
                 PROVE  j \in D
      OBVIOUS
    <2>1. /\ i \in DOMAIN rec[Master] /\ rec[Master][i].probe = call.probe
          /\ j \in DOMAIN rec[Master] /\ rec[Master][j].dir = "bus_inject"
      BY <1>2 DEF Done
    <2>2. rec[Master][i].probe <= rec[Master][j].probe
      BY <1>1, <1>3, <2>1 DEF Sorted
    <2>3. rec[Master][j].probe \in 1..call.probe /\ call.probe \in Nat
      BY <1>3, <2>1 DEF TypeInv, RecordsSound, Calls
    <2>4. QED
      BY <2>1, <2>2, <2>3 DEF Done
  <1>13. IsFiniteSet(D) /\ Cardinality(D) = N
    <2> HIDE DEF D, I, seq
    <2>1. IsFiniteSet(D)
      BY <1>6, <1>11, FS_Subset
    <2>2. IsFiniteSet(1..N) /\ Cardinality(1..N) = N
      BY <1>4, FS_Interval
    <2>3. f \in Injection(D, 1..N)
      BY <1>10 DEF Injection, IsInjective
    <2>4. f \in Surjection(D, 1..N)
      BY <1>9, <1>10 DEF Surjection
    <2>5. QED
      BY <2>1, <2>2, <2>3, <2>4, FS_Injection
  <1>14. D \subseteq L
    <2> SUFFICES ASSUME NEW i \in D
                 PROVE  Cardinality({j \in I : j > i}) < N
      BY <1>11 DEF LastOf
    <2> DEFINE S == {j \in I : j > i}
    <2>1. S \subseteq D \ {i}
      <3>1. i \in Nat
        BY <1>2, <1>3, <1>11
      <3>2. QED
        BY <1>12, <3>1
    <2> HIDE DEF S, D
    <2>2. IsFiniteSet(D \ {i}) /\ Cardinality(D \ {i}) = N - 1
      BY <1>13, FS_RemoveElement
    <2>3. IsFiniteSet(S) /\ Cardinality(S) <= N - 1
      BY <2>1, <2>2, FS_Subset
    <2>4. Cardinality(S) \in Nat
      BY <2>3, FS_CardinalityType
    <2>5. Cardinality(S) < N
      BY <1>4, <2>3, <2>4
    <2>6. QED
      BY <2>5 DEF S
  <1>15. D = L
    BY <1>5, <1>6, <1>13, <1>14, FS_Subset
  <1>16. {seq(i) : i \in D} = 1..N
    BY <1>9, <1>10
  <1>17. \A i, j \in D : i < j => seq(i) < seq(j)
    BY <1>5, <1>15
  <1>18. QED
    BY <1>8, <1>16, <1>17 DEF Right

LEMMA FifoHelper ==
  ASSUME TypeInv, AdmitInv, EarnInv, FifoInv, HelperStep
  PROVE  FifoInv'
  <1>1. /\ HelperKinds /\ Judges /\ SameProbe(call, call') /\ PhaseSound(call, clock)
        /\ call.pc \notin {"idle", "passed", "failed"}
        /\ call.pc # "sent" => SameQuestion(call, call')
    BY HelperEffect, HelperPhase DEF TypeInv
  <1>2. /\ loopback' = loopback /\ rec' = rec /\ up' = up /\ gone' = gone
        /\ call'.helper = call.helper /\ call'.sat = call.sat /\ call'.probe = call.probe
    BY <1>1 DEF Judges, SameProbe
  <1>3. /\ ~loopback => Sorted(rec) /\ OnlyOwn(up, call)
        /\ Shaped(rec, up, call) /\ Whole(rec, up, gone, call)
        /\ PeersKnown(rec) /\ AsksFor(gone, call)
    BY DEF FifoInv
  <1>4. OnlyOwn(up, call) => OnlyOwn(up, call')
    BY <1>2 DEF OnlyOwn
  <1>5. Done(rec, call') = Done(rec, call)
    BY <1>2 DEF Done
  <1>6. Whole(rec, up, gone, call')
    BY <1>2, <1>3, <1>5 DEF Whole, Waits, Came
  <1>7. CASE call.helper # "fifo"
    BY <1>2, <1>3, <1>4, <1>6, <1>7 DEF FifoInv, Shaped, AsksFor
  <1>8. CASE call.helper = "fifo"
    <2>1. CASE call.pc = "sent"
      <3>1. BeginsToWait
        BY <1>1, <1>8, <2>1 DEF HelperKinds, Begins, LooksOnce, ChecksDeadline, LooksLast, Pauses, Misses,
                                Awaits, Expires, Turns, LooksAt, JudgesRouting, Moves
      <3>2. PICK h \in Helpers \ {"acl"}, pc \in {"look", "check", "failed"} : Begins(h, {pc})
        BY <3>1 DEF BeginsToWait
      <3>3. /\ call'.kind = call.kind /\ call'.pc # "passed"
            /\ call'.peer = IF call.sat \in gone THEN NoPeer ELSE call.sat
        BY <3>2 DEF Begins
      <3>4. Shaped(rec, up, call') /\ AsksFor(gone, call')
        BY <1>2, <1>3, <1>5, <3>3 DEF Shaped, AsksFor
      <3>5. QED
        BY <1>2, <1>3, <1>4, <1>6, <3>3, <3>4 DEF FifoInv
    <2>2. CASE call.pc # "sent"
      <3>1. SameQuestion(call, call') /\ call.pc \in {"look", "check", "final"}
        <4>1. call.pc \in Pcs
          BY DEF TypeInv, Calls
        <4>2. QED
          BY <1>1, <1>8, <2>2, <4>1 DEF PhaseSound, Pcs
      <3>2. call'.kind = call.kind /\ call'.peer = call.peer
        BY <3>1 DEF SameQuestion
      <3>3. Shaped(rec, up, call') /\ AsksFor(gone, call')
        BY <1>2, <1>3, <1>5, <3>1, <3>2 DEF Shaped, AsksFor
      <3>4. ASSUME ~loopback, call'.pc = "passed"
            PROVE  Right(rec, call')
        <4>1. call.pc = "final" /\ InSendOrder
          BY <1>1, <1>8, <2>2, <3>1, <3>4 DEF HelperKinds, BeginsToWait, Begins, LooksOnce,
             ChecksDeadline, LooksLast, Pauses, Misses, Expires, Turns, LooksAt, JudgesRouting, Moves
        <4>2. Right(rec, call)
          BY <1>8, <3>4, <4>1, LastAreOwn
        <4>3. QED
          BY <1>2, <1>5, <3>2, <4>2 DEF Right
      <3>5. QED
        BY <1>2, <1>3, <1>4, <1>6, <3>3, <3>4 DEF FifoInv
    <2>3. QED
      BY <2>1, <2>2
  <1>9. QED
    BY <1>7, <1>8

LEMMA FifoStep == TypeInv /\ AdmitInv /\ EarnInv /\ FifoInv /\ [Next]_vars => FifoInv'
  <1> SUFFICES ASSUME TypeInv, AdmitInv, EarnInv, FifoInv, [Next]_vars
               PROVE  FifoInv'
    OBVIOUS
  <1>1. CASE UNCHANGED vars
    BY <1>1 DEF vars, FifoInv
  <1>2. CASE \E h \in Helpers, s \in Satellites : ProbeUp(h, s) \/ ProbeDown(h, s)
    BY <1>2, FifoUp, FifoDown
  <1>3. CASE \E s \in Satellites : MasterHandles(s) \/ SatelliteReceives(s) \/ Disconnect(s)
    BY <1>3, FifoMaster, FifoReceive, FifoDisconnect
  <1>4. CASE HelperStep
    BY <1>4, FifoHelper
  <1>5. CASE Tick
    BY <1>5 DEF Tick, FifoInv
  <1>6. QED
    BY <1>1, <1>2, <1>3, <1>4, <1>5 DEF Next, HelperStep

LEMMA FifoInit == Init => FifoInv
  <1> SUFFICES ASSUME Init
               PROVE  FifoInv
    OBVIOUS
  <1>1. /\ DOMAIN rec[Master] = {}
        /\ \A s \in Satellites : DOMAIN up[s] = {}
    BY NodesFacts DEF Init
  <1>2. call.helper = "routed"
    BY DEF Init, Idle
  <1>3. QED
    BY <1>1, <1>2 DEF FifoInv, Sorted, OnlyOwn, Shaped, Whole, PeersKnown, AsksFor

LEMMA BatchJudged == TypeInv /\ EarnInv /\ FifoInv => BatchInOrder
  <1> SUFFICES ASSUME TypeInv, EarnInv, FifoInv, call.pc = "passed", call.helper = "fifo",
                      ~loopback \/ Injections(call) = Batch
               PROVE  /\ {rec[Master][i].seq : i \in Batch} = 1..Needed
                      /\ \A i, j \in Batch : i < j => rec[Master][i].seq < rec[Master][j].seq
    BY DEF BatchInOrder
  <1>1. Needed = Count["fifo"]
    BY DEF Needed
  <1>2. Injections(call) = Asked(rec, call)
    BY DEF Injections, Find, Asked
  <1>3. CASE ~loopback
    <2>1. Right(rec, call) /\ Shaped(rec, up, call)
      BY <1>3 DEF FifoInv
    <2>2. Batch = Done(rec, call)
      BY <2>1 DEF Batch, Injections, Find, Done, Right, Shaped
    <2>3. QED
      BY <1>1, <2>1, <2>2 DEF Right
  <1>4. CASE Injections(call) = Batch
    <2>1. Asked(rec, call) = Batch /\ \A i \in Asked(rec, call) : rec[Master][i].probe = call.probe
      BY <1>2, <1>4 DEF Batch
    <2>2. InOrder(rec, call)
      BY DEF EarnInv, Earned
    <2>3. QED
      BY <1>1, <2>1, <2>2 DEF InOrder
  <1>5. QED
    BY <1>3, <1>4

\* A marked PING or query is passed by its own flood or answers, and a marked message
\* with a destination only if none of the others had it before the pause was over,
\* whatever earlier probes still bring in; nothing that comes later takes it back.
\* (A query is covered unless one of the same satellite was in transit at its mark.)
\* A fifo probe is passed only if its messages were injected completely and in the order
\* they were sent, with earlier traffic of its type and marker in the records: always in
\* process, and over loopback as long as that traffic is of other peers or types.
THEOREM PassesAreEarned == Spec => []PassIsEarned
  <1>1. Spec => [](TypeInv /\ AdmitInv /\ EarnInv /\ FifoInv)
    BY TypeInit, TypeStep, AdmitInit, AdmitStep, EarnInit, EarnStep, FifoInit, FifoStep, PTL DEF Spec
  <1>2. TypeInv /\ EarnInv /\ FifoInv => PassIsEarned
    BY EarnsPass, BatchJudged DEF PassIsEarned
  <1>3. QED
    BY <1>1, <1>2, PTL
=============================================================================
