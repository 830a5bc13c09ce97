--------------------------- MODULE AgentBusProofs ---------------------------
(***************************************************************************)
(* Proofs about AgentBus for any protocols, peers, queries and bounds.     *)
(***************************************************************************)
EXTENDS AgentBus, FiniteSetTheorems, TLAPS

\* A protocol wraps emit at most once, and does while it is live.
Chain ==
  /\ \A i, j \in 1..Len(layers) : layers[i] = layers[j] => i = j
  /\ \A p \in live : \E i \in 1..Len(layers) : layers[i] = p

\* The peers that the handlers of e are done with.
Served(e) == {c \in e.owed : Home[c] \notin e.todo /\ (Home[c] = e.at => c \in e.seen)}

\* What is true of an emission while it is under way: only handlers of live
\* protocols run or are to come, a targeted one has one peer at most, and if it
\* is rooted, the table of clients is the one it began with and the peers sent
\* to are those that its handlers are done with.
Sound(e) ==
  /\ e.todo \subseteq live
  /\ e.at # NoProtocol => e.at \in live \ e.todo
  /\ e.kind \notin {"routed", "fanout"} => e.at = NoProtocol
  /\ e.kind = "targeted" => \A c, d \in e.to : c = d
  /\ e.rooted =>
       /\ e.owed = Addressed(e.kind, e.to) \cap {c \in clients : Home[c] \in live}
       /\ e.at # NoProtocol => e.size = Cardinality(ClientsOf(e.at))
       /\ e.reached = Served(e)

\* All emissions inside a rooted one are rooted.
Stack ==
  /\ \A i \in 1..Len(emits) : Sound(emits[i])
  /\ \A i, j \in 1..Len(emits) : i <= j /\ emits[j].rooted => emits[i].rooted

\* A box that holds the chunks from n + 1 to spoken, then the end marker if the
\* agent is done.
Holds(box, n, spoken, handled) ==
  /\ n <= spoken
  /\ Len(box) = (spoken - n) + (IF handled THEN 1 ELSE 0)
  /\ \A i \in 1..spoken - n : box[i] = n + i
  /\ handled => box[Len(box)] = 0

\* Until it ends, a generator is subscribed, and its box holds the chunks that
\* its consumer does not have.
Answers(g) ==
  /\ \A i \in 1..Len(g.got) : g.got[i] = i
  /\ g.phase = "new" => /\ g.got = <<>> /\ g.box = <<>>
                        /\ g.spoken = 0 /\ ~g.handled
  /\ g.phase \in {"asking", "waiting", "paused"} =>
       /\ g.subscribed
       /\ Holds(g.box, Len(g.got), g.spoken, g.handled)
  /\ g.clean => /\ g.phase \in {"ending", "over"} /\ g.handled
                /\ Len(g.got) = g.spoken

Queues == \A q \in Queries : Answers(query[q])

Inv == TypeOK /\ Chain /\ Stack /\ Queues

-----------------------------------------------------------------------------
\* Sequences whose first element is added, replaced or removed.

LEMMA Push ==
  ASSUME NEW S, NEW s \in Seq(S), NEW e \in S
  PROVE  /\ <<e>> \o s \in Seq(S)
         /\ Len(<<e>> \o s) = Len(s) + 1
         /\ (<<e>> \o s)[1] = e
         /\ \A i \in 2..Len(s) + 1 : (<<e>> \o s)[i] = s[i - 1]
  OBVIOUS

LEMMA Replace ==
  ASSUME NEW S, NEW s \in Seq(S), s # <<>>, NEW e \in S
  PROVE  /\ <<e>> \o Tail(s) \in Seq(S)
         /\ Len(<<e>> \o Tail(s)) = Len(s)
         /\ (<<e>> \o Tail(s))[1] = e
         /\ \A i \in 2..Len(s) : (<<e>> \o Tail(s))[i] = s[i]
  OBVIOUS

LEMMA Drop ==
  ASSUME NEW S, NEW s \in Seq(S), NEW n \in 2..Len(s) + 1
  PROVE  /\ SubSeq(s, n, Len(s)) \in Seq(S)
         /\ Len(SubSeq(s, n, Len(s))) = Len(s) - n + 1
         /\ \A i \in 1..Len(s) - n + 1 : SubSeq(s, n, Len(s))[i] = s[i + n - 1]
  OBVIOUS

LEMMA Put ==
  ASSUME NEW S, NEW s \in Seq(S), NEW e \in S
  PROVE  /\ Append(s, e) \in Seq(S)
         /\ Len(Append(s, e)) = Len(s) + 1
         /\ Append(s, e)[Len(s) + 1] = e
         /\ \A i \in 1..Len(s) : Append(s, e)[i] = s[i]
  OBVIOUS

LEMMA Rest ==
  ASSUME NEW S, NEW s \in Seq(S), s # <<>>
  PROVE  /\ Len(s) \in Nat /\ Len(s) >= 1
         /\ Head(s) = s[1] /\ Head(s) \in S
         /\ Tail(s) \in Seq(S)
         /\ Len(Tail(s)) = Len(s) - 1
         /\ \A i \in 1..Len(s) - 1 : Tail(s)[i] = s[i + 1]
  OBVIOUS

-----------------------------------------------------------------------------
LEMMA InvInit == ASSUME Init PROVE Inv
  <1> DEFINE g == [phase |-> "new", subscribed |-> FALSE, box |-> <<>>,
                   got |-> <<>>, spoken |-> 0, handled |-> FALSE, clean |-> FALSE]
  <1>1. g \in Generators
    BY ConstantsAssumption DEF Generators, Phases, ConstantsAssumption
  <1>2. Answers(g)
    BY DEF Answers
  <1>3. \A q \in Queries : query[q] = g
    BY DEF Init
  <1>4. TypeOK
    <2>1. query \in [Queries -> Generators]
      BY <1>1 DEF Init
    <2> QED BY <2>1 DEF Init, TypeOK
  <1> HIDE DEF g
  <1>5. Queues
    BY <1>2, <1>3 DEF Queues
  <1> QED BY <1>4, <1>5 DEF Init, Inv, Chain, Stack

-----------------------------------------------------------------------------
\* Queries.  A step of one generator leaves everything else alone.

LEMMA QueryKeeps ==
  ASSUME Inv, NEW q \in Queries, NEW g \in Generators, Answers(g),
         SetQuery(q, g), Quiet
  PROVE  Inv'
  <1>1. /\ query' \in [Queries -> Generators]
        /\ query'[q] = g
        /\ \A r \in Queries \ {q} : query'[r] = query[r]
    BY DEF SetQuery, Inv, TypeOK
  <1>2. TypeOK'
    BY <1>1 DEF Quiet, Inv, TypeOK
  <1>3. Chain'
    BY DEF Quiet, Inv, Chain
  <1>3a. Stack'
    <2>1. \A p : ClientsOf(p)' = ClientsOf(p)
      BY DEF Quiet, ClientsOf
    <2>2. \A i \in 1..Len(emits) : Sound(emits[i])'
      BY <2>1 DEF Quiet, Inv, Stack, Sound, Served, Addressed
    <2> QED BY <2>2 DEF Quiet, Inv, Stack
  <1>4. \A r \in Queries : Answers(query'[r])
    BY <1>1 DEF Inv, Queues
  <1>5. Queues'
    BY <1>4 DEF Queues, Answers
  <1> QED BY <1>2, <1>3, <1>3a, <1>5 DEF Inv

LEMMA QueryFacts ==
  ASSUME Inv, NEW q \in Queries
  PROVE  /\ query[q] \in Generators /\ Answers(query[q])
         /\ query[q].box \in Seq(0..MaxChunks) /\ query[q].got \in Seq(1..MaxChunks)
         /\ query[q].spoken \in 0..MaxChunks
         /\ query[q].handled \in BOOLEAN /\ query[q].clean \in BOOLEAN
         /\ query[q].subscribed \in BOOLEAN /\ query[q].phase \in Phases
  BY DEF Inv, TypeOK, Queues, Generators

\* Asking, pausing and ending touch neither the box nor what the consumer has.
LEMMA PhaseKeeps ==
  ASSUME Inv, NEW q \in Queries, NEW ph \in Phases, NEW sub \in BOOLEAN,
         SetQuery(q, [query[q] EXCEPT !.phase = ph, !.subscribed = sub]), Quiet,
         ph \in {"asking", "waiting"} => sub /\ query[q].phase \in {"new", "asking", "paused"},
         ph \notin {"new", "paused"}, query[q].clean => ph \in {"ending", "over"}
  PROVE  Inv'
  <1> DEFINE g == query[q]
             f == [g EXCEPT !.phase = ph, !.subscribed = sub]
  <1>1. g \in Generators /\ Answers(g) /\ g.got \in Seq(1..MaxChunks)
    BY QueryFacts
  <1>2. /\ f \in Generators /\ f.phase = ph /\ f.subscribed = sub
        /\ f.box = g.box /\ f.got = g.got /\ f.spoken = g.spoken
        /\ f.handled = g.handled /\ f.clean = g.clean
    BY <1>1 DEF Generators
  <1>3. Answers(f)
    <2> HIDE DEF f, g
    <2>1. \A i \in 1..Len(f.got) : f.got[i] = i
      BY <1>1, <1>2 DEF Answers
    <2>2. f.clean => /\ f.phase \in {"ending", "over"} /\ f.handled
                     /\ Len(f.got) = f.spoken
      BY <1>1, <1>2 DEF Answers, g
    <2>3. ASSUME ph \in {"asking", "waiting"}
          PROVE  f.subscribed /\ Holds(f.box, Len(f.got), f.spoken, f.handled)
      <3>1. sub /\ g.phase \in {"new", "asking", "paused"}
        BY <2>3 DEF g
      <3>2. CASE g.phase = "new"
        <4>1. g.got = <<>> /\ g.box = <<>> /\ g.spoken = 0 /\ ~g.handled
          BY <1>1, <3>2 DEF Answers
        <4>2. Len(g.got) = 0 /\ Len(g.box) = 0
          BY <4>1
        <4>3. Holds(g.box, Len(g.got), g.spoken, g.handled)
          BY <4>1, <4>2 DEF Holds
        <4> QED BY <1>2, <3>1, <4>3
      <3>3. CASE g.phase \in {"asking", "paused"}
        BY <1>1, <1>2, <3>1, <3>3 DEF Answers
      <3> QED BY <3>1, <3>2, <3>3
    <2> QED BY <1>2, <2>1, <2>2, <2>3 DEF Answers, Phases
  <1>4. SetQuery(q, f)
    OBVIOUS
  <1> QED BY <1>2, <1>3, <1>4, QueryKeeps

LEMMA AskKeeps ==
  ASSUME Inv, NEW q \in Queries, Ask(q) \/ Asked(q) \/ TimeOut(q) \/ Resume(q) \/ Finish(q)
  PROVE  Inv'
  <1>1. query[q] \in Generators /\ Answers(query[q]) /\ query[q].subscribed \in BOOLEAN
    BY QueryFacts
  <1>2. query[q].phase \in {"new", "asking", "waiting", "paused"} => ~query[q].clean
    BY <1>1 DEF Answers
  <1>3. query[q].phase = "paused" => query[q].subscribed
    BY <1>1 DEF Answers
  <1>4. CASE Ask(q)
    BY <1>2, <1>4, PhaseKeeps DEF Ask, Phases
  <1>5. CASE Asked(q)
    BY <1>2, <1>5, PhaseKeeps DEF Asked, Phases
  <1>6. CASE Resume(q)
    <2>1. [query[q] EXCEPT !.phase = "waiting"]
            = [query[q] EXCEPT !.phase = "waiting", !.subscribed = query[q].subscribed]
      BY <1>1 DEF Generators
    <2> QED BY <1>1, <1>2, <1>3, <1>6, <2>1, PhaseKeeps DEF Resume, Phases
  <1>7. CASE TimeOut(q)
    <2>1. [query[q] EXCEPT !.phase = "ending"]
            = [query[q] EXCEPT !.phase = "ending", !.subscribed = query[q].subscribed]
      BY <1>1 DEF Generators
    <2>2. CASE SetQuery(q, [query[q] EXCEPT !.phase = "ending"])
      BY <1>1, <1>7, <2>1, <2>2, PhaseKeeps DEF TimeOut, Phases
    <2>3. CASE SetQuery(q, [query[q] EXCEPT !.phase = "over", !.subscribed = FALSE])
      BY <1>7, <2>3, PhaseKeeps DEF TimeOut, Phases
    <2> QED BY <1>7, <2>2, <2>3 DEF TimeOut
  <1>8. CASE Finish(q)
    BY <1>8, PhaseKeeps DEF Finish, Phases
  <1> QED BY <1>4, <1>5, <1>6, <1>7, <1>8

\* What is put in a box that has no end marker yet.
LEMMA HoldsNext ==
  ASSUME NEW S, NEW box \in Seq(S), NEW n \in Nat, NEW spoken \in Nat,
         spoken + 1 \in S, Holds(box, n, spoken, FALSE)
  PROVE  Holds(Append(box, spoken + 1), n, spoken + 1, FALSE)
  <1> DEFINE new == Append(box, spoken + 1)
  <1>1. /\ n <= spoken /\ Len(box) = spoken - n
        /\ \A i \in 1..Len(box) : box[i] = n + i
    BY DEF Holds
  <1>2. /\ Len(new) = Len(box) + 1 /\ new[Len(box) + 1] = spoken + 1
        /\ \A i \in 1..Len(box) : new[i] = box[i]
    BY Put
  <1> HIDE DEF new
  <1>3. \A i \in 1..(spoken + 1) - n : new[i] = n + i
    <2> SUFFICES ASSUME NEW i \in 1..(spoken + 1) - n PROVE new[i] = n + i
      OBVIOUS
    <2>1. CASE i = Len(box) + 1
      BY <1>1, <1>2, <2>1
    <2>2. CASE i \in 1..Len(box)
      BY <1>1, <1>2, <2>2
    <2> QED BY <1>1, <2>1, <2>2
  <1>4. Len(new) = (spoken + 1) - n
    BY <1>1, <1>2
  <1>5. n <= spoken + 1
    BY <1>1
  <1>6. Holds(new, n, spoken + 1, FALSE)
    BY <1>3, <1>4, <1>5 DEF Holds
  <1> QED BY <1>6 DEF new

LEMMA HoldsEnd ==
  ASSUME NEW S, NEW box \in Seq(S), NEW n \in Nat, NEW spoken \in Nat,
         0 \in S, Holds(box, n, spoken, FALSE)
  PROVE  Holds(Append(box, 0), n, spoken, TRUE)
  <1> DEFINE new == Append(box, 0)
  <1>1. /\ n <= spoken /\ Len(box) = spoken - n
        /\ \A i \in 1..spoken - n : box[i] = n + i
    BY DEF Holds
  <1>2. /\ Len(new) = Len(box) + 1 /\ new[Len(box) + 1] = 0
        /\ \A i \in 1..Len(box) : new[i] = box[i]
    BY Put
  <1> HIDE DEF new
  <1>3. /\ Len(new) = (spoken - n) + 1 /\ new[Len(new)] = 0
        /\ \A i \in 1..spoken - n : new[i] = n + i
    BY <1>1, <1>2
  <1>4. Holds(new, n, spoken, TRUE)
    BY <1>1, <1>3 DEF Holds
  <1> QED BY <1>4 DEF new

\* What the first of a box is, and what is left.
LEMMA HoldsFirst ==
  ASSUME NEW S, NEW box \in Seq(S), NEW n \in Nat, NEW spoken \in Nat,
         NEW handled \in BOOLEAN, box # <<>>, Holds(box, n, spoken, handled)
  PROVE  /\ Head(box) = 0 => n = spoken /\ handled
         /\ Head(box) # 0 => Head(box) = n + 1 /\ Holds(Tail(box), n + 1, spoken, handled)
  <1> DEFINE new == Tail(box)
  <1>1. /\ n <= spoken
        /\ Len(box) = (spoken - n) + (IF handled THEN 1 ELSE 0)
        /\ \A i \in 1..spoken - n : box[i] = n + i
        /\ handled => box[Len(box)] = 0
    BY DEF Holds
  <1>2. /\ Len(box) \in Nat /\ Len(box) >= 1 /\ Head(box) = box[1]
        /\ Len(new) = Len(box) - 1
        /\ \A i \in 1..Len(box) - 1 : new[i] = box[i + 1]
    BY Rest
  <1> HIDE DEF new
  <1>3. CASE n = spoken
    BY <1>1, <1>2, <1>3
  <1>4. CASE n < spoken
    <2>1. box[1] = n + 1
      BY <1>1, <1>4
    <2>2. \A i \in 1..spoken - (n + 1) : new[i] = (n + 1) + i
      <3> SUFFICES ASSUME NEW i \in 1..spoken - (n + 1) PROVE new[i] = (n + 1) + i
        OBVIOUS
      <3>1. i \in 1..Len(box) - 1 /\ i + 1 \in 1..spoken - n
        BY <1>1, <1>4
      <3>2. new[i] = n + (i + 1)
        BY <1>1, <1>2, <3>1
      <3> QED BY <3>2
    <2>3. Len(new) = (spoken - (n + 1)) + (IF handled THEN 1 ELSE 0)
      BY <1>1, <1>2
    <2>4. ASSUME handled PROVE new[Len(new)] = 0
      <3>1. Len(new) \in 1..Len(box) - 1 /\ Len(new) + 1 = Len(box)
        BY <1>1, <1>2, <1>4, <2>4
      <3> QED BY <1>1, <1>2, <2>4, <3>1
    <2>5. Holds(new, n + 1, spoken, handled)
      BY <1>4, <2>2, <2>3, <2>4 DEF Holds
    <2> QED BY <1>2, <2>1, <2>5 DEF new
  <1> QED BY <1>1, <1>3, <1>4

\* The agent speaks, or is done: a generator that has not ended hears it.
LEMMA SpeakKeeps ==
  ASSUME Inv, NEW q \in Queries, Speak(q) \/ Handled(q)
  PROVE  Inv'
  <1> DEFINE g == query[q]
             n == Len(g.got)
             Open0 == {"asking", "waiting", "paused"}
  <1>1. /\ g \in Generators /\ Answers(g) /\ g.phase \in Phases
        /\ g.box \in Seq(0..MaxChunks) /\ g.got \in Seq(1..MaxChunks) /\ n \in Nat
        /\ g.spoken \in Nat /\ g.spoken \in 0..MaxChunks /\ MaxChunks \in Nat
        /\ g.subscribed \in BOOLEAN /\ g.handled \in BOOLEAN
    BY QueryFacts, ConstantsAssumption DEF ConstantsAssumption
  <1>2. g.phase # "new" /\ g.handled = FALSE
    BY <1>1 DEF Speak, Handled
  <1>3. /\ g.phase \in Open0 => g.subscribed /\ Holds(g.box, n, g.spoken, FALSE)
        /\ ~g.clean /\ \A i \in 1..n : g.got[i] = i
    BY <1>1, <1>2 DEF Answers
  <1>4. \A x \in 0..MaxChunks : /\ Heard(q, x) \in Seq(0..MaxChunks)
                                /\ g.subscribed => Heard(q, x) = Append(g.box, x)
    <2>1. \A x : Heard(q, x) = IF g.subscribed THEN Append(g.box, x) ELSE g.box
      BY DEF Heard
    <2> HIDE DEF g
    <2> TAKE x \in 0..MaxChunks
    <2>2. Append(g.box, x) \in Seq(0..MaxChunks)
      BY <1>1, Put
    <2> QED BY <1>1, <2>1, <2>2
  <1>5. CASE Speak(q)
    <2> DEFINE f == [g EXCEPT !.spoken = @ + 1, !.box = Heard(q, g.spoken + 1)]
    <2>1. g.spoken + 1 \in 0..MaxChunks
      BY <1>1, <1>5 DEF Speak
    <2>2. /\ f \in Generators
          /\ f.phase = g.phase /\ f.subscribed = g.subscribed /\ f.got = g.got
          /\ f.handled = FALSE /\ f.clean = g.clean
          /\ f.spoken = g.spoken + 1 /\ f.box = Heard(q, g.spoken + 1)
      BY <1>1, <1>2, <1>4, <2>1 DEF Generators
    <2>3. SetQuery(q, f) /\ Quiet
      BY <1>5 DEF Speak
    <2> HIDE DEF f, g
    <2>4. g.phase \in Open0 =>
            /\ f.box = Append(g.box, g.spoken + 1)
            /\ Holds(f.box, n, g.spoken + 1, FALSE)
      BY <1>1, <1>3, <1>4, <2>1, <2>2, HoldsNext
    <2>5. Answers(f)
      BY <1>2, <1>3, <2>2, <2>4 DEF Answers
    <2> QED BY <2>2, <2>3, <2>5, QueryKeeps
  <1>6. CASE Handled(q)
    <2> DEFINE f == [g EXCEPT !.handled = TRUE, !.box = Heard(q, 0)]
    <2>1. 0 \in 0..MaxChunks
      BY <1>1
    <2>2. /\ f \in Generators
          /\ f.phase = g.phase /\ f.subscribed = g.subscribed /\ f.got = g.got
          /\ f.handled = TRUE /\ f.clean = g.clean
          /\ f.spoken = g.spoken /\ f.box = Heard(q, 0)
      BY <1>1, <1>2, <1>4, <2>1 DEF Generators
    <2>3. SetQuery(q, f) /\ Quiet
      BY <1>6 DEF Handled
    <2> HIDE DEF f, g
    <2>4. g.phase \in Open0 =>
            f.box = Append(g.box, 0) /\ Holds(f.box, n, g.spoken, TRUE)
      BY <1>1, <1>3, <1>4, <2>1, <2>2, HoldsEnd
    <2>5. Answers(f)
      BY <1>2, <1>3, <2>2, <2>4 DEF Answers
    <2> QED BY <2>2, <2>3, <2>5, QueryKeeps
  <1> QED BY <1>5, <1>6

\* The consumer takes the first of the box, a chunk or the end marker.
LEMMA GetKeeps ==
  ASSUME Inv, NEW q \in Queries, Get(q) \/ GetEnd(q)
  PROVE  Inv'
  <1> DEFINE g == query[q]
             n == Len(g.got)
             x == Head(g.box)
  <1>1. /\ g \in Generators /\ Answers(g) /\ g.phase = "waiting"
        /\ g.box \in Seq(0..MaxChunks) /\ g.got \in Seq(1..MaxChunks) /\ n \in Nat
        /\ g.box # <<>> /\ g.spoken \in Nat /\ g.handled \in BOOLEAN
    BY QueryFacts, ConstantsAssumption DEF ConstantsAssumption, Get, GetEnd
  <1>2. /\ g.subscribed /\ ~g.clean /\ Holds(g.box, n, g.spoken, g.handled)
        /\ \A i \in 1..n : g.got[i] = i
    BY <1>1 DEF Answers
  <1>3. /\ x \in 0..MaxChunks /\ Tail(g.box) \in Seq(0..MaxChunks)
        /\ x = 0 => n = g.spoken /\ g.handled
        /\ x # 0 => x = n + 1 /\ Holds(Tail(g.box), n + 1, g.spoken, g.handled)
    <2> HIDE DEF g
    <2>1. x \in 0..MaxChunks /\ Tail(g.box) \in Seq(0..MaxChunks)
      BY <1>1, Rest
    <2> QED BY <1>1, <1>2, <2>1, HoldsFirst
  <1>4. CASE Get(q)
    <2> DEFINE got == Append(g.got, x)
               f == [g EXCEPT !.phase = "paused", !.box = Tail(@), !.got = Append(@, x)]
    <2>1. x \in 1..MaxChunks
      BY <1>3, <1>4 DEF Get
    <2>2. /\ got \in Seq(1..MaxChunks) /\ Len(got) = n + 1 /\ got[n + 1] = x
          /\ \A i \in 1..n : got[i] = g.got[i]
      <3> HIDE DEF g, x
      <3> QED BY <1>1, <2>1, Put
    <2>3. /\ f \in Generators
          /\ f.phase = "paused" /\ f.subscribed = g.subscribed
          /\ f.handled = g.handled /\ f.clean = g.clean
          /\ f.spoken = g.spoken /\ f.box = Tail(g.box) /\ f.got = got
      BY <1>1, <1>3, <2>2 DEF Generators, Phases
    <2>4. SetQuery(q, f) /\ Quiet
      BY <1>4 DEF Get
    <2> HIDE DEF f, got, g, x
    <2>5. x # 0
      BY <2>1
    <2>6. \A i \in 1..Len(f.got) : f.got[i] = i
      <3> SUFFICES ASSUME NEW i \in 1..n + 1 PROVE got[i] = i
        BY <2>2, <2>3
      <3>1. CASE i = n + 1
        BY <1>3, <2>2, <2>5, <3>1
      <3>2. CASE i \in 1..n
        BY <1>2, <2>2, <3>2
      <3> QED BY <1>1, <3>1, <3>2
    <2>7. Holds(f.box, Len(f.got), f.spoken, f.handled)
      BY <1>3, <2>2, <2>3, <2>5
    <2>8. Answers(f)
      BY <1>2, <2>3, <2>6, <2>7 DEF Answers
    <2> QED BY <2>3, <2>4, <2>8, QueryKeeps
  <1>5. CASE GetEnd(q)
    <2> DEFINE f == [g EXCEPT !.phase = "ending", !.box = Tail(@), !.clean = TRUE]
    <2>1. n = g.spoken /\ g.handled
      BY <1>3, <1>5 DEF GetEnd
    <2>2. /\ f \in Generators /\ f.phase = "ending" /\ f.got = g.got
          /\ f.handled = g.handled /\ f.spoken = g.spoken
      BY <1>1, <1>3 DEF Generators, Phases
    <2>3. SetQuery(q, f) /\ Quiet
      BY <1>5 DEF GetEnd
    <2> HIDE DEF f
    <2>4. Answers(f)
      BY <1>2, <2>1, <2>2 DEF Answers
    <2> QED BY <2>2, <2>3, <2>4, QueryKeeps
  <1> QED BY <1>4, <1>5

-----------------------------------------------------------------------------
\* Wiring, and peers that come and go.

LEMMA WireKeeps == ASSUME Inv, NEW p \in Protocols, Wire(p) PROVE Inv'
  <1>1. /\ layers \in Seq(Protocols) /\ emits = <<>> /\ emits' = <<>>
        /\ layers' = <<p>> \o layers /\ live' = live \cup {p}
        /\ \A i \in 1..Len(layers) : layers[i] # p
    BY DEF Inv, TypeOK, Wire, Range
  <1>2. /\ layers' \in Seq(Protocols) /\ Len(layers') = Len(layers) + 1
        /\ layers'[1] = p /\ Len(layers) \in Nat
        /\ \A i \in 2..Len(layers) + 1 : layers'[i] = layers[i - 1]
    BY <1>1, Push
  <1>3. TypeOK'
    BY <1>1, <1>2 DEF Wire, Inv, TypeOK
  <1>4. ASSUME NEW i \in 1..Len(layers'), NEW j \in 1..Len(layers'),
               layers'[i] = layers'[j]
        PROVE  i = j
    <2>1. \A k \in 2..Len(layers) + 1 : k - 1 \in 1..Len(layers) /\ layers'[k] # p
      BY <1>1, <1>2
    <2>2. CASE i = 1 \/ j = 1
      BY <1>2, <1>4, <2>1, <2>2
    <2>3. CASE i # 1 /\ j # 1
      <3>1. /\ i - 1 \in 1..Len(layers) /\ j - 1 \in 1..Len(layers)
            /\ layers[i - 1] = layers[j - 1]
        BY <1>2, <1>4, <2>3
      <3>2. i - 1 = j - 1
        BY <3>1 DEF Inv, Chain
      <3> QED BY <1>2, <3>2
    <2> QED BY <2>2, <2>3
  <1>5. ASSUME NEW r \in live' PROVE \E i \in 1..Len(layers') : layers'[i] = r
    <2>1. CASE r = p
      BY <1>2, <2>1
    <2>2. CASE r \in live
      <3>1. PICK i \in 1..Len(layers) : layers[i] = r
        BY <2>2 DEF Inv, Chain
      <3>2. layers'[i + 1] = r /\ i + 1 \in 1..Len(layers')
        BY <1>2, <3>1
      <3> QED BY <3>2
    <2> QED BY <1>1, <1>5, <2>1, <2>2
  <1>6. Chain'
    BY <1>4, <1>5 DEF Chain
  <1>7. Stack'
    BY <1>1 DEF Stack
  <1>8. Queues'
    BY DEF Wire, Inv, Queues, Answers
  <1> QED BY <1>3, <1>6, <1>7, <1>8 DEF Inv

LEMMA ShutdownKeeps == ASSUME Inv, NEW p \in Protocols, Shutdown(p) PROVE Inv'
  <1>1. /\ layers \in Seq(Protocols) /\ emits = <<>> /\ emits' = <<>>
        /\ p \in live /\ live' = live \ {p}
        /\ layers' = IF Head(layers) = p THEN Tail(layers) ELSE layers
    BY DEF Inv, TypeOK, Shutdown
  <1>2. layers # <<>>
    BY <1>1 DEF Inv, Chain
  <1>3. /\ Len(layers) \in Nat /\ Len(layers) >= 1
        /\ Head(layers) = layers[1]
        /\ Tail(layers) \in Seq(Protocols)
        /\ Len(Tail(layers)) = Len(layers) - 1
        /\ \A i \in 1..Len(layers) - 1 : Tail(layers)[i] = layers[i + 1]
    BY <1>1, <1>2, Rest
  <1>4. TypeOK'
    BY <1>1, <1>3 DEF Shutdown, Inv, TypeOK
  <1>5. Chain'
    <2>1. CASE layers[1] # p
      BY <1>1, <1>3, <2>1 DEF Inv, Chain
    <2>2. CASE layers[1] = p
      <3>1. layers' = Tail(layers)
        BY <1>1, <1>3, <2>2
      <3>2. ASSUME NEW i \in 1..Len(layers'), NEW j \in 1..Len(layers'),
                   layers'[i] = layers'[j]
            PROVE  i = j
        <4>1. i + 1 \in 1..Len(layers) /\ j + 1 \in 1..Len(layers)
          BY <1>3, <3>1
        <4>2. layers[i + 1] = layers[j + 1]
          BY <1>3, <3>1, <3>2
        <4>3. i + 1 = j + 1
          BY <4>1, <4>2 DEF Inv, Chain
        <4> QED BY <4>3
      <3>3. ASSUME NEW r \in live' PROVE \E i \in 1..Len(layers') : layers'[i] = r
        <4>1. PICK i \in 1..Len(layers) : layers[i] = r
          BY <1>1, <3>3 DEF Inv, Chain
        <4>2. i # 1
          BY <1>1, <2>2, <3>3, <4>1
        <4>3. i - 1 \in 1..Len(layers') /\ layers'[i - 1] = r
          BY <1>3, <3>1, <4>1, <4>2
        <4> QED BY <4>3
      <3> QED BY <3>2, <3>3 DEF Chain
    <2> QED BY <2>1, <2>2
  <1>6. Stack'
    BY <1>1 DEF Stack
  <1>7. Queues'
    BY DEF Shutdown, Inv, Queues, Answers
  <1> QED BY <1>4, <1>5, <1>6, <1>7 DEF Inv

\* Peers come and go only while no emission is rooted.
LEMMA NoneRooted ==
  ASSUME Inv, Open
  PROVE  \A i \in 1..Len(emits) : ~emits[i].rooted
  <1> SUFFICES ASSUME NEW i \in 1..Len(emits) PROVE ~emits[i].rooted
    OBVIOUS
  <1>1. emits \in Seq(Emissions) /\ emits # <<>>
    BY DEF Inv, TypeOK
  <1>2. Head(emits) = emits[1] /\ 1 \in 1..Len(emits) /\ 1 <= i
    BY <1>1, Rest
  <1> QED BY <1>1, <1>2 DEF Open, Top, Inv, Stack

LEMMA PeersKeep ==
  ASSUME Inv, NEW c \in Peers, Connect(c) \/ Disconnect(c)
  PROVE  Inv'
  <1>1. /\ \A i \in 1..Len(emits) : ~emits[i].rooted
        /\ clients' \subseteq Peers
    BY NoneRooted DEF Connect, Disconnect, Inv, TypeOK
  <1>2. UNCHANGED <<layers, live, emits, query>>
    BY DEF Connect, Disconnect
  <1>3. TypeOK'
    BY <1>1, <1>2 DEF Inv, TypeOK
  <1>4. \A i \in 1..Len(emits) : Sound(emits[i])'
    BY <1>1, <1>2 DEF Inv, Stack, Sound
  <1>5. Stack'
    BY <1>2, <1>4 DEF Inv, Stack
  <1>6. Chain' /\ Queues'
    BY <1>2 DEF Inv, Chain, Queues, Answers
  <1> QED BY <1>3, <1>5, <1>6 DEF Inv

-----------------------------------------------------------------------------
\* Emissions.

\* A new stack of emissions.
LEMMA StackKeeps ==
  ASSUME Inv, emits' \in Seq(Emissions), \A i \in 1..Len(emits') : Sound(emits'[i]),
         \A i, j \in 1..Len(emits') : i <= j /\ emits'[j].rooted => emits'[i].rooted,
         UNCHANGED <<layers, live, clients, query>>
  PROVE  Inv'
  <1>1. TypeOK'
    BY DEF Inv, TypeOK
  <1>2. \A p : ClientsOf(p)' = ClientsOf(p)
    BY DEF ClientsOf
  <1>3. \A i \in 1..Len(emits') : Sound(emits[i])'
    BY <1>2 DEF Sound, Served, Addressed
  <1>4. Stack'
    BY <1>3 DEF Stack
  <1>5. Chain' /\ Queues'
    BY DEF Inv, Chain, Queues, Answers
  <1> QED BY <1>1, <1>4, <1>5 DEF Inv

\* The emission under way, and its successor.
LEMMA TopFacts ==
  ASSUME Inv, emits # <<>>
  PROVE  /\ Top \in Emissions /\ Sound(Top) /\ Top = emits[1]
         /\ Len(emits) \in Nat /\ Len(emits) >= 1
         /\ \A i \in 1..Len(emits) : emits[i] \in Emissions
         /\ \A i \in 1..Len(emits) : emits[i].rooted => Top.rooted
         /\ Top.kind \in Kinds /\ Top.to \in SUBSET Peers /\ Top.rooted \in BOOLEAN
         /\ Top.todo \in SUBSET Protocols /\ Top.at \in Protocols \cup {NoProtocol}
         /\ Top.size \in Nat /\ Top.seen \in SUBSET Peers
         /\ Top.reached \in SUBSET Peers /\ Top.owed \in SUBSET Peers
  <1>1. emits \in Seq(Emissions)
    BY DEF Inv, TypeOK
  <1>2. /\ Top = emits[1] /\ Top \in Emissions /\ Len(emits) \in Nat /\ Len(emits) >= 1
        /\ \A i \in 1..Len(emits) : emits[i] \in Emissions
    BY <1>1, Rest DEF Top
  <1>3. /\ Sound(Top) /\ \A i \in 1..Len(emits) : emits[i].rooted => Top.rooted
    BY <1>2 DEF Inv, Stack
  <1> QED BY <1>2, <1>3 DEF Emissions

LEMMA ReplaceKeeps ==
  ASSUME Inv, emits # <<>>, NEW e \in Emissions, Sound(e), e.rooted = Top.rooted,
         emits' = <<e>> \o Tail(emits), UNCHANGED <<layers, live, clients, query>>
  PROVE  Inv' /\ Len(emits') = Len(emits)
  <1>1. emits \in Seq(Emissions)
    BY DEF Inv, TypeOK
  <1>2. /\ emits' \in Seq(Emissions) /\ Len(emits') = Len(emits) /\ emits'[1] = e
        /\ \A i \in 2..Len(emits) : emits'[i] = emits[i]
    BY <1>1, Replace
  <1>3. /\ Len(emits) \in Nat /\ Top = emits[1]
        /\ \A i \in 1..Len(emits) : emits[i].rooted => Top.rooted
    BY TopFacts
  <1>4. \A i \in 1..Len(emits') : Sound(emits'[i])
    <2> SUFFICES ASSUME NEW i \in 1..Len(emits) PROVE Sound(emits'[i])
      BY <1>2
    <2>1. CASE i = 1
      BY <1>2, <2>1
    <2>2. CASE i \in 2..Len(emits)
      BY <1>2, <2>2 DEF Inv, Stack
    <2> QED BY <1>3, <2>1, <2>2
  <1>5. \A i \in 1..Len(emits) : emits'[i].rooted = emits[i].rooted
    BY <1>2, <1>3
  <1>6. \A i, j \in 1..Len(emits') : i <= j /\ emits'[j].rooted => emits'[i].rooted
    BY <1>2, <1>5 DEF Inv, Stack
  <1> QED BY <1>2, <1>4, <1>6, StackKeeps

LEMMA PushKeeps ==
  ASSUME Inv, NEW e \in Emissions, Sound(e), emits' = <<e>> \o emits,
         \A i \in 1..Len(emits) : emits[i].rooted => e.rooted,
         UNCHANGED <<layers, live, clients, query>>
  PROVE  Inv' /\ Len(emits') = Len(emits) + 1
  <1>1. emits \in Seq(Emissions) /\ Len(emits) \in Nat
    BY DEF Inv, TypeOK
  <1>2. /\ emits' \in Seq(Emissions) /\ Len(emits') = Len(emits) + 1 /\ emits'[1] = e
        /\ \A i \in 2..Len(emits) + 1 : emits'[i] = emits[i - 1]
    BY <1>1, Push
  <1>3. \A i \in 2..Len(emits) + 1 : i - 1 \in 1..Len(emits)
    BY <1>1
  <1>4. \A i \in 1..Len(emits') : Sound(emits'[i])
    <2> SUFFICES ASSUME NEW i \in 1..Len(emits) + 1 PROVE Sound(emits'[i])
      BY <1>2
    <2>1. CASE i = 1
      BY <1>2, <2>1
    <2>2. CASE i \in 2..Len(emits) + 1
      BY <1>2, <1>3, <2>2 DEF Inv, Stack
    <2> QED BY <1>1, <2>1, <2>2
  <1>5. ASSUME NEW i \in 1..Len(emits'), NEW j \in 1..Len(emits'), i <= j,
               emits'[j].rooted
        PROVE  emits'[i].rooted
    <2>1. CASE j = 1
      BY <1>2, <1>5, <2>1
    <2>2. CASE j # 1
      <3>1. j \in 2..Len(emits) + 1 /\ j - 1 \in 1..Len(emits) /\ emits[j - 1].rooted
        BY <1>1, <1>2, <1>5, <2>2
      <3>2. CASE i = 1
        BY <1>2, <3>1, <3>2
      <3>3. CASE i # 1
        <4>1. /\ i \in 2..Len(emits) + 1 /\ i - 1 \in 1..Len(emits)
              /\ i - 1 <= j - 1
          BY <1>1, <1>2, <1>5, <3>3
        <4> QED BY <1>2, <3>1, <4>1 DEF Inv, Stack
      <3> QED BY <3>2, <3>3
    <2> QED BY <2>1, <2>2
  <1>6. \A i, j \in 1..Len(emits') : i <= j /\ emits'[j].rooted => emits'[i].rooted
    BY <1>5
  <1> QED BY <1>2, <1>4, <1>6, StackKeeps

LEMMA DropKeeps ==
  ASSUME Inv, NEW k \in Nat, k <= Len(emits), emits' \in Seq(Emissions),
         Len(emits') = Len(emits) - k,
         \A i \in 1..Len(emits) - k : emits'[i] = emits[i + k],
         UNCHANGED <<layers, live, clients, query>>
  PROVE  Inv'
  <1>1. Len(emits) \in Nat
    BY DEF Inv, TypeOK
  <1>2. \A i \in 1..Len(emits') : i + k \in 1..Len(emits) /\ emits'[i] = emits[i + k]
    BY <1>1
  <1>3. \A i \in 1..Len(emits') : Sound(emits'[i])
    BY <1>2 DEF Inv, Stack
  <1>4. \A i, j \in 1..Len(emits') : i <= j => i + k <= j + k
    BY <1>1
  <1>5. \A i, j \in 1..Len(emits') : i <= j /\ emits'[j].rooted => emits'[i].rooted
    BY <1>2, <1>4 DEF Inv, Stack
  <1> QED BY <1>3, <1>5, StackKeeps

\* A dict of clients has a length.
LEMMA ClientsFinite ==
  ASSUME Inv, NEW p
  PROVE  Cardinality(ClientsOf(p)) \in Nat
  <1>1. ClientsOf(p) \subseteq Peers /\ IsFiniteSet(Peers)
    BY ConstantsAssumption DEF Inv, TypeOK, ClientsOf, ConstantsAssumption
  <1> QED BY <1>1, FS_Subset, FS_CardinalityType

LEMMA Begins ==
  ASSUME Inv, NEW kind \in Kinds, NEW to \in SUBSET Peers, NEW rooted \in BOOLEAN,
         kind = "targeted" => \A c, d \in to : c = d
  PROVE  LET e == Emission(kind, to, rooted) IN
         e \in Emissions /\ Sound(e) /\ e.rooted = rooted
  <1> DEFINE e == Emission(kind, to, rooted)
             todo == IF kind = "other" THEN {} ELSE live
             owed == IF rooted THEN Addressed(kind, to) \cap
                                    {c \in clients : Home[c] \in live}
                     ELSE {}
  <1>1. live \subseteq Protocols /\ clients \subseteq Peers
    BY DEF Inv, TypeOK
  <1>2. todo \subseteq live /\ owed \subseteq Peers
    BY <1>1
  <1>3. /\ e.kind = kind /\ e.to = to /\ e.rooted = rooted /\ e.todo = todo
        /\ e.at = NoProtocol /\ e.size = 0 /\ e.seen = {} /\ e.reached = {}
        /\ e.owed = owed
    BY DEF Emission
  <1>4. e \in Emissions
    BY <1>1, <1>2 DEF Emission, Emissions
  <1>5. \A c \in owed : Home[c] \in todo
    BY DEF Addressed
  <1> HIDE DEF e, todo
  <1>6. rooted => owed = Addressed(kind, to) \cap {c \in clients : Home[c] \in live}
    OBVIOUS
  <1> HIDE DEF owed
  <1>7. Served(e) = {}
    BY <1>3, <1>5 DEF Served
  <1>8. Sound(e)
    BY <1>2, <1>3, <1>6, <1>7 DEF Sound
  <1> QED BY <1>3, <1>4, <1>8 DEF e

LEMMA EmitKeeps ==
  ASSUME Inv, NEW kind \in Kinds, NEW to \in SUBSET Peers,
         kind = "targeted" => \A c, d \in to : c = d,
         Emit(kind, to) \/ EmitOnBus(kind, to)
  PROVE  Inv' /\ Len(emits') = Len(emits) + 1
  <1>1. \A i \in 1..Len(emits) : ~emits[i].rooted
    BY NoneRooted DEF Emit, EmitOnBus
  <1>2. CASE Emit(kind, to)
    BY <1>1, <1>2, Begins, PushKeeps DEF Emit
  <1>3. CASE EmitOnBus(kind, to)
    BY <1>1, <1>3, Begins, PushKeeps DEF EmitOnBus
  <1> QED BY <1>2, <1>3

-----------------------------------------------------------------------------
\* The handlers of the emission under way.

LEMMA StartKeeps ==
  ASSUME Inv, NEW p \in Protocols, HandlerStarts(p)
  PROVE  Inv' /\ Len(emits') = Len(emits)
  <1> DEFINE t == Top
             n == Cardinality(ClientsOf(p))
             e == [t EXCEPT !.at = p, !.todo = @ \ {p}, !.seen = {}, !.size = n]
  <1>1. /\ emits # <<>> /\ t.at = NoProtocol /\ p \in t.todo
        /\ t.kind \in {"routed", "fanout"}
        /\ emits' = <<e>> \o Tail(emits) /\ UNCHANGED <<layers, live, clients, query>>
    BY DEF HandlerStarts, Routing
  <1>2. t \in Emissions /\ Sound(t) /\ n \in Nat
    BY <1>1, TopFacts, ClientsFinite
  <1>3. /\ e \in Emissions
        /\ e.kind = t.kind /\ e.to = t.to /\ e.rooted = t.rooted
        /\ e.todo = t.todo \ {p} /\ e.at = p /\ e.size = n /\ e.seen = {}
        /\ e.reached = t.reached /\ e.owed = t.owed
    BY <1>2 DEF Emissions
  <1>4. t.owed \subseteq Peers
    BY <1>2 DEF Emissions
  <1> HIDE DEF e, n, t
  <1>5. Served(e) = Served(t)
    BY <1>1, <1>3, <1>4, ConstantsAssumption DEF Served, ConstantsAssumption
  <1>6. Sound(e)
    BY <1>1, <1>2, <1>3, <1>5 DEF Sound, n
  <1> QED BY <1>1, <1>3, <1>6, ReplaceKeeps DEF t

LEMMA SendNextKeeps ==
  ASSUME Inv, NEW c \in Peers, SendNext(c)
  PROVE  Inv' /\ Len(emits') = Len(emits)
  <1> DEFINE t == Top
             s == Sent({c} \cap Addressed(t.kind, t.to))
             e == [t EXCEPT !.seen = @ \cup {c}, !.reached = @ \cup s]
  <1>1. /\ emits # <<>> /\ t.at # NoProtocol /\ c \in ClientsOf(t.at) \ t.seen
        /\ emits' = <<e>> \o Tail(emits) /\ UNCHANGED <<layers, live, clients, query>>
    BY DEF SendNext, Routing
  <1>2. t \in Emissions /\ Sound(t)
    BY <1>1, TopFacts
  <1>3. /\ s \subseteq Peers
        /\ t.rooted => s = {c} \cap Addressed(t.kind, t.to)
    BY DEF Sent, t
  <1>4. /\ e \in Emissions
        /\ e.kind = t.kind /\ e.to = t.to /\ e.rooted = t.rooted
        /\ e.todo = t.todo /\ e.at = t.at /\ e.size = t.size
        /\ e.seen = t.seen \cup {c} /\ e.reached = t.reached \cup s /\ e.owed = t.owed
    BY <1>2, <1>3 DEF Emissions
  <1>5. c \in clients /\ Home[c] = t.at
    BY <1>1 DEF ClientsOf
  <1> HIDE DEF e, s, t
  <1>6. t.at \in live \ t.todo
    BY <1>1, <1>2 DEF Sound
  <1>7. ASSUME t.rooted PROVE Served(e) = e.reached
    <2>1. /\ t.owed = Addressed(t.kind, t.to) \cap {d \in clients : Home[d] \in live}
          /\ t.reached = Served(t)
      BY <1>2, <1>7 DEF Sound
    <2>2. s = {c} \cap t.owed
      BY <1>3, <1>5, <1>6, <1>7, <2>1
    <2>3. Served(e) = Served(t) \cup s
      BY <1>4, <1>5, <1>6, <2>2 DEF Served
    <2> QED BY <1>4, <2>1, <2>3
  <1>8. Sound(e)
    BY <1>1, <1>2, <1>4, <1>7 DEF Sound
  <1> QED BY <1>1, <1>4, <1>8, ReplaceKeeps DEF t

LEMMA ReturnKeeps ==
  ASSUME Inv, HandlerReturns
  PROVE  Inv' /\ Len(emits') = Len(emits)
  <1> DEFINE t == Top
             e == [t EXCEPT !.at = NoProtocol]
  <1>1. /\ emits # <<>> /\ t.at # NoProtocol /\ ClientsOf(t.at) \subseteq t.seen
        /\ emits' = <<e>> \o Tail(emits) /\ UNCHANGED <<layers, live, clients, query>>
    BY DEF HandlerReturns, Routing
  <1>2. t \in Emissions /\ Sound(t)
    BY <1>1, TopFacts
  <1>3. /\ e \in Emissions
        /\ e.kind = t.kind /\ e.to = t.to /\ e.rooted = t.rooted
        /\ e.todo = t.todo /\ e.at = NoProtocol
        /\ e.reached = t.reached /\ e.owed = t.owed
    BY <1>2 DEF Emissions
  <1>4. t.owed \subseteq Peers /\ clients \subseteq Peers
    BY <1>2 DEF Emissions, Inv, TypeOK
  <1> HIDE DEF e, t
  <1>5. ASSUME t.rooted PROVE Served(e) = Served(t)
    <2>1. t.owed \subseteq clients
      BY <1>2, <1>5 DEF Sound
    <2>2. \A c \in t.owed : Home[c] # NoProtocol /\ (Home[c] = t.at => c \in t.seen)
      BY <1>1, <1>4, <2>1, ConstantsAssumption DEF ClientsOf, ConstantsAssumption
    <2> QED BY <1>3, <2>2 DEF Served
  <1>6. Sound(e)
    BY <1>2, <1>3, <1>5 DEF Sound
  <1> QED BY <1>1, <1>3, <1>6, ReplaceKeeps DEF t

\* A handler iterates undisturbed over the clients of a rooted emission.
LEMMA RaiseKeeps ==
  ASSUME Inv, HandlerRaises
  PROVE  Inv' /\ ~Top.rooted
  <1>1. emits \in Seq(Emissions) /\ Len(emits) \in Nat
    BY DEF Inv, TypeOK
  <1>2. PICK n \in 2..Len(emits) + 1 : emits' = SubSeq(emits, n, Len(emits))
    BY DEF HandlerRaises
  <1>3. /\ n - 1 \in Nat /\ n - 1 <= Len(emits) /\ Len(emits) - n + 1 = Len(emits) - (n - 1)
        /\ \A i \in Int : i + n - 1 = i + (n - 1)
    BY <1>1
  <1>4. /\ emits' \in Seq(Emissions) /\ Len(emits') = Len(emits) - n + 1
        /\ \A i \in 1..Len(emits) - n + 1 : emits'[i] = emits[i + n - 1]
    BY <1>1, <1>2, Drop
  <1>5. /\ Len(emits') = Len(emits) - (n - 1)
        /\ \A i \in 1..Len(emits) - (n - 1) : emits'[i] = emits[i + (n - 1)]
    BY <1>3, <1>4
  <1>6. Inv'
    BY <1>3, <1>4, <1>5, DropKeeps DEF HandlerRaises
  <1>7. Sound(Top)
    BY TopFacts DEF HandlerRaises
  <1> QED BY <1>6, <1>7 DEF HandlerRaises, Sound, Unchanged

LEMMA EmitReturnsKeeps ==
  ASSUME Inv, EmitReturns
  PROVE  Inv' /\ (Top.rooted => Top.reached = Top.owed)
  <1>1. emits \in Seq(Emissions) /\ emits # <<>> /\ emits' = Tail(emits)
    BY DEF Inv, TypeOK, EmitReturns
  <1>2. /\ Len(emits) \in Nat /\ 1 <= Len(emits) /\ emits' \in Seq(Emissions)
        /\ Len(emits') = Len(emits) - 1
        /\ \A i \in 1..Len(emits) - 1 : emits'[i] = emits[i + 1]
    BY <1>1, Rest
  <1>3. Inv'
    BY <1>2, DropKeeps DEF EmitReturns
  <1>4. Sound(Top) /\ Top.at = NoProtocol /\ Top.todo = {} /\ Top.owed \subseteq Peers
    BY <1>1, TopFacts DEF EmitReturns
  <1>5. Served(Top) = Top.owed
    BY <1>4, ConstantsAssumption DEF Served, ConstantsAssumption
  <1> QED BY <1>3, <1>4, <1>5 DEF Sound

LEMMA TargetedKeeps ==
  ASSUME Inv, NEW p \in Protocols, SendTargeted(p)
  PROVE  Inv' /\ Len(emits') >= Len(emits)
  <1> DEFINE t == Top
             s == Sent(t.to)
             e == [t EXCEPT !.todo = @ \ {p}]
             f == [e EXCEPT !.reached = @ \cup s]
             x == Emission("other", {}, t.rooted)
  <1>1. emits # <<>> /\ t.kind = "targeted" /\ p \in t.todo
    BY DEF SendTargeted
  <1>2. t \in Emissions /\ Sound(t) /\ Len(emits) \in Nat
    BY <1>1, TopFacts
  <1>3. s \subseteq Peers /\ (t.rooted => s = t.to)
    BY <1>1, TopFacts DEF Sent
  <1>4. /\ e \in Emissions /\ f \in Emissions
        /\ e.kind = t.kind /\ e.to = t.to /\ e.rooted = t.rooted
        /\ e.todo = t.todo \ {p} /\ e.at = t.at
        /\ e.seen = t.seen /\ e.reached = t.reached /\ e.owed = t.owed
        /\ f.kind = t.kind /\ f.to = t.to /\ f.rooted = t.rooted
        /\ f.todo = t.todo \ {p} /\ f.at = t.at
        /\ f.reached = t.reached \cup s /\ f.owed = t.owed
    BY <1>2, <1>3 DEF Emissions
  <1>5. CASE t.to \subseteq ClientsOf(p)
    <2>1. emits' = <<f>> \o Tail(emits) /\ UNCHANGED <<layers, live, clients, query>>
      BY <1>5 DEF SendTargeted, Routing
    <2> HIDE DEF e, f, s, t
    <2>2. p \in live /\ t.at = NoProtocol
      BY <1>1, <1>2 DEF Sound
    <2>3. ASSUME t.rooted PROVE Served(f) = f.reached
      <3>1. /\ t.owed = t.to \cap {d \in clients : Home[d] \in live}
            /\ t.reached = Served(t)
        BY <1>1, <1>2, <2>3 DEF Sound, Addressed
      <3>2. t.owed = s /\ \A c \in s : Home[c] = p
        BY <1>3, <1>5, <2>2, <2>3, <3>1 DEF ClientsOf
      <3>3. Served(f) = Served(t) \cup s
        BY <1>1, <1>4, <2>2, <3>2, ConstantsAssumption DEF Served, ConstantsAssumption
      <3> QED BY <1>4, <3>1, <3>3
    <2>4. Sound(f)
      BY <1>1, <1>2, <1>4, <2>2, <2>3 DEF Sound
    <2>5. Inv' /\ Len(emits') = Len(emits)
      BY <1>1, <1>4, <2>1, <2>4, ReplaceKeeps DEF t
    <2> QED BY <1>2, <2>5
  <1>6. CASE ~(t.to \subseteq ClientsOf(p))
    <2>1. /\ emits' = <<x, e>> \o Tail(emits)
          /\ UNCHANGED <<layers, live, clients, query>>
      BY <1>6 DEF SendTargeted
    <2>2. t.rooted \in BOOLEAN /\ x \in Emissions /\ Sound(x) /\ x.rooted = t.rooted
      BY <1>1, TopFacts, Begins DEF Kinds
    <2> HIDE DEF e, f, s, t, x
    <2>3. t.at = NoProtocol
      BY <1>1, <1>2 DEF Sound
    <2>4. ASSUME t.rooted PROVE Served(e) = Served(t)
      <3>1. t.owed = t.to \cap {d \in clients : Home[d] \in live}
        BY <1>1, <1>2, <2>4 DEF Sound, Addressed
      <3>2. \A c, d \in t.to : c = d
        BY <1>1, <1>2 DEF Sound
      <3>3. \A c \in t.owed : Home[c] # p
        BY <1>6, <3>1, <3>2 DEF ClientsOf
      <3> QED BY <1>4, <2>3, <3>3 DEF Served
    <2>5. Sound(e)
      BY <1>1, <1>2, <1>4, <2>3, <2>4 DEF Sound
    <2>6. emits \in Seq(Emissions)
      BY DEF Inv, TypeOK
    <2> DEFINE r == <<e>> \o Tail(emits)
    <2>7. /\ r \in Seq(Emissions) /\ Len(r) = Len(emits) /\ r[1] = e
          /\ \A i \in 2..Len(emits) : r[i] = emits[i]
      BY <1>1, <1>4, <2>6, Replace
    <2>8. emits' = <<x>> \o r
      BY <1>1, <1>4, <2>1, <2>2, <2>6, Rest
    <2> HIDE DEF r
    <2>9. /\ emits' \in Seq(Emissions) /\ Len(emits') = Len(emits) + 1
          /\ emits'[1] = x
          /\ \A i \in 2..Len(emits) + 1 : emits'[i] = r[i - 1]
      BY <2>2, <2>7, <2>8, Push
    <2>10. /\ t = emits[1] /\ Len(emits) >= 1
           /\ \A i \in 1..Len(emits) : emits[i].rooted => t.rooted
      BY <1>1, TopFacts DEF t
    <2>11. /\ emits'[2] = e
           /\ \A i \in 3..Len(emits) + 1 : i - 1 \in 2..Len(emits) /\ emits'[i] = emits[i - 1]
      <3>1. 2 \in 2..Len(emits) + 1
        BY <1>2, <2>10
      <3>2. \A i \in 3..Len(emits) + 1 : i \in 2..Len(emits) + 1 /\ i - 1 \in 2..Len(emits)
        BY <1>2
      <3> QED BY <2>7, <2>9, <3>1, <3>2
    <2>12. \A i \in 1..Len(emits') : Sound(emits'[i])
      <3> SUFFICES ASSUME NEW i \in 1..Len(emits) + 1 PROVE Sound(emits'[i])
        BY <2>9
      <3>1. CASE i \in {1, 2}
        BY <2>2, <2>5, <2>9, <2>11, <3>1
      <3>2. CASE i \in 3..Len(emits) + 1
        <4>1. i - 1 \in 1..Len(emits) /\ emits'[i] = emits[i - 1]
          BY <1>2, <2>11, <3>2
        <4> QED BY <4>1 DEF Inv, Stack
      <3> QED BY <1>2, <3>1, <3>2
    <2>13. ASSUME NEW i \in 1..Len(emits'), NEW j \in 1..Len(emits'), i <= j,
                  emits'[j].rooted
           PROVE  emits'[i].rooted
      <3>1. t.rooted
        <4>1. CASE j \in {1, 2}
          BY <1>4, <2>2, <2>9, <2>11, <2>13, <4>1
        <4>2. CASE j \in 3..Len(emits) + 1
          <5>1. j - 1 \in 1..Len(emits) /\ emits'[j] = emits[j - 1]
            BY <1>2, <2>11, <4>2
          <5> QED BY <2>10, <2>13, <5>1
        <4> QED BY <1>2, <2>9, <4>1, <4>2
      <3>2. CASE i \in {1, 2}
        BY <1>4, <2>2, <2>9, <2>11, <3>1, <3>2
      <3>3. CASE i \in 3..Len(emits) + 1
        <4>1. /\ j \in 3..Len(emits) + 1 /\ i - 1 <= j - 1
          BY <1>2, <2>9, <2>13, <3>3
        <4>2. /\ i - 1 \in 1..Len(emits) /\ emits'[i] = emits[i - 1]
              /\ j - 1 \in 1..Len(emits) /\ emits'[j] = emits[j - 1]
          BY <1>2, <2>11, <3>3, <4>1
        <4> QED BY <2>13, <4>1, <4>2 DEF Inv, Stack
      <3> QED BY <1>2, <2>9, <3>2, <3>3
    <2>14. \A i, j \in 1..Len(emits') : i <= j /\ emits'[j].rooted => emits'[i].rooted
      BY <2>13
    <2>15. Inv'
      BY <2>1, <2>9, <2>12, <2>14, StackKeeps
    <2> QED BY <1>2, <2>9, <2>15
  <1> QED BY <1>5, <1>6

-----------------------------------------------------------------------------
LEMMA StutterKeeps == ASSUME Inv, UNCHANGED vars PROVE Inv'
  <1>1. \A i \in 1..Len(emits) : Sound(emits[i])
    BY DEF Inv, Stack
  <1>2. \A i, j \in 1..Len(emits) : i <= j /\ emits[j].rooted => emits[i].rooted
    BY DEF Inv, Stack
  <1>3. emits' \in Seq(Emissions) /\ emits' = emits
    BY DEF vars, Inv, TypeOK
  <1> QED BY <1>1, <1>2, <1>3, StackKeeps DEF vars

\* What every step keeps, and what it does to an emission that it ends.
LEMMA InvNext ==
  ASSUME Inv, [Next]_vars
  PROVE  Inv' /\ (emits # <<>> /\ Top.rooted /\ Len(emits') < Len(emits)
                    => Top.reached = Top.owed)
  <1> USE DEF Kinds
  <1>1. Len(emits) \in Nat
    BY DEF Inv, TypeOK
  <1>2. ASSUME UNCHANGED vars PROVE Inv' /\ emits' = emits
    BY <1>2, StutterKeeps DEF vars
  <1>3. ASSUME NEW p \in Protocols, Wire(p) \/ Shutdown(p)
        PROVE  Inv' /\ emits' = emits
    BY <1>3, WireKeeps, ShutdownKeeps DEF Wire, Shutdown
  <1>4. ASSUME NEW p \in Protocols, HandlerStarts(p) \/ SendTargeted(p)
        PROVE  Inv' /\ Len(emits') >= Len(emits)
    BY <1>1, <1>4, StartKeeps, TargetedKeeps
  <1>5. ASSUME NEW kind \in {"fanout", "other"}, Emit(kind, {}) \/ EmitOnBus(kind, {})
        PROVE  Inv' /\ Len(emits') = Len(emits) + 1
    BY <1>5, EmitKeeps
  <1>6. ASSUME NEW kind \in {"routed", "targeted"}, NEW c \in Peers,
               Emit(kind, {c}) \/ EmitOnBus(kind, {c})
        PROVE  Inv' /\ Len(emits') = Len(emits) + 1
    BY <1>6, EmitKeeps
  <1>7. ASSUME NEW c \in Peers, Connect(c) \/ Disconnect(c)
        PROVE  Inv' /\ emits' = emits
    BY <1>7, PeersKeep DEF Connect, Disconnect
  <1>8. ASSUME NEW c \in Peers, SendNext(c) PROVE Inv' /\ Len(emits') = Len(emits)
    BY <1>8, SendNextKeeps
  <1>9. CASE HandlerReturns
    BY <1>1, <1>9, ReturnKeeps
  <1>10. CASE HandlerRaises
    BY <1>10, RaiseKeeps
  <1>11. CASE EmitReturns
    BY <1>11, EmitReturnsKeeps
  <1>12. ASSUME NEW q \in Queries,
                \/ Ask(q) \/ Asked(q) \/ Speak(q) \/ Handled(q) \/ Get(q)
                \/ GetEnd(q) \/ TimeOut(q) \/ Resume(q) \/ Finish(q)
         PROVE  Inv' /\ emits' = emits
    <2>1. Quiet
      BY <1>12 DEF Ask, Asked, Speak, Handled, Get, GetEnd, TimeOut, Resume, Finish
    <2> QED BY <1>12, <2>1, AskKeeps, SpeakKeeps, GetKeeps DEF Quiet
  <1>13. ASSUME emits # <<>>, Top.rooted, Len(emits') < Len(emits), Next
         PROVE  HandlerRaises \/ EmitReturns
    <2>1. /\ emits' # emits /\ Len(emits') # Len(emits)
          /\ Len(emits') # Len(emits) + 1 /\ ~(Len(emits') >= Len(emits))
      BY <1>1, <1>13
    <2> QED BY <1>3, <1>4, <1>5, <1>6, <1>7, <1>8, <1>9, <1>12, <1>13, <2>1, ReturnKeeps
            DEF Next, Routes
  <1>14. ASSUME Next PROVE Inv'
    BY <1>3, <1>4, <1>5, <1>6, <1>7, <1>8, <1>9, <1>10, <1>11, <1>12, <1>14
       DEF Next, Routes
  <1> QED BY <1>1, <1>2, <1>10, <1>11, <1>13, <1>14 DEF vars

\* The invariant of every behaviour of the shared bus.
THEOREM Invariant == Spec => []Inv
  <1>1. Init => Inv
    BY InvInit
  <1>2. Inv /\ [Next]_vars => Inv'
    BY InvNext
  <1> QED BY <1>1, <1>2, PTL DEF Spec

\* The bus keeps its types: a protocol wraps bus.emit, a handler iterates over
\* the clients of one, and a box holds chunks that were spoken (__post_init__,
\* handle_send, natural_language_query).
THEOREM TypeCorrect == Spec => []TypeOK
  <1>1. Inv => TypeOK
    BY DEF Inv
  <1> QED BY <1>1, Invariant, PTL

\* Whatever the order in which protocols are wired and shut down, each live one
\* is in the chain of wrappers exactly once (shutdown).
THEOREM LiveProtocolsAreWired == Spec => []LiveProtocolsRecord
  <1>1. ASSUME Inv PROVE LiveProtocolsRecord
    <2> SUFFICES ASSUME NEW p \in live
                 PROVE  \E i \in 1..Len(layers) :
                          \A j \in 1..Len(layers) : layers[j] = p <=> j = i
      BY DEF LiveProtocolsRecord
    <2>1. PICK i \in 1..Len(layers) : layers[i] = p
      BY <1>1 DEF Inv, Chain
    <2>2. \A j \in 1..Len(layers) : layers[j] = p <=> j = i
      BY <1>1, <2>1 DEF Inv, Chain
    <2> QED BY <2>2
  <1> QED BY <1>1, Invariant, PTL

\* A query yields what was spoken, in order, and all of it before its sentinel,
\* for any number of chunks (natural_language_query).
THEOREM AnswersAreOrdered == Spec => []AnswersInOrder
  <1>1. ASSUME Inv PROVE AnswersInOrder
    BY <1>1 DEF Inv, Queues, Answers, AnswersInOrder
  <1> QED BY <1>1, Invariant, PTL

\* An emission that emit_on_bus rooted in the pump reaches exactly the peers it
\* is addressed to, for any protocols and peers, and however deep emissions nest
\* (handle_send, handle_internal_mycroft).
THEOREM RootedIsComplete == Spec => RootedReachesAll
  <1>1. Inv /\ [Next]_vars
          => [emits # <<>> /\ Top.rooted /\ Len(emits') < Len(emits)
                => Top.reached = Top.owed]_vars
    BY InvNext
  <1> QED BY <1>1, Invariant, PTL DEF Spec, RootedReachesAll

=============================================================================
