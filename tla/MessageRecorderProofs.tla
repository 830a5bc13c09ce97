----------------------- MODULE MessageRecorderProofs -----------------------
(***************************************************************************)
(* Proofs about MessageRecorder for any waiters, types, directions and     *)
(* bounds.                                                                 *)
(***************************************************************************)
EXTENDS MessageRecorder, WellFoundedInduction, TLAPS

\* An event is registered under the type its call waits for, and while the
\* call is in progress.
Registration ==
  \A w \in Waiters, y \in Types :
    w \in waiters[y] <=> y = want[w].type /\ pc[w] \notin {"idle", "returned"}

\* A call that was woken has its event set or is late, and one that is about
\* to return nothing is late.
Deadlines ==
  \A w \in Waiters :
    /\ pc[w] \in {"again", "isset"} => event[w] \/ late[w]
    /\ pc[w] \in {"finally", "returned"} /\ result[w] = None => late[w]

\* Of a call for any direction, before a clear: its event is set for records
\* it matches only, it blocks without one only with its event set, and it does
\* not come to the test of its event unless it is late.
Wakeups ==
  \A w \in Waiters :
    Unfiltered(w) /\ clears = 0 =>
      /\ event[w] => Found(w) # {}
      /\ pc[w] = "blocked" /\ Found(w) # {} => event[w]
      /\ pc[w] = "deadline" /\ Found(w) # {} => event[w] \/ late[w]
      /\ pc[w] = "isset" => late[w]

Inv == TypeOK /\ Registration /\ Deadlines /\ Wakeups

\* A non-empty set of places in a sequence has a last one.
LEMMA LastPlace ==
  ASSUME NEW n \in Nat, NEW S \in SUBSET (1..n), S # {}
  PROVE  Max(S) \in S
  <1> DEFINE T == {n - i : i \in S}
  <1>1. \A i \in S : n - i \in Nat
    OBVIOUS
  <1>2. T \subseteq Nat /\ T # {}
    BY <1>1
  <1>3. PICK x \in T : \A y \in T : ~(<<y, x>> \in OpToRel(<, Nat))
    BY <1>2, NatLessThanWellFounded, WFMin
  <1>4. \A y \in T : ~(y < x)
    BY <1>2, <1>3 DEF OpToRel
  <1>5. PICK i \in S : x = n - i
    BY <1>3
  <1>6. \A j \in S : i >= j
    BY <1>4, <1>5
  <1> QED BY <1>6 DEF Max

\* _find returns a record of the list that matches, or None if none does.
LEMMA FindFinds ==
  ASSUME TypeOK, NEW w \in Waiters
  PROVE  /\ Find(w) \in Records \cup {None}
         /\ Find(w) = None <=> Found(w) = {}
  <1>1. /\ Len(records) \in Nat /\ DOMAIN records = 1..Len(records)
        /\ \A i \in DOMAIN records : records[i] \in Records
    BY DEF TypeOK
  <1>2. \A r \in Records : r # None
    BY DEF Records, None
  <1>3. CASE Found(w) = {}
    BY <1>3 DEF Find
  <1>4. CASE Found(w) # {}
    <2>1. Max(Found(w)) \in Found(w)
      BY <1>1, <1>4, LastPlace DEF Found
    <2>2. Find(w) \in Records
      BY <1>1, <1>4, <2>1 DEF Find, Found
    <2> QED BY <1>2, <1>4, <2>2
  <1> QED BY <1>3, <1>4

LEMMA InvInit == ASSUME ConstantsAssumption, Init PROVE Inv
  <1>1. TypeOK
    BY DEF Init, TypeOK, Steps, ConstantsAssumption
  <1>2. \A w \in Waiters : Found(w) = {}
    BY DEF Init, Found
  <1> QED BY <1>1, <1>2 DEF Init, Inv, Registration, Deadlines, Wakeups

\* A record that w matches is found from then on, and no other is new.
LEMMA RecordFound ==
  ASSUME TypeOK, NEW y \in Types, NEW d \in Directions, Record(y, d),
         NEW w \in Waiters
  PROVE  /\ Found(w) \subseteq Found(w)'
         /\ y = want[w].type /\ Unfiltered(w) => Found(w)' # {}
         /\ y # want[w].type => Found(w)' = Found(w)
  <1> DEFINE r == [type |-> y, direction |-> d, no |-> Recorded + 1]
             n == Len(records) + 1
  <1>1. /\ records' = Append(records, r) /\ want' = want
        /\ Len(records) \in Nat
    BY DEF Record, TypeOK
  <1>2. /\ r.type = y /\ r.direction = d
    OBVIOUS
  <1> HIDE DEF r
  <1>3. /\ DOMAIN records = 1..Len(records)
        /\ DOMAIN records' = 1..n
        /\ \A i \in DOMAIN records : records'[i] = records[i]
        /\ records'[n] = r
    BY <1>1 DEF TypeOK
  <1>4. Found(w) \subseteq Found(w)'
    BY <1>1, <1>3 DEF Found, Matches
  <1>5. ASSUME y = want[w].type, Unfiltered(w) PROVE n \in Found(w)'
    BY <1>1, <1>2, <1>3, <1>5 DEF Found, Matches, Unfiltered
  <1>6. ASSUME y # want[w].type PROVE Found(w)' \subseteq Found(w)
    BY <1>1, <1>2, <1>3, <1>6 DEF Found, Matches
  <1> QED BY <1>4, <1>5, <1>6

LEMMA RecordKeeps ==
  ASSUME Inv, ConstantsAssumption, NEW y \in Types, NEW d \in Directions, Record(y, d)
  PROVE  Inv'
  <1>1. /\ UNCHANGED <<waiters, pc, want, late, result, clears>>
        /\ \A w \in Waiters : event'[w] <=> event[w] \/ w \in waiters[y]
    BY DEF Record, Inv, TypeOK
  <1>2. TypeOK'
    <2>1. [type |-> y, direction |-> d, no |-> Recorded + 1] \in Records
      BY DEF Record, Recorded, Records, Inv, TypeOK, ConstantsAssumption
    <2>2. records' \in Seq(Records)
      BY <2>1 DEF Record, Inv, TypeOK
    <2>3. event' \in [Waiters -> BOOLEAN]
      BY DEF Record, Inv, TypeOK
    <2> QED BY <1>1, <2>2, <2>3 DEF Inv, TypeOK
  <1>3. Registration'
    BY <1>1 DEF Inv, Registration
  <1>4. Deadlines'
    BY <1>1 DEF Inv, Deadlines
  <1>5. ASSUME NEW w \in Waiters, Unfiltered(w)', clears' = 0
        PROVE  /\ event'[w] => Found(w)' # {}
               /\ pc'[w] = "blocked" /\ Found(w)' # {} => event'[w]
               /\ pc'[w] = "deadline" /\ Found(w)' # {} => event'[w] \/ late'[w]
               /\ pc'[w] = "isset" => late'[w]
    <2>1. Unfiltered(w) /\ clears = 0
      BY <1>1, <1>5 DEF Unfiltered
    <2>2. /\ Found(w) \subseteq Found(w)'
          /\ y = want[w].type => Found(w)' # {}
          /\ y # want[w].type => Found(w)' = Found(w)
      BY <2>1, RecordFound DEF Inv
    <2>3. /\ w \in waiters[y] => y = want[w].type
          /\ y = want[w].type /\ pc[w] \in {"blocked", "deadline"} => w \in waiters[y]
      BY DEF Inv, Registration
    <2> QED BY <1>1, <2>1, <2>2, <2>3 DEF Inv, Wakeups
  <1>6. Wakeups'
    BY <1>5 DEF Wakeups
  <1> QED BY <1>2, <1>3, <1>4, <1>6 DEF Inv

LEMMA ClearKeeps ==
  ASSUME Inv, ConstantsAssumption, Clear
  PROVE  Inv'
  <1>1. TypeOK'
    BY DEF Clear, Inv, TypeOK, ConstantsAssumption
  <1>2. clears' # 0
    BY DEF Clear, Inv, TypeOK, ConstantsAssumption
  <1>3. Registration' /\ Deadlines'
    BY DEF Clear, Inv, Registration, Deadlines
  <1>4. Wakeups'
    BY <1>2 DEF Wakeups
  <1> QED BY <1>1, <1>3, <1>4 DEF Inv

\* What a step of w leaves alone: the list, and whatever is another call's.
LEMMA OthersKeep ==
  ASSUME Inv, NEW w \in Waiters, UNCHANGED <<records, want, clears>>,
         \A v \in Waiters \ {w} :
           /\ pc'[v] = pc[v] /\ (event'[v] <=> event[v]) /\ (late'[v] <=> late[v])
           /\ result'[v] = result[v]
           /\ \A y \in Types : v \in waiters'[y] <=> v \in waiters[y],
         TypeOK',
         \A y \in Types :
           w \in waiters'[y] <=> y = want[w].type /\ pc'[w] \notin {"idle", "returned"},
         pc'[w] \in {"again", "isset"} => event'[w] \/ late'[w],
         pc'[w] \in {"finally", "returned"} /\ result'[w] = None => late'[w],
         Unfiltered(w) /\ clears = 0 =>
           /\ event'[w] => Found(w) # {}
           /\ pc'[w] = "blocked" /\ Found(w) # {} => event'[w]
           /\ pc'[w] = "deadline" /\ Found(w) # {} => event'[w] \/ late'[w]
           /\ pc'[w] = "isset" => late'[w]
  PROVE  Inv'
  <1>1. \A v \in Waiters : Found(v)' = Found(v) /\ (Unfiltered(v)' <=> Unfiltered(v))
    BY DEF Found, Matches, Unfiltered
  <1>2. Registration'
    BY DEF Inv, Registration
  <1>3. Deadlines'
    BY DEF Inv, Deadlines
  <1>4. Wakeups'
    BY <1>1 DEF Inv, Wakeups
  <1> QED BY <1>2, <1>3, <1>4 DEF Inv

LEMMA WaitForKeeps ==
  ASSUME Inv, ConstantsAssumption, NEW w \in Waiters, WaitFor(w)
  PROVE  Inv'
  <1> USE DEF Inv
  <1>1. want[w].type \in Types /\ pc \in [Waiters -> Steps]
    BY DEF TypeOK, ConstantsAssumption, Wants
  <1>2. CASE Register(w)
    <2>1. TypeOK'
      BY <1>1, <1>2 DEF Register, Goto, TypeOK, Steps
    <2>2. /\ pc'[w] = "first"
          /\ \A y \in Types : w \in waiters'[y] <=> y = want[w].type
      BY <1>1, <1>2 DEF Register, Goto, TypeOK, Registration
    <2>3. \A v \in Waiters \ {w} :
            pc'[v] = pc[v] /\ \A y \in Types : v \in waiters'[y] <=> v \in waiters[y]
      BY <1>1, <1>2 DEF Register, Goto, TypeOK
    <2>4. UNCHANGED <<records, want, event, late, result, clears>>
      BY <1>2 DEF Register
    <2>5. Unfiltered(w) /\ clears = 0 => (event[w] => Found(w) # {})
      BY DEF Wakeups
    <2> QED BY <2>1, <2>2, <2>3, <2>4, <2>5, OthersKeep
  <1>3. ASSUME NEW step \in {"deadline", "isset"}, Look(w, step),
               step = "isset" => pc[w] = "again", pc[w] \in {"first", "again"}
        PROVE  Inv'
    <2>1. /\ Find(w) \in Records \cup {None}
          /\ Find(w) = None <=> Found(w) = {}
      BY FindFinds
    <2>2. TypeOK'
      BY <1>1, <1>3, <2>1 DEF Look, Goto, TypeOK, Steps
    <2>3. /\ pc'[w] = IF Find(w) # None THEN "finally" ELSE step
          /\ result'[w] = Find(w)
          /\ \A v \in Waiters \ {w} : pc'[v] = pc[v] /\ result'[v] = result[v]
      BY <1>1, <1>3 DEF Look, Goto, TypeOK
    <2>4. UNCHANGED <<records, waiters, want, event, late, clears>>
      BY <1>3 DEF Look
    <2>5. \A y \in Types : w \in waiters[y] <=> y = want[w].type
      BY <1>3 DEF Registration
    <2>6. pc'[w] = "isset" => event[w] \/ late[w]
      BY <1>3, <2>3 DEF Deadlines
    <2>7. Unfiltered(w) /\ clears = 0 => (event[w] => Found(w) # {})
      BY DEF Wakeups
    <2>8. CASE Found(w) = {}
      BY <1>3, <2>1, <2>2, <2>3, <2>4, <2>5, <2>6, <2>7, <2>8, OthersKeep
    <2>9. CASE Found(w) # {}
      BY <1>3, <2>1, <2>2, <2>3, <2>4, <2>5, <2>6, <2>7, <2>9, OthersKeep
    <2> QED BY <2>8, <2>9
  <1>4. CASE FindExisting(w)
    BY <1>3, <1>4 DEF FindExisting
  <1>5. CASE FindAgain(w)
    BY <1>3, <1>5 DEF FindAgain
  <1>6. CASE CheckDeadline(w) \/ Wake(w)
    <2>1. /\ UNCHANGED <<records, waiters, want, event, late, result, clears>>
          /\ \A v \in Waiters \ {w} : pc'[v] = pc[v]
          /\ pc[w] \notin {"idle", "returned"}
          /\ pc'[w] \in {"finally", "blocked", "again"}
          /\ pc'[w] = "finally" => late[w]
          /\ pc'[w] = "blocked" => pc[w] = "deadline" /\ ~late[w]
          /\ pc'[w] = "again" => event[w] \/ late[w]
          /\ pc' \in [Waiters -> Steps]
      BY <1>1, <1>6 DEF CheckDeadline, Wake, Goto, Steps
    <2>2. TypeOK'
      BY <2>1 DEF TypeOK
    <2>3. \A y \in Types : w \in waiters[y] <=> y = want[w].type
      BY <2>1 DEF Registration
    <2>4. Unfiltered(w) /\ clears = 0 =>
            /\ event[w] => Found(w) # {}
            /\ pc[w] = "deadline" /\ Found(w) # {} => event[w] \/ late[w]
      BY DEF Wakeups
    <2> QED BY <2>1, <2>2, <2>3, <2>4, OthersKeep
  <1>7. CASE CheckEvent(w)
    <2>1. /\ UNCHANGED <<records, waiters, want, late, result, clears>>
          /\ \A v \in Waiters \ {w} : pc'[v] = pc[v] /\ (event'[v] <=> event[v])
          /\ pc[w] = "isset" /\ ~event'[w]
          /\ pc'[w] = IF event[w] THEN "deadline" ELSE "finally"
      BY <1>1, <1>7 DEF CheckEvent, Goto, TypeOK
    <2>2. TypeOK'
      BY <1>1, <1>7 DEF CheckEvent, Goto, TypeOK, Steps
    <2>3. \A y \in Types : w \in waiters[y] <=> y = want[w].type
      BY <2>1 DEF Registration
    <2>4. ~event[w] => late[w]
      BY <2>1 DEF Deadlines
    <2>5. Unfiltered(w) /\ clears = 0 => late[w]
      BY <2>1 DEF Wakeups
    <2>6. pc'[w] \in {"deadline", "finally"} /\ (pc'[w] = "finally" => ~event[w])
      BY <2>1
    <2> QED BY <2>1, <2>2, <2>3, <2>4, <2>5, <2>6, OthersKeep
  <1>8. CASE Deregister(w)
    <2>1. TypeOK'
      BY <1>1, <1>8 DEF Deregister, Goto, TypeOK, Steps
    <2>2. /\ pc[w] = "finally" /\ pc'[w] = "returned"
          /\ \A y \in Types : ~(w \in waiters'[y])
      BY <1>1, <1>8 DEF Deregister, Goto, TypeOK, Registration
    <2>3. \A v \in Waiters \ {w} :
            pc'[v] = pc[v] /\ \A y \in Types : v \in waiters'[y] <=> v \in waiters[y]
      BY <1>1, <1>8 DEF Deregister, Goto, TypeOK
    <2>4. UNCHANGED <<records, want, event, late, result, clears>>
      BY <1>8 DEF Deregister
    <2>5. /\ Unfiltered(w) /\ clears = 0 => (event[w] => Found(w) # {})
          /\ result[w] = None => late[w]
      BY <2>2 DEF Wakeups, Deadlines
    <2> QED BY <2>1, <2>2, <2>3, <2>4, <2>5, OthersKeep
  <1> QED BY <1>2, <1>4, <1>5, <1>6, <1>7, <1>8 DEF WaitFor

LEMMA ExpireKeeps ==
  ASSUME Inv, NEW w \in Waiters, Expire(w)
  PROVE  Inv'
  <1> USE DEF Inv
  <1>1. /\ UNCHANGED <<records, waiters, pc, want, event, result, clears>>
        /\ late'[w] /\ \A v \in Waiters \ {w} : late'[v] <=> late[v]
    BY DEF Expire, TypeOK
  <1>2. TypeOK'
    BY DEF Expire, TypeOK
  <1>3. \A y \in Types :
          w \in waiters[y] <=> y = want[w].type /\ pc[w] \notin {"idle", "returned"}
    BY DEF Registration
  <1>4. Unfiltered(w) /\ clears = 0 =>
          /\ event[w] => Found(w) # {}
          /\ pc[w] = "blocked" /\ Found(w) # {} => event[w]
    BY DEF Wakeups
  <1> QED BY <1>1, <1>2, <1>3, <1>4, OthersKeep

LEMMA InvNext ==
  ASSUME Inv, ConstantsAssumption, [Next]_vars
  PROVE  Inv'
  <1>1. CASE UNCHANGED vars
    BY <1>1 DEF vars, Inv, TypeOK, Registration, Deadlines, Wakeups, Found, Matches, Unfiltered
  <1>2. CASE Next
    BY <1>2, RecordKeeps, ClearKeeps, WaitForKeeps, ExpireKeeps DEF Next
  <1> QED BY <1>1, <1>2

\* The conjunction is inductive, so that what it implies holds throughout.
THEOREM Invariant == Spec => []Inv
  BY InvInit, InvNext, ConstantsAssumption, PTL DEF Spec

\* Type correctness: whatever a wait returns is None or a record that was in
\* the list (wait_for and _find).
THEOREM TypeCorrect == Spec => []TypeOK
  <1>1. Inv => TypeOK
    BY DEF Inv
  <1> QED BY <1>1, Invariant, PTL

\* A call for any direction never sleeps on a message that is in the list,
\* until a clear, for any number of calls, types and directions (wait_for).
THEOREM WakeupsReachUnfiltered == Spec => []NoLostWakeupUnfiltered
  <1>1. Inv => NoLostWakeupUnfiltered
    BY FindFinds DEF Inv, Wakeups, NoLostWakeupUnfiltered, Asleep
  <1> QED BY <1>1, Invariant, PTL

\* wait_for returns nothing only after its deadline.
THEOREM NoneIsLate == Spec => []NoneOnlyAfterDeadline
  <1>1. Inv => NoneOnlyAfterDeadline
    BY DEF Inv, Deadlines, NoneOnlyAfterDeadline
  <1> QED BY <1>1, Invariant, PTL

\* The events of the recorder are those of the calls in progress (the finally
\* block of wait_for).
THEOREM WaitersAreDeregistered == Spec => []NoLeakedWaiter
  <1>1. ASSUME Inv, ConstantsAssumption PROVE NoLeakedWaiter
    <2>1. \A w \in Waiters : want[w].type \in Types
      BY <1>1 DEF Inv, TypeOK, ConstantsAssumption, Wants
    <2> QED BY <1>1, <2>1 DEF Inv, Registration, NoLeakedWaiter
  <1> QED BY <1>1, ConstantsAssumption, Invariant, PTL

=============================================================================
