--------------------------- MODULE MessageRecorder ---------------------------
(***************************************************************************)
(* MessageRecorder (recorder.py): the threads of a node record messages,   *)
(* test threads block in wait_for on a private threading.Event, and clear  *)
(* empties the list between the phases of a test.                          *)
(*                                                                         *)
(* What holds the recorder's lock is one step; wait_for takes and releases *)
(* it several times, so its steps interleave with record and clear.        *)
(***************************************************************************)
EXTENDS Integers, Sequences, FiniteSets, SequencesExt

CONSTANTS
  Waiters,       \* calls of wait_for, each from a thread of its own
  Types,         \* message types
  Directions,    \* "in", "out", "bus_inject"
  Asked,         \* the arguments wait_for is called with, members of Wants
  MaxRecords,    \* bound: calls of record
  MaxClears      \* bound: calls of clear

\* A direction of None in the code asks for any direction.
Wants == [type : Types, directions : {{d} : d \in Directions} \cup {Directions}]

ASSUME ConstantsAssumption ==
  /\ Asked \subseteq Wants
  /\ MaxRecords \in Nat
  /\ MaxClears \in Nat

VARIABLES
  records,    \* the list of records
  waiters,    \* waiters[y]: the events registered for type y, one per call
  pc,         \* pc[w]: where the call w is in wait_for
  want,       \* want[w]: the msg_type and the directions w asks for
  event,      \* event[w]: w's private Event is set
  late,       \* late[w]: the deadline of w has passed
  result,     \* result[w]: the record returned, or None
  clears      \* calls of clear so far

vars == <<records, waiters, pc, want, event, late, result, clears>>

Records == [type : Types, direction : Directions, no : 1..MaxRecords]

\* What wait_for returns on a timeout.
None == [type |-> "none"]

Matches(r, w) == r.type = want[w].type /\ r.direction \in want[w].directions

\* _find: the last match, if any.
Found(w) == {i \in DOMAIN records : Matches(records[i], w)}
Find(w)  == IF Found(w) = {} THEN None ELSE records[Max(Found(w))]

Steps == {"idle", "first", "deadline", "blocked", "again", "isset", "finally", "returned"}

TypeOK ==
  /\ records \in Seq(Records)
  /\ waiters \in [Types -> SUBSET Waiters]
  /\ pc \in [Waiters -> Steps]
  /\ want \in [Waiters -> Asked]
  /\ event \in [Waiters -> BOOLEAN]
  /\ late \in [Waiters -> BOOLEAN]
  /\ result \in [Waiters -> Records \cup {None}]
  /\ clears \in 0..MaxClears

Init ==
  /\ records = <<>>
  /\ waiters = [y \in Types |-> {}]
  /\ pc = [w \in Waiters |-> "idle"]
  /\ want \in [Waiters -> Asked]
  /\ event = [w \in Waiters |-> FALSE]
  /\ late = [w \in Waiters |-> FALSE]
  /\ result = [w \in Waiters |-> None]
  /\ clears = 0

-----------------------------------------------------------------------------
Recorded == Len(records)

\* Faulty variant: only the first registered event is set.
RecordWakesOne(y, d) ==
  /\ Recorded < MaxRecords
  /\ records' = Append(records, [type |-> y, direction |-> d, no |-> Recorded + 1])
  /\ \E one \in SUBSET waiters[y] :
       /\ Cardinality(one) = IF waiters[y] = {} THEN 0 ELSE 1
       /\ event' = [w \in Waiters |-> event[w] \/ w \in one]
  /\ UNCHANGED <<waiters, pc, want, late, result, clears>>

Record(y, d) ==
  /\ Recorded < MaxRecords
  /\ records' = Append(records, [type |-> y, direction |-> d, no |-> Recorded + 1])
  /\ event' = [w \in Waiters |-> event[w] \/ w \in waiters[y]]
  /\ UNCHANGED <<waiters, pc, want, late, result, clears>>

\* clear: the records go, the waiters stay.
Clear ==
  /\ clears < MaxClears
  /\ records # <<>>
  /\ records' = <<>>
  /\ clears' = clears + 1
  /\ UNCHANGED <<waiters, pc, want, event, late, result>>

Goto(w, step) == pc' = [pc EXCEPT ![w] = step]

Register(w) ==
  /\ pc[w] = "idle"
  /\ waiters' = [waiters EXCEPT ![want[w].type] = @ \cup {w}]
  /\ Goto(w, "first")
  /\ UNCHANGED <<records, want, event, late, result, clears>>

\* Faulty variant: the type is returned, not the record.
LookReturnsType(w, step) ==
  /\ result' = [result EXCEPT ![w] =
                  IF Find(w) = None THEN None ELSE [type |-> want[w].type]]
  /\ Goto(w, IF Find(w) # None THEN "finally" ELSE step)
  /\ UNCHANGED <<records, waiters, want, event, late, clears>>

\* One _find: a match leaves through finally, no match goes on at step.
Look(w, step) ==
  /\ result' = [result EXCEPT ![w] = Find(w)]
  /\ Goto(w, IF Find(w) # None THEN "finally" ELSE step)
  /\ UNCHANGED <<records, waiters, want, event, late, clears>>

FindExisting(w) == pc[w] = "first" /\ Look(w, "deadline")

FindAgain(w) == pc[w] = "again" /\ Look(w, "isset")

CheckDeadline(w) ==
  /\ pc[w] = "deadline"
  /\ Goto(w, IF late[w] THEN "finally" ELSE "blocked")
  /\ UNCHANGED <<records, waiters, want, event, late, result, clears>>

\* The deadline runs from the end of the first lookup.
Expire(w) ==
  /\ pc[w] \in {"deadline", "blocked", "again", "isset"}
  /\ ~late[w]
  /\ late' = [late EXCEPT ![w] = TRUE]
  /\ UNCHANGED <<records, waiters, pc, want, event, result, clears>>

\* Faulty variant: a wait that timed out returns None without a last lookup.
WakeTimesOut(w) ==
  /\ pc[w] = "blocked"
  /\ event[w] \/ late[w]
  /\ Goto(w, IF event[w] THEN "again" ELSE "finally")
  /\ UNCHANGED <<records, waiters, want, event, late, result, clears>>

\* ev.wait(timeout=remaining) returns: the event is set, or time is up.
Wake(w) ==
  /\ pc[w] = "blocked"
  /\ event[w] \/ late[w]
  /\ Goto(w, "again")
  /\ UNCHANGED <<records, waiters, want, event, late, result, clears>>

\* Faulty variant: a wake-up for another direction ends the wait.
CheckEventGivesUp(w) ==
  /\ pc[w] = "isset"
  /\ Goto(w, "finally")
  /\ UNCHANGED <<records, waiters, want, event, late, result, clears>>

\* Faulty variant: the event is never cleared.
CheckEventKeeps(w) ==
  /\ pc[w] = "isset"
  /\ Goto(w, IF event[w] THEN "blocked" ELSE "finally")
  /\ UNCHANGED <<records, waiters, want, event, late, result, clears>>

\* Not set: the wait timed out.  Set: clear it and wait again.  A record
\* between the test and the clear is absorbed like one before the test.
CheckEvent(w) ==
  /\ pc[w] = "isset"
  /\ event' = [event EXCEPT ![w] = FALSE]
  /\ Goto(w, IF event[w] THEN "deadline" ELSE "finally")
  /\ UNCHANGED <<records, waiters, want, late, result, clears>>

\* Faulty variant: no finally, the event stays registered.
DeregisterSkipped(w) ==
  /\ pc[w] = "finally"
  /\ Goto(w, "returned")
  /\ UNCHANGED <<records, waiters, want, event, late, result, clears>>

Deregister(w) ==
  /\ pc[w] = "finally"
  /\ waiters' = [waiters EXCEPT ![want[w].type] = @ \ {w}]
  /\ Goto(w, "returned")
  /\ UNCHANGED <<records, want, event, late, result, clears>>

WaitFor(w) ==
  \/ Register(w) \/ FindExisting(w) \/ CheckDeadline(w) \/ Wake(w)
  \/ FindAgain(w) \/ CheckEvent(w) \/ Deregister(w)

Next ==
  \/ \E y \in Types, d \in Directions : Record(y, d)
  \/ Clear
  \/ \E w \in Waiters : WaitFor(w) \/ Expire(w)

Spec == Init /\ [][Next]_vars

\* Threads run and time passes; nothing obliges a node to record anything.
Fairness == \A w \in Waiters : WF_vars(WaitFor(w)) /\ WF_vars(Expire(w))

FairSpec == Spec /\ Fairness

-----------------------------------------------------------------------------
Asleep(w)     == pc[w] = "blocked" /\ ~event[w]
Unfiltered(w) == want[w].directions = Directions

\* wait_for never sleeps on a message that is already there: registering the
\* event before the first lookup is there so that no message is lost and "the
\* call would then burn the whole timeout".
NoLostWakeup == \A w \in Waiters : Asleep(w) => Find(w) = None

\* ... which holds of the calls that take any direction, until a clear.
NoLostWakeupUnfiltered ==
  \A w \in Waiters : Asleep(w) /\ Unfiltered(w) /\ clears = 0 => Find(w) = None

\* wait_for gives up on a timeout only, however often records of another
\* direction wake it up.
NoneOnlyAfterDeadline ==
  \A w \in Waiters : pc[w] = "returned" /\ result[w] = None => late[w]

\* An event that can still be set belongs to a call in progress: later waits
\* on the same recorder are not slowed down by the calls before them.
NoLeakedWaiter ==
  \A w \in Waiters :
    (\E y \in Types : w \in waiters[y]) <=> pc[w] \notin {"idle", "returned"}

\* A message that is in the records when a lookup is still to come - before the
\* first one, in ev.wait, or awake from it - and that stays there is returned,
\* even by a wait whose time is up.  Not so a message that lands between a
\* failed lookup and the test of the deadline after it ("isset", "deadline"):
\* its event is cleared, and if time is up the call returns None without
\* looking again (recorder.py:79-84, then 76-77).
RecordedIsReturned ==
  \A w \in Waiters :
    [](clears = 0 /\ pc[w] \in {"first", "blocked", "again"} /\ Find(w) # None
         => <>(pc[w] = "returned" /\ (result[w] # None \/ clears > 0)))

\* Every wait_for returns, with or without a message.
WaitReturns == \A w \in Waiters : pc[w] = "first" ~> pc[w] = "returned"

=============================================================================
