------------------------- MODULE DeliveryPumpProofs -------------------------
(***************************************************************************)
(* Theorems about DeliveryPump, for every set of threads and connections.  *)
(***************************************************************************)
EXTENDS DeliveryPump, SequenceTheorems, FiniteSetTheorems, FunctionTheorems, TLAPS

-----------------------------------------------------------------------------
(***************************************************************************)
(* The stack as a sequence: what a push and a pop leave.                   *)
(***************************************************************************)
LEMMA FrontOfSeq ==
  ASSUME NEW S, NEW s \in Seq(S), s # <<>>
  PROVE  /\ Front(s) \in Seq(S)
         /\ Last(s) \in S
         /\ Last(s) = s[Len(s)]
         /\ Len(s) \in Nat \ {0}
         /\ Len(Front(s)) = Len(s) - 1
         /\ \A i \in 1..Len(s)-1 : Front(s)[i] = s[i]
  <1> DEFINE n == Len(s) - 1
  <1>1. /\ Len(s) \in Nat \ {0}
        /\ n \in 0..Len(s)
    OBVIOUS
  <1>2. Last(s) = s[Len(s)] /\ Last(s) \in S
    BY <1>1 DEF Last
  <1>3. Front(s) = SubSeq(s, 1, n)
    BY Zenon DEF Front
  <1> HIDE DEF n
  <1>4. SubSeq(s, 1, n) = Restrict(s, 1..n)
    BY ONLY SubSeqRestrict, s \in Seq(S), <1>1, Zenon
  <1>5. Front(s) = [i \in 1..n |-> s[i]]
    BY <1>3, <1>4, Zenon DEF Restrict
  <1>6. QED
    BY <1>1, <1>2, <1>5 DEF n

LEMMA TopOfAppend ==
  ASSUME NEW S, NEW s \in Seq(S), NEW e \in S
  PROVE  /\ Append(s, e) \in Seq(S)
         /\ Append(s, e) # <<>>
         /\ Len(Append(s, e)) = Len(s) + 1
         /\ Last(Append(s, e)) = e
         /\ Append(s, e)[Len(s) + 1] = e
         /\ \A i \in 1..Len(s) : Append(s, e)[i] = s[i]
  <1>1. /\ Append(s, e) \in Seq(S)
        /\ Len(Append(s, e)) = Len(s) + 1
        /\ Append(s, e)[Len(s) + 1] = e
        /\ \A i \in 1..Len(s) : Append(s, e)[i] = s[i]
    OBVIOUS
  <1>2. Last(Append(s, e)) = e
    BY <1>1 DEF Last
  <1>3. QED
    BY <1>1, <1>2

-----------------------------------------------------------------------------
(***************************************************************************)
(* Type correctness.                                                       *)
(***************************************************************************)
LEMMA CallType ==
  ASSUME NEW at \in {"drain", "pumped", "sends", "handler", "lock", "wire"},
         NEW conns \in SUBSET Conns, NEW k \in Nat
  PROVE  Call(at, conns, k) \in Calls
  BY DEF Call, Calls

LEMMA DeliverType ==
  ASSUME TypeOK, NEW t \in Threads, NEW job \in Jobs, NEW s \in Seq(Calls),
         Deliver(t, job, s)
  PROVE  /\ queue' \in [Threads -> Seq(Jobs)]
         /\ draining' \in [Threads -> BOOLEAN]
         /\ stack' \in [Threads -> Seq(Calls)]
  <1>1. Append(s, Call("drain", {}, 0)) \in Seq(Calls)
    BY CallType, TopOfAppend
  <1>2. QED
    BY <1>1 DEF Deliver, TypeOK

LEMMA PumpedSendType ==
  ASSUME TypeOK, NEW t \in Threads, NEW c \in Conns, NEW s \in Seq(Calls),
         PumpedSend(t, c, s)
  PROVE  /\ queue' \in [Threads -> Seq(Jobs)]
         /\ draining' \in [Threads -> BOOLEAN]
         /\ stack' \in [Threads -> Seq(Calls)]
  <1> DEFINE base == IF draining[t] THEN s ELSE Append(s, Call("pumped", {}, 0))
  <1>1. base \in Seq(Calls)
    BY CallType, TopOfAppend
  <1>2. Append(base, Call("lock", {c}, 0)) \in Seq(Calls)
    BY <1>1, CallType, TopOfAppend
  <1>3. QED
    BY <1>2 DEF PumpedSend, TypeOK

LEMMA TopType ==
  ASSUME TypeOK, NEW t \in Threads, ~Idle(t)
  PROVE  /\ stack[t] \in Seq(Calls) /\ stack[t] # <<>>
         /\ Top(t) \in Calls
         /\ Top(t).conns \in SUBSET Conns
         /\ Top(t).chunks \in Nat
         /\ Below(t) \in Seq(Calls)
  <1>1. stack[t] \in Seq(Calls) /\ stack[t] # <<>>
    BY DEF TypeOK, Idle
  <1>2. Top(t) \in Calls /\ Below(t) \in Seq(Calls)
    BY <1>1, FrontOfSeq DEF Top, Below
  <1>3. QED
    BY <1>1, <1>2 DEF Calls

LEMMA HeadType ==
  ASSUME TypeOK, NEW t \in Threads, queue[t] # <<>>
  PROVE  /\ queue[t] \in Seq(Jobs)
         /\ Head(queue[t]) \in Jobs
         /\ Head(queue[t]).conns \in SUBSET Conns
         /\ Tail(queue[t]) \in Seq(Jobs)
  <1>1. queue[t] \in Seq(Jobs) /\ Head(queue[t]) \in Jobs /\ Tail(queue[t]) \in Seq(Jobs)
    BY DEF TypeOK
  <1>2. QED
    BY <1>1 DEF Jobs

LEMMA JobType ==
  ASSUME NEW t \in Threads
  PROVE  /\ EntryJobs(t) \subseteq Jobs
         /\ \A c \in Conns, n \in Nat : FrameJob(c, n) \in Jobs
         /\ Drives[t] \subseteq Conns
  BY ConstantsAssumption DEF EntryJobs, SendsJob, HandlerJob, FrameJob, Jobs

LEMMA TypeStep == TypeOK /\ [Next]_vars => TypeOK'
  <1> SUFFICES ASSUME TypeOK, [Next]_vars
               PROVE  TypeOK'
    OBVIOUS
  <1>1. CASE UNCHANGED vars
    BY <1>1 DEF vars, TypeOK
  <1>2. ASSUME NEW t \in Threads, CallIn(t)
        PROVE  TypeOK'
    <2>1. stack[t] \in Seq(Calls)
      BY DEF TypeOK
    <2>2. /\ queue' \in [Threads -> Seq(Jobs)]
          /\ draining' \in [Threads -> BOOLEAN]
          /\ stack' \in [Threads -> Seq(Calls)]
      <3>1. CASE \E job \in EntryJobs(t) : Deliver(t, job, stack[t])
        BY <2>1, <3>1, JobType, DeliverType
      <3>2. CASE \E c \in Drives[t] : PumpedSend(t, c, stack[t])
        BY <2>1, <3>2, JobType, PumpedSendType
      <3>3. QED
        BY <1>2, <3>1, <3>2 DEF CallIn
    <2>3. calls' \in Nat /\ UNCHANGED <<sendLock, sent, received, refused>>
      BY <1>2 DEF CallIn, TypeOK
    <2>4. QED
      BY <2>2, <2>3 DEF TypeOK
  <1>3. ASSUME NEW t \in Threads, AcquireSendLock(t)
        PROVE  TypeOK'
    <2>1. PICK c \in Top(t).conns, k \in 1..MaxChunks :
            /\ sendLock' = [sendLock EXCEPT ![c] = t]
            /\ stack' = [stack EXCEPT ![t] = Append(Below(t), Call("wire", {c}, k))]
      BY <1>3 DEF AcquireSendLock
    <2>2. c \in Conns /\ k \in Nat /\ Below(t) \in Seq(Calls)
      BY <1>3, TopType, ConstantsAssumption DEF AcquireSendLock, At
    <2>3. Append(Below(t), Call("wire", {c}, k)) \in Seq(Calls)
      BY <2>2, CallType, TopOfAppend
    <2>4. stack' \in [Threads -> Seq(Calls)]
      BY <2>1, <2>3 DEF TypeOK
    <2>5. sendLock' \in [Conns -> Threads \cup {NoThread}]
      BY <2>1 DEF TypeOK
    <2>6. UNCHANGED <<queue, draining, sent, received, refused, calls>>
      BY <1>3 DEF AcquireSendLock
    <2>7. QED
      BY <2>4, <2>5, <2>6 DEF TypeOK
  <1>4. ASSUME NEW t \in Threads, ReceiveRaw(t)
        PROVE  TypeOK'
    <2> DEFINE rest(c) == Append(Below(t), Call("wire", {c}, Top(t).chunks - 1))
    <2>1. PICK c \in Top(t).conns :
            /\ sent' = [sent EXCEPT ![c] = @ + 1]
            /\ Deliver(t, FrameJob(c, sent[c] + 1), rest(c))
      BY <1>4 DEF ReceiveRaw
    <2>2. c \in Conns /\ Top(t).chunks - 1 \in Nat /\ Below(t) \in Seq(Calls)
      BY <1>4, TopType DEF ReceiveRaw, At
    <2>3. rest(c) \in Seq(Calls) /\ FrameJob(c, sent[c] + 1) \in Jobs
      BY <2>2, CallType, TopOfAppend, JobType DEF TypeOK
    <2> HIDE DEF rest
    <2>4. /\ queue' \in [Threads -> Seq(Jobs)]
          /\ draining' \in [Threads -> BOOLEAN]
          /\ stack' \in [Threads -> Seq(Calls)]
      BY <2>1, <2>3, DeliverType
    <2>5. sent' \in [Conns -> Nat]
      BY <2>1, <2>2 DEF TypeOK
    <2>6. UNCHANGED <<sendLock, received, refused, calls>>
      BY <1>4 DEF ReceiveRaw
    <2>7. QED
      BY <2>4, <2>5, <2>6 DEF TypeOK
  <1>5. ASSUME NEW t \in Threads, SendReturns(t)
        PROVE  TypeOK'
    <2> DEFINE s == IF Last(Below(t)).at = "pumped"
                    THEN Append(Front(Below(t)), Call("drain", {}, 0))
                    ELSE Below(t)
    <2>1. s \in Seq(Calls)
      <3>1. Below(t) \in Seq(Calls)
        BY <1>5, TopType DEF SendReturns, At
      <3>2. CASE Below(t) # <<>>
        BY <3>1, <3>2, FrontOfSeq, CallType, TopOfAppend
      <3>3. CASE Below(t) = <<>>
        <4>1. Front(<<>>) = <<>>
          BY DEF Front
        <4>2. QED
          BY <3>1, <3>3, <4>1, CallType, TopOfAppend
      <3>4. QED
        BY <3>2, <3>3
    <2>2. stack' = [stack EXCEPT ![t] = s]
      BY <1>5 DEF SendReturns
    <2> HIDE DEF s
    <2>3. QED
      BY <1>5, <2>1, <2>2 DEF SendReturns, TypeOK
  <1>6. ASSUME NEW t \in Threads, RunAction(t)
        PROVE  TypeOK'
    <2> DEFINE job == Head(queue[t])
    <2>1. queue[t] # <<>> /\ ~Idle(t) /\ job.kind \in {"sends", "handler"}
      BY <1>6 DEF RunAction, RunJob, At
    <2>2. Append(stack[t], Call(job.kind, job.conns, 0)) \in Seq(Calls)
      BY <2>1, HeadType, TopType, CallType, TopOfAppend
    <2>3. queue' = [queue EXCEPT ![t] = Tail(@)]
      BY <1>6 DEF RunAction, RunJob
    <2>4. Tail(queue[t]) \in Seq(Jobs)
      BY <2>1, HeadType
    <2>5. stack' \in [Threads -> Seq(Calls)]
      <3>1. stack' = [stack EXCEPT ![t] = Append(@, Call(job.kind, job.conns, 0))]
        BY <1>6 DEF RunAction
      <3>2. QED
        BY <2>2, <3>1 DEF TypeOK
    <2>6. queue' \in [Threads -> Seq(Jobs)]
      BY <2>3, <2>4 DEF TypeOK
    <2>7. UNCHANGED <<draining, sendLock, sent, received, refused, calls>>
      BY <1>6 DEF RunAction
    <2>8. QED
      BY <2>5, <2>6, <2>7 DEF TypeOK
  <1>7. ASSUME NEW t \in Threads, DecodeAndDispatch(t)
        PROVE  TypeOK'
    <2> DEFINE job == Head(queue[t])
    <2>1. queue[t] # <<>> /\ ~Idle(t) /\ queue' = [queue EXCEPT ![t] = Tail(@)]
      BY <1>7 DEF DecodeAndDispatch, RunJob, At
    <2>2. Append(stack[t], Call("handler", {}, 0)) \in Seq(Calls)
      BY <2>1, TopType, CallType, TopOfAppend
    <2>3. job.conns \in SUBSET Conns /\ Tail(queue[t]) \in Seq(Jobs)
      BY <2>1, HeadType
    <2>4. PICK c \in job.conns :
            \/ /\ received' = [received EXCEPT ![c] = @ + 1]
               /\ stack' = [stack EXCEPT ![t] = Append(@, Call("handler", {}, 0))]
               /\ UNCHANGED refused
            \/ /\ refused' = refused \cup {c}
               /\ UNCHANGED <<received, stack>>
      BY <1>7 DEF DecodeAndDispatch
    <2>5. received' \in [Conns -> Nat] /\ refused' \in SUBSET Conns
      <3>1. c \in Conns
        BY <2>3
      <3>2. received' = received \/ received' = [received EXCEPT ![c] = @ + 1]
        BY <2>4
      <3>3. refused' = refused \/ refused' = refused \cup {c}
        BY <2>4
      <3>4. received \in [Conns -> Nat] /\ refused \in SUBSET Conns
        BY DEF TypeOK
      <3>5. received' \in [Conns -> Nat]
        BY <3>1, <3>2, <3>4
      <3>6. refused' \in SUBSET Conns
        BY <3>1, <3>3, <3>4
      <3>7. QED
        BY <3>5, <3>6
    <2>6. stack' \in [Threads -> Seq(Calls)]
      BY <2>2, <2>4 DEF TypeOK
    <2>7. UNCHANGED <<draining, sendLock, sent, calls>>
      BY <1>7 DEF DecodeAndDispatch
    <2>8. QED
      BY <2>1, <2>3, <2>5, <2>6, <2>7 DEF TypeOK
  <1>8. ASSUME NEW t \in Threads, SendNext(t)
        PROVE  TypeOK'
    <2> DEFINE rest(c) == Append(Below(t), Call("sends", Top(t).conns \ {c}, 0))
    <2>1. PICK c \in Top(t).conns : PumpedSend(t, c, rest(c))
      BY <1>8 DEF SendNext
    <2>2. c \in Conns /\ rest(c) \in Seq(Calls)
      BY <1>8, TopType, CallType, TopOfAppend DEF SendNext, At
    <2> HIDE DEF rest
    <2>3. /\ queue' \in [Threads -> Seq(Jobs)]
          /\ draining' \in [Threads -> BOOLEAN]
          /\ stack' \in [Threads -> Seq(Calls)]
      BY <2>1, <2>2, PumpedSendType
    <2>4. QED
      BY <1>8, <2>3 DEF SendNext, TypeOK
  <1>9. ASSUME NEW t \in Threads, ActionReturns(t) \/ DrainReturns(t)
        PROVE  TypeOK'
    <2>1. Below(t) \in Seq(Calls)
      BY <1>9, TopType DEF ActionReturns, DrainReturns, At
    <2>2. QED
      BY <1>9, <2>1 DEF ActionReturns, DrainReturns, TypeOK
  <1>10. ASSUME NEW t \in Threads, Raise(t)
         PROVE  TypeOK'
    BY <1>10 DEF Raise, TypeOK
  <1>11. QED
    BY <1>1, <1>2, <1>3, <1>4, <1>5, <1>6, <1>7, <1>8, <1>9, <1>10
       DEF Next, Continue

\* Type correctness: whatever the threads do, the variables keep their types.
THEOREM TypeCorrect == Spec => []TypeOK
  <1>1. Init => TypeOK
    BY DEF Init, TypeOK
  <1>2. QED
    BY <1>1, TypeStep, PTL DEF Spec

-----------------------------------------------------------------------------
(***************************************************************************)
(* No re-entrancy.  The inductive invariant lists the call stacks a thread *)
(* can have, s, with its draining flag, d: idle, draining, draining an     *)
(* action, sending from that action, or sending from outside the pump.     *)
(***************************************************************************)
Action  == {"sends", "handler"}
Sending == {"lock", "wire"}

Shape(s, d) ==
  \/ s = <<>> /\ ~d
  \/ /\ d
     /\ \/ Len(s) = 1 /\ s[1].at = "drain"
        \/ Len(s) = 2 /\ s[1].at = "drain" /\ s[2].at \in Action
        \/ Len(s) = 2 /\ s[1].at = "pumped" /\ s[2].at \in Sending
        \/ Len(s) = 3 /\ s[1].at = "drain" /\ s[2].at \in Action /\ s[3].at \in Sending

\* A send is on one connection.
OneConn(s) ==
  s # <<>> /\ Last(s).at \in Sending => \E c \in Conns : Last(s).conns = {c}

\* s is inside send_message on c.
OnWire(s, c) == s # <<>> /\ Last(s).at = "wire" /\ c \in Last(s).conns

StackInv ==
  /\ TypeOK
  /\ \A t \in Threads : Shape(stack[t], draining[t]) /\ OneConn(stack[t])
  /\ \A t \in Threads, c \in Conns : sendLock[c] = t <=> OnWire(stack[t], c)

LEMMA StackInvSafe ==
  StackInv => NoSelfDeadlock /\ NoNestedDelivery /\ NoStuckPump /\ OneSendLockAtATime
  <1> SUFFICES ASSUME StackInv
               PROVE  NoSelfDeadlock /\ NoNestedDelivery /\ NoStuckPump /\ OneSendLockAtATime
    OBVIOUS
  <1>1. NoSelfDeadlock
    <2> SUFFICES ASSUME NEW t \in Threads, At(t, "lock"), NEW c \in Top(t).conns
                 PROVE  sendLock[c] # t
      BY DEF NoSelfDeadlock
    <2>1. c \in Conns
      BY TopType DEF StackInv, At
    <2>2. ~OnWire(stack[t], c)
      BY DEF OnWire, At, Top
    <2>3. QED
      BY <2>1, <2>2 DEF StackInv
  <1>2. NoNestedDelivery
    <2> SUFFICES ASSUME NEW t \in Threads
                 PROVE  /\ \A i, j \in DOMAIN stack[t] :
                             stack[t][i].at = "drain" /\ stack[t][j].at = "drain" => i = j
                        /\ At(t, "handler") => \A c \in Conns : sendLock[c] # t
      BY DEF NoNestedDelivery
    <2>1. stack[t] \in Seq(Calls) /\ Shape(stack[t], draining[t])
      BY DEF StackInv, TypeOK
    <2>2. \A i, j \in DOMAIN stack[t] :
            stack[t][i].at = "drain" /\ stack[t][j].at = "drain" => i = j
      BY <2>1 DEF Shape, Action, Sending
    <2>3. At(t, "handler") => \A c \in Conns : sendLock[c] # t
      BY DEF StackInv, OnWire, At, Top, Idle
    <2>4. QED
      BY <2>2, <2>3
  <1>3. NoStuckPump
    BY DEF StackInv, NoStuckPump, Shape, Idle
  <1>4. OneSendLockAtATime
    <2> SUFFICES ASSUME NEW t \in Threads, NEW c \in Conns, NEW d \in Conns,
                        sendLock[c] = t, sendLock[d] = t
                 PROVE  c = d
      BY DEF OneSendLockAtATime
    <2>1. OnWire(stack[t], c) /\ OnWire(stack[t], d) /\ OneConn(stack[t])
      BY DEF StackInv
    <2>2. QED
      BY <2>1 DEF OnWire, OneConn, Sending
  <1>5. QED
    BY <1>1, <1>2, <1>3, <1>4

\* A step of t leaves the other threads' stacks alone, so that the invariant
\* follows from what it does to t's own.
LEMMA StackInvOfThread ==
  ASSUME StackInv, TypeOK', NEW t \in Threads,
         \A u \in Threads \ {t} : stack'[u] = stack[u] /\ draining'[u] = draining[u],
         Shape(stack'[t], draining'[t]), OneConn(stack'[t]),
         \A c \in Conns : sendLock'[c] = t <=> OnWire(stack'[t], c),
         \A c \in Conns : \/ sendLock'[c] = sendLock[c]
                          \/ /\ sendLock[c] \in {t, NoThread}
                             /\ sendLock'[c] \in {t, NoThread}
  PROVE  StackInv'
  <1>1. \A u \in Threads : Shape(stack'[u], draining'[u]) /\ OneConn(stack'[u])
    BY DEF StackInv
  <1>2. \A u \in Threads, c \in Conns : sendLock'[c] = u <=> OnWire(stack'[u], c)
    <2> TAKE u \in Threads, c \in Conns
    <2>1. CASE u = t
      BY <2>1
    <2>2. CASE u # t
      <3>1. u # NoThread
        BY ConstantsAssumption
      <3>2. stack'[u] = stack[u] /\ (sendLock[c] = u <=> OnWire(stack[u], c))
        BY <2>2 DEF StackInv
      <3>3. sendLock'[c] = u <=> sendLock[c] = u
        BY <2>2, <3>1
      <3>4. QED
        BY <3>2, <3>3
    <2>3. QED
      BY <2>1, <2>2
  <1>3. (\A u \in Threads : Shape(stack[u], draining[u]) /\ OneConn(stack[u]))'
    BY <1>1 DEF Shape, OneConn
  <1>4. (\A u \in Threads, c \in Conns : sendLock[c] = u <=> OnWire(stack[u], c))'
    BY <1>2 DEF OnWire
  <1>5. QED
    BY <1>3, <1>4 DEF StackInv

LEMMA ShapeAt ==
  ASSUME StackInv, NEW t \in Threads, ~Idle(t)
  PROVE  /\ draining[t]
         /\ stack[t] \in Seq(Calls)
         /\ Top(t) = stack[t][Len(stack[t])]
         /\ Top(t).at = "drain" => Len(stack[t]) = 1 /\ stack[t][1].at = "drain"
         /\ Top(t).at \in Action =>
              Len(stack[t]) = 2 /\ stack[t][1].at = "drain" /\ stack[t][2].at \in Action
         /\ Top(t).at \in Sending =>
              \/ Len(stack[t]) = 2 /\ stack[t][1].at = "pumped"
              \/ Len(stack[t]) = 3 /\ stack[t][1].at = "drain" /\ stack[t][2].at \in Action
  <1>1. /\ stack[t] \in Seq(Calls)
        /\ stack[t] # <<>>
        /\ Shape(stack[t], draining[t])
    BY DEF StackInv, TypeOK, Idle
  <1>2. Top(t) = stack[t][Len(stack[t])]
    BY <1>1, FrontOfSeq DEF Top
  <1>3. QED
    BY <1>1, <1>2 DEF Shape, Action, Sending

\* A call by t that was not inside a send leaves no wire of t open.
LEMMA NotOnWire ==
  ASSUME StackInv, NEW t \in Threads, Idle(t) \/ Top(t).at \notin {"wire"}
  PROVE  \A c \in Conns : sendLock[c] # t
  BY DEF StackInv, OnWire, Idle, Top

LEMMA FirstCall ==
  ASSUME NEW e \in Calls
  PROVE  /\ Append(<<>>, e) \in Seq(Calls)
         /\ Len(Append(<<>>, e)) = 1
         /\ Append(<<>>, e)[1] = e
         /\ Last(Append(<<>>, e)) = e
  <1>1. PICK s : s = <<>>
    OBVIOUS
  <1>2. s \in Seq(Calls) /\ Len(s) = 0
    BY <1>1
  <1>3. /\ Append(s, e) \in Seq(Calls)
        /\ Len(Append(s, e)) = Len(s) + 1
        /\ Append(s, e)[Len(s) + 1] = e
        /\ Last(Append(s, e)) = e
    BY <1>2, SMTT(20) DEF Last
  <1>4. /\ Append(s, e) \in Seq(Calls)
        /\ Len(Append(s, e)) = 1
        /\ Append(s, e)[1] = e
        /\ Last(Append(s, e)) = e
    BY <1>2, <1>3
  <1>5. QED
    BY <1>1, <1>4, Zenon

LEMMA StackStepCallIn ==
  ASSUME StackInv, TypeOK', NEW t \in Threads, CallIn(t)
  PROVE  StackInv'
  <1>1. stack[t] \in Seq(Calls) /\ (Idle(t) \/ At(t, "handler"))
    BY DEF CallIn, StackInv, TypeOK
  <1>2. Idle(t) => stack[t] = <<>> /\ ~draining[t]
    BY DEF Idle, StackInv, Shape
  <1>3. ~Idle(t) => /\ draining[t]
                    /\ Len(stack[t]) = 2
                    /\ stack[t][1].at = "drain"
                    /\ stack[t][2].at \in Action
                    /\ Last(stack[t]).at = "handler"
    BY <1>1, ShapeAt DEF At, Action, Top
  <1>4. \A c \in Conns : sendLock[c] # t /\ sendLock'[c] = sendLock[c]
    BY <1>1, NotOnWire DEF At, CallIn
  <1>5. ASSUME NEW job \in EntryJobs(t), Deliver(t, job, stack[t])
        PROVE  StackInv'
    <2> DEFINE new == IF draining[t] THEN stack[t] ELSE Append(stack[t], Call("drain", {}, 0))
    <2>1. /\ stack'[t] = new
          /\ draining'[t] = TRUE
          /\ \A u \in Threads \ {t} : stack'[u] = stack[u] /\ draining'[u] = draining[u]
      BY <1>5 DEF Deliver, StackInv, TypeOK
    <2>2. CASE Idle(t)
      <3>1. new = Append(<<>>, Call("drain", {}, 0))
        BY <1>2, <2>2
      <3>2. Len(new) = 1 /\ new[1].at = "drain" /\ Last(new).at = "drain"
        <4>1. Call("drain", {}, 0) \in Calls /\ Call("drain", {}, 0).at = "drain"
          BY CallType DEF Call
        <4>2. QED
          BY <3>1, <4>1, FirstCall
      <3>3. Shape(new, TRUE) /\ OneConn(new) /\ \A c \in Conns : ~OnWire(new, c)
        BY <3>2 DEF Shape, OneConn, Sending, OnWire
      <3> HIDE DEF new
      <3>4. QED
        BY <1>4, <2>1, <3>3, StackInvOfThread
    <2>3. CASE ~Idle(t)
      <3>1. new = stack[t]
        BY <1>3, <2>3
      <3>2. Shape(new, TRUE) /\ OneConn(new) /\ \A c \in Conns : ~OnWire(new, c)
        BY <1>3, <2>3, <3>1 DEF Shape, OneConn, Sending, OnWire
      <3> HIDE DEF new
      <3>3. QED
        BY <1>4, <2>1, <3>2, StackInvOfThread
    <2>4. QED
      BY <2>2, <2>3
  <1>6. ASSUME NEW c \in Drives[t], PumpedSend(t, c, stack[t])
        PROVE  StackInv'
    <2> DEFINE base == IF draining[t] THEN stack[t] ELSE Append(stack[t], Call("pumped", {}, 0))
               new  == Append(base, Call("lock", {c}, 0))
    <2>0. c \in Conns
      BY JobType
    <2>1. /\ stack'[t] = new
          /\ draining'[t] = TRUE
          /\ \A u \in Threads \ {t} : stack'[u] = stack[u] /\ draining'[u] = draining[u]
      BY <1>6 DEF PumpedSend, StackInv, TypeOK
    <2>2. /\ base \in Seq(Calls)
          /\ \/ Len(base) = 1 /\ base[1].at = "pumped"
             \/ Len(base) = 2 /\ base[1].at = "drain" /\ base[2].at \in Action
      <3>1. CASE Idle(t)
        <4>1. base = Append(<<>>, Call("pumped", {}, 0))
          BY <1>2, <3>1
        <4>2. Call("pumped", {}, 0) \in Calls /\ Call("pumped", {}, 0).at = "pumped"
          BY CallType DEF Call
        <4>3. QED
          BY <4>1, <4>2, FirstCall
      <3>2. CASE ~Idle(t)
        BY <1>1, <1>3, <3>2
      <3>3. QED
        BY <3>1, <3>2
    <2> HIDE DEF base
    <2>3. /\ Len(new) = Len(base) + 1
          /\ Last(new) = Call("lock", {c}, 0)
          /\ new[Len(base) + 1] = Call("lock", {c}, 0)
          /\ \A i \in 1..Len(base) : new[i] = base[i]
      BY <2>0, <2>2, CallType, TopOfAppend
    <2> HIDE DEF new
    <2>4. Shape(new, TRUE)
      BY <2>2, <2>3 DEF Shape, Sending, Call
    <2>5. OneConn(new) /\ \A d \in Conns : ~OnWire(new, d)
      BY <2>0, <2>3 DEF OneConn, OnWire, Call
    <2>6. QED
      BY <1>4, <2>1, <2>4, <2>5, StackInvOfThread
  <1>7. QED
    BY <1>5, <1>6 DEF CallIn

LEMMA ReplaceTop ==
  ASSUME TypeOK, NEW t \in Threads, ~Idle(t), NEW e \in Calls
  PROVE  /\ Append(Below(t), e) \in Seq(Calls)
         /\ Append(Below(t), e) # <<>>
         /\ Len(Append(Below(t), e)) = Len(stack[t])
         /\ Last(Append(Below(t), e)) = e
         /\ Append(Below(t), e)[Len(stack[t])] = e
         /\ \A i \in 1..Len(stack[t])-1 : Append(Below(t), e)[i] = stack[t][i]
  <1>1. stack[t] \in Seq(Calls) /\ stack[t] # <<>>
    BY TopType
  <1>2. /\ Below(t) \in Seq(Calls)
        /\ Len(stack[t]) \in Nat \ {0}
        /\ Len(Below(t)) = Len(stack[t]) - 1
        /\ \A i \in 1..Len(stack[t])-1 : Below(t)[i] = stack[t][i]
    BY <1>1, FrontOfSeq DEF Below
  <1> DEFINE n == Append(Below(t), e)
  <1>3. /\ n \in Seq(Calls) /\ n # <<>>
        /\ Len(n) = Len(Below(t)) + 1
        /\ Last(n) = e
        /\ n[Len(Below(t)) + 1] = e
        /\ \A i \in 1..Len(Below(t)) : n[i] = Below(t)[i]
    BY <1>2, TopOfAppend
  <1> HIDE DEF n
  <1>4. /\ Len(n) = Len(stack[t])
        /\ n[Len(stack[t])] = e
        /\ \A i \in 1..Len(stack[t])-1 : n[i] = stack[t][i]
    BY <1>2, <1>3
  <1>5. QED
    BY <1>3, <1>4 DEF n

LEMMA StackStepAcquire ==
  ASSUME StackInv, TypeOK', NEW t \in Threads, AcquireSendLock(t)
  PROVE  StackInv'
  <1>1. PICK c \in Top(t).conns, k \in 1..MaxChunks :
          /\ sendLock[c] = NoThread
          /\ sendLock' = [sendLock EXCEPT ![c] = t]
          /\ stack' = [stack EXCEPT ![t] = Append(Below(t), Call("wire", {c}, k))]
    BY DEF AcquireSendLock
  <1> DEFINE e == Call("wire", {c}, k)
             new == Append(Below(t), e)
  <1>2. ~Idle(t) /\ Top(t).at = "lock" /\ UNCHANGED draining
    BY DEF AcquireSendLock, At
  <1>3. TypeOK /\ c \in Conns
    BY <1>2, TopType DEF StackInv
  <1>4. e \in Calls /\ e.at = "wire" /\ e.conns = {c}
    BY <1>3, CallType, ConstantsAssumption DEF Call
  <1> HIDE DEF e
  <1>5. /\ new # <<>>
        /\ Len(new) = Len(stack[t])
        /\ Last(new) = e
        /\ new[Len(stack[t])] = e
        /\ \A i \in 1..Len(stack[t])-1 : new[i] = stack[t][i]
    BY <1>2, <1>3, <1>4, ReplaceTop
  <1> HIDE DEF new
  <1>6. /\ stack'[t] = new
        /\ \A u \in Threads \ {t} : stack'[u] = stack[u] /\ draining'[u] = draining[u]
        /\ draining'[t] = TRUE
    <2>1. draining[t] = TRUE
      BY <1>2, ShapeAt, <1>3 DEF TypeOK
    <2>2. stack' = [stack EXCEPT ![t] = new]
      BY <1>1 DEF new, e
    <2>3. QED
      BY <1>2, <1>3, <2>1, <2>2 DEF TypeOK
  <1>7. Shape(new, TRUE)
    BY <1>2, <1>4, <1>5, ShapeAt DEF Shape, Sending
  <1>8. OneConn(new) /\ \A d \in Conns : OnWire(new, d) <=> d = c
    BY <1>3, <1>4, <1>5 DEF OneConn, OnWire
  <1>9. \A d \in Conns : sendLock[d] # t
    BY <1>2, NotOnWire
  <1>10. /\ \A d \in Conns : sendLock'[d] = t <=> OnWire(new, d)
         /\ \A d \in Conns : \/ sendLock'[d] = sendLock[d]
                             \/ /\ sendLock[d] \in {t, NoThread}
                                /\ sendLock'[d] \in {t, NoThread}
    <2>1. sendLock \in [Conns -> Threads \cup {NoThread}]
      BY <1>3 DEF TypeOK
    <2>2. \A d \in Conns : sendLock'[d] = IF d = c THEN t ELSE sendLock[d]
      BY <1>1, <2>1
    <2>3. QED
      BY <1>1, <1>8, <1>9, <2>2
  <1>11. QED
    BY <1>6, <1>7, <1>8, <1>10, StackInvOfThread

LEMMA StackStepReceive ==
  ASSUME StackInv, TypeOK', NEW t \in Threads, ReceiveRaw(t)
  PROVE  StackInv'
  <1> DEFINE e(c) == Call("wire", {c}, Top(t).chunks - 1)
             new(c) == Append(Below(t), e(c))
  <1>1. PICK c \in Top(t).conns : Deliver(t, FrameJob(c, sent[c] + 1), new(c))
    BY DEF ReceiveRaw
  <1>2. ~Idle(t) /\ Top(t).at = "wire" /\ Top(t).chunks > 0 /\ UNCHANGED sendLock
    BY DEF ReceiveRaw, At
  <1>3. TypeOK /\ c \in Conns /\ Top(t).chunks - 1 \in Nat
    BY <1>2, TopType DEF StackInv
  <1>4. e(c) \in Calls /\ e(c).at = "wire" /\ e(c).conns = {c}
    BY <1>3, CallType DEF Call
  <1>5. Top(t).conns = {c}
    BY <1>2, SMTT(60) DEF StackInv, OneConn, Sending, Idle, Top
  <1>6. draining[t]
    BY <1>2, ShapeAt
  <1> HIDE DEF e
  <1>7. /\ new(c) # <<>>
        /\ Len(new(c)) = Len(stack[t])
        /\ Last(new(c)) = e(c)
        /\ new(c)[Len(stack[t])] = e(c)
        /\ \A i \in 1..Len(stack[t])-1 : new(c)[i] = stack[t][i]
    BY <1>2, <1>3, <1>4, ReplaceTop
  <1> HIDE DEF new
  <1>8. /\ stack'[t] = new(c)
        /\ \A u \in Threads \ {t} : stack'[u] = stack[u] /\ draining'[u] = draining[u]
        /\ draining'[t] = TRUE
    BY <1>1, <1>3, <1>6 DEF Deliver, TypeOK
  <1>9. Shape(new(c), TRUE)
    BY <1>2, <1>4, <1>7, ShapeAt DEF Shape, Sending
  <1>10. OneConn(new(c)) /\ \A d \in Conns : OnWire(new(c), d) <=> d = c
    BY <1>3, <1>4, <1>7 DEF OneConn, OnWire
  <1>11. \A d \in Conns : sendLock'[d] = t <=> OnWire(new(c), d)
    <2>1. \A d \in Conns : sendLock[d] = t <=> OnWire(stack[t], d)
      BY DEF StackInv
    <2>2. \A d \in Conns : OnWire(stack[t], d) <=> d = c
      BY <1>2, <1>5 DEF OnWire, Idle, Top
    <2>3. QED
      BY <1>2, <1>10, <2>1, <2>2
  <1>12. \A d \in Conns : sendLock'[d] = sendLock[d]
    BY <1>2
  <1>13. Shape(stack'[t], draining'[t]) /\ OneConn(stack'[t])
    BY <1>8, <1>9, <1>10
  <1>14. \A d \in Conns : sendLock'[d] = t <=> OnWire(stack'[t], d)
    BY <1>8, <1>11
  <1>15. QED
    BY <1>8, <1>12, <1>13, <1>14, StackInvOfThread

LEMMA StackStepSendReturns ==
  ASSUME StackInv, TypeOK', NEW t \in Threads, SendReturns(t)
  PROVE  StackInv'
  <1> DEFINE new == IF Last(Below(t)).at = "pumped"
                    THEN Append(Front(Below(t)), Call("drain", {}, 0))
                    ELSE Below(t)
  <1>1. ~Idle(t) /\ Top(t).at = "wire" /\ TypeOK
    BY DEF SendReturns, At, StackInv
  <1>2. /\ stack[t] \in Seq(Calls) /\ stack[t] # <<>>
        /\ draining[t]
        /\ \/ Len(stack[t]) = 2 /\ stack[t][1].at = "pumped"
           \/ Len(stack[t]) = 3 /\ stack[t][1].at = "drain" /\ stack[t][2].at \in Action
    BY <1>1, ShapeAt, TopType DEF Sending
  <1>3. /\ Below(t) \in Seq(Calls)
        /\ Len(Below(t)) = Len(stack[t]) - 1
        /\ \A i \in 1..Len(stack[t])-1 : Below(t)[i] = stack[t][i]
    BY <1>2, FrontOfSeq DEF Below
  <1>4. Below(t) # <<>> /\ Last(Below(t)) = Below(t)[Len(Below(t))]
    <2>1. Len(stack[t]) \in {2, 3}
      BY <1>2
    <2>2. Below(t) # <<>>
      <3>1. Len(Below(t)) \in {1, 2}
        BY <1>3, <2>1
      <3>2. QED
        BY <3>1
    <2>3. QED
      BY <1>3, <2>2, FrontOfSeq
  <1>5. Shape(new, TRUE) /\ new # <<>> /\ Last(new).at \in Action \cup {"drain"}
    <2>1. CASE Len(stack[t]) = 2
      <3>1. Len(Below(t)) = 1 /\ Below(t)[1].at = "pumped" /\ Last(Below(t)).at = "pumped"
        BY <1>2, <1>3, <1>4, <2>1
      <3>2. Len(Front(Below(t))) = 0 /\ Front(Below(t)) \in Seq(Calls)
        BY <1>3, <1>4, <3>1, FrontOfSeq
      <3>3. Front(Below(t)) = <<>>
        BY <3>2
      <3>4. new = Append(<<>>, Call("drain", {}, 0))
        BY <3>1, <3>3
      <3>5. Call("drain", {}, 0) \in Calls /\ Call("drain", {}, 0).at = "drain"
        BY CallType DEF Call
      <3> HIDE DEF new
      <3>6. Len(new) = 1 /\ new # <<>> /\ new[1].at = "drain" /\ Last(new).at = "drain"
        BY <3>4, <3>5, FirstCall
      <3>7. QED
        BY <3>6 DEF Shape
    <2>2. CASE Len(stack[t]) = 3
      <3>1. /\ Len(Below(t)) = 2
            /\ Below(t)[1].at = "drain"
            /\ Below(t)[2].at \in Action
            /\ Last(Below(t)).at \in Action
        BY <1>2, <1>3, <1>4, <2>2
      <3>2. new = Below(t)
        BY <3>1 DEF Action
      <3> HIDE DEF new
      <3>3. QED
        BY <1>4, <3>1, <3>2 DEF Shape
    <2>3. QED
      BY <1>2, <2>1, <2>2
  <1>6. OneConn(new) /\ \A d \in Conns : ~OnWire(new, d)
    BY <1>5 DEF OneConn, OnWire, Sending, Action
  <1>7. stack' = [stack EXCEPT ![t] = new] /\ UNCHANGED draining
    BY DEF SendReturns
  <1> HIDE DEF new
  <1>8. /\ stack'[t] = new
        /\ \A u \in Threads \ {t} : stack'[u] = stack[u] /\ draining'[u] = draining[u]
        /\ draining'[t] = TRUE
    BY <1>1, <1>2, <1>7 DEF TypeOK
  <1>9. \A d \in Conns : sendLock[d] = t <=> d \in Top(t).conns
    BY <1>1 DEF StackInv, OnWire, Idle, Top
  <1>10. \A d \in Conns : sendLock'[d] = IF d \in Top(t).conns THEN NoThread ELSE sendLock[d]
    BY DEF SendReturns
  <1>11. /\ \A d \in Conns : sendLock'[d] # t
         /\ \A d \in Conns : \/ sendLock'[d] = sendLock[d]
                             \/ /\ sendLock[d] \in {t, NoThread}
                                /\ sendLock'[d] \in {t, NoThread}
    BY <1>9, <1>10, ConstantsAssumption
  <1>12. QED
    BY <1>5, <1>6, <1>8, <1>11, StackInvOfThread

\* Running an action: the drain loop is the only call on the stack.
LEMMA PushAction ==
  ASSUME StackInv, TypeOK', NEW t \in Threads, At(t, "drain"),
         NEW e \in Calls, e.at \in Action,
         stack' = [stack EXCEPT ![t] = Append(@, e)],
         UNCHANGED <<draining, sendLock>>
  PROVE  StackInv'
  <1> DEFINE new == Append(stack[t], e)
  <1>1. /\ stack[t] \in Seq(Calls)
        /\ draining[t] /\ Len(stack[t]) = 1 /\ stack[t][1].at = "drain"
        /\ Top(t).at = "drain" /\ TypeOK
    BY ShapeAt DEF At, StackInv
  <1>2. /\ Len(new) = 2 /\ new # <<>>
        /\ Last(new) = e
        /\ new[1].at = "drain"
        /\ new[2] = e
    <2>1. /\ Len(new) = Len(stack[t]) + 1 /\ new # <<>>
          /\ Last(new) = e
          /\ new[Len(stack[t]) + 1] = e
          /\ \A i \in 1..Len(stack[t]) : new[i] = stack[t][i]
      <3>1. stack[t] \in Seq(Calls)
        BY <1>1
      <3>2. QED
        BY <3>1, TopOfAppend
    <2> HIDE DEF new
    <2>2. QED
      BY <1>1, <2>1
  <1>3. /\ stack'[t] = new
        /\ \A u \in Threads \ {t} : stack'[u] = stack[u] /\ draining'[u] = draining[u]
        /\ draining'[t] = TRUE
    BY <1>1 DEF TypeOK
  <1> HIDE DEF new
  <1>4. Shape(new, TRUE) /\ OneConn(new) /\ \A d \in Conns : ~OnWire(new, d)
    BY <1>2 DEF Shape, OneConn, OnWire, Sending, Action
  <1>5. \A d \in Conns : sendLock[d] # t
    BY <1>1, NotOnWire
  <1>6. QED
    BY <1>3, <1>4, <1>5, StackInvOfThread

LEMMA StackStepRun ==
  ASSUME StackInv, TypeOK', NEW t \in Threads, RunAction(t) \/ DecodeAndDispatch(t)
  PROVE  StackInv'
  <1> DEFINE job == Head(queue[t])
             e   == Call(job.kind, job.conns, 0)
  <1>1. TypeOK
    BY DEF StackInv
  <1>2. CASE RunAction(t)
    <2>1. /\ At(t, "drain") /\ queue[t] # <<>> /\ job.kind \in {"sends", "handler"}
          /\ stack' = [stack EXCEPT ![t] = Append(@, e)]
          /\ UNCHANGED <<draining, sendLock>>
      BY <1>2 DEF RunAction, RunJob
    <2>2. e \in Calls /\ e.at \in Action
      BY <1>1, <2>1, HeadType, CallType DEF Call, Action
    <2> HIDE DEF e
    <2>3. QED
      BY <2>1, <2>2, PushAction
  <1>3. CASE DecodeAndDispatch(t)
    <2>1. /\ At(t, "drain")
          /\ \/ stack' = [stack EXCEPT ![t] = Append(@, Call("handler", {}, 0))]
             \/ stack' = stack
          /\ UNCHANGED <<draining, sendLock>>
      BY <1>3 DEF DecodeAndDispatch, RunJob
    <2>2. CASE stack' = [stack EXCEPT ![t] = Append(@, Call("handler", {}, 0))]
      <3>1. Call("handler", {}, 0) \in Calls /\ Call("handler", {}, 0).at \in Action
        BY CallType DEF Call, Action
      <3>2. QED
        BY <2>1, <2>2, <3>1, PushAction
    <2>3. CASE stack' = stack
      BY <2>1, <2>3 DEF StackInv, Shape, OneConn, OnWire
    <2>4. QED
      BY <2>1, <2>2, <2>3
  <1>4. QED
    BY <1>2, <1>3

LEMMA StackStepSendNext ==
  ASSUME StackInv, TypeOK', NEW t \in Threads, SendNext(t)
  PROVE  StackInv'
  <1> DEFINE e(c) == Call("sends", Top(t).conns \ {c}, 0)
             base(c) == Append(Below(t), e(c))
             new(c) == Append(base(c), Call("lock", {c}, 0))
  <1>1. PICK c \in Top(t).conns : PumpedSend(t, c, base(c))
    BY DEF SendNext
  <1>2. ~Idle(t) /\ Top(t).at = "sends" /\ UNCHANGED sendLock
    BY DEF SendNext, At
  <1>3. TypeOK /\ c \in Conns
    BY <1>2, TopType DEF StackInv
  <1>4. e(c) \in Calls /\ e(c).at = "sends"
    BY <1>2, <1>3, TopType, CallType DEF Call
  <1>5. draining[t] /\ Len(stack[t]) = 2 /\ stack[t][1].at = "drain"
    BY <1>2, ShapeAt DEF Action
  <1> HIDE DEF e
  <1>6. /\ base(c) \in Seq(Calls)
        /\ Len(base(c)) = 2
        /\ base(c)[1].at = "drain"
        /\ base(c)[2].at \in Action
    <2>1. /\ base(c) \in Seq(Calls)
          /\ Len(base(c)) = Len(stack[t])
          /\ base(c)[Len(stack[t])] = e(c)
          /\ \A i \in 1..Len(stack[t])-1 : base(c)[i] = stack[t][i]
      BY <1>2, <1>3, <1>4, ReplaceTop
    <2> HIDE DEF base
    <2>2. QED
      BY <1>4, <1>5, <2>1 DEF Action
  <1> HIDE DEF base
  <1>7. /\ new(c) # <<>>
        /\ Len(new(c)) = 3
        /\ Last(new(c)).at = "lock"
        /\ Last(new(c)).conns = {c}
        /\ new(c)[1].at = "drain"
        /\ new(c)[2].at \in Action
        /\ new(c)[3].at = "lock"
    <2>1. /\ new(c) # <<>>
          /\ Len(new(c)) = Len(base(c)) + 1
          /\ Last(new(c)) = Call("lock", {c}, 0)
          /\ new(c)[Len(base(c)) + 1] = Call("lock", {c}, 0)
          /\ \A i \in 1..Len(base(c)) : new(c)[i] = base(c)[i]
      <3>1. Call("lock", {c}, 0) \in Calls
        BY <1>3, CallType
      <3>2. base(c) \in Seq(Calls)
        BY <1>6
      <3>3. QED
        BY <3>1, <3>2, TopOfAppend
    <2> HIDE DEF new
    <2>2. QED
      BY <1>6, <2>1 DEF Call
  <1>8. /\ stack'[t] = new(c)
        /\ \A u \in Threads \ {t} : stack'[u] = stack[u] /\ draining'[u] = draining[u]
        /\ draining'[t] = TRUE
    BY <1>1, <1>3, <1>5 DEF PumpedSend, TypeOK
  <1> HIDE DEF new
  <1>9. Shape(new(c), TRUE) /\ OneConn(new(c)) /\ \A d \in Conns : ~OnWire(new(c), d)
    BY <1>3, <1>7 DEF Shape, OneConn, OnWire, Sending
  <1>10. \A d \in Conns : sendLock[d] # t
    BY <1>2, NotOnWire
  <1>11. QED
    BY <1>2, <1>8, <1>9, <1>10, StackInvOfThread

LEMMA StackStepReturns ==
  ASSUME StackInv, TypeOK', NEW t \in Threads,
         ActionReturns(t) \/ DrainReturns(t) \/ Raise(t)
  PROVE  StackInv'
  <1>1. ~Idle(t) /\ TypeOK
    BY DEF ActionReturns, DrainReturns, Raise, At, StackInv
  <1>2. /\ stack[t] \in Seq(Calls) /\ stack[t] # <<>>
        /\ Below(t) \in Seq(Calls)
        /\ Len(Below(t)) = Len(stack[t]) - 1
        /\ \A i \in 1..Len(stack[t])-1 : Below(t)[i] = stack[t][i]
    BY <1>1, TopType, FrontOfSeq DEF Below
  <1>3. CASE ActionReturns(t)
    <2>1. Top(t).at \in Action /\ UNCHANGED <<draining, sendLock>>
      BY <1>3 DEF ActionReturns, At, Action
    <2>2. draining[t] /\ Len(stack[t]) = 2 /\ stack[t][1].at = "drain"
      BY <1>1, <2>1, ShapeAt
    <2>3. Len(Below(t)) = 1 /\ Below(t)[1].at = "drain" /\ Below(t) # <<>>
      <3>1. Len(Below(t)) = 1 /\ Below(t)[1].at = "drain"
        BY <1>2, <2>2
      <3>2. QED
        BY <3>1, SMTT(60)
    <2>4. Last(Below(t)).at = "drain"
      <3>1. Last(Below(t)) = Below(t)[Len(Below(t))]
        BY <1>2, <2>3, FrontOfSeq
      <3>2. QED
        BY <2>3, <3>1
    <2>5. Shape(Below(t), TRUE) /\ OneConn(Below(t)) /\ \A d \in Conns : ~OnWire(Below(t), d)
      BY <2>3, <2>4 DEF Shape, OneConn, OnWire, Sending
    <2>6. /\ stack'[t] = Below(t)
          /\ \A u \in Threads \ {t} : stack'[u] = stack[u] /\ draining'[u] = draining[u]
          /\ draining'[t] = TRUE
      BY <1>1, <1>3, <2>2 DEF ActionReturns, TypeOK
    <2>7. \A d \in Conns : sendLock[d] # t
      BY <2>1, NotOnWire DEF Action
    <2>8. QED
      BY <2>1, <2>5, <2>6, <2>7, StackInvOfThread
  <1>4. CASE DrainReturns(t)
    <2>1. Top(t).at = "drain" /\ UNCHANGED sendLock
      BY <1>4 DEF DrainReturns, At
    <2>2. Len(stack[t]) = 1
      BY <1>1, <2>1, ShapeAt
    <2>3. Below(t) = <<>>
      BY <1>2, <2>2
    <2>4. /\ stack'[t] = <<>>
          /\ \A u \in Threads \ {t} : stack'[u] = stack[u] /\ draining'[u] = draining[u]
          /\ draining'[t] = FALSE
      BY <1>1, <1>4, <2>3 DEF DrainReturns, TypeOK
    <2>5. \A d \in Conns : sendLock[d] # t
      BY <2>1, NotOnWire
    <2>6. Shape(<<>>, FALSE) /\ OneConn(<<>>) /\ \A d \in Conns : ~OnWire(<<>>, d)
      BY DEF Shape, OneConn, OnWire
    <2>7. QED
      BY <2>1, <2>4, <2>5, <2>6, StackInvOfThread
  <1>5. CASE Raise(t)
    <2>1. /\ stack'[t] = <<>>
          /\ \A u \in Threads \ {t} : stack'[u] = stack[u] /\ draining'[u] = draining[u]
          /\ draining'[t] = FALSE
      BY <1>1, <1>5 DEF Raise, TypeOK
    <2>2. \A d \in Conns : sendLock'[d] = IF sendLock[d] = t THEN NoThread ELSE sendLock[d]
      BY <1>5 DEF Raise
    <2>3. /\ \A d \in Conns : sendLock'[d] # t
          /\ \A d \in Conns : \/ sendLock'[d] = sendLock[d]
                              \/ /\ sendLock[d] \in {t, NoThread}
                                 /\ sendLock'[d] \in {t, NoThread}
      BY <2>2, ConstantsAssumption
    <2>4. Shape(<<>>, FALSE) /\ OneConn(<<>>) /\ \A d \in Conns : ~OnWire(<<>>, d)
      BY DEF Shape, OneConn, OnWire
    <2>5. QED
      BY <2>1, <2>3, <2>4, StackInvOfThread
  <1>6. QED
    BY <1>3, <1>4, <1>5

LEMMA StackStep == StackInv /\ [Next]_vars => StackInv'
  <1> SUFFICES ASSUME StackInv, [Next]_vars
               PROVE  StackInv'
    OBVIOUS
  <1>1. TypeOK'
    BY TypeStep DEF StackInv
  <1>2. CASE UNCHANGED vars
    BY <1>1, <1>2 DEF vars, StackInv, Shape, OneConn, OnWire
  <1>3. ASSUME NEW t \in Threads, CallIn(t) \/ Continue(t) \/ Raise(t)
        PROVE  StackInv'
    BY <1>1, <1>3, StackStepCallIn, StackStepAcquire, StackStepReceive,
       StackStepSendReturns, StackStepRun, StackStepSendNext, StackStepReturns
       DEF Continue
  <1>4. QED
    BY <1>2, <1>3 DEF Next

LEMMA StackInit == Init => StackInv
  <1> SUFFICES ASSUME Init
               PROVE  StackInv
    OBVIOUS
  <1>1. TypeOK
    BY DEF Init, TypeOK
  <1>2. \A t \in Threads : stack[t] = <<>> /\ draining[t] = FALSE
    BY DEF Init
  <1>3. Shape(<<>>, FALSE) /\ OneConn(<<>>) /\ \A d \in Conns : ~OnWire(<<>>, d)
    BY DEF Shape, OneConn, OnWire
  <1>4. \A t \in Threads, c \in Conns : sendLock[c] # t
    BY ConstantsAssumption DEF Init
  <1>5. QED
    BY <1>1, <1>2, <1>3, <1>4 DEF StackInv

\* The pump's reason to exist: no thread ever waits for a _send_lock it holds,
\* no delivery runs inside another one or inside a send, the draining flag is
\* never left set, and a thread holds one _send_lock at a time.
THEOREM PumpIsSafe ==
  Spec => [](NoSelfDeadlock /\ NoNestedDelivery /\ NoStuckPump /\ OneSendLockAtATime)
  <1>1. Spec => []StackInv
    BY StackInit, StackStep, PTL DEF Spec
  <1>2. QED
    BY <1>1, StackInvSafe, PTL

\* No delivery runs inside another one or inside a send, so that deliveries are
\* steps of their own in whatever is built on the pump (_deliver).
THEOREM DeliveriesAreSteps == Spec => []NoNestedDelivery
  BY PumpIsSafe, PTL

-----------------------------------------------------------------------------
(***************************************************************************)
(* Frames in order, when no two threads drive one topology.  A thread only *)
(* ever queues and sends on its own connections (Local), and its queue     *)
(* holds, for each of them, exactly the frames sent and not yet received,  *)
(* oldest first (InOrder): the one at the head is the one expected.        *)
(***************************************************************************)
CallsOf(t) == {e \in Calls : e.conns \subseteq Drives[t]}
JobsOf(t)  == {j \in Jobs : j.conns \subseteq Drives[t]}

Local == \A t \in Threads : stack[t] \in Seq(CallsOf(t)) /\ queue[t] \in Seq(JobsOf(t))

\* q: a queue, D: the connections driven, r, s: frames received and sent.
InOrder(q, D, r, s) ==
  /\ \A i \in 1..Len(q) : q[i].kind = "frame" =>
       \E c \in D : q[i] = FrameJob(c, q[i].no) /\ r[c] < q[i].no /\ q[i].no <= s[c]
  /\ \A i, j \in 1..Len(q) :
       i < j /\ q[i].kind = "frame" /\ q[j].kind = "frame" /\ q[i].conns = q[j].conns
         => q[i].no < q[j].no
  /\ \A c \in D, n \in Nat : r[c] < n /\ n <= s[c] =>
       \E i \in 1..Len(q) : q[i] = FrameJob(c, n)

LEMMA FrameJobFields ==
  ASSUME NEW c, NEW n
  PROVE  /\ FrameJob(c, n).kind = "frame"
         /\ FrameJob(c, n).conns = {c}
         /\ FrameJob(c, n).no = n
  BY DEF FrameJob

LEMMA AppendOther ==
  ASSUME NEW D \in SUBSET Conns, NEW q \in Seq(Jobs), NEW job \in Jobs, job.kind # "frame",
         NEW r \in [Conns -> Nat], NEW s \in [Conns -> Nat], InOrder(q, D, r, s)
  PROVE  InOrder(Append(q, job), D, r, s)
  <1> DEFINE p == Append(q, job)
  <1>1. /\ Len(p) = Len(q) + 1 /\ Len(q) \in Nat
        /\ p[Len(q) + 1] = job
        /\ \A i \in 1..Len(q) : p[i] = q[i]
    OBVIOUS
  <1> HIDE DEF p
  <1>2. \A i \in 1..Len(p) : p[i].kind = "frame" => i \in 1..Len(q) /\ p[i] = q[i]
    BY <1>1
  <1>3. \A c \in D, n \in Nat : r[c] < n /\ n <= s[c] =>
          \E i \in 1..Len(p) : p[i] = FrameJob(c, n)
    <2> SUFFICES ASSUME NEW c \in D, NEW n \in Nat, r[c] < n /\ n <= s[c]
                 PROVE  \E i \in 1..Len(p) : p[i] = FrameJob(c, n)
      OBVIOUS
    <2>1. PICK i \in 1..Len(q) : q[i] = FrameJob(c, n)
      BY DEF InOrder
    <2>2. i \in 1..Len(p) /\ p[i] = FrameJob(c, n)
      BY <1>1, <2>1
    <2>3. QED
      BY <2>2
  <1>4. \A i \in 1..Len(p) : p[i].kind = "frame" =>
          \E c \in D : p[i] = FrameJob(c, p[i].no) /\ r[c] < p[i].no /\ p[i].no <= s[c]
    BY <1>2 DEF InOrder
  <1>5. \A i, j \in 1..Len(p) :
          i < j /\ p[i].kind = "frame" /\ p[j].kind = "frame" /\ p[i].conns = p[j].conns
            => p[i].no < p[j].no
    BY <1>2 DEF InOrder
  <1>6. InOrder(p, D, r, s)
    BY <1>3, <1>4, <1>5, Zenon DEF InOrder
  <1>7. QED
    BY <1>6 DEF p

LEMMA AppendFrame ==
  ASSUME NEW D \in SUBSET Conns, NEW q \in Seq(Jobs), NEW c \in D,
         NEW r \in [Conns -> Nat], NEW s \in [Conns -> Nat], InOrder(q, D, r, s),
         r[c] <= s[c]
  PROVE  InOrder(Append(q, FrameJob(c, s[c] + 1)), D, r, [s EXCEPT ![c] = @ + 1])
  <1> DEFINE m == s[c] + 1
             p == Append(q, FrameJob(c, m))
             s1 == [s EXCEPT ![c] = @ + 1]
  <1>1. /\ Len(p) = Len(q) + 1 /\ Len(q) \in Nat
        /\ p[Len(q) + 1] = FrameJob(c, m)
        /\ \A i \in 1..Len(q) : p[i] = q[i]
    OBVIOUS
  <1>2. /\ m \in Nat /\ r[c] < m
        /\ s1[c] = m
        /\ \A d \in D : d # c => s1[d] = s[d]
        /\ \A d \in D : s[d] \in Nat /\ s1[d] \in Nat /\ s[d] <= s1[d] /\ r[d] \in Nat
        /\ s[c] < m /\ \A n \in Nat : n <= m => n <= s[c] \/ n = m
    OBVIOUS
  <1> HIDE DEF p, s1, m
  <1>3. \A i \in 1..Len(p) : \/ i \in 1..Len(q) /\ p[i] = q[i]
                             \/ i = Len(q) + 1 /\ p[i] = FrameJob(c, m)
    BY <1>1
  <1>4. \A i \in 1..Len(q) : q[i].no \in Nat
    <2>1. \A i \in 1..Len(q) : q[i] \in Jobs
      OBVIOUS
    <2>2. QED
      BY <2>1 DEF Jobs
  <1>5. ASSUME NEW i \in 1..Len(p), p[i].kind = "frame"
        PROVE  \E d \in D : p[i] = FrameJob(d, p[i].no) /\ r[d] < p[i].no /\ p[i].no <= s1[d]
    <2>1. CASE i \in 1..Len(q) /\ p[i] = q[i]
      <3>1. PICK d \in D : q[i] = FrameJob(d, q[i].no) /\ r[d] < q[i].no /\ q[i].no <= s[d]
        BY <1>5, <2>1 DEF InOrder
      <3>2. q[i].no <= s1[d]
        BY <1>2, <1>4, <2>1, <3>1
      <3>3. QED
        BY <2>1, <3>1, <3>2
    <2>2. CASE p[i] = FrameJob(c, m)
      BY <1>2, <2>2, FrameJobFields, SMTT(60)
    <2>3. QED
      BY <1>3, <2>1, <2>2
  <1>6. ASSUME NEW i \in 1..Len(p), NEW j \in 1..Len(p), i < j,
               p[i].kind = "frame", p[j].kind = "frame", p[i].conns = p[j].conns
        PROVE  p[i].no < p[j].no
    <2>1. i \in 1..Len(q) /\ p[i] = q[i]
      BY <1>1, <1>3, <1>6
    <2>2. CASE j \in 1..Len(q) /\ p[j] = q[j]
      BY <1>6, <2>1, <2>2 DEF InOrder
    <2>3. CASE p[j] = FrameJob(c, m)
      <3>1. PICK d \in D : q[i] = FrameJob(d, q[i].no) /\ r[d] < q[i].no /\ q[i].no <= s[d]
        BY <1>6, <2>1 DEF InOrder
      <3>2. d = c
        <4>1. q[i].conns = {d} /\ p[j].conns = {c}
          BY <2>3, <3>1, FrameJobFields
        <4>2. QED
          BY <1>6, <2>1, <4>1
      <3>3. p[j].no = m /\ q[i].no \in Nat
        BY <1>4, <2>1, <2>3, FrameJobFields
      <3>4. QED
        BY <1>2, <2>1, <3>1, <3>2, <3>3
    <2>4. QED
      BY <1>3, <2>2, <2>3
  <1>7. ASSUME NEW d \in D, NEW n \in Nat, r[d] < n, n <= s1[d]
        PROVE  \E i \in 1..Len(p) : p[i] = FrameJob(d, n)
    <2>1. CASE n <= s[d]
      <3>1. PICK i \in 1..Len(q) : q[i] = FrameJob(d, n)
        BY <1>7, <2>1 DEF InOrder
      <3>2. i \in 1..Len(p) /\ p[i] = FrameJob(d, n)
        BY <1>1, <3>1
      <3>3. QED
        BY <3>2
    <2>2. CASE d = c /\ n = m
      <3>1. Len(q) + 1 \in 1..Len(p)
        BY <1>1
      <3>2. QED
        BY <1>1, <2>2, <3>1
    <2>3. QED
      BY <1>2, <1>7, <2>1, <2>2
  <1>8. InOrder(p, D, r, s1)
    BY <1>5, <1>6, <1>7 DEF InOrder
  <1>9. QED
    BY <1>8 DEF p, s1, m

LEMMA TailOther ==
  ASSUME NEW D \in SUBSET Conns, NEW q \in Seq(Jobs), q # <<>>, Head(q).kind # "frame",
         NEW r \in [Conns -> Nat], NEW s \in [Conns -> Nat], InOrder(q, D, r, s)
  PROVE  InOrder(Tail(q), D, r, s)
  <1> DEFINE p == Tail(q)
  <1>1. /\ Len(q) \in Nat \ {0}
        /\ Len(p) = Len(q) - 1
        /\ \A i \in 1..Len(p) : p[i] = q[i + 1]
        /\ Head(q) = q[1]
    OBVIOUS
  <1> HIDE DEF p
  <1>2. \A i \in 1..Len(p) : i + 1 \in 1..Len(q)
    BY <1>1
  <1>3. \A i \in 1..Len(p) : p[i].kind = "frame" =>
          \E c \in D : p[i] = FrameJob(c, p[i].no) /\ r[c] < p[i].no /\ p[i].no <= s[c]
    BY <1>1, <1>2, SMTT(60) DEF InOrder
  <1>4. ASSUME NEW i \in 1..Len(p), NEW j \in 1..Len(p), i < j,
               p[i].kind = "frame", p[j].kind = "frame", p[i].conns = p[j].conns
        PROVE  p[i].no < p[j].no
    <2>1. i + 1 < j + 1
      BY <1>1, <1>4
    <2>2. i + 1 \in 1..Len(q) /\ j + 1 \in 1..Len(q)
      BY <1>2
    <2>3. p[i] = q[i + 1] /\ p[j] = q[j + 1]
      BY <1>1
    <2>4. \A k, l \in 1..Len(q) :
            k < l /\ q[k].kind = "frame" /\ q[l].kind = "frame" /\ q[k].conns = q[l].conns
            => q[k].no < q[l].no
      BY DEF InOrder
    <2>5. QED
      BY <1>4, <2>1, <2>2, <2>3, <2>4
  <1>5. ASSUME NEW d \in D, NEW n \in Nat, r[d] < n, n <= s[d]
        PROVE  \E i \in 1..Len(p) : p[i] = FrameJob(d, n)
    <2>1. PICK i \in 1..Len(q) : q[i] = FrameJob(d, n)
      BY <1>5 DEF InOrder
    <2>2. i # 1
      BY <1>1, <2>1, FrameJobFields
    <2>3. i - 1 \in 1..Len(p) /\ p[i - 1] = q[i]
      BY <1>1, <2>2
    <2>4. QED
      BY <2>1, <2>3
  <1>6. InOrder(p, D, r, s)
    BY <1>3, <1>4, <1>5 DEF InOrder
  <1>7. QED
    BY <1>6 DEF p

\* The frame at the head is the next one its connection expects, and once it
\* is received the rest of the queue is in order again.
LEMMA TailFrame ==
  ASSUME NEW D \in SUBSET Conns, NEW q \in Seq(Jobs), q # <<>>, NEW c \in D,
         Head(q).kind = "frame", Head(q).conns = {c},
         NEW r \in [Conns -> Nat], NEW s \in [Conns -> Nat], InOrder(q, D, r, s)
  PROVE  /\ Head(q).no = r[c] + 1
         /\ r[c] + 1 <= s[c]
         /\ InOrder(Tail(q), D, [r EXCEPT ![c] = @ + 1], s)
  <1> DEFINE p == Tail(q)
             r1 == [r EXCEPT ![c] = @ + 1]
  <1>0. \A i, j \in 1..Len(q) :
          i < j /\ q[i].kind = "frame" /\ q[j].kind = "frame" /\ q[i].conns = q[j].conns
            => q[i].no < q[j].no
    BY DEF InOrder
  <1>1. /\ Len(q) \in Nat \ {0}
        /\ Len(p) = Len(q) - 1
        /\ \A i \in 1..Len(p) : p[i] = q[i + 1]
        /\ Head(q) = q[1]
    OBVIOUS
  <1>2. /\ r1[c] = r[c] + 1
        /\ \A d \in D : d # c => r1[d] = r[d]
        /\ \A d \in D : r[d] \in Nat /\ r1[d] \in Nat /\ s[d] \in Nat
        /\ \A d \in D, n \in Nat : r1[d] < n => r[d] < n
    OBVIOUS
  <1> HIDE DEF p, r1
  <1>3. \A i \in 1..Len(p) : i + 1 \in 1..Len(q)
    BY <1>1
  <1>4. \A i \in 1..Len(q) : q[i] \in Jobs /\ q[i].no \in Nat
    <2>1. \A i \in 1..Len(q) : q[i] \in Jobs
      OBVIOUS
    <2>2. QED
      BY <2>1 DEF Jobs
  <1>5. 1 \in 1..Len(q)
    BY <1>1
  <1>6. q[1] = FrameJob(c, q[1].no) /\ r[c] < q[1].no /\ q[1].no <= s[c]
    <2>1. PICK d \in D : q[1] = FrameJob(d, q[1].no) /\ r[d] < q[1].no /\ q[1].no <= s[d]
      BY <1>1, <1>5 DEF InOrder
    <2>2. q[1].conns = {d}
      BY <2>1, FrameJobFields
    <2>3. d = c
      BY <1>1, <2>2
    <2>4. QED
      BY <2>1, <2>3
  <1>7. \A i \in 1..Len(p) : p[i].kind = "frame" /\ p[i].conns = {c} => q[1].no < p[i].no
    <2> SUFFICES ASSUME NEW i \in 1..Len(p), p[i].kind = "frame", p[i].conns = {c}
                 PROVE  q[1].no < p[i].no
      OBVIOUS
    <2>1. p[i] = q[i + 1] /\ i + 1 \in 1..Len(q) /\ 1 < i + 1
      BY <1>1, <1>3
    <2>2. /\ q[i + 1].kind = "frame" /\ q[1].kind = "frame"
          /\ q[1].conns = q[i + 1].conns
      BY <1>1, <2>1
    <2>3. q[1].no < q[i + 1].no
      BY <1>0, <1>5, <2>1, <2>2
    <2>4. QED
      BY <2>1, <2>3
  <1>8. q[1].no = r[c] + 1
    <2>1. /\ q[1].no \in Nat /\ r[c] \in Nat /\ s[c] \in Nat
          /\ r[c] + 1 \in Nat /\ r[c] < r[c] + 1 /\ r[c] + 1 <= s[c]
      BY <1>2, <1>4, <1>5, <1>6
    <2>2. PICK i \in 1..Len(q) : q[i] = FrameJob(c, r[c] + 1)
      BY <2>1 DEF InOrder
    <2>3. q[i].kind = "frame" /\ q[i].conns = {c} /\ q[i].no = r[c] + 1
      BY <2>2, FrameJobFields
    <2>4. CASE i = 1
      BY <2>3, <2>4
    <2>5. CASE i # 1
      <3>1. i - 1 \in 1..Len(p) /\ p[i - 1] = q[i]
        BY <1>1, <2>5
      <3>2. q[1].no < r[c] + 1
        BY <1>7, <2>3, <3>1
      <3>3. QED
        BY <1>6, <2>1, <3>2
    <2>6. QED
      BY <2>4, <2>5
  <1>9. ASSUME NEW i \in 1..Len(p), p[i].kind = "frame"
        PROVE  \E d \in D : p[i] = FrameJob(d, p[i].no) /\ r1[d] < p[i].no /\ p[i].no <= s[d]
    <2>1. PICK d \in D : p[i] = FrameJob(d, p[i].no) /\ r[d] < p[i].no /\ p[i].no <= s[d]
      <3>1. p[i] = q[i + 1] /\ i + 1 \in 1..Len(q)
        BY <1>1, <1>3
      <3>2. q[i + 1].kind = "frame"
        BY <1>9, <3>1
      <3>3. PICK d \in D : /\ q[i + 1] = FrameJob(d, q[i + 1].no)
                           /\ r[d] < q[i + 1].no /\ q[i + 1].no <= s[d]
        BY <3>1, <3>2 DEF InOrder
      <3>4. QED
        BY <3>1, <3>3
    <2>2. CASE d = c
      <3>1. p[i].conns = {c}
        BY <2>1, <2>2, FrameJobFields
      <3>2. q[1].no < p[i].no
        BY <1>7, <1>9, <3>1
      <3>3. QED
        BY <1>2, <1>8, <2>1, <2>2, <3>2
    <2>3. CASE d # c
      BY <1>2, <2>1, <2>3
    <2>4. QED
      BY <2>2, <2>3
  <1>10. ASSUME NEW i \in 1..Len(p), NEW j \in 1..Len(p), i < j,
                p[i].kind = "frame", p[j].kind = "frame", p[i].conns = p[j].conns
         PROVE  p[i].no < p[j].no
    <2>1. i + 1 < j + 1 /\ i + 1 \in 1..Len(q) /\ j + 1 \in 1..Len(q)
      BY <1>1, <1>3, <1>10
    <2>2. p[i] = q[i + 1] /\ p[j] = q[j + 1]
      BY <1>1
    <2>3. QED
      BY <1>0, <1>10, <2>1, <2>2
  <1>11. ASSUME NEW d \in D, NEW n \in Nat, r1[d] < n, n <= s[d]
         PROVE  \E i \in 1..Len(p) : p[i] = FrameJob(d, n)
    <2>1. PICK i \in 1..Len(q) : q[i] = FrameJob(d, n)
      BY <1>2, <1>11 DEF InOrder
    <2>2. i # 1
      <3>1. SUFFICES ASSUME i = 1 PROVE FALSE
        OBVIOUS
      <3>2. q[1].conns = {d} /\ q[1].no = n
        BY <2>1, <3>1, FrameJobFields
      <3>3. d = c
        BY <1>1, <3>2
      <3>4. QED
        BY <1>2, <1>8, <1>11, <3>2, <3>3
    <2>3. i - 1 \in 1..Len(p) /\ p[i - 1] = q[i]
      BY <1>1, <2>2
    <2>4. QED
      BY <2>1, <2>3
  <1>12. InOrder(p, D, r1, s)
    BY <1>9, <1>10, <1>11 DEF InOrder
  <1>13. QED
    BY <1>1, <1>2, <1>4, <1>5, <1>6, <1>8, <1>12 DEF p, r1

\* What happens on other connections leaves a queue in order.
LEMMA InOrderFrame ==
  ASSUME NEW D, NEW q, NEW r, NEW s, NEW r1, NEW s1, InOrder(q, D, r, s),
         \A d \in D : r1[d] = r[d] /\ s1[d] = s[d]
  PROVE  InOrder(q, D, r1, s1)
  BY DEF InOrder

OrderInv ==
  /\ StackInv
  /\ Local
  /\ refused = {}
  /\ \A c \in Conns : received[c] <= sent[c]
  /\ \A t \in Threads : InOrder(queue[t], Drives[t], received, sent)

LEMMA OrderInvOfThread ==
  ASSUME SeparateTopologies, OrderInv, StackInv', NEW t \in Threads,
         \A u \in Threads \ {t} : stack'[u] = stack[u] /\ queue'[u] = queue[u],
         stack'[t] \in Seq(CallsOf(t)), queue'[t] \in Seq(JobsOf(t)),
         refused' = {},
         \A c \in Conns : received'[c] <= sent'[c],
         \A c \in Conns \ Drives[t] : received'[c] = received[c] /\ sent'[c] = sent[c],
         InOrder(queue'[t], Drives[t], received', sent')
  PROVE  OrderInv'
  <1>1. \A u \in Threads : stack'[u] \in Seq(CallsOf(u)) /\ queue'[u] \in Seq(JobsOf(u))
    BY DEF OrderInv, Local
  <1>2. ASSUME NEW u \in Threads
        PROVE  InOrder(queue'[u], Drives[u], received', sent')
    <2>1. CASE u = t
      BY <2>1
    <2>2. CASE u # t
      <3>1. InOrder(queue[u], Drives[u], received, sent)
        BY DEF OrderInv
      <3>2. \A d \in Drives[u] : received'[d] = received[d] /\ sent'[d] = sent[d]
        BY <2>2, JobType DEF SeparateTopologies
      <3>3. InOrder(queue[u], Drives[u], received', sent')
        BY <3>1, <3>2, InOrderFrame
      <3>4. QED
        BY <2>2, <3>3
    <2>3. QED
      BY <2>1, <2>2
  <1>3. Local'
    BY <1>1 DEF Local, CallsOf, JobsOf
  <1>4. (\A u \in Threads : InOrder(queue[u], Drives[u], received, sent))'
    BY <1>2 DEF InOrder
  <1>5. QED
    BY <1>3, <1>4 DEF OrderInv

LEMMA LocalCall ==
  ASSUME NEW t \in Threads,
         NEW at \in {"drain", "pumped", "sends", "handler", "lock", "wire"},
         NEW conns \in SUBSET Drives[t], NEW k \in Nat
  PROVE  Call(at, conns, k) \in CallsOf(t)
  <1>1. conns \in SUBSET Conns
    BY JobType
  <1>2. Call(at, conns, k) \in Calls /\ Call(at, conns, k).conns = conns
    BY <1>1, CallType DEF Call
  <1>3. QED
    BY <1>2 DEF CallsOf

LEMMA LocalTop ==
  ASSUME OrderInv, NEW t \in Threads
  PROVE  /\ stack[t] \in Seq(CallsOf(t)) /\ queue[t] \in Seq(JobsOf(t))
         /\ TypeOK /\ queue[t] \in Seq(Jobs)
         /\ ~Idle(t) => /\ Below(t) \in Seq(CallsOf(t))
                        /\ Top(t).conns \in SUBSET Drives[t]
                        /\ Top(t).chunks \in Nat
         /\ queue[t] # <<>> => /\ Head(queue[t]).conns \in SUBSET Drives[t]
                               /\ Tail(queue[t]) \in Seq(JobsOf(t))
                               /\ Head(queue[t]) \in Jobs
         /\ Drives[t] \subseteq Conns
  <1>1. /\ stack[t] \in Seq(CallsOf(t)) /\ queue[t] \in Seq(JobsOf(t))
        /\ TypeOK /\ queue[t] \in Seq(Jobs)
    BY DEF OrderInv, Local, StackInv, TypeOK
  <1>2. ASSUME ~Idle(t)
        PROVE  Below(t) \in Seq(CallsOf(t)) /\ Top(t) \in CallsOf(t)
    BY <1>1, <1>2, FrontOfSeq DEF Idle, Below, Top
  <1>3. ASSUME queue[t] # <<>>
        PROVE  Head(queue[t]) \in JobsOf(t) /\ Tail(queue[t]) \in Seq(JobsOf(t))
    BY <1>1, <1>3
  <1>4. ~Idle(t) => Top(t).conns \in SUBSET Drives[t] /\ Top(t).chunks \in Nat
    BY <1>2 DEF CallsOf, Calls
  <1>5. queue[t] # <<>> => Head(queue[t]).conns \in SUBSET Drives[t] /\ Head(queue[t]) \in Jobs
    BY <1>3 DEF JobsOf
  <1>6. QED
    BY <1>1, <1>2, <1>3, <1>4, <1>5, JobType

\* The calls that leave the queue and the frame counters alone.
LEMMA OrderStepQuiet ==
  ASSUME SeparateTopologies, OrderInv, StackInv', NEW t \in Threads,
         NEW s \in Seq(CallsOf(t)), stack' = [stack EXCEPT ![t] = s],
         UNCHANGED <<queue, sent, received, refused>>
  PROVE  OrderInv'
  <1>1. TypeOK
    BY LocalTop
  <1>2. stack'[t] = s /\ \A u \in Threads \ {t} : stack'[u] = stack[u]
    BY <1>1 DEF TypeOK
  <1>3. QED
    BY <1>2, OrderInvOfThread, LocalTop DEF OrderInv

LEMMA OrderStepStack ==
  ASSUME SeparateTopologies, OrderInv, StackInv', NEW t \in Threads,
         \/ AcquireSendLock(t) \/ SendReturns(t) \/ SendNext(t)
         \/ ActionReturns(t) \/ DrainReturns(t) \/ Raise(t)
  PROVE  OrderInv'
  <1>1. /\ ~Idle(t) /\ Below(t) \in Seq(CallsOf(t))
        /\ Top(t).conns \in SUBSET Drives[t]
    BY LocalTop DEF AcquireSendLock, SendReturns, SendNext, ActionReturns, DrainReturns,
                    Raise, At
  <1>2. CASE AcquireSendLock(t)
    <2>1. PICK c \in Top(t).conns, k \in 1..MaxChunks :
            stack' = [stack EXCEPT ![t] = Append(Below(t), Call("wire", {c}, k))]
      BY <1>2 DEF AcquireSendLock
    <2>2. Call("wire", {c}, k) \in CallsOf(t)
      BY <1>1, LocalCall, ConstantsAssumption
    <2>3. Append(Below(t), Call("wire", {c}, k)) \in Seq(CallsOf(t))
      BY <1>1, <2>2, TopOfAppend
    <2>4. UNCHANGED <<queue, sent, received, refused>>
      BY <1>2 DEF AcquireSendLock
    <2>5. QED
      BY <2>1, <2>3, <2>4, OrderStepQuiet
  <1>3. CASE SendReturns(t)
    <2> DEFINE s == IF Last(Below(t)).at = "pumped"
                    THEN Append(Front(Below(t)), Call("drain", {}, 0))
                    ELSE Below(t)
    <2>1. Call("drain", {}, 0) \in CallsOf(t)
      BY LocalCall
    <2>2. Front(Below(t)) \in Seq(CallsOf(t))
      <3>1. CASE Below(t) # <<>>
        BY <1>1, <3>1, FrontOfSeq
      <3>2. CASE Below(t) = <<>>
        BY <3>2 DEF Front
      <3>3. QED
        BY <3>1, <3>2
    <2>3. s \in Seq(CallsOf(t))
      BY <1>1, <2>1, <2>2, TopOfAppend
    <2>4. stack' = [stack EXCEPT ![t] = s] /\ UNCHANGED <<queue, sent, received, refused>>
      BY <1>3 DEF SendReturns
    <2> HIDE DEF s
    <2>5. QED
      BY <2>3, <2>4, OrderStepQuiet
  <1>4. CASE SendNext(t)
    <2> DEFINE base(c) == Append(Below(t), Call("sends", Top(t).conns \ {c}, 0))
               new(c) == Append(base(c), Call("lock", {c}, 0))
    <2>1. PICK c \in Top(t).conns : PumpedSend(t, c, base(c))
      BY <1>4 DEF SendNext
    <2>2. base(c) \in Seq(CallsOf(t))
      BY <1>1, LocalCall, TopOfAppend
    <2> HIDE DEF base
    <2>3. new(c) \in Seq(CallsOf(t))
      BY <1>1, <2>2, LocalCall, TopOfAppend
    <2>4. draining[t]
      BY <1>1, ShapeAt DEF OrderInv
    <2>5. stack' = [stack EXCEPT ![t] = new(c)] /\ UNCHANGED queue
      BY <2>1, <2>4 DEF PumpedSend
    <2>6. UNCHANGED <<sent, received, refused>>
      BY <1>4 DEF SendNext
    <2> HIDE DEF new
    <2>7. QED
      BY <2>3, <2>5, <2>6, OrderStepQuiet
  <1>5. CASE ActionReturns(t) \/ DrainReturns(t)
    <2>1. stack' = [stack EXCEPT ![t] = Below(t)] /\ UNCHANGED <<queue, sent, received, refused>>
      BY <1>5 DEF ActionReturns, DrainReturns
    <2>2. QED
      BY <1>1, <2>1, OrderStepQuiet
  <1>6. CASE Raise(t)
    <2>1. stack' = [stack EXCEPT ![t] = <<>>] /\ UNCHANGED <<queue, sent, received, refused>>
      BY <1>6 DEF Raise
    <2>2. <<>> \in Seq(CallsOf(t))
      OBVIOUS
    <2>3. QED
      BY <2>1, <2>2, OrderStepQuiet
  <1>7. QED
    BY <1>2, <1>3, <1>4, <1>5, <1>6

LEMMA OrderStepCallIn ==
  ASSUME SeparateTopologies, OrderInv, StackInv', NEW t \in Threads, CallIn(t)
  PROVE  OrderInv'
  <1>1. /\ stack[t] \in Seq(CallsOf(t)) /\ queue[t] \in Seq(JobsOf(t))
        /\ TypeOK /\ queue[t] \in Seq(Jobs) /\ Drives[t] \subseteq Conns
    BY LocalTop
  <1>2. UNCHANGED <<sent, received, refused>>
    BY DEF CallIn
  <1>3. CASE \E job \in EntryJobs(t) : Deliver(t, job, stack[t])
    <2>1. PICK job \in EntryJobs(t) : Deliver(t, job, stack[t])
      BY <1>3
    <2>2. job \in Jobs /\ job \in JobsOf(t) /\ job.kind # "frame"
      BY JobType DEF EntryJobs, HandlerJob, SendsJob, JobsOf
    <2> DEFINE s == IF draining[t] THEN stack[t] ELSE Append(stack[t], Call("drain", {}, 0))
    <2>3. s \in Seq(CallsOf(t))
      BY <1>1, LocalCall, TopOfAppend
    <2>4. /\ stack' = [stack EXCEPT ![t] = s]
          /\ queue' = [queue EXCEPT ![t] = Append(@, job)]
      BY <2>1 DEF Deliver
    <2> HIDE DEF s
    <2>5. /\ stack'[t] = s /\ queue'[t] = Append(queue[t], job)
          /\ \A u \in Threads \ {t} : stack'[u] = stack[u] /\ queue'[u] = queue[u]
      BY <1>1, <2>4 DEF TypeOK
    <2>6. queue'[t] \in Seq(JobsOf(t))
      BY <1>1, <2>2, <2>5, TopOfAppend
    <2>7. InOrder(queue'[t], Drives[t], received', sent')
      <3>1. /\ received \in [Conns -> Nat] /\ sent \in [Conns -> Nat]
            /\ InOrder(queue[t], Drives[t], received, sent)
        BY <1>1 DEF TypeOK, OrderInv
      <3>2. InOrder(Append(queue[t], job), Drives[t], received, sent)
        BY <1>1, <2>2, <3>1, AppendOther
      <3>3. QED
        BY <1>2, <2>5, <3>2
    <2>8. QED
      BY <1>2, <2>3, <2>5, <2>6, <2>7, OrderInvOfThread DEF OrderInv
  <1>4. CASE \E c \in Drives[t] : PumpedSend(t, c, stack[t])
    <2>1. PICK c \in Drives[t] : PumpedSend(t, c, stack[t])
      BY <1>4
    <2> DEFINE base == IF draining[t] THEN stack[t] ELSE Append(stack[t], Call("pumped", {}, 0))
               s == Append(base, Call("lock", {c}, 0))
    <2>2. base \in Seq(CallsOf(t))
      BY <1>1, LocalCall, TopOfAppend
    <2>3. stack' = [stack EXCEPT ![t] = s] /\ UNCHANGED queue
      BY <2>1 DEF PumpedSend
    <2> HIDE DEF base
    <2>4. s \in Seq(CallsOf(t))
      BY <2>2, LocalCall, TopOfAppend
    <2> HIDE DEF s
    <2>5. QED
      BY <1>2, <2>3, <2>4, OrderStepQuiet
  <1>5. QED
    BY <1>3, <1>4 DEF CallIn

LEMMA OrderStepReceive ==
  ASSUME SeparateTopologies, OrderInv, StackInv', NEW t \in Threads, ReceiveRaw(t)
  PROVE  OrderInv'
  <1> DEFINE new(c) == Append(Below(t), Call("wire", {c}, Top(t).chunks - 1))
  <1>1. PICK c \in Top(t).conns :
          /\ sent' = [sent EXCEPT ![c] = @ + 1]
          /\ Deliver(t, FrameJob(c, sent[c] + 1), new(c))
    BY DEF ReceiveRaw
  <1>2. ~Idle(t) /\ Top(t).chunks > 0 /\ UNCHANGED <<received, refused>>
    BY DEF ReceiveRaw, At
  <1>3. /\ c \in Drives[t] /\ c \in Conns
        /\ Below(t) \in Seq(CallsOf(t))
        /\ Top(t).chunks - 1 \in Nat
        /\ queue[t] \in Seq(JobsOf(t)) /\ queue[t] \in Seq(Jobs)
        /\ TypeOK /\ Drives[t] \in SUBSET Conns
    <2>1. Below(t) \in Seq(CallsOf(t)) /\ Top(t).conns \in SUBSET Drives[t] /\ Top(t).chunks \in Nat
      BY <1>2, LocalTop
    <2>2. /\ queue[t] \in Seq(JobsOf(t)) /\ queue[t] \in Seq(Jobs)
          /\ TypeOK /\ Drives[t] \subseteq Conns
      BY LocalTop
    <2>3. c \in Drives[t] /\ c \in Conns
      BY <2>1, <2>2
    <2>4. Top(t).chunks - 1 \in Nat
      BY <1>2, <2>1
    <2>5. QED
      BY <2>1, <2>2, <2>3, <2>4
  <1>4. /\ received \in [Conns -> Nat] /\ sent \in [Conns -> Nat]
        /\ sent[c] \in Nat /\ received[c] \in Nat /\ received[c] <= sent[c]
        /\ InOrder(queue[t], Drives[t], received, sent)
    BY <1>3 DEF TypeOK, OrderInv
  <1>5. new(c) \in Seq(CallsOf(t))
    BY <1>3, LocalCall, TopOfAppend
  <1> DEFINE job == FrameJob(c, sent[c] + 1)
  <1>6. job \in JobsOf(t)
    BY <1>3, <1>4, JobType, FrameJobFields DEF JobsOf
  <1>7. Append(queue[t], job) \in Seq(JobsOf(t))
    BY <1>3, <1>6, TopOfAppend
  <1>8. draining[t]
    BY <1>2, ShapeAt DEF OrderInv
  <1>9. InOrder(Append(queue[t], job), Drives[t], received, sent')
    BY <1>1, <1>3, <1>4, AppendFrame
  <1> HIDE DEF new, job
  <1>10. /\ stack'[t] = new(c) /\ queue'[t] = Append(queue[t], job)
         /\ \A u \in Threads \ {t} : stack'[u] = stack[u] /\ queue'[u] = queue[u]
    BY <1>1, <1>3, <1>8 DEF Deliver, TypeOK, job
  <1>11. /\ \A d \in Conns : received'[d] <= sent'[d]
         /\ \A d \in Conns \ Drives[t] : received'[d] = received[d] /\ sent'[d] = sent[d]
    <2>1. \A d \in Conns : received[d] <= sent[d] /\ sent[d] \in Nat /\ received[d] \in Nat
      BY <1>3 DEF OrderInv, TypeOK
    <2>2. \A d \in Conns : sent'[d] = IF d = c THEN sent[d] + 1 ELSE sent[d]
      BY <1>1, <1>4
    <2>3. QED
      BY <1>2, <1>3, <2>1, <2>2
  <1>12. InOrder(queue'[t], Drives[t], received', sent')
    BY <1>2, <1>9, <1>10
  <1>13. QED
    BY <1>2, <1>5, <1>7, <1>10, <1>11, <1>12, OrderInvOfThread DEF OrderInv

LEMMA OrderStepRunAction ==
  ASSUME SeparateTopologies, OrderInv, StackInv', NEW t \in Threads, RunAction(t)
  PROVE  OrderInv'
  <1> DEFINE job == Head(queue[t])
             s == Append(stack[t], Call(job.kind, job.conns, 0))
  <1>1. /\ queue[t] # <<>> /\ job.kind \in {"sends", "handler"}
        /\ queue' = [queue EXCEPT ![t] = Tail(@)]
        /\ stack' = [stack EXCEPT ![t] = s]
        /\ UNCHANGED <<sent, received, refused>>
    BY DEF RunAction, RunJob
  <1>2. /\ stack[t] \in Seq(CallsOf(t)) /\ queue[t] \in Seq(Jobs) /\ TypeOK
        /\ job.conns \in SUBSET Drives[t] /\ Tail(queue[t]) \in Seq(JobsOf(t))
        /\ Drives[t] \in SUBSET Conns
    BY <1>1, LocalTop
  <1>3. s \in Seq(CallsOf(t))
    BY <1>1, <1>2, LocalCall, TopOfAppend
  <1>4. InOrder(Tail(queue[t]), Drives[t], received, sent)
    <2>1. /\ received \in [Conns -> Nat] /\ sent \in [Conns -> Nat]
          /\ InOrder(queue[t], Drives[t], received, sent)
      BY <1>2 DEF TypeOK, OrderInv
    <2>2. job.kind # "frame"
      BY <1>1
    <2>3. QED
      BY <1>1, <1>2, <2>1, <2>2, TailOther
  <1> HIDE DEF s
  <1>5. /\ stack'[t] = s /\ queue'[t] = Tail(queue[t])
        /\ \A u \in Threads \ {t} : stack'[u] = stack[u] /\ queue'[u] = queue[u]
    BY <1>1, <1>2 DEF TypeOK
  <1>6. InOrder(queue'[t], Drives[t], received', sent')
    BY <1>1, <1>4, <1>5
  <1>7. QED
    BY <1>1, <1>2, <1>3, <1>5, <1>6, OrderInvOfThread DEF OrderInv

LEMMA OrderStepDecode ==
  ASSUME SeparateTopologies, OrderInv, StackInv', NEW t \in Threads, DecodeAndDispatch(t)
  PROVE  OrderInv'
  <1> DEFINE job == Head(queue[t])
             s == Append(stack[t], Call("handler", {}, 0))
  <1>1. /\ queue[t] # <<>> /\ job.kind = "frame"
        /\ queue' = [queue EXCEPT ![t] = Tail(@)]
        /\ UNCHANGED sent
    BY DEF DecodeAndDispatch, RunJob
  <1>2. /\ stack[t] \in Seq(CallsOf(t)) /\ queue[t] \in Seq(Jobs) /\ TypeOK
        /\ job.conns \in SUBSET Drives[t] /\ Tail(queue[t]) \in Seq(JobsOf(t))
        /\ Drives[t] \in SUBSET Conns
    BY <1>1, LocalTop
  <1>3. s \in Seq(CallsOf(t))
    BY <1>2, LocalCall, TopOfAppend
  <1>4. /\ received \in [Conns -> Nat] /\ sent \in [Conns -> Nat]
        /\ InOrder(queue[t], Drives[t], received, sent)
    BY <1>2 DEF TypeOK, OrderInv
  <1>5. PICK c \in Drives[t] : job.conns = {c}
    <2>1. 1 \in 1..Len(queue[t]) /\ job = queue[t][1]
      BY <1>1, <1>2
    <2>2. PICK c \in Drives[t] : queue[t][1] = FrameJob(c, queue[t][1].no)
      BY <1>1, <1>4, <2>1 DEF InOrder
    <2>3. job.conns = {c}
      BY <2>1, <2>2, FrameJobFields
    <2>4. QED
      BY <2>3
  <1>6. /\ job.no = received[c] + 1
        /\ received[c] + 1 <= sent[c]
        /\ InOrder(Tail(queue[t]), Drives[t], [received EXCEPT ![c] = @ + 1], sent)
    BY <1>1, <1>2, <1>4, <1>5, TailFrame
  <1>7. /\ received' = [received EXCEPT ![c] = @ + 1]
        /\ stack' = [stack EXCEPT ![t] = s]
        /\ UNCHANGED refused
    BY <1>5, <1>6 DEF DecodeAndDispatch
  <1> HIDE DEF s
  <1>8. /\ stack'[t] = s /\ queue'[t] = Tail(queue[t])
        /\ \A u \in Threads \ {t} : stack'[u] = stack[u] /\ queue'[u] = queue[u]
    BY <1>1, <1>2, <1>7 DEF TypeOK
  <1>9. /\ \A d \in Conns : received'[d] <= sent'[d]
        /\ \A d \in Conns \ Drives[t] : received'[d] = received[d] /\ sent'[d] = sent[d]
    <2>1. \A d \in Conns : received[d] <= sent[d]
      BY DEF OrderInv
    <2>2. \A d \in Conns : received'[d] = IF d = c THEN received[d] + 1 ELSE received[d]
      BY <1>4, <1>7
    <2>3. QED
      BY <1>1, <1>6, <2>1, <2>2
  <1>10. InOrder(queue'[t], Drives[t], received', sent')
    BY <1>1, <1>6, <1>7, <1>8
  <1>11. QED
    BY <1>1, <1>2, <1>3, <1>7, <1>8, <1>9, <1>10, OrderInvOfThread DEF OrderInv

LEMMA OrderStep ==
  ASSUME SeparateTopologies, OrderInv, [Next]_vars
  PROVE  OrderInv'
  <1>1. StackInv'
    BY StackStep DEF OrderInv
  <1>2. CASE UNCHANGED vars
    BY <1>1, <1>2, ZenonT(60)
       DEF vars, OrderInv, Local, CallsOf, JobsOf, InOrder
  <1>3. ASSUME NEW t \in Threads, CallIn(t) \/ Continue(t) \/ Raise(t)
        PROVE  OrderInv'
    BY <1>1, <1>3, OrderStepStack, OrderStepCallIn, OrderStepReceive, OrderStepRunAction,
       OrderStepDecode DEF Continue
  <1>4. QED
    BY <1>2, <1>3 DEF Next

LEMMA OrderInit == Init => OrderInv
  <1> SUFFICES ASSUME Init
               PROVE  OrderInv
    OBVIOUS
  <1>1. StackInv
    BY StackInit
  <1>2. \A t \in Threads : stack[t] = <<>> /\ queue[t] = <<>>
    BY DEF Init
  <1>3. Local
    <2>1. \A t \in Threads : <<>> \in Seq(CallsOf(t)) /\ <<>> \in Seq(JobsOf(t))
      OBVIOUS
    <2>2. QED
      BY <1>2, <2>1, Zenon DEF Local
  <1>4. refused = {} /\ \A c \in Conns : received[c] = 0 /\ sent[c] = 0
    BY DEF Init
  <1>5. ASSUME NEW t \in Threads
        PROVE  InOrder(queue[t], Drives[t], received, sent)
    <2>1. \A c \in Drives[t] : received[c] = 0 /\ sent[c] = 0
      BY <1>4, JobType
    <2>2. \A i \in 1..Len(queue[t]) : FALSE
      BY <1>2
    <2>3. QED
      BY <2>1, <2>2 DEF InOrder
  <1>6. QED
    BY <1>1, <1>3, <1>4, <1>5 DEF OrderInv

\* Threads that drive separate topologies never see a frame refused: every
\* frame of every connection is decoded when its receiver expects it, with
\* exceptions unwinding any number of drains in between.
THEOREM PumpKeepsOrder == SeparateTopologies => (Spec => []FramesInOrder)
  <1> SUFFICES ASSUME SeparateTopologies
               PROVE  Spec => []FramesInOrder
    OBVIOUS
  <1>1. OrderInv /\ [Next]_vars => OrderInv'
    BY OrderStep
  <1>2. OrderInv => FramesInOrder
    BY DEF OrderInv, FramesInOrder
  <1>3. QED
    BY <1>1, <1>2, OrderInit, PTL DEF Spec

-----------------------------------------------------------------------------
(***************************************************************************)
(* The pump implements a socket.  Under the order invariant the frames of  *)
(* c in its driver's queue are those sent and not yet received, one after  *)
(* the other, so the wire of FrameChannel is Pending(received, sent).      *)
(***************************************************************************)
Pending(r, s) == [n \in 1..s - r |-> r + n]

\* The places 1..k of a strictly increasing enumeration are counted by Nth.
LEMMA NthPlace ==
  ASSUME NEW k \in Nat, NEW P \in SUBSET Nat, NEW f \in [1..k -> P],
         \A i \in P : \E n \in 1..k : f[n] = i,
         \A m, n \in 1..k : m < n => f[m] < f[n]
  PROVE  /\ Cardinality(P) = k
         /\ \A n \in 1..k : Nth(P, n) = f[n]
  <1>1. \A m, n \in 1..k : f[m] <= f[n] <=> m <= n
    <2> SUFFICES ASSUME NEW m \in 1..k, NEW n \in 1..k
                 PROVE  f[m] <= f[n] <=> m <= n
      OBVIOUS
    <2>1. f[m] \in Nat /\ f[n] \in Nat /\ m \in Nat /\ n \in Nat
      <3>1. f[m] \in P /\ f[n] \in P
        OBVIOUS
      <3>2. \A x \in P : x \in Nat
        OBVIOUS
      <3>3. \A x \in 1..k : x \in Nat
        OBVIOUS
      <3>4. QED
        BY <3>1, <3>2, <3>3, Zenon
    <2>2. m < n \/ n < m \/ m = n
      BY <2>1
    <2>3. QED
      BY <2>1, <2>2
  <1>2. ASSUME NEW n \in 1..k
        PROVE  Cardinality({j \in P : j <= f[n]}) = n
    <2> DEFINE Q == {j \in P : j <= f[n]}
               g == [m \in 1..n |-> f[m]]
    <2>1. n \in Nat /\ \A m \in 1..n : m \in 1..k /\ m <= n
      OBVIOUS
    <2>2. g \in [1..n -> Q]
      BY <1>1, <2>1
    <2>3. \A i, j \in 1..n : g[i] = g[j] => i = j
      BY <1>1, <2>1
    <2>4. \A i \in Q : \E m \in 1..n : g[m] = i
      <3> SUFFICES ASSUME NEW i \in Q
                   PROVE  \E m \in 1..n : g[m] = i
        OBVIOUS
      <3>1. PICK m \in 1..k : f[m] = i
        OBVIOUS
      <3>2. m \in 1..n
        BY <1>1, <3>1
      <3>3. QED
        BY <3>1, <3>2
    <2> HIDE DEF g, Q
    <2>5. ExistsBijection(1..n, Q)
      <3>1. g \in Bijection(1..n, Q)
        BY <2>2, <2>3, <2>4, Fun_IsBij
      <3>2. QED
        BY <3>1 DEF ExistsBijection
    <2>6. QED
      BY <2>1, <2>5, FS_CountingElements DEF Q
  <1>3. Cardinality(P) = k
    <2>1. \A i, j \in 1..k : f[i] = f[j] => i = j
      BY <1>1
    <2>2. ExistsBijection(1..k, P)
      <3>1. f \in Bijection(1..k, P)
        BY <2>1, Fun_IsBij
      <3>2. QED
        BY <3>1 DEF ExistsBijection
    <2>3. QED
      BY <2>2, FS_CountingElements
  <1>4. ASSUME NEW n \in 1..k
        PROVE  Nth(P, n) = f[n]
    <2>1. \A i \in P : Cardinality({j \in P : j <= i}) = n => i = f[n]
      <3> SUFFICES ASSUME NEW i \in P, Cardinality({j \in P : j <= i}) = n
                   PROVE  i = f[n]
        OBVIOUS
      <3>1. PICK m \in 1..k : f[m] = i
        OBVIOUS
      <3>2. Cardinality({j \in P : j <= i}) = m
        BY <1>2, <3>1
      <3>3. QED
        BY <3>1, <3>2
    <2>2. f[n] \in P /\ Cardinality({j \in P : j <= f[n]}) = n
      BY <1>2
    <2>3. QED
      BY <2>1, <2>2 DEF Nth
  <1>5. QED
    BY <1>3, <1>4

\* What an ordered queue holds of one of its connections.
LEMMA FramesOfConn ==
  ASSUME NEW D \in SUBSET Conns, NEW q \in Seq(Jobs), NEW c \in D,
         NEW r \in [Conns -> Nat], NEW s \in [Conns -> Nat], r[c] <= s[c],
         InOrder(q, D, r, s)
  PROVE  FramesOf(c, q) = Pending(r[c], s[c])
  <1> DEFINE places == {i \in DOMAIN q : q[i].kind = "frame" /\ c \in q[i].conns}
             k == s[c] - r[c]
             f == [n \in 1..k |-> CHOOSE i \in 1..Len(q) : q[i] = FrameJob(c, r[c] + n)]
  <1>1. /\ r[c] \in Nat /\ s[c] \in Nat /\ k \in Nat
        /\ \A n \in 1..k : r[c] + n \in Nat /\ r[c] < r[c] + n /\ r[c] + n <= s[c]
    OBVIOUS
  <1>2. DOMAIN q = 1..Len(q) /\ Len(q) \in Nat
    OBVIOUS
  <1>3. \A n \in 1..k : f[n] \in 1..Len(q) /\ q[f[n]] = FrameJob(c, r[c] + n)
    <2> SUFFICES ASSUME NEW n \in 1..k
                 PROVE  f[n] \in 1..Len(q) /\ q[f[n]] = FrameJob(c, r[c] + n)
      OBVIOUS
    <2>1. \E i \in 1..Len(q) : q[i] = FrameJob(c, r[c] + n)
      BY <1>1 DEF InOrder
    <2>2. QED
      BY <2>1
  <1> HIDE DEF f
  <1>4. f \in [1..k -> places]
    <2>1. \A n \in 1..k : f[n] \in places
      BY <1>2, <1>3, FrameJobFields
    <2>2. QED
      BY <2>1 DEF f
  <1>5. \A i \in places : \E n \in 1..k : f[n] = i
    <2> SUFFICES ASSUME NEW i \in places
                 PROVE  \E n \in 1..k : f[n] = i
      OBVIOUS
    <2>1. i \in 1..Len(q) /\ q[i].kind = "frame" /\ c \in q[i].conns
      BY <1>2
    <2>2. PICK d \in D : q[i] = FrameJob(d, q[i].no) /\ r[d] < q[i].no /\ q[i].no <= s[d]
      BY <2>1 DEF InOrder
    <2>3. d = c
      BY <2>1, <2>2, FrameJobFields
    <2>4. q[i].no \in Nat
      <3>1. q[i] \in Jobs
        BY <2>1
      <3>2. QED
        BY <3>1 DEF Jobs
    <2> DEFINE n == q[i].no - r[c]
    <2>5. n \in 1..k /\ q[i].no = r[c] + n
      BY <1>1, <2>2, <2>3, <2>4
    <2>6. q[f[n]] = FrameJob(c, q[i].no)
      BY <1>3, <2>5
    <2>7. /\ q[f[n]].kind = "frame" /\ q[f[n]].conns = {c} /\ q[f[n]].no = q[i].no
          /\ q[i].conns = {c} /\ f[n] \in 1..Len(q)
      BY <1>3, <2>2, <2>3, <2>5, <2>6, FrameJobFields
    <2> HIDE DEF n
    <2>8. ASSUME NEW a \in 1..Len(q), NEW b \in 1..Len(q), a < b,
                 q[a].kind = "frame", q[b].kind = "frame", q[a].conns = q[b].conns
          PROVE  q[a].no < q[b].no
      BY <2>8 DEF InOrder
    <2>9. ~(q[i].no < q[i].no)
      BY <2>4
    <2>10. ~(f[n] < i) /\ ~(i < f[n])
      BY <2>1, <2>7, <2>8, <2>9
    <2>11. QED
      BY <1>2, <2>1, <2>5, <2>7, <2>10
  <1>6. \A m, n \in 1..k : m < n => f[m] < f[n]
    <2> SUFFICES ASSUME NEW m \in 1..k, NEW n \in 1..k, m < n
                 PROVE  f[m] < f[n]
      OBVIOUS
    <2>1. /\ q[f[m]].kind = "frame" /\ q[f[m]].conns = {c} /\ q[f[m]].no = r[c] + m
          /\ q[f[n]].kind = "frame" /\ q[f[n]].conns = {c} /\ q[f[n]].no = r[c] + n
          /\ f[m] \in 1..Len(q) /\ f[n] \in 1..Len(q)
      BY <1>3, FrameJobFields
    <2>2. r[c] + m < r[c] + n
      BY <1>1
    <2>3. f[m] # f[n]
      BY <1>1, <2>1, <2>2
    <2>4. ~(f[n] < f[m])
      <3>1. f[n] < f[m] => r[c] + n < r[c] + m
        BY <2>1 DEF InOrder
      <3>2. QED
        BY <1>1, <2>2, <3>1
    <2>5. QED
      BY <1>2, <2>1, <2>3, <2>4
  <1>7. places \in SUBSET Nat
    BY <1>2
  <1> HIDE DEF k, places
  <1>8. Cardinality(places) = k /\ \A n \in 1..k : Nth(places, n) = f[n]
    BY <1>1, <1>4, <1>5, <1>6, <1>7, NthPlace
  <1>9. \A n \in 1..k : q[Nth(places, n)].no = r[c] + n
    BY <1>3, <1>8, FrameJobFields
  <1>10. QED
    BY <1>8, <1>9 DEF FramesOf, Pending, k, places

LEMMA PendingStep ==
  ASSUME NEW r \in Nat, NEW s \in Nat, r <= s
  PROVE  /\ Pending(r, s + 1) = Append(Pending(r, s), s + 1)
         /\ r < s => /\ Pending(r, s) # <<>>
                     /\ Head(Pending(r, s)) = r + 1
                     /\ Tail(Pending(r, s)) = Pending(r + 1, s)
  <1>1. /\ s - r \in Nat /\ s + 1 - r = (s - r) + 1 /\ s - (r + 1) = (s - r) - 1
        /\ Pending(r, s) \in Seq(Nat) /\ Len(Pending(r, s)) = s - r
    BY DEF Pending
  <1>2. Pending(r, s + 1) = Append(Pending(r, s), s + 1)
    BY <1>1 DEF Pending
  <1>3. ASSUME r < s
        PROVE  /\ Pending(r, s) # <<>>
               /\ Head(Pending(r, s)) = r + 1
               /\ Tail(Pending(r, s)) = Pending(r + 1, s)
    <2> DEFINE p == Pending(r, s)
    <2>1. p \in Seq(Nat) /\ Len(p) = s - r /\ Len(p) \in Nat \ {0}
          /\ \A n \in 1..s - r : p[n] = r + n
      BY <1>1, <1>3 DEF Pending
    <2> HIDE DEF p
    <2>2. p # <<>> /\ Head(p) = r + 1
      BY <2>1
    <2> DEFINE rest == Pending(r + 1, s)
    <2>3. /\ rest \in Seq(Nat) /\ Len(rest) = (s - r) - 1
          /\ \A n \in 1..(s - r) - 1 : rest[n] = (r + 1) + n
      BY <1>1, <1>3 DEF Pending
    <2> HIDE DEF rest
    <2>4. /\ Tail(p) \in Seq(Nat) /\ Len(Tail(p)) = Len(p) - 1
          /\ \A n \in 1..Len(p) - 1 : Tail(p)[n] = p[n + 1]
      BY <2>1
    <2>5. \A n \in 1..(s - r) - 1 : Tail(p)[n] = rest[n]
      BY <2>1, <2>3, <2>4
    <2>6. Tail(p) = Pending(r + 1, s)
      <3>1. Len(Tail(p)) = Len(rest) /\ \A n \in 1..Len(Tail(p)) : Tail(p)[n] = rest[n]
        BY <2>1, <2>3, <2>4, <2>5
      <3>2. Tail(p) = rest
        BY <2>3, <2>4, <3>1, SeqEqual, Zenon
      <3>3. QED
        BY <3>2 DEF rest
    <2>7. QED
      BY <2>2, <2>6 DEF p
  <1>4. QED
    BY <1>2, <1>3

\* The mapped wire.
WireInv == \A c \in Conns : InFlight(c) = Pending(received[c], sent[c])

LEMMA WireIsPending ==
  ASSUME EveryConnIsDriven, OrderInv
  PROVE  WireInv
  <1> SUFFICES ASSUME NEW c \in Conns
               PROVE  InFlight(c) = Pending(received[c], sent[c])
    BY DEF WireInv
  <1>1. PICK t \in Threads : t = DriverOf(c) /\ c \in Drives[t]
    BY DEF EveryConnIsDriven, DriverOf
  <1>2. /\ queue[t] \in Seq(Jobs) /\ TypeOK /\ Drives[t] \in SUBSET Conns
        /\ InOrder(queue[t], Drives[t], received, sent) /\ received[c] <= sent[c]
    BY <1>1, LocalTop DEF OrderInv
  <1>3. received \in [Conns -> Nat] /\ sent \in [Conns -> Nat]
    BY <1>2 DEF TypeOK
  <1>4. FramesOf(c, queue[t]) = Pending(received[c], sent[c])
    BY <1>1, <1>2, <1>3, FramesOfConn
  <1>5. QED
    BY <1>1, <1>4 DEF InFlight

\* A decode takes the frame its connection expects.
LEMMA DecodeReceives ==
  ASSUME OrderInv, NEW t \in Threads, DecodeAndDispatch(t)
  PROVE  \E c \in Conns : /\ received[c] < sent[c]
                           /\ received' = [received EXCEPT ![c] = @ + 1]
  <1> DEFINE job == Head(queue[t])
  <1>1. queue[t] # <<>> /\ job.kind = "frame"
    BY DEF DecodeAndDispatch, RunJob
  <1>2. /\ queue[t] \in Seq(Jobs) /\ TypeOK /\ Drives[t] \in SUBSET Conns
        /\ InOrder(queue[t], Drives[t], received, sent)
    BY LocalTop DEF OrderInv
  <1>3. received \in [Conns -> Nat] /\ sent \in [Conns -> Nat]
    BY <1>2 DEF TypeOK
  <1>4. PICK c \in Drives[t] : job.conns = {c}
    <2>1. 1 \in 1..Len(queue[t]) /\ job = queue[t][1]
      BY <1>1, <1>2
    <2>2. PICK c \in Drives[t] : queue[t][1] = FrameJob(c, queue[t][1].no)
      BY <1>1, <1>2, <2>1 DEF InOrder
    <2>3. job.conns = {c}
      BY <2>1, <2>2, FrameJobFields
    <2>4. QED
      BY <2>3
  <1>5. /\ job.no = received[c] + 1
        /\ received[c] + 1 <= sent[c]
        /\ InOrder(Tail(queue[t]), Drives[t], [received EXCEPT ![c] = @ + 1], sent)
    BY <1>1, <1>2, <1>3, <1>4, TailFrame
  <1>6. received' = [received EXCEPT ![c] = @ + 1]
    BY <1>4, <1>5 DEF DecodeAndDispatch
  <1>7. c \in Conns /\ received[c] < sent[c]
    BY <1>2, <1>3, <1>5
  <1>8. QED
    BY <1>6, <1>7

LEMMA SocketStep ==
  ASSUME OrderInv, WireInv, WireInv', [Next]_vars
  PROVE  [Socket!Next]_(Socket!vars)
  <1> DEFINE wire == [c \in Conns |-> InFlight(c)]
  <1>1. /\ wire = [c \in Conns |-> Pending(received[c], sent[c])]
        /\ wire' = [c \in Conns |-> Pending(received'[c], sent'[c])]
    BY DEF WireInv
  <1>2. \A c \in Conns : received[c] \in Nat /\ sent[c] \in Nat
    BY DEF OrderInv, StackInv, TypeOK
  <1>3. /\ received \in [Conns -> Nat] /\ sent \in [Conns -> Nat]
        /\ \A c \in Conns : received[c] <= sent[c]
    BY DEF OrderInv, StackInv, TypeOK
  <1> HIDE DEF wire
  <1>4. ASSUME UNCHANGED <<sent, received>>
        PROVE  UNCHANGED Socket!vars
    BY <1>1, <1>4 DEF Socket!vars, wire
  <1>5. ASSUME NEW c \in Conns, sent' = [sent EXCEPT ![c] = @ + 1], UNCHANGED received
        PROVE  Socket!Write(c)
    <2>1. Pending(received[c], sent[c] + 1) = Append(Pending(received[c], sent[c]), sent[c] + 1)
      BY <1>2, <1>3, PendingStep
    <2>2. \A d \in Conns : sent'[d] = IF d = c THEN sent[c] + 1 ELSE sent[d]
      BY <1>3, <1>5
    <2>3. wire' = [wire EXCEPT ![c] = Append(wire[c], sent[c] + 1)]
      BY <1>1, <1>5, <2>1, <2>2
    <2>4. QED
      BY <1>5, <2>3 DEF Socket!Write, wire
  <1>6. ASSUME NEW c \in Conns, received[c] < sent[c],
               received' = [received EXCEPT ![c] = @ + 1], UNCHANGED sent
        PROVE  Socket!Arrive(c)
    <2> DEFINE p == Pending(received[c], sent[c])
    <2>1. p # <<>> /\ Head(p) = received[c] + 1 /\ Tail(p) = Pending(received[c] + 1, sent[c])
      BY <1>2, <1>3, <1>6, PendingStep
    <2>2. \A d \in Conns : received'[d] = IF d = c THEN received[c] + 1 ELSE received[d]
      BY <1>3, <1>6
    <2>3. wire[c] = p
      BY <1>1
    <2> HIDE DEF p
    <2>4. wire' = [wire EXCEPT ![c] = Tail(wire[c])]
      BY <1>1, <1>6, <2>1, <2>2, <2>3
    <2>5. QED
      BY <1>6, <2>1, <2>3, <2>4 DEF Socket!Arrive, wire
  <1>7. ASSUME NEW t \in Threads, ReceiveRaw(t)
        PROVE  \E c \in Conns : Socket!Write(c)
    <2>1. Top(t).conns \in SUBSET Conns
      BY <1>7, LocalTop DEF ReceiveRaw, At
    <2>2. PICK c \in Top(t).conns : sent' = [sent EXCEPT ![c] = @ + 1]
      BY <1>7 DEF ReceiveRaw
    <2>3. UNCHANGED received
      BY <1>7 DEF ReceiveRaw
    <2>4. QED
      BY <1>5, <2>1, <2>2, <2>3
  <1>8. ASSUME NEW t \in Threads, DecodeAndDispatch(t)
        PROVE  \E c \in Conns : Socket!Arrive(c)
    <2>1. PICK c \in Conns : /\ received[c] < sent[c]
                             /\ received' = [received EXCEPT ![c] = @ + 1]
      BY <1>8, DecodeReceives
    <2>2. UNCHANGED sent
      BY <1>8 DEF DecodeAndDispatch
    <2>3. QED
      BY <1>6, <2>1, <2>2
  <1>9. ASSUME NEW t \in Threads,
               \/ CallIn(t) \/ AcquireSendLock(t) \/ SendReturns(t) \/ RunAction(t)
               \/ SendNext(t) \/ ActionReturns(t) \/ DrainReturns(t) \/ Raise(t)
        PROVE  UNCHANGED Socket!vars
    <2>1. UNCHANGED <<sent, received>>
      BY <1>9 DEF CallIn, AcquireSendLock, SendReturns, RunAction, SendNext,
                  ActionReturns, DrainReturns, Raise
    <2>2. QED
      BY <1>4, <2>1
  <1>10. CASE UNCHANGED vars
    BY <1>4, <1>10 DEF vars
  <1>11. ASSUME NEW t \in Threads, CallIn(t) \/ Continue(t) \/ Raise(t)
         PROVE  [Socket!Next]_(Socket!vars)
    BY <1>7, <1>8, <1>9, <1>11 DEF Continue, Socket!Next
  <1>12. QED
    BY <1>10, <1>11 DEF Next

LEMMA SocketInit ==
  ASSUME EveryConnIsDriven, Init
  PROVE  Socket!Init
  <1>1. /\ WireInv
        /\ sent = [c \in Conns |-> 0] /\ received = [c \in Conns |-> 0]
    BY OrderInit, WireIsPending DEF Init
  <1>2. Pending(0, 0) = <<>>
    BY DEF Pending
  <1>3. [c \in Conns |-> InFlight(c)] = [c \in Conns |-> <<>>]
    BY <1>1, <1>2 DEF WireInv
  <1>4. QED
    BY <1>1, <1>3 DEF Socket!Init

\* The pump with exceptions, re-entrant calls and several threads is, on each
\* connection, a socket (FrameChannel): frames arrive complete, once and in the
\* order they were written, when no two threads drive one topology.
THEOREM PumpIsASocket ==
  SeparateTopologies /\ EveryConnIsDriven => (Spec => SocketSafe)
  <1> SUFFICES ASSUME SeparateTopologies, EveryConnIsDriven
               PROVE  Spec => SocketSafe
    OBVIOUS
  <1>1. OrderInv /\ [Next]_vars => OrderInv'
    BY OrderStep
  <1>2. OrderInv => WireInv
    BY WireIsPending
  <1>3. OrderInv /\ WireInv /\ WireInv' /\ [Next]_vars => [Socket!Next]_(Socket!vars)
    BY SocketStep
  <1>4. Init => Socket!Init
    BY SocketInit
  <1>5. QED
    BY <1>1, <1>2, <1>3, <1>4, OrderInit, PTL DEF Spec, SocketSafe, Socket!Safe

=============================================================================
