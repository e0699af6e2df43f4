---------------------------- MODULE StationProofs ----------------------------
(***************************************************************************)
(* The tasks use the communication layer as MessageQueue describes it, so  *)
(* the theorems about the layer are theorems about the station, for any    *)
(* workers, rounds and readings.  Then the station's own types, and what   *)
(* TrafficProofs needs to know of messages on their way.                   *)
(***************************************************************************)
EXTENDS Station, MessageQueueProofs, FunctionTheorems

\* What a handler still has to send are messages.
TodoOK == todo \in [Task -> Seq(Message)]

LEMMA MsgType ==
  ASSUME NEW s \in Task, NEW d \in Task, NEW r \in Request
  PROVE  Msg(s, d, r) \in Message
BY DEF Msg, Message

LEMMA WorkerType == \A i \in Slot : Worker[i] \in Task /\ Worker[i] # Main
BY StationAssumption DEF Slot

LEMMA InitTodo == StationInit => TodoOK
<1>1. Msg(Main, Log, "LOG_MSG") \in Message
  <2>1. Log \in Task /\ Main \in Task /\ "LOG_MSG" \in Request
    BY StationAssumption, WorkerType DEF Slot
  <2> QED  BY <2>1, MsgType
<1> QED  BY <1>1 DEF StationInit, TodoOK

\* Whatever message a worker handles, it replies with messages.
LEMMA ReplyType ==
  ASSUME NEW t \in Task, NEW m
  PROVE  Reply(t, m) \in Seq(Message)
<1>1. Main \in Task /\ "HEART_BEAT" \in Request
  BY StationAssumption
<1>2. ASSUME m.requestId \in TempRequest \cup LightRequest
      PROVE  Socket \in Task /\ m.requestId \in Request
  BY <1>2, StationAssumption DEF TempRequest, LightRequest
<1>3. Msg(t, Main, "HEART_BEAT") \in Message
  BY <1>1, MsgType
<1>4. m.requestId \in TempRequest \cup LightRequest =>
        Msg(t, Socket, m.requestId) \in Message
  BY <1>2, MsgType
<1>5. t = Temp => TempReply(m) \in Seq(Message)
  BY <1>3, <1>4 DEF TempReply, BeatReply
<1>6. t = Light => LightReply(m) \in Seq(Message)
  BY <1>3, <1>4 DEF LightReply, BeatReply
<1> QED  BY <1>3, <1>5, <1>6 DEF Reply, BeatReply

LEMMA NextTodo == TodoOK /\ [StationNext]_stationVars => TodoOK'
<1> SUFFICES ASSUME TodoOK, [StationNext]_stationVars PROVE TodoOK'
  OBVIOUS
<1>1. ASSUME NEW t \in Task, NEW s \in Seq(Message), todo' = [todo EXCEPT ![t] = s]
      PROVE  TodoOK'
  BY <1>1 DEF TodoOK
<1>2. Main \in Task /\ Log \in Task /\ {"HEART_BEAT", "LOG_MSG"} \subseteq Request
  BY StationAssumption, WorkerType DEF Slot
<1>3. CASE MainStep
  <2>1. CASE RequestHeartbeat
    <3>1. [i \in Slot |-> Msg(Main, Worker[i], "HEART_BEAT")] \in Seq(Message)
      <4>1. \A i \in Slot : Msg(Main, Worker[i], "HEART_BEAT") \in Message
        BY <1>2, WorkerType, MsgType
      <4>2. Len(Worker) \in Nat
        BY StationAssumption
      <4> QED  BY <4>1, <4>2 DEF Slot
    <3> QED  BY <1>1, <1>2, <2>1, <3>1 DEF RequestHeartbeat, Post
  <2>2. CASE Check
    <3>1. <<Msg(Main, Log, "LOG_MSG")>> \in Seq(Message)
      BY <1>2, MsgType
    <3> QED  BY <1>1, <1>2, <2>2, <3>1 DEF Check, Post, TodoOK
  <2>3. CASE WakeUp \/ EndCheck
    BY <2>3 DEF WakeUp, EndCheck, TodoOK
  <2> QED  BY <1>3, <2>1, <2>2, <2>3 DEF MainStep
<1>4. ASSUME NEW t \in Task, TaskStep(t) \/ Failure(t) PROVE TodoOK'
  <2>1. CASE SendNext(t)
    <3>1. Tail(todo[t]) \in Seq(Message)
      BY <2>1 DEF SendNext, TodoOK
    <3> QED  BY <1>1, <2>1, <3>1 DEF SendNext
  <2>2. CASE SendFailed(t)
    BY <1>1, <2>2 DEF SendFailed, TodoOK
  <2>3. ASSUME NEW m, Handle(t, m) PROVE TodoOK'
    BY <1>1, <2>3, ReplyType DEF Handle, HandleAsMain, HandleAsWorker, TodoOK
  <2>4. CASE Received(t)
    BY <2>3, <2>4 DEF Received
  <2>5. CASE ReceiveFailed(t)
    BY <2>3, <2>5 DEF ReceiveFailed, TodoOK
  <2>6. CASE ReportTemperature(t) \/ ReportLight(t)
    <3>1. <<Msg(t, Log, "LOG_MSG")>> \in Seq(Message)
      BY <1>2, MsgType
    <3> QED  BY <1>1, <2>6, <3>1 DEF ReportTemperature, ReportLight, Report, Post
  <2>7. CASE \/ Deposit(t) \/ Sent(t) \/ Inside(t) \/ Poll(t) \/ EndDrain(t)
             \/ Idle(t) \/ CleanUp(t)
    BY <2>7 DEF Deposit, Sent, Inside, Poll, EndDrain, Idle, CleanUp, local,
                TodoOK
  <2> QED  BY <1>4, <2>1, <2>2, <2>4, <2>5, <2>6, <2>7 DEF TaskStep, Failure
<1>5. CASE ClientRequest
  <2> SUFFICES ASSUME NEW r \in TempRequest \cup LightRequest, Forward(Socket, r)
               PROVE  TodoOK'
    BY <1>5 DEF ClientRequest
  <2> DEFINE d == IF r \in TempRequest THEN Temp ELSE Light
  <2>1. Socket \in Task /\ r \in Request /\ d \in Task
    BY StationAssumption DEF TempRequest, LightRequest, Forward
  <2>2. <<Msg(Socket, d, r), Msg(Socket, Log, r)>> \in Seq(Message)
    BY <1>2, <2>1, MsgType
  <2> QED  BY <1>1, <2>1, <2>2 DEF Forward, Post
<1>6. CASE UNCHANGED stationVars
  BY <1>6 DEF stationVars, local, TodoOK
<1> QED  BY <1>3, <1>4, <1>5, <1>6 DEF StationNext

-----------------------------------------------------------------------------
\* A step of the station is a step of the layer or leaves the layer alone.
LEMMA LayerStep == TodoOK /\ [StationNext]_stationVars => [Next]_vars
<1> SUFFICES ASSUME TodoOK, [StationNext]_stationVars PROVE [Next]_vars
  OBVIOUS
<1>1. CASE MainStep
  BY <1>1 DEF MainStep, RequestHeartbeat, WakeUp, Check, EndCheck
<1>2. ASSUME NEW t \in Task, TaskStep(t) \/ Failure(t) PROVE [Next]_vars
  <2>1. CASE SendNext(t)
    <3>1. Head(todo[t]) \in Message
      <4>1. todo[t] \in Seq(Message) /\ todo[t] # <<>>
        BY <2>1 DEF SendNext, TodoOK
      <4> QED  BY <4>1
    <3>2. Head(todo[t]).destId \in Task
      BY <3>1 DEF Message
    <3>3. Send(t)
      BY <2>1, <3>1, <3>2 DEF SendNext, Send
    <3> QED  BY <3>3 DEF Next
  <2>2. CASE \/ Deposit(t) \/ Sent(t) \/ SendFailed(t) \/ Inside(t)
             \/ Received(t) \/ ReceiveFailed(t)
    <3>1. Continue(t)
      BY <2>2 DEF Deposit, Sent, SendFailed, Inside, Received, ReceiveFailed,
                  Continue
    <3> QED  BY <3>1 DEF Next
  <2>3. CASE Poll(t) \/ CleanUp(t)
    BY <2>3 DEF Poll, CleanUp, Next
  <2>4. CASE \/ EndDrain(t) \/ Idle(t)
             \/ ReportTemperature(t) \/ ReportLight(t)
    BY <2>4 DEF EndDrain, Idle, ReportTemperature, ReportLight, Report
  <2> QED  BY <1>2, <2>1, <2>2, <2>3, <2>4 DEF TaskStep, Failure
<1>3. CASE ClientRequest
  BY <1>3 DEF ClientRequest, Forward
<1>4. CASE UNCHANGED stationVars
  BY <1>4 DEF stationVars
<1> QED  BY <1>1, <1>2, <1>3, <1>4 DEF StationNext

\* Every station step is a step of the layer or leaves it alone, so what holds
\* of the layer for any users holds of it in the station.
LEMMA StationUsesLayer == StationSpec => Spec
<1>1. StationInit => Init
  BY DEF StationInit
<1> QED
  BY <1>1, InitTodo, NextTodo, LayerStep, PTL DEF StationSpec, Spec

\* In the station a flag is wrong only by its drift, and no flag is ever
\* negative.
THEOREM StationAccounting == StationSpec => [](Accounting /\ FlagNeverNegative)
BY StationUsesLayer, FlagsAccountForMessages, FlagsNonNegative, PTL

\* The main thread, in particular, waits for ever for heartbeat responses
\* that do not come only after a decrement of its flag was lost.
THEOREM StationBlocked == StationSpec => []BlockedMeansDrift
BY StationUsesLayer, BlockedTasksDrifted, PTL

\* Between the main thread and its workers the queues are first-in first-out
\* boxes, whatever the flags say (message.c:99, 130).
THEOREM StationDelivers == StationSpec => Delivers
BY StationUsesLayer, LayerDelivers

-----------------------------------------------------------------------------
\* Counting the messages of a kind in a sequence, element by element.
Places(s, M) == {k \in DOMAIN s : s[k] \in M}

Count(s, M) == Cardinality(Places(s, M))

One(m, M) == IF m \in M THEN 1 ELSE 0

LEMMA CountType ==
  ASSUME NEW s \in Seq(Message), NEW M
  PROVE  IsFiniteSet(Places(s, M)) /\ Count(s, M) \in Nat
<1>1. DOMAIN s = 1 .. Len(s) /\ Len(s) \in Int
  OBVIOUS
<1>2. Places(s, M) \in SUBSET (1 .. Len(s))
  BY <1>1 DEF Places
<1>3. IsFiniteSet(Places(s, M))
  BY <1>1, <1>2, FS_Interval, FS_Subset
<1> QED  BY <1>3, FS_CardinalityType DEF Count

\* Nothing of a kind is counted if nothing of that kind is there.
LEMMA CountNone ==
  ASSUME NEW s, NEW M, \A k \in DOMAIN s : s[k] \notin M
  PROVE  Count(s, M) = 0
<1>1. Places(s, M) = {}
  BY DEF Places
<1> QED  BY <1>1, FS_EmptySet DEF Count

LEMMA CountEmpty == \A M : Count(<<>>, M) = 0
<1> SUFFICES ASSUME NEW M PROVE Count(<<>>, M) = 0
  OBVIOUS
<1>1. \A k \in DOMAIN <<>> : <<>>[k] \notin M
  OBVIOUS
<1> QED  BY <1>1, CountNone

LEMMA CountAppend ==
  ASSUME NEW s \in Seq(Message), NEW m \in Message, NEW M
  PROVE  Count(Append(s, m), M) = Count(s, M) + One(m, M)
<1> DEFINE n == Len(s) + 1
<1>1. Len(s) \in Nat
  OBVIOUS
<1>2. /\ DOMAIN Append(s, m) = 1 .. n /\ DOMAIN s = 1 .. Len(s)
      /\ Append(s, m)[n] = m
      /\ \A k \in 1 .. Len(s) : Append(s, m)[k] = s[k]
  OBVIOUS
<1>3. n \notin Places(s, M)
  BY <1>1, <1>2 DEF Places
<1>4. IsFiniteSet(Places(s, M)) /\ Count(s, M) \in Nat
  BY CountType
<1>5. CASE m \in M
  <2>1. Places(Append(s, m), M) = Places(s, M) \cup {n}
    BY <1>1, <1>2, <1>5 DEF Places
  <2>2. Cardinality(Places(s, M) \cup {n}) = Cardinality(Places(s, M)) + 1
    BY <1>3, <1>4, FS_AddElement
  <2> QED  BY <1>5, <2>1, <2>2 DEF Count, One
<1>6. CASE m \notin M
  <2>1. Places(Append(s, m), M) = Places(s, M)
    BY <1>1, <1>2, <1>6 DEF Places
  <2> QED  BY <1>4, <1>6, <2>1 DEF Count, One
<1> QED  BY <1>5, <1>6

LEMMA CountTail ==
  ASSUME NEW s \in Seq(Message), s # <<>>, NEW M
  PROVE  Count(s, M) = Count(Tail(s), M) + One(Head(s), M)
<1> DEFINE A == Places(Tail(s), M)
           B == Places(s, M) \ {1}
           f == [k \in A |-> k + 1]
<1>1. Tail(s) \in Seq(Message) /\ Len(s) \in Nat \ {0} /\ Head(s) = s[1]
  OBVIOUS
<1>2. /\ DOMAIN Tail(s) = 1 .. Len(s) - 1 /\ DOMAIN s = 1 .. Len(s)
      /\ \A k \in 1 .. Len(s) - 1 : Tail(s)[k] = s[k + 1]
  BY <1>1
<1>3. \A k \in A : k \in 1 .. Len(s) - 1 /\ k + 1 \in B
  BY <1>1, <1>2 DEF Places
<1>4. \A j \in B : j - 1 \in A /\ j = (j - 1) + 1
  BY <1>1, <1>2 DEF Places
<1>5. f \in Bijection(A, B)
  <2>1. f \in [A -> B]
    BY <1>3
  <2>2. \A j, k \in A : f[j] = f[k] => j = k
    BY <1>1, <1>3
  <2>3. \A j \in B : \E k \in A : f[k] = j
    BY <1>4
  <2> QED  BY <2>1, <2>2, <2>3, Fun_IsBij
<1>6. IsFiniteSet(A) /\ Cardinality(B) = Cardinality(A)
  <2>1. IsFiniteSet(A)
    BY <1>1, CountType
  <2>2. ExistsBijection(A, B)
    BY <1>5 DEF ExistsBijection
  <2> QED  BY <2>1, <2>2, FS_Bijection
<1>7. Cardinality(A) = Count(Tail(s), M) /\ Count(Tail(s), M) \in Nat
  BY <1>1, CountType DEF Count
<1>8. IsFiniteSet(Places(s, M)) /\ Count(s, M) = Cardinality(Places(s, M))
      /\ Count(s, M) \in Nat
  BY CountType DEF Count
<1>9. Cardinality(B) = IF 1 \in Places(s, M) THEN Count(s, M) - 1 ELSE Count(s, M)
  BY <1>8, FS_RemoveElement
<1>10. 1 \in Places(s, M) <=> Head(s) \in M
  BY <1>1, <1>2 DEF Places
<1> QED  BY <1>6, <1>7, <1>8, <1>9, <1>10 DEF One

\* The heartbeats of one thread are such a kind.
BeatsOf(t) == {m \in Message : m.requestId = "HEART_BEAT" /\ m.sourceId = t}

BeatOf(m, t) == IF m.requestId = "HEART_BEAT" /\ m.sourceId = t THEN 1 ELSE 0

LEMMA BeatsCounted ==
  ASSUME NEW s \in Seq(Message), NEW t
  PROVE  Beats(s, t) = Count(s, BeatsOf(t))
<1>1. \A k \in DOMAIN s : s[k] \in Message
  OBVIOUS
<1>2. Places(s, BeatsOf(t)) =
        {k \in DOMAIN s : s[k].requestId = "HEART_BEAT" /\ s[k].sourceId = t}
  BY <1>1 DEF Places, BeatsOf
<1> QED  BY <1>2 DEF Beats, Count

LEMMA BeatsType ==
  ASSUME NEW s \in Seq(Message), NEW t
  PROVE  Beats(s, t) \in Nat
BY BeatsCounted, CountType

LEMMA BeatsEmpty == \A t : Beats(<<>>, t) = 0
<1> SUFFICES ASSUME NEW t PROVE Beats(<<>>, t) = 0
  OBVIOUS
<1>1. <<>> \in Seq(Message)
  OBVIOUS
<1> QED  BY <1>1, BeatsCounted, CountEmpty

LEMMA BeatsAppend ==
  ASSUME NEW s \in Seq(Message), NEW m \in Message, NEW t
  PROVE  Beats(Append(s, m), t) = Beats(s, t) + BeatOf(m, t)
<1>1. Append(s, m) \in Seq(Message)
  OBVIOUS
<1>2. One(m, BeatsOf(t)) = BeatOf(m, t)
  BY DEF One, BeatsOf, BeatOf
<1>3. Count(Append(s, m), BeatsOf(t)) = Count(s, BeatsOf(t)) + BeatOf(m, t)
  BY <1>2, CountAppend
<1> QED  BY <1>1, <1>3, BeatsCounted

LEMMA BeatsTail ==
  ASSUME NEW s \in Seq(Message), s # <<>>, NEW t
  PROVE  Beats(s, t) = Beats(Tail(s), t) + BeatOf(Head(s), t)
<1>1. Tail(s) \in Seq(Message) /\ Head(s) \in Message
  OBVIOUS
<1>2. One(Head(s), BeatsOf(t)) = BeatOf(Head(s), t)
  BY <1>1 DEF One, BeatsOf, BeatOf
<1> QED  BY <1>1, <1>2, BeatsCounted, CountTail

-----------------------------------------------------------------------------
\* Where the threads may be, and that the round is not past its check.
PlaceOK ==
  /\ at[Main] \in {"request", "drain", "sleep", "check"}
  /\ \A t \in Task \ {Main} : at[t] \in {"work", "drain", "done"}
  /\ at[Main] = "request" => chance < Chances
  /\ at[Main] = "check" => chance = 0

TInv == IInv /\ StationTypeOK /\ PlaceOK

LEMMA Members ==
  /\ Main \in Task /\ Log \in Task
  /\ {"HEART_BEAT", "LOG_MSG"} \subseteq Request
  /\ \A t, d \in Task : Msg(t, d, "LOG_MSG") \in Message
  /\ Len(Worker) \in Nat \ {0} /\ 1 \in Slot /\ Slot = 1 .. Len(Worker)
  /\ Chances \in Nat \ {0}
BY StationAssumption, WorkerType, MsgType DEF Slot

LEMMA InitTInv == StationInit => TInv
<1> SUFFICES ASSUME StationInit PROVE TInv
  OBVIOUS
<1>1. IInv
  BY InitInv DEF StationInit
<1>2. TodoOK
  BY InitTodo
<1>3. \A i \in Slot : asked[i] \in Nat
  <2> SUFFICES ASSUME NEW i \in Slot PROVE asked[i] \in Nat
    OBVIOUS
  <2>1. queue[Worker[i]] \in Seq(Message) /\ queue[Main] \in Seq(Message)
    BY <1>1, WorkerType, Members DEF IInv, TypeOK
  <2>2. Beats(queue[Worker[i]], Main) \in Nat /\ Beats(queue[Main], Worker[i]) \in Nat
    BY <2>1, BeatsType
  <2> QED  BY <2>2 DEF StationInit
<1>4. asked \in [Slot -> Nat]
  BY <1>3 DEF StationInit
<1>5. StationTypeOK
  BY <1>2, <1>4, Members, StationAssumption
  DEF StationInit, StationTypeOK, TodoOK, SetUpStatus, Status
<1>6. PlaceOK
  BY Members DEF StationInit, PlaceOK
<1> QED  BY <1>1, <1>5, <1>6 DEF TInv

\* What a message that is handled does to the types.
LEMMA HandleType ==
  ASSUME StationTypeOK, NEW t \in Task, NEW m \in Message, Handle(t, m)
  PROVE  /\ todo' \in [Task -> Seq(Message)] /\ status' \in [Task -> Status]
         /\ data' \in [Task -> Message]
         /\ monitor' \in [Slot -> Nat] /\ heard' \in [Slot -> Nat]
<1>1. CASE t = Main
  <2>1. HandleAsMain(m)
    BY <1>1 DEF Handle
  <2>2. \A i \in Slot : monitor[i] \in Nat /\ heard[i] \in Nat
    BY DEF StationTypeOK
  <2>3. monitor' \in [Slot -> Nat] /\ heard' \in [Slot -> Nat]
    BY <2>1, <2>2, Z3 DEF HandleAsMain
  <2> QED  BY <2>1, <2>3 DEF HandleAsMain, StationTypeOK
<1>2. CASE t # Main
  <2>1. HandleAsWorker(t, m)
    BY <1>2 DEF Handle
  <2>2. Reply(t, m) \in Seq(Message)
    BY ReplyType
  <2>3. Reply(t, m) # <<>> => Reply(t, m)[1] \in Message
    BY <2>2
  <2>4. StatusAfter(t, m) \subseteq Status
    BY DEF StatusAfter, StationTypeOK, Status
  <2> QED  BY <2>1, <2>2, <2>3, <2>4 DEF HandleAsWorker, StationTypeOK
<1> QED  BY <1>1, <1>2

\* What a handler posts are messages, and info.data becomes one of them.
LEMMA PostType ==
  ASSUME StationTypeOK, NEW t \in Task, NEW s \in Seq(Message), Post(t, s)
  PROVE  todo' \in [Task -> Seq(Message)] /\ data' \in [Task -> Message]
<1>1. s # <<>> => s[Len(s)] \in Message
  OBVIOUS
<1> QED  BY <1>1 DEF Post, StationTypeOK

LEMMA MainType ==
  ASSUME TInv, MainStep
  PROVE  StationTypeOK' /\ PlaceOK'
<1> USE DEF TInv
<1>1. CASE RequestHeartbeat
  <2>1. \A i \in Slot : Msg(Main, Worker[i], "HEART_BEAT") \in Message
    BY WorkerType, Members, MsgType
  <2>2. [i \in Slot |-> Msg(Main, Worker[i], "HEART_BEAT")] \in Seq(Message)
    BY <2>1, Members
  <2>3. todo' \in [Task -> Seq(Message)] /\ data' \in [Task -> Message]
    BY <1>1, <2>2, PostType, Members DEF RequestHeartbeat
  <2>4. chance' \in 0 .. Chances
    BY <1>1, Members DEF RequestHeartbeat, StationTypeOK, PlaceOK, Own
  <2>5. round' \in 0 .. MaxRounds
    BY <1>1, StationAssumption DEF RequestHeartbeat, StationTypeOK
  <2>6. at' \in [Task -> {"work", "drain", "done", "request", "sleep", "check"}]
        /\ PlaceOK'
    BY <1>1, Members DEF RequestHeartbeat, StationTypeOK, PlaceOK
  <2> QED  BY <1>1, <2>3, <2>4, <2>5, <2>6
    DEF RequestHeartbeat, StationTypeOK, past
<1>2. CASE WakeUp
  <2>1. CASE chance = Chances
    <3>1. /\ chance' = 0 /\ slot' = Len(Worker)
          /\ at' = [at EXCEPT ![Main] = "check"]
          /\ UNCHANGED <<todo, status, data, monitor, past, count>>
      BY <1>2, <2>1 DEF WakeUp
    <3>2. chance' \in 0 .. Chances /\ slot' \in 0 .. Len(Worker)
      BY <3>1, Members
    <3> QED  BY <3>1, <3>2, Members DEF StationTypeOK, PlaceOK, past, count
  <2>2. CASE chance # Chances
    <3>1. chance < Chances
      BY <2>2, Members DEF StationTypeOK
    <3> QED  BY <1>2, <2>2, <3>1, Members
      DEF WakeUp, StationTypeOK, PlaceOK, past, count
  <2> QED  BY <2>1, <2>2
<1>3. CASE Check
  <2>1. <<Msg(Main, Log, "LOG_MSG")>> \in Seq(Message)
    BY Members
  <2>2. todo' \in [Task -> Seq(Message)] /\ data' \in [Task -> Message]
    BY <1>3, <2>1, PostType, Members DEF Check, StationTypeOK
  <2>3. slot' \in 0 .. Len(Worker) /\ monitor' \in [Slot -> Nat]
    BY <1>3, Members DEF Check, StationTypeOK
  <2> QED  BY <1>3, <2>2, <2>3 DEF Check, StationTypeOK, PlaceOK, past, count
<1>4. CASE EndCheck
  BY <1>4, Members DEF EndCheck, StationTypeOK, PlaceOK, Own, watch, past, count
<1> QED  BY <1>1, <1>2, <1>3, <1>4 DEF MainStep

LEMMA TaskType ==
  ASSUME TInv, NEW t \in Task, TaskStep(t) \/ Failure(t)
  PROVE  StationTypeOK' /\ PlaceOK'
<1> USE DEF TInv
<1>1. CASE SendNext(t)
  <2>1. Tail(todo[t]) \in Seq(Message)
    BY <1>1 DEF SendNext, StationTypeOK
  <2> QED  BY <1>1, <2>1 DEF SendNext, StationTypeOK, PlaceOK, watch, past, count
<1>2. CASE Deposit(t)
  <2>1. asked' \in [Slot -> Nat]
    BY <1>2 DEF Deposit, StationTypeOK
  <2> QED  BY <1>2, <2>1 DEF Deposit, StationTypeOK, PlaceOK, local, watch, count
<1>3. CASE Sent(t)
  BY <1>3 DEF Sent, StationTypeOK, PlaceOK, watch, past, count, Status
<1>4. CASE SendFailed(t)
  BY <1>4 DEF SendFailed, StationTypeOK, PlaceOK, watch, past, count, Status
<1>5. CASE Received(t)
  <2>1. Head(queue[t]) \in Message
    <3>1. queue[t] \in Seq(Message) /\ queue[t] # <<>>
      BY <1>5 DEF Received, MqReceive, IInv, TypeOK
    <3> QED  BY <3>1
  <2>2. answered' \in Nat
    BY <1>5 DEF Received, StationTypeOK
  <2> QED  BY <1>5, <2>1, <2>2, HandleType
    DEF Received, StationTypeOK, PlaceOK, count
<1>6. CASE ReceiveFailed(t)
  <2>1. data[t] \in Message
    BY DEF StationTypeOK
  <2>2. CASE t \in {Main, Temp}
    BY <1>6, <2>1, <2>2, HandleType
    DEF ReceiveFailed, StationTypeOK, PlaceOK, count
  <2>3. CASE t \notin {Main, Temp}
    BY <1>6, <2>3 DEF ReceiveFailed, StationTypeOK, PlaceOK, count, Status
  <2> QED  BY <2>2, <2>3
<1>7. CASE ReportTemperature(t) \/ ReportLight(t)
  <2>1. Report(t)
    BY <1>7 DEF ReportTemperature, ReportLight
  <2>2. <<Msg(t, Log, "LOG_MSG")>> \in Seq(Message)
    BY Members
  <2>3. todo' \in [Task -> Seq(Message)] /\ data' \in [Task -> Message]
    BY <2>1, <2>2, PostType DEF Report
  <2>4. reports' \in [Task -> 0 .. MaxReports]
    BY <2>1, StationAssumption DEF Report, StationTypeOK
  <2>5. at' \in [Task -> {"work", "drain", "done", "request", "sleep", "check"}]
        /\ PlaceOK'
    BY <2>1, Members DEF Report, Step, StationTypeOK, PlaceOK, watch
  <2> QED  BY <2>1, <2>3, <2>4, <2>5 DEF Report, StationTypeOK, watch, past
<1>8. CASE Idle(t)
  BY <1>8, Members DEF Idle, Step, StationTypeOK, PlaceOK, watch, past, count
<1>9. CASE CleanUp(t)
  BY <1>9, Members DEF CleanUp, Own, StationTypeOK, PlaceOK, watch, past, count
<1>10. CASE EndDrain(t)
  BY <1>10, Members DEF EndDrain, Own, StationTypeOK, PlaceOK, watch, past, count
<1>11. CASE Inside(t) \/ Poll(t)
  BY <1>11 DEF Inside, Poll, StationTypeOK, PlaceOK, local, watch, past, count
<1> QED
  BY <1>1, <1>2, <1>3, <1>4, <1>5, <1>6, <1>7, <1>8, <1>9, <1>10, <1>11
  DEF TaskStep, Failure

LEMMA NextTInv == TInv /\ [StationNext]_stationVars => TInv'
<1> SUFFICES ASSUME TInv, [StationNext]_stationVars PROVE TInv'
  OBVIOUS
<1>1. IInv'
  <2>1. TodoOK
    BY DEF TInv, StationTypeOK, TodoOK
  <2> QED  BY <2>1, LayerStep, NextInv DEF TInv
<1>2. StationTypeOK' /\ PlaceOK'
  <2>1. CASE MainStep
    BY <2>1, MainType
  <2>2. CASE \E t \in Task : TaskStep(t) \/ Failure(t)
    BY <2>2, TaskType
  <2>3. CASE ClientRequest
    <3> SUFFICES ASSUME NEW r \in TempRequest \cup LightRequest, Forward(Socket, r)
                 PROVE  StationTypeOK' /\ PlaceOK'
      BY <2>3 DEF ClientRequest
    <3> DEFINE d == IF r \in TempRequest THEN Temp ELSE Light
    <3>1. Socket \in Task /\ r \in Request /\ d \in Task
      BY StationAssumption DEF TempRequest, LightRequest, Forward
    <3>2. <<Msg(Socket, d, r), Msg(Socket, Log, r)>> \in Seq(Message)
      BY <3>1, Members, MsgType
    <3>3. todo' \in [Task -> Seq(Message)] /\ data' \in [Task -> Message]
      BY <3>1, <3>2, PostType DEF Forward, TInv
    <3>4. clients' \in 0 .. MaxClients
      <4>1. clients \in 0 .. MaxClients /\ MaxClients \in Nat
        BY StationAssumption DEF StationTypeOK, TInv
      <4>2. clients < MaxClients /\ clients' = clients + 1
        BY DEF Forward
      <4> QED  BY <4>1, <4>2
    <3>5. at' \in [Task -> {"work", "drain", "done", "request", "sleep", "check"}]
          /\ PlaceOK'
      BY Members DEF Forward, Step, StationTypeOK, PlaceOK, TInv, watch
    <3> QED  BY <3>3, <3>4, <3>5 DEF Forward, StationTypeOK, TInv, watch, past
  <2>4. CASE UNCHANGED stationVars
    BY <2>4 DEF TInv, StationTypeOK, PlaceOK, stationVars, local, watch, past, count
  <2> QED  BY <2>1, <2>2, <2>3, <2>4 DEF StationNext
<1> QED  BY <1>1, <1>2 DEF TInv

\* The types of main.c and of the four tasks, failing calls included.
THEOREM StationTypeCorrect == StationSpec => []StationTypeOK
<1>1. TInv => StationTypeOK
  BY DEF TInv
<1> QED
  BY <1>1, InitTInv, NextTInv, PTL DEF StationSpec

-----------------------------------------------------------------------------
\* What is known of messages on their way, when no call fails: a queue holds
\* what routes allow, a call has opened a queue and is addressed as a route
\* is, and a thread between its test and its receive has nothing to send.
CallsOK ==
  /\ \A q \in Task, k \in Nat : k \in DOMAIN queue[q] => queue[q][k] \in Addressed(q)
  /\ \A t \in Task : pc[t] = "opened" =>
       /\ call[t].to \in Task /\ call[t].msg.sourceId = t
       /\ call[t].msg \in Addressed(call[t].to) /\ call[t].obj # "none"
  /\ \A t \in Task : pc[t] \in {"tested", "uncounting", "uncounted", "receiving"} =>
       todo[t] = <<>>
  /\ pc[Main] # "exited"

\* Heartbeats pass between the main thread and the others only.
LEMMA BeatRoute ==
  ASSUME NEW q \in Task, NEW m \in Addressed(q), m.requestId = "HEART_BEAT"
  PROVE  m.sourceId = Main \/ q = Main
<1>1. <<m.sourceId, q, m.requestId>> \in Route
  BY DEF Addressed
<1>2. \A r \in Route : r[3] = "HEART_BEAT" => Main \in {r[1], r[2]}
  BY StationAssumption
<1> QED  BY <1>1, <1>2

LEMMA InitCalls == StationInit => CallsOK
<1> SUFFICES ASSUME StationInit PROVE CallsOK
  OBVIOUS
<1>1. ASSUME NEW q \in Task, NEW k \in Nat, k \in DOMAIN queue[q]
      PROVE  queue[q][k] \in Addressed(q)
  <2>1. queue[q] \in Leftover(q)
    BY DEF StationInit, Init
  <2>2. PICK n \in 0 .. MaxStale : queue[q] \in [1 .. n -> Addressed(q)]
    BY <2>1 DEF Leftover
  <2> QED  BY <1>1, <2>2
<1> QED  BY <1>1, Members DEF StationInit, Init, CallsOK

\* What every step does to the layer, as far as CallsOK is concerned.
LEMMA LayerCalls ==
  ASSUME ~CallsMayFail, TInv, CallsOK, [StationNext]_stationVars
  PROVE  /\ \A q \in Task, k \in Nat :
              k \in DOMAIN queue'[q] => queue'[q][k] \in Addressed(q)
         /\ \A t \in Task : pc'[t] = "opened" =>
              /\ call'[t].to \in Task /\ call'[t].msg.sourceId = t
              /\ call'[t].msg \in Addressed(call'[t].to) /\ call'[t].obj # "none"
         /\ pc'[Main] # "exited"
<1> DEFINE Good ==
  /\ \A q \in Task, k \in Nat :
       k \in DOMAIN queue'[q] => queue'[q][k] \in Addressed(q)
  /\ \A t \in Task : pc'[t] = "opened" =>
       /\ call'[t].to \in Task /\ call'[t].msg.sourceId = t
       /\ call'[t].msg \in Addressed(call'[t].to) /\ call'[t].obj # "none"
  /\ pc'[Main] # "exited"
<1>1. IInv /\ TypeOK
  BY DEF TInv, IInv
<1>2. [Next]_vars
  BY LayerStep DEF TInv, StationTypeOK, TodoOK
<1>3. CASE UNCHANGED vars
  BY <1>3 DEF vars, CallsOK
<1>4. ASSUME NEW t \in Task, Send(t) PROVE Good
  <2> PICK q \in Task, m \in Message : SendBegin(t, q, m)
    BY <1>4 DEF Send
  <2>1. Opened(q) \subseteq {"queue", "orphan"}
    BY DEF Opened, Named
  <2>2. PICK o \in {"queue", "orphan"} :
          call' = [call EXCEPT ![t] = [to |-> q, msg |-> m, obj |-> o]]
    BY <2>1 DEF SendBegin
  <2>3. /\ queue' = queue /\ m.sourceId = t /\ m \in Addressed(q)
        /\ pc' = [pc EXCEPT ![t] = "opened"]
    BY DEF SendBegin, Goto
  <2>4. call'[t] = [to |-> q, msg |-> m, obj |-> o]
    BY <1>1, <2>2 DEF TypeOK
  <2>5. \A u \in Task \ {t} : call'[u] = call[u] /\ pc'[u] = pc[u]
    BY <1>1, <2>2, <2>3 DEF TypeOK
  <2>6. pc'[t] = "opened"
    BY <1>1, <2>3 DEF TypeOK
  <2> QED  BY <2>3, <2>4, <2>5, <2>6, Members DEF CallsOK
<1>5. ASSUME NEW t \in Task, MqSend(t) PROVE Good
  <2> DEFINE q == call[t].to
  <2>1. /\ q \in Task /\ call[t].msg \in Addressed(q)
        /\ \A u \in Task \ {t} : pc'[u] = pc[u]
        /\ pc'[t] = "sent" /\ call' = call
    BY <1>1, <1>5 DEF MqSend, Goto, CallsOK, TypeOK
  <2>2. ASSUME NEW p \in Task, NEW k \in Nat, k \in DOMAIN queue'[p]
        PROVE  queue'[p][k] \in Addressed(p)
    <3>1. CASE p = q /\ queue'[p] = Append(queue[q], call[t].msg)
      <4>1. queue[q] \in Seq(Message)
        BY <1>1, <2>1 DEF TypeOK
      <4>2. k \in 1 .. Len(queue[q]) + 1
        BY <2>2, <3>1, <4>1
      <4>3. CASE k = Len(queue[q]) + 1
        BY <2>1, <3>1, <4>1, <4>3
      <4>4. CASE k \in 1 .. Len(queue[q])
        BY <2>1, <3>1, <4>1, <4>4 DEF CallsOK
      <4> QED  BY <4>1, <4>2, <4>3, <4>4
    <3>2. CASE queue'[p] = queue[p]
      BY <2>2, <3>2 DEF CallsOK
    <3> QED  BY <1>1, <1>5, <2>1, <3>1, <3>2 DEF MqSend, TypeOK
  <2> QED  BY <2>1, <2>2, Members DEF CallsOK
<1>6. ASSUME NEW t \in Task, MqReceive(t) PROVE Good
  <2>1. /\ \A u \in Task \ {t} : pc'[u] = pc[u]
        /\ pc'[t] = "run" /\ call' = call
    BY <1>1, <1>6 DEF MqReceive, Goto, TypeOK
  <2>2. ASSUME NEW p \in Task, NEW k \in Nat, k \in DOMAIN queue'[p]
        PROVE  queue'[p][k] \in Addressed(p)
    <3>1. CASE p = t
      <4>1. queue[p] \in Seq(Message) /\ queue[p] # <<>> /\ queue'[p] = Tail(queue[p])
        BY <1>1, <1>6, <3>1 DEF MqReceive, TypeOK
      <4>2. k \in 1 .. Len(queue[p]) - 1 /\ Len(queue[p]) \in Nat
        BY <2>2, <4>1
      <4>3. queue'[p][k] = queue[p][k + 1] /\ k + 1 \in DOMAIN queue[p] /\ k + 1 \in Nat
        BY <4>1, <4>2
      <4> QED  BY <4>3 DEF CallsOK
    <3>2. CASE p # t
      BY <1>1, <1>6, <2>2, <3>2 DEF MqReceive, TypeOK, CallsOK
    <3> QED  BY <3>1, <3>2
  <2> QED  BY <2>1, <2>2, Members DEF CallsOK
<1>7. ASSUME queue' = queue, pc'[Main] # "exited",
             \A u \in Task : pc'[u] = "opened" => pc[u] = "opened" /\ call'[u] = call[u]
      PROVE  Good
  BY <1>7 DEF CallsOK
<1>8. ASSUME NEW t \in Task,
             \/ LoadForIncrement(t) \/ StoreIncrement(t) \/ TestFlag(t)
             \/ LoadForDecrement(t) \/ StoreDecrement(t) \/ ReceiveBegin(t)
      PROVE  Good
  <2>1. /\ queue' = queue
        /\ \A u \in Task \ {t} : pc'[u] = pc[u] /\ call'[u] = call[u]
    BY <1>1, <1>8 DEF LoadForIncrement, StoreIncrement, TestFlag,
      LoadForDecrement, StoreDecrement, ReceiveBegin, Goto, TypeOK
  <2>2. pc'[t] \in {"counting", "run", "tested", "uncounting", "uncounted", "receiving"}
    BY <1>1, <1>8 DEF LoadForIncrement, StoreIncrement, TestFlag,
      LoadForDecrement, StoreDecrement, ReceiveBegin, Goto, TypeOK
  <2>3. pc'[Main] # "exited"
    BY <2>1, <2>2, Members DEF CallsOK
  <2> QED  BY <1>7, <2>1, <2>2, <2>3
<1>9. ASSUME NEW t \in Task, Exit(t) PROVE Good
  <2>1. t # Main
    BY <1>9, StationAssumption DEF Exit
  <2> QED  BY <1>1, <1>9, <2>1, Members DEF Exit, Goto, CallsOK, TypeOK
<1>10. ASSUME NEW t \in Task, SendFail(t) \/ ReceiveFail(t) PROVE Good
  BY <1>10 DEF SendFail, ReceiveFail
<1> QED
  BY <1>2, <1>3, <1>4, <1>5, <1>6, <1>7, <1>8, <1>9, <1>10 DEF Next, Continue

\* A step of the layer's calls moves one thread; its handler owes nothing
\* while it is between its test and its receive.
LEMMA NextCalls ==
  ASSUME ~CallsMayFail, TInv, CallsOK, [StationNext]_stationVars
  PROVE  CallsOK'
<1> DEFINE Busy == {"tested", "uncounting", "uncounted", "receiving"}
<1> SUFFICES ASSUME NEW u \in Task, pc'[u] \in Busy PROVE todo'[u] = <<>>
  BY LayerCalls DEF CallsOK
<1>1. pc \in [Task -> Phase] /\ todo \in [Task -> Seq(Message)]
  BY DEF TInv, IInv, TypeOK, StationTypeOK
<1>2. pc[u] \in Busy => todo[u] = <<>>
  BY DEF CallsOK
<1>3. CASE MainStep \/ ClientRequest
  BY <1>1, <1>2, <1>3, Members
  DEF MainStep, RequestHeartbeat, WakeUp, Check, EndCheck, ClientRequest, Forward,
      Step, Own, Post, vars
<1>4. ASSUME NEW t \in Task, TaskStep(t) \/ Failure(t) PROVE todo'[u] = <<>>
  <2>1. CASE SendNext(t)
    BY <1>1, <1>2, <2>1 DEF SendNext, SendBegin, Goto
  <2>2. CASE Received(t)
    <3>1. pc' = [pc EXCEPT ![t] = "run"]
      BY <2>2 DEF Received, MqReceive, Goto
    <3>2. u # t
      BY <1>1, <3>1
    <3>3. todo'[u] = todo[u]
      BY <1>1, <2>2, <3>2 DEF Received, Handle, HandleAsMain, HandleAsWorker
    <3> QED  BY <1>1, <1>2, <3>1, <3>2, <3>3
  <2>3. CASE Poll(t)
    BY <1>1, <1>2, <2>3 DEF Poll, Own, TestFlag, Goto, local
  <2>4. CASE Inside(t)
    BY <1>1, <1>2, <2>4 DEF Inside, LoadForIncrement, LoadForDecrement,
      StoreDecrement, ReceiveBegin, Goto, local
  <2>5. CASE Deposit(t) \/ Sent(t)
    BY <1>1, <1>2, <2>5 DEF Deposit, MqSend, Sent, StoreIncrement, Goto, local
  <2>6. CASE ReportTemperature(t) \/ ReportLight(t)
    BY <1>1, <1>2, <2>6
    DEF ReportTemperature, ReportLight, Report, Step, Own, Post, vars
  <2>7. CASE Idle(t) \/ EndDrain(t)
    BY <1>1, <1>2, <2>7 DEF Idle, EndDrain, vars
  <2>8. CASE CleanUp(t)
    BY <1>1, <1>2, <2>8 DEF CleanUp, Exit, Goto
  <2>9. CASE Failure(t)
    BY <2>9 DEF Failure, SendFailed, SendFail, ReceiveFailed, ReceiveFail
  <2> QED
    BY <1>4, <2>1, <2>2, <2>3, <2>4, <2>5, <2>6, <2>7, <2>8, <2>9 DEF TaskStep
<1>5. CASE UNCHANGED stationVars
  BY <1>2, <1>5 DEF stationVars, vars, local
<1> QED  BY <1>3, <1>4, <1>5 DEF StationNext

=============================================================================
