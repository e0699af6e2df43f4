---------------------------- MODULE TrafficProofs ----------------------------
(***************************************************************************)
(* What becomes of the messages the station sends, for any workers, rounds *)
(* and routes: heartbeats balance, alarms are justified, and clients are   *)
(* answered, in every order of the threads and whichever tasks exit.       *)
(***************************************************************************)
EXTENDS StationProofs

-----------------------------------------------------------------------------
\* The equation of RepliesMatchRequests for one worker.
Balance(i) ==
  LET w == Worker[i] IN
  asked[i] = Beats(queue[w], Main) + Owed(w) + Beats(queue[Main], w) + heard[i]

LEMMA NoBeats ==
  ASSUME NEW s \in Seq(Message), NEW t,
         \A k \in DOMAIN s : s[k].requestId # "HEART_BEAT"
  PROVE  Beats(s, t) = 0
<1>1. \A k \in DOMAIN s : s[k] \notin BeatsOf(t)
  BY DEF BeatsOf
<1> QED  BY <1>1, BeatsCounted, CountNone

\* A worker replies to a heartbeat request with one heartbeat of its own.
LEMMA ReplyBeats ==
  ASSUME NEW t \in Task, NEW m \in Message
  PROVE  Beats(Reply(t, m), t) = IF m.requestId = "HEART_BEAT" THEN 1 ELSE 0
<1>1. Reply(t, m) \in Seq(Message)
  BY ReplyType
<1>2. CASE m.requestId = "HEART_BEAT"
  <2>1. m.requestId \notin TempRequest \cup LightRequest
    BY <1>2 DEF TempRequest, LightRequest
  <2>2. Reply(t, m) = <<Msg(t, Main, "HEART_BEAT")>>
    BY <1>2, <2>1 DEF Reply, TempReply, LightReply, BeatReply
  <2>3. Msg(t, Main, "HEART_BEAT") \in Message /\ <<>> \in Seq(Message)
    BY Members, MsgType
  <2>4. Reply(t, m) = Append(<<>>, Msg(t, Main, "HEART_BEAT"))
    BY <2>2
  <2>5. BeatOf(Msg(t, Main, "HEART_BEAT"), t) = 1
    BY DEF BeatOf, Msg
  <2>6. /\ Beats(Append(<<>>, Msg(t, Main, "HEART_BEAT")), t) =
             Beats(<<>>, t) + BeatOf(Msg(t, Main, "HEART_BEAT"), t)
        /\ Beats(<<>>, t) = 0
    BY <2>3, BeatsAppend, BeatsEmpty
  <2> QED  BY <1>2, <2>4, <2>5, <2>6
<1>3. CASE m.requestId # "HEART_BEAT"
  <2>1. \A k \in DOMAIN Reply(t, m) : Reply(t, m)[k].requestId # "HEART_BEAT"
    BY <1>3 DEF Reply, TempReply, LightReply, BeatReply, Msg, TempRequest, LightRequest
  <2> QED  BY <1>1, <1>3, <2>1, NoBeats
<1> QED  BY <1>2, <1>3

LEMMA BalanceTypes ==
  ASSUME TInv, NEW i \in Slot
  PROVE  /\ Worker[i] \in Task /\ Worker[i] # Main
         /\ Beats(queue[Worker[i]], Main) \in Nat
         /\ Beats(queue[Main], Worker[i]) \in Nat
         /\ Beats(todo[Worker[i]], Worker[i]) \in Nat
         /\ Owed(Worker[i]) \in Nat
         /\ asked[i] \in Nat /\ heard[i] \in Nat
<1>1. Worker[i] \in Task /\ Worker[i] # Main
  BY WorkerType
<1>2. /\ queue[Worker[i]] \in Seq(Message) /\ queue[Main] \in Seq(Message)
      /\ todo[Worker[i]] \in Seq(Message)
  BY <1>1, Members DEF TInv, IInv, TypeOK, StationTypeOK
<1>3. /\ Beats(queue[Worker[i]], Main) \in Nat
      /\ Beats(queue[Main], Worker[i]) \in Nat
      /\ Beats(todo[Worker[i]], Worker[i]) \in Nat
  BY <1>2, BeatsType
<1> QED  BY <1>1, <1>3 DEF Owed, TInv, StationTypeOK

\* A step that moves no heartbeat of a worker keeps its balance.
LEMMA SameBalance ==
  ASSUME NEW i \in Slot, Balance(i),
         asked'[i] = asked[i], heard'[i] = heard[i],
         queue'[Worker[i]] = queue[Worker[i]], queue'[Main] = queue[Main],
         todo'[Worker[i]] = todo[Worker[i]],
         pc'[Worker[i]] = "opened" <=> pc[Worker[i]] = "opened",
         pc[Worker[i]] = "opened" => call'[Worker[i]] = call[Worker[i]]
  PROVE  Balance(i)'
<1>1. Owed(Worker[i])' = Owed(Worker[i])
  BY DEF Owed
<1> QED  BY <1>1 DEF Balance

LEMMA InitBalance == StationInit => \A i \in Slot : Balance(i)
<1> SUFFICES ASSUME StationInit, NEW i \in Slot PROVE Balance(i)
  OBVIOUS
<1>1. Worker[i] \in Task /\ Worker[i] # Main
  BY WorkerType
<1>2. Owed(Worker[i]) = 0
  BY <1>1, BeatsEmpty DEF StationInit, Init, Owed
<1>3. TInv
  BY InitTInv
<1>4. /\ asked[i] = Beats(queue[Worker[i]], Main) + Beats(queue[Main], Worker[i])
      /\ heard[i] = 0
  BY DEF StationInit
<1> QED  BY <1>2, <1>3, <1>4, BalanceTypes DEF Balance

LEMMA SendNextBalance ==
  ASSUME TInv, CallsOK, NEW t \in Task, SendNext(t), NEW i \in Slot, Balance(i)
  PROVE  Balance(i)'
<1> DEFINE w == Worker[i]
           m == Head(todo[t])
<1>1. TypeOK /\ StationTypeOK
  BY DEF TInv, IInv
<1>2. w \in Task /\ w # Main
  BY WorkerType
<1>3. /\ asked' = asked /\ heard' = heard /\ queue' = queue
      /\ todo' = [todo EXCEPT ![t] = Tail(@)]
      /\ pc[t] = "run" /\ pc' = [pc EXCEPT ![t] = "opened"] /\ m.sourceId = t
      /\ \E o \in Opened(m.destId) :
           call' = [call EXCEPT ![t] = [to |-> m.destId, msg |-> m, obj |-> o]]
  BY DEF SendNext, SendBegin, Goto, past
<1>4. CASE t # w
  <2>1. todo'[w] = todo[w] /\ pc'[w] = pc[w] /\ call'[w] = call[w]
    BY <1>1, <1>2, <1>3, <1>4 DEF StationTypeOK, TypeOK
  <2> QED  BY <1>3, <2>1, SameBalance
<1>5. CASE t = w
  <2>1. todo[w] \in Seq(Message) /\ todo[w] # <<>>
    BY <1>1, <1>2, <1>5 DEF SendNext, StationTypeOK
  <2>2. todo'[w] = Tail(todo[w]) /\ pc'[w] = "opened" /\ call'[w].msg = m
    BY <1>1, <1>2, <1>3, <1>5 DEF StationTypeOK, TypeOK
  <2>3. Beats(todo[w], w) = Beats(Tail(todo[w]), w) + BeatOf(m, w)
    BY <1>5, <2>1, BeatsTail
  <2>4. Owed(w) = Beats(todo[w], w) + 0
    BY <1>3, <1>5 DEF Owed
  <2>5. Owed(w)' = Beats(Tail(todo[w]), w) + BeatOf(m, w)
    BY <1>3, <1>5, <2>2 DEF Owed, BeatOf
  <2>6. Owed(w)' = Owed(w)
    BY <2>3, <2>4, <2>5, BalanceTypes
  <2> QED  BY <1>3, <2>6 DEF Balance
<1> QED  BY <1>4, <1>5

LEMMA DepositBalance ==
  ASSUME TInv, CallsOK, NEW t \in Task, Deposit(t), NEW i \in Slot, Balance(i)
  PROVE  Balance(i)'
<1> DEFINE w == Worker[i]
           q == call[t].to
           m == call[t].msg
           beat == m.requestId = "HEART_BEAT"
<1>1. TypeOK /\ StationTypeOK /\ CallOK
  BY DEF TInv, IInv
<1>2. w \in Task /\ w # Main
  BY WorkerType
<1>3. /\ pc[t] = "opened" /\ pc' = [pc EXCEPT ![t] = "sent"] /\ call' = call
      /\ todo' = todo /\ heard' = heard
      /\ asked'[i] = asked[i] +
           IF t = Main /\ q = w /\ beat /\ call[t].obj = "queue" THEN 1 ELSE 0
  BY DEF Deposit, MqSend, Goto, local
<1>4. /\ q \in Task /\ m \in Addressed(q) /\ m \in Message /\ m.sourceId = t
      /\ call[t].obj = "orphan" => pc[q] = "exited"
  BY <1>1, <1>3 DEF CallsOK, CallOK, Addressed
<1>5. beat /\ t # Main => q = Main
  BY <1>4, BeatRoute
<1>6. Owed(w)' = Owed(w) - (IF t = w /\ beat THEN 1 ELSE 0)
  <2>1. CASE t = w
    <3>1. Owed(w)' = Beats(todo[w], w) + 0
      BY <1>1, <1>2, <1>3, <2>1 DEF Owed, TypeOK
    <3>2. Owed(w) = Beats(todo[w], w) + IF beat THEN 1 ELSE 0
      BY <1>3, <2>1 DEF Owed
    <3> QED  BY <2>1, <3>1, <3>2, BalanceTypes
  <2>2. CASE t # w
    <3>1. pc'[w] = pc[w]
      BY <1>1, <1>2, <1>3, <2>2 DEF TypeOK
    <3>2. Owed(w)' = Owed(w)
      BY <1>3, <3>1 DEF Owed
    <3> QED  BY <2>2, <3>2, BalanceTypes
  <2> QED  BY <2>1, <2>2
<1>7. CASE call[t].obj = "orphan" /\ queue' = queue
  <2>1. q # Main
    BY <1>4, <1>7 DEF CallsOK
  <2>2. ~(t = w /\ beat)
    BY <1>2, <1>5, <2>1
  <2>3. Owed(w)' = Owed(w) /\ asked'[i] = asked[i]
    BY <1>3, <1>6, <1>7, <2>2, BalanceTypes
  <2> QED  BY <1>3, <1>7, <2>3 DEF Balance
<1>8. CASE call[t].obj = "queue" /\ queue' = [queue EXCEPT ![q] = Append(@, m)]
  <2>1. queue[w] \in Seq(Message) /\ queue[Main] \in Seq(Message)
    BY <1>1, <1>2, Members DEF TypeOK
  <2>2. Beats(queue'[w], Main) =
          Beats(queue[w], Main) + IF q = w THEN BeatOf(m, Main) ELSE 0
    <3>1. CASE q = w
      <4>1. queue'[w] = Append(queue[w], m)
        BY <1>1, <1>2, <1>8, <3>1 DEF TypeOK
      <4> QED  BY <1>4, <2>1, <3>1, <4>1, BeatsAppend
    <3>2. CASE q # w
      <4>1. queue'[w] = queue[w]
        BY <1>1, <1>2, <1>8, <3>2 DEF TypeOK
      <4> QED  BY <3>2, <4>1, BalanceTypes
    <3> QED  BY <3>1, <3>2
  <2>3. Beats(queue'[Main], w) =
          Beats(queue[Main], w) + IF q = Main THEN BeatOf(m, w) ELSE 0
    <3>1. CASE q = Main
      <4>1. queue'[Main] = Append(queue[Main], m)
        BY <1>1, <1>8, <3>1, Members DEF TypeOK
      <4> QED  BY <1>4, <2>1, <3>1, <4>1, BeatsAppend
    <3>2. CASE q # Main
      <4>1. queue'[Main] = queue[Main]
        BY <1>1, <1>8, <3>2, Members DEF TypeOK
      <4> QED  BY <3>2, <4>1, BalanceTypes
    <3> QED  BY <3>1, <3>2
  <2>4. BeatOf(m, Main) = (IF t = Main /\ beat THEN 1 ELSE 0)
        /\ BeatOf(m, w) = (IF t = w /\ beat THEN 1 ELSE 0)
    BY <1>4 DEF BeatOf
  <2> HIDE DEF w, q, m, beat
  <2>5. (t = w /\ beat => q = Main) /\ w # Main
    BY <1>2, <1>5
  <2>6. asked'[i] = asked[i] + IF t = Main /\ q = w /\ beat THEN 1 ELSE 0
    BY <1>3, <1>8
  <2>7. asked[i] = Beats(queue[w], Main) + Owed(w) + Beats(queue[Main], w) + heard[i]
    BY DEF Balance, w
  <2>8. /\ Beats(queue[w], Main) \in Nat /\ Owed(w) \in Nat
        /\ Beats(queue[Main], w) \in Nat /\ heard[i] \in Nat
    BY BalanceTypes DEF w
  <2>9. asked'[i] = Beats(queue'[w], Main) + Owed(w)' + Beats(queue'[Main], w) + heard'[i]
    BY <1>3, <1>6, <2>2, <2>3, <2>4, <2>5, <2>6, <2>7, <2>8
  <2> QED  BY <2>9 DEF Balance, w
<1> QED  BY <1>7, <1>8 DEF Deposit, MqSend

LEMMA ReceivedBalance ==
  ASSUME TInv, CallsOK, NEW t \in Task, Received(t), NEW i \in Slot, Balance(i)
  PROVE  Balance(i)'
<1> DEFINE w == Worker[i]
           m == Head(queue[t])
<1>1. TypeOK /\ StationTypeOK
  BY DEF TInv, IInv
<1>2. w \in Task /\ w # Main
  BY WorkerType
<1>3. /\ pc[t] = "receiving" /\ pc' = [pc EXCEPT ![t] = "run"] /\ call' = call
      /\ queue[t] # <<>> /\ queue' = [queue EXCEPT ![t] = Tail(@)]
      /\ asked' = asked /\ Handle(t, m)
  BY DEF Received, MqReceive, Goto
<1>4. queue[t] \in Seq(Message) /\ m \in Message
  <2>1. queue[t] \in Seq(Message)
    BY <1>1 DEF TypeOK
  <2> QED  BY <1>3, <2>1
<1>5. CASE t = Main
  <2>1. /\ todo' = todo
        /\ heard'[i] = heard[i] + BeatOf(m, w)
    BY <1>3, <1>5 DEF Handle, HandleAsMain, BeatOf
  <2>2. pc'[w] = pc[w] /\ queue'[w] = queue[w] /\ queue'[Main] = Tail(queue[Main])
    BY <1>1, <1>2, <1>3, <1>5, Members DEF TypeOK
  <2>3. Owed(w)' = Owed(w)
    BY <1>3, <2>1, <2>2 DEF Owed
  <2>4. Beats(queue[Main], w) = Beats(Tail(queue[Main]), w) + BeatOf(m, w)
    BY <1>3, <1>4, <1>5, BeatsTail
  <2>5. Beats(Tail(queue[Main]), w) \in Nat
    <3>1. Tail(queue[Main]) \in Seq(Message)
      BY <1>3, <1>4, <1>5
    <3> QED  BY <3>1, BeatsType
  <2>6. BeatOf(m, w) \in {0, 1}
    BY DEF BeatOf
  <2>7. asked[i] = Beats(queue[w], Main) + Owed(w) + Beats(queue[Main], w) + heard[i]
    BY DEF Balance
  <2> HIDE DEF w, m
  <2>8. asked[i] = Beats(queue[w], Main) + Owed(w) + Beats(Tail(queue[Main]), w)
                   + (heard[i] + BeatOf(m, w))
    BY <2>4, <2>5, <2>6, <2>7, BalanceTypes DEF w
  <2>9. asked'[i] = Beats(queue'[w], Main) + Owed(w)' + Beats(queue'[Main], w) + heard'[i]
    BY <1>3, <2>1, <2>2, <2>3, <2>8
  <2> QED  BY <2>9 DEF Balance, w
<1>6. CASE t = w
  <2>1. todo[w] = <<>>
    BY <1>2, <1>3, <1>6 DEF CallsOK
  <2>2. todo'[w] = Reply(w, m) /\ heard' = heard
    BY <1>1, <1>2, <1>3, <1>6 DEF Handle, HandleAsWorker, StationTypeOK
  <2>3. pc'[w] = "run" /\ queue'[w] = Tail(queue[w]) /\ queue'[Main] = queue[Main]
    BY <1>1, <1>2, <1>3, <1>6, Members DEF TypeOK
  <2>4. m.requestId = "HEART_BEAT" => m.sourceId = Main
    <3>1. queue[w][1] \in Addressed(w) /\ m = queue[w][1]
      <4>1. 1 \in DOMAIN queue[w] /\ m = queue[w][1]
        BY <1>3, <1>4, <1>6
      <4> QED  BY <1>2, <4>1 DEF CallsOK
    <3> QED  BY <1>2, <3>1, BeatRoute
  <2>5. BeatOf(m, Main) = Beats(Reply(w, m), w)
    BY <1>2, <1>4, <2>4, ReplyBeats DEF BeatOf
  <2>6. Beats(queue[w], Main) = Beats(Tail(queue[w]), Main) + BeatOf(m, Main)
    BY <1>3, <1>4, <1>6, BeatsTail
  <2>7. Owed(w) = 0
    BY <1>3, <1>6, <2>1, BeatsEmpty DEF Owed
  <2>8. Owed(w)' = Beats(Reply(w, m), w) + 0
    BY <2>2, <2>3 DEF Owed
  <2>9. Beats(Tail(queue[w]), Main) \in Nat /\ BeatOf(m, Main) \in {0, 1}
    <3>1. Tail(queue[w]) \in Seq(Message)
      BY <1>3, <1>4, <1>6
    <3> QED  BY <3>1, BeatsType DEF BeatOf
  <2>10. asked[i] = Beats(queue[w], Main) + Owed(w) + Beats(queue[Main], w) + heard[i]
    BY DEF Balance
  <2> HIDE DEF w, m
  <2>11. asked'[i] = Beats(queue'[w], Main) + Owed(w)' + Beats(queue'[Main], w) + heard'[i]
    BY <1>3, <2>2, <2>3, <2>5, <2>6, <2>7, <2>8, <2>9, <2>10, BalanceTypes DEF w
  <2> QED  BY <2>11 DEF Balance, w
<1>7. CASE t \notin {Main, w}
  <2>1. todo'[w] = todo[w] /\ heard' = heard
    BY <1>1, <1>2, <1>3, <1>7 DEF Handle, HandleAsWorker, StationTypeOK
  <2>2. pc'[w] = pc[w] /\ queue'[w] = queue[w] /\ queue'[Main] = queue[Main]
    BY <1>1, <1>2, <1>3, <1>7, Members DEF TypeOK
  <2> QED  BY <1>3, <2>1, <2>2, SameBalance
<1> QED  BY <1>5, <1>6, <1>7

\* What a thread decides to send outside request_heartbeat holds no heartbeat.
LEMMA PostBalance ==
  ASSUME TInv, NEW t \in Task, todo[t] = <<>>, NEW s \in Seq(Message), Post(t, s),
         t # Main => \A k \in DOMAIN s : s[k].requestId # "HEART_BEAT",
         UNCHANGED <<vars, past>>, NEW i \in Slot, Balance(i)
  PROVE  Balance(i)'
<1> DEFINE w == Worker[i]
<1>1. w \in Task /\ w # Main
  BY WorkerType
<1>2. todo \in [Task -> Seq(Message)] /\ todo' = [todo EXCEPT ![t] = s]
  BY DEF Post, TInv, StationTypeOK
<1>3. /\ asked' = asked /\ heard' = heard /\ queue' = queue /\ pc' = pc
      /\ call' = call
  BY DEF vars, past
<1>4. CASE t # w
  <2>1. todo'[w] = todo[w]
    BY <1>1, <1>2, <1>4
  <2> QED  BY <1>3, <2>1, SameBalance
<1>5. CASE t = w
  <2>1. todo'[w] = s /\ todo[w] = <<>>
    BY <1>1, <1>2, <1>5
  <2>2. Beats(s, w) = 0 /\ Beats(<<>>, w) = 0
    BY <1>1, <1>5, NoBeats, BeatsEmpty
  <2>3. Owed(w)' = Owed(w)
    BY <1>3, <2>1, <2>2 DEF Owed
  <2> QED  BY <1>3, <2>3 DEF Balance
<1> QED  BY <1>4, <1>5

LEMMA NextBalance ==
  ASSUME ~CallsMayFail, TInv, CallsOK, [StationNext]_stationVars,
         NEW i \in Slot, Balance(i)
  PROVE  Balance(i)'
<1>1. TypeOK /\ StationTypeOK /\ Worker[i] \in Task
  BY WorkerType DEF TInv, IInv
<1>2. ASSUME UNCHANGED <<queue, call, todo, past>>,
             \A u \in Task : pc'[u] = "opened" <=> pc[u] = "opened"
      PROVE  Balance(i)'
  BY <1>1, <1>2, SameBalance DEF past
<1>3. CASE MainStep
  <2>1. CASE RequestHeartbeat
    <3>1. [j \in Slot |-> Msg(Main, Worker[j], "HEART_BEAT")] \in Seq(Message)
      <4>1. \A j \in Slot : Msg(Main, Worker[j], "HEART_BEAT") \in Message
        BY WorkerType, Members, MsgType
      <4> QED  BY <4>1, Members
    <3> QED  BY <2>1, <3>1, Members, PostBalance DEF RequestHeartbeat, Own
  <2>2. CASE Check
    <3>1. CASE Silent(slot)
      <4>1. <<Msg(Main, Log, "LOG_MSG")>> \in Seq(Message)
        BY Members
      <4>2. todo[Main] = <<>> /\ Post(Main, <<Msg(Main, Log, "LOG_MSG")>>)
            /\ UNCHANGED <<vars, past>>
        BY <2>2, <3>1 DEF Check, Own
      <4> QED  BY <4>1, <4>2, Members, PostBalance
    <3>2. CASE ~Silent(slot)
      BY <1>2, <2>2, <3>2 DEF Check, vars
    <3> QED  BY <3>1, <3>2
  <2>3. CASE WakeUp \/ EndCheck
    BY <1>2, <2>3 DEF WakeUp, EndCheck, vars
  <2> QED  BY <1>3, <2>1, <2>2, <2>3 DEF MainStep
<1>4. ASSUME NEW t \in Task, TaskStep(t) \/ Failure(t) PROVE Balance(i)'
  <2>1. CASE SendNext(t) \/ Deposit(t) \/ Received(t)
    BY <2>1, SendNextBalance, DepositBalance, ReceivedBalance
  <2>2. CASE ReportTemperature(t) \/ ReportLight(t)
    <3>1. Report(t)
      BY <2>2 DEF ReportTemperature, ReportLight
    <3>2. <<Msg(t, Log, "LOG_MSG")>> \in Seq(Message)
      BY Members
    <3>3. \A k \in DOMAIN <<Msg(t, Log, "LOG_MSG")>> :
            <<Msg(t, Log, "LOG_MSG")>>[k].requestId # "HEART_BEAT"
      BY DEF Msg
    <3>4. todo[t] = <<>> /\ Post(t, <<Msg(t, Log, "LOG_MSG")>>)
          /\ UNCHANGED <<vars, past>>
      BY <3>1 DEF Report, Step, Own
    <3> QED  BY <3>2, <3>3, <3>4, PostBalance
  <2>3. CASE Sent(t)
    <3>1. /\ pc[t] = "counting" /\ pc' = [pc EXCEPT ![t] = "run"]
          /\ queue' = queue /\ todo' = todo /\ UNCHANGED past
          /\ call' = [call EXCEPT ![t] = NoCall]
      BY <2>3 DEF Sent, StoreIncrement, Goto
    <3>2. pc[Worker[i]] = "opened" => call'[Worker[i]] = call[Worker[i]]
      BY <1>1, <3>1 DEF TypeOK
    <3>3. pc'[Worker[i]] = "opened" <=> pc[Worker[i]] = "opened"
      BY <1>1, <3>1 DEF TypeOK
    <3> QED  BY <3>1, <3>2, <3>3, SameBalance DEF past
  <2>4. CASE Inside(t) \/ Poll(t) \/ CleanUp(t)
    <3>1. UNCHANGED <<queue, call, todo, past>>
      BY <2>4 DEF Inside, LoadForIncrement, LoadForDecrement, StoreDecrement,
        ReceiveBegin, Poll, TestFlag, CleanUp, Exit, local
    <3>2. \A u \in Task : pc'[u] = "opened" <=> pc[u] = "opened"
      BY <1>1, <2>4 DEF Inside, LoadForIncrement, LoadForDecrement, StoreDecrement,
        ReceiveBegin, Poll, TestFlag, CleanUp, Exit, Goto, TypeOK
    <3> QED  BY <1>2, <3>1, <3>2
  <2>5. CASE EndDrain(t) \/ Idle(t)
    BY <1>2, <2>5 DEF EndDrain, Idle, vars
  <2>6. CASE Failure(t)
    BY <2>6 DEF Failure, SendFailed, SendFail, ReceiveFailed, ReceiveFail
  <2> QED  BY <1>4, <2>1, <2>2, <2>3, <2>4, <2>5, <2>6 DEF TaskStep
<1>5. CASE ClientRequest
  <2> SUFFICES ASSUME NEW r \in TempRequest \cup LightRequest, Forward(Socket, r)
               PROVE  Balance(i)'
    BY <1>5 DEF ClientRequest
  <2> DEFINE d == IF r \in TempRequest THEN Temp ELSE Light
             s == <<Msg(Socket, d, r), Msg(Socket, Log, r)>>
  <2>1. Socket \in Task /\ r \in Request /\ d \in Task /\ r # "HEART_BEAT"
    BY StationAssumption DEF TempRequest, LightRequest, Forward
  <2>2. s \in Seq(Message)
    BY <2>1, Members, MsgType
  <2>3. \A k \in DOMAIN s : s[k].requestId # "HEART_BEAT"
    BY <2>1 DEF Msg
  <2>4. todo[Socket] = <<>> /\ Post(Socket, s) /\ UNCHANGED <<vars, past>>
    BY DEF Forward, Step, Own
  <2> HIDE DEF s
  <2> QED  BY <2>1, <2>2, <2>3, <2>4, PostBalance
<1>6. CASE UNCHANGED stationVars
  BY <1>2, <1>6 DEF stationVars, vars, local
<1> QED  BY <1>3, <1>4, <1>5, <1>6 DEF StationNext

\* The inductive invariant of a station whose calls do not fail.
HInv == TInv /\ CallsOK /\ \A i \in Slot : Balance(i)

LEMMA SpecHInv == ~CallsMayFail /\ StationSpec => []HInv
<1>1. CASE CallsMayFail
  BY <1>1
<1>2. CASE ~CallsMayFail
  <2>1. StationInit => HInv
    BY InitTInv, InitCalls, InitBalance DEF HInv
  <2>2. HInv /\ [StationNext]_stationVars => HInv'
    BY <1>2, NextTInv, NextCalls, NextBalance DEF HInv
  <2> QED  BY <2>1, <2>2, PTL DEF StationSpec
<1> QED  BY <1>1, <1>2

\* As long as no call fails, every heartbeat request put in a worker's queue
\* is in one place until heartbeat_monitor counts the response: no order of
\* the threads loses or duplicates one, and none is counted for another.
THEOREM HeartbeatsBalance == ~CallsMayFail /\ StationSpec => []RepliesMatchRequests
<1>1. HInv => RepliesMatchRequests
  BY DEF HInv, Balance, RepliesMatchRequests
<1> QED  BY <1>1, SpecHInv, PTL

-----------------------------------------------------------------------------
\* A heartbeat request of this round is still to be put in the queue of
\* worker i: request_heartbeat has not come to it, or is at its mq_send.
Due(i) ==
  \/ \E k \in DOMAIN todo[Main] : /\ todo[Main][k].destId = Worker[i]
                                  /\ todo[Main][k].requestId = "HEART_BEAT"
  \/ /\ pc[Main] = "opened" /\ call[Main].to = Worker[i]
     /\ call[Main].msg.requestId = "HEART_BEAT"

\* How many requests a silent worker must have been sent since its counter
\* was reset.
Need(i) == IF at[Main] = "check" /\ i <= slot THEN Chances ELSE chance

Waiting(i) ==
  pc[Worker[i]] # "exited" /\ monitor[i] = 0 =>
    asked[i] - heard[i] + (IF Due(i) THEN 1 ELSE 0) >= Need(i)

DueOK == at[Main] # "drain" => \A i \in Slot : ~Due(i)

LEMMA Quitters == Main \notin Quitter
BY StationAssumption

LEMMA ExitedStays ==
  ASSUME TInv, [StationNext]_stationVars, NEW u \in Task, pc[u] = "exited"
  PROVE  pc'[u] = "exited"
<1>1. pc \in [Task -> Phase]
  BY DEF TInv, IInv, TypeOK
<1>2. [Next]_vars
  BY LayerStep DEF TInv, StationTypeOK, TodoOK
<1> QED
  BY <1>1, <1>2 DEF Next, vars, Send, SendBegin, TestFlag, Continue, MqSend,
    SendFail, LoadForIncrement, StoreIncrement, LoadForDecrement, StoreDecrement,
    ReceiveBegin, MqReceive, ReceiveFail, Exit, Goto

LEMMA SendNextDue ==
  ASSUME TInv, SendNext(Main), NEW i \in Slot
  PROVE  Due(i)' <=> Due(i)
<1> DEFINE s == todo[Main]
<1>1. TypeOK /\ StationTypeOK /\ Main \in Task
  BY Members DEF TInv, IInv
<1>2. /\ s # <<>> /\ pc[Main] = "run" /\ pc' = [pc EXCEPT ![Main] = "opened"]
      /\ todo' = [todo EXCEPT ![Main] = Tail(@)]
      /\ \E o \in Opened(Head(s).destId) : call' =
           [call EXCEPT ![Main] = [to |-> Head(s).destId, msg |-> Head(s), obj |-> o]]
  BY DEF SendNext, SendBegin, Goto
<1>3. /\ pc'[Main] = "opened" /\ todo'[Main] = Tail(s)
      /\ call'[Main].to = Head(s).destId /\ call'[Main].msg = Head(s)
  BY <1>1, <1>2 DEF TypeOK, StationTypeOK
<1>4. s \in Seq(Message)
  BY <1>1 DEF StationTypeOK
<1>5. /\ Len(s) \in Nat \ {0} /\ Head(s) = s[1] /\ DOMAIN s = 1 .. Len(s)
      /\ DOMAIN Tail(s) = 1 .. Len(s) - 1
      /\ \A k \in 1 .. Len(s) - 1 : Tail(s)[k] = s[k + 1]
  BY <1>2, <1>4
<1> DEFINE D(k) == s[k].destId = Worker[i] /\ s[k].requestId = "HEART_BEAT"
<1>6. Due(i)' <=> (\E k \in 1 .. Len(s) - 1 : D(k + 1)) \/ D(1)
  BY <1>3, <1>5 DEF Due
<1>7. Due(i) <=> \E k \in 1 .. Len(s) : D(k)
  BY <1>2, <1>5 DEF Due
<1>8. (\E k \in 1 .. Len(s) : D(k)) <=> (\E k \in 1 .. Len(s) - 1 : D(k + 1)) \/ D(1)
  <2>1. ASSUME NEW k \in 1 .. Len(s), D(k), ~D(1)
        PROVE  \E j \in 1 .. Len(s) - 1 : D(j + 1)
    <3>1. k - 1 \in 1 .. Len(s) - 1 /\ (k - 1) + 1 = k
      <4>1. k # 1
        BY <2>1
      <4> QED  BY <1>5, <4>1
    <3>2. D((k - 1) + 1)
      BY <2>1, <3>1
    <3> QED  BY <3>1, <3>2
  <2>2. ASSUME NEW k \in 1 .. Len(s) - 1, D(k + 1)
        PROVE  \E j \in 1 .. Len(s) : D(j)
    BY <1>5, <2>2
  <2>3. 1 \in 1 .. Len(s)
    BY <1>5
  <2> HIDE DEF D
  <2> QED  BY <2>1, <2>2, <2>3
<1> QED  BY <1>6, <1>7, <1>8

\* Nothing but request_heartbeat makes a request due, and nothing but its
\* mq_send takes it away.
LEMMA DueStep ==
  ASSUME ~CallsMayFail, TInv, CallsOK, [StationNext]_stationVars,
         ~RequestHeartbeat, NEW i \in Slot
  PROVE  /\ Due(i)' => Due(i)
         /\ (pc[Main] = "opened" => pc'[Main] = "opened") => (Due(i) => Due(i)')
<1>1. TypeOK /\ StationTypeOK /\ Main \in Task
  BY Members DEF TInv, IInv
<1> DEFINE Same == /\ todo'[Main] = todo[Main]
                   /\ pc'[Main] = "opened" <=> pc[Main] = "opened"
                   /\ pc[Main] = "opened" => call'[Main] = call[Main]
<1>2. ASSUME Same PROVE Due(i)' <=> Due(i)
  BY <1>2 DEF Due
<1>3. ASSUME NEW t \in Task, t # Main, TaskStep(t) \/ Failure(t) PROVE Same
  <2>1. pc'[Main] = pc[Main] /\ call'[Main] = call[Main]
    BY <1>1, <1>3
    DEF TaskStep, Failure, SendNext, Deposit, Sent, Inside, Poll, Received, EndDrain,
        Idle, ReportTemperature, ReportLight, Report, CleanUp, SendFailed,
        ReceiveFailed, SendBegin, MqSend, SendFail, StoreIncrement,
        LoadForIncrement, LoadForDecrement, StoreDecrement, ReceiveBegin, TestFlag,
        MqReceive, ReceiveFail, Exit, Goto, vars, TypeOK
  <2>2. todo'[Main] = todo[Main]
    BY <1>1, <1>3
    DEF TaskStep, Failure, SendNext, Deposit, Sent, Inside, Poll, Received, EndDrain,
        Idle, ReportTemperature, ReportLight, Report, Post, CleanUp, SendFailed,
        ReceiveFailed, Handle, HandleAsWorker, HandleAsMain, local, StationTypeOK
  <2> QED  BY <2>1, <2>2
<1>4. CASE TaskStep(Main) \/ Failure(Main)
  <2>1. CASE SendNext(Main)
    BY <2>1, SendNextDue
  <2>2. CASE Deposit(Main)
    <3>1. todo' = todo /\ pc[Main] = "opened" /\ pc'[Main] = "sent"
      BY <1>1, <2>2 DEF Deposit, MqSend, Goto, local, TypeOK
    <3> QED  BY <2>2, <3>1 DEF Due
  <2>3. CASE Sent(Main)
    <3>1. /\ todo' = todo /\ pc[Main] = "counting" /\ pc'[Main] = "run"
      BY <1>1, <2>3 DEF Sent, StoreIncrement, Goto, TypeOK
    <3> QED  BY <1>2, <3>1
  <2>4. CASE Inside(Main) \/ Poll(Main)
    <3>1. todo' = todo /\ call' = call /\ pc[Main] # "opened" /\ pc'[Main] # "opened"
      BY <1>1, <2>4 DEF Inside, Poll, LoadForIncrement, LoadForDecrement,
        StoreDecrement, ReceiveBegin, TestFlag, Goto, local, TypeOK
    <3> QED  BY <1>2, <3>1
  <2>5. CASE Received(Main)
    <3>1. /\ todo' = todo /\ pc[Main] = "receiving" /\ pc'[Main] = "run"
      BY <1>1, <2>5 DEF Received, Handle, HandleAsMain, MqReceive, Goto, TypeOK
    <3> QED  BY <1>2, <3>1
  <2>6. CASE EndDrain(Main)
    BY <1>2, <2>6 DEF EndDrain, vars
  <2>7. CASE Idle(Main) \/ ReportTemperature(Main) \/ ReportLight(Main)
    BY <2>7, StationAssumption DEF Idle, Step, ReportTemperature, ReportLight
  <2>8. CASE CleanUp(Main)
    BY <2>8, StationAssumption DEF CleanUp, Exit
  <2>9. CASE Failure(Main)
    BY <2>9 DEF Failure, SendFailed, SendFail, ReceiveFailed, ReceiveFail
  <2> QED
    BY <1>4, <2>1, <2>2, <2>3, <2>4, <2>5, <2>6, <2>7, <2>8, <2>9 DEF TaskStep
<1>5. CASE ClientRequest
  <2> SUFFICES ASSUME NEW r, Forward(Socket, r) PROVE Same
    BY <1>2, <1>5 DEF ClientRequest
  <2>1. Socket # Main
    BY StationAssumption
  <2>2. todo'[Main] = todo[Main]
    BY <1>1, <2>1 DEF Forward, Post, StationTypeOK
  <2> QED  BY <2>2 DEF Forward, vars
<1>6. CASE WakeUp \/ EndCheck
  BY <1>2, <1>6 DEF WakeUp, EndCheck, vars
<1>7. CASE Check
  <2>1. CASE Silent(slot)
    <3>1. /\ todo'[Main] = <<Msg(Main, Log, "LOG_MSG")>> /\ todo[Main] = <<>>
          /\ pc[Main] = "run" /\ pc' = pc
      BY <1>1, <1>7, <2>1 DEF Check, Post, Own, vars, StationTypeOK
    <3> QED  BY <3>1 DEF Due, Msg
  <2>2. CASE ~Silent(slot)
    BY <1>2, <1>7, <2>2 DEF Check, vars
  <2> QED  BY <2>1, <2>2
<1>8. CASE UNCHANGED stationVars
  BY <1>2, <1>8 DEF stationVars, vars, local
<1> QED  BY <1>2, <1>3, <1>4, <1>5, <1>6, <1>7, <1>8 DEF StationNext, MainStep

LEMMA NextDueOK ==
  ASSUME ~CallsMayFail, TInv, CallsOK, DueOK, [StationNext]_stationVars
  PROVE  DueOK'
<1> SUFFICES ASSUME at'[Main] # "drain", NEW i \in Slot PROVE ~Due(i)'
  BY DEF DueOK
<1>1. StationTypeOK /\ Main \in Task
  BY Members DEF TInv
<1>2. ~RequestHeartbeat
  BY <1>1 DEF RequestHeartbeat, StationTypeOK
<1>3. CASE at[Main] # "drain"
  BY <1>2, <1>3, DueStep DEF DueOK
<1>4. CASE at[Main] = "drain"
  <2>1. CASE EndDrain(Main)
    <3>1. todo[Main] = <<>> /\ pc[Main] = "run"
      BY <2>1 DEF EndDrain, Own
    <3>2. ~Due(i)
      BY <3>1 DEF Due
    <3> QED  BY <1>2, <3>2, DueStep
  <2>2. CASE ~EndDrain(Main)
    <3>1. ASSUME NEW t \in Task, TaskStep(t) \/ Failure(t) PROVE at'[Main] = at[Main]
      <4>1. CASE t = Main
        BY <1>1, <2>2, <3>1, <4>1, StationAssumption
        DEF TaskStep, Failure, SendNext, Deposit, Sent, Inside, Poll, Received,
            Idle, ReportTemperature, ReportLight, Report, Step, CleanUp, Exit,
            SendFailed, ReceiveFailed, local, StationTypeOK
      <4>2. CASE t # Main
        BY <1>1, <3>1, <4>2
        DEF TaskStep, Failure, SendNext, Deposit, Sent, Inside, Poll, Received, EndDrain,
            Idle, ReportTemperature, ReportLight, Report, Step, CleanUp,
            SendFailed, ReceiveFailed, local, StationTypeOK
      <4> QED  BY <4>1, <4>2
    <3>2. CASE ClientRequest
      BY <1>1, <1>4, <3>2, StationAssumption DEF ClientRequest, Forward, Step, StationTypeOK
    <3>3. CASE MainStep
      BY <1>2, <1>4, <3>3 DEF MainStep, WakeUp, Check, EndCheck, Own
    <3>4. CASE UNCHANGED stationVars
      BY <1>4, <3>4 DEF stationVars, local
    <3> QED  BY <1>4, <3>1, <3>2, <3>3, <3>4 DEF StationNext
  <2> QED  BY <2>1, <2>2
<1> QED  BY <1>3, <1>4

\* Counting a response ends the wait, and only that lowers the difference.
LEMMA KeepWaiting ==
  ASSUME TInv, [StationNext]_stationVars, NEW i \in Slot, Waiting(i),
         asked'[i] = asked[i], heard'[i] = heard[i], monitor'[i] = monitor[i],
         Due(i) => Due(i)', Need(i)' = Need(i)
  PROVE  Waiting(i)'
<1>1. Worker[i] \in Task /\ asked[i] \in Nat /\ heard[i] \in Nat
  BY BalanceTypes
<1>2. Need(i) \in Nat
  BY Members DEF Need, TInv, StationTypeOK
<1>3. pc'[Worker[i]] # "exited" => pc[Worker[i]] # "exited"
  BY <1>1, ExitedStays
<1>4. CASE pc'[Worker[i]] # "exited" /\ monitor'[i] = 0
  <2>1. asked[i] - heard[i] + (IF Due(i) THEN 1 ELSE 0) >= Need(i)
    BY <1>3, <1>4 DEF Waiting
  <2>2. asked[i] - heard[i] + (IF Due(i)' THEN 1 ELSE 0) >= Need(i)
    BY <1>1, <1>2, <2>1
  <2> QED  BY <2>2 DEF Waiting
<1> QED  BY <1>4 DEF Waiting

\* At the start no round has been counted and no alarm can be due.
LEMMA InitWaiting == StationInit => \A i \in Slot : Waiting(i)
<1> SUFFICES ASSUME StationInit, NEW i \in Slot PROVE Waiting(i)
  OBVIOUS
<1>1. TInv
  BY InitTInv
<1>2. asked[i] \in Nat /\ heard[i] = 0
  BY <1>1, BalanceTypes DEF StationInit
<1>3. Need(i) = 0
  BY Members DEF StationInit, Need
<1> QED  BY <1>2, <1>3 DEF Waiting

LEMMA MainWaiting ==
  ASSUME ~CallsMayFail, HInv, DueOK, MainStep, [StationNext]_stationVars,
         NEW i \in Slot, Waiting(i)
  PROVE  Waiting(i)'
<1>1. TInv /\ StationTypeOK /\ PlaceOK /\ CallsOK /\ Main \in Task
  BY Members DEF HInv, TInv
<1>2. /\ asked[i] \in Nat /\ heard[i] \in Nat /\ i \in Nat
      /\ Chances \in Nat \ {0} /\ chance \in Nat /\ slot \in Nat
      /\ Worker[i] \in Task /\ i <= Len(Worker)
  <2>1. asked[i] \in Nat /\ heard[i] \in Nat /\ Worker[i] \in Task
    BY <1>1, BalanceTypes
  <2>2. i \in Nat /\ i <= Len(Worker) /\ Chances \in Nat \ {0} /\ Len(Worker) \in Nat
    BY Members
  <2>3. chance \in 0 .. Chances /\ slot \in 0 .. Len(Worker)
    BY <1>1 DEF StationTypeOK
  <2> QED  BY <2>1, <2>2, <2>3
<1>3. asked' = asked /\ heard' = heard
  BY DEF MainStep, RequestHeartbeat, WakeUp, Check, EndCheck, past
<1>4. asked[i] - heard[i] >= 0
  <2>1. asked[i] = Beats(queue[Worker[i]], Main) + Owed(Worker[i])
                   + Beats(queue[Main], Worker[i]) + heard[i]
    BY DEF HInv, Balance
  <2> QED  BY <1>1, <2>1, BalanceTypes
<1>5. pc' = pc
  BY DEF MainStep, RequestHeartbeat, WakeUp, Check, EndCheck, vars
<1>6. CASE RequestHeartbeat
  <2>1. /\ at[Main] = "request" /\ at'[Main] = "drain" /\ chance' = chance + 1
        /\ monitor' = monitor
        /\ todo'[Main] = [j \in Slot |-> Msg(Main, Worker[j], "HEART_BEAT")]
    BY <1>1, <1>6 DEF RequestHeartbeat, Own, Post, StationTypeOK
  <2>2. ~Due(i)
    BY <2>1 DEF DueOK
  <2>3. Due(i)'
    <3>1. i \in DOMAIN todo'[Main] /\ todo'[Main][i] = Msg(Main, Worker[i], "HEART_BEAT")
      BY <2>1
    <3> QED  BY <3>1 DEF Due, Msg
  <2>4. Need(i) = chance /\ Need(i)' = chance + 1
    BY <2>1 DEF Need
  <2> QED  BY <1>2, <1>3, <1>5, <2>1, <2>2, <2>3, <2>4 DEF Waiting
<1>7. CASE WakeUp
  <2>1. Need(i)' = Need(i)
    BY <1>1, <1>2, <1>7 DEF WakeUp, Need, Own, StationTypeOK, Slot
  <2>2. ~RequestHeartbeat /\ monitor' = monitor
    BY <1>7 DEF WakeUp, RequestHeartbeat, Own
  <2> QED  BY <1>1, <1>3, <1>5, <2>1, <2>2, KeepWaiting, DueStep
<1>8. CASE EndCheck
  <2>1. Need(i)' = Need(i)
    BY <1>1, <1>2, <1>8 DEF EndCheck, Need, Own, StationTypeOK, Slot, watch
  <2>2. ~RequestHeartbeat /\ monitor' = monitor
    BY <1>8 DEF EndCheck, RequestHeartbeat, Own, watch
  <2> QED  BY <1>1, <1>3, <1>5, <2>1, <2>2, KeepWaiting, DueStep
<1>9. CASE Check
  <2>1. /\ at[Main] = "check" /\ at' = at /\ chance = 0 /\ chance' = chance
        /\ slot' = slot - 1 /\ slot > 0
        /\ ~RequestHeartbeat
    BY <1>1, <1>9 DEF Check, Own, PlaceOK, RequestHeartbeat
  <2>2. CASE i = slot
    <3>1. Need(i)' = 0
      BY <1>2, <2>1, <2>2 DEF Need
    <3> QED  BY <1>2, <1>3, <1>4, <3>1 DEF Waiting
  <2>3. CASE i # slot
    <3>1. Need(i)' = Need(i)
      BY <1>2, <2>1, <2>3 DEF Need
    <3>2. monitor'[i] = monitor[i]
      BY <1>1, <1>9, <2>3 DEF Check, StationTypeOK
    <3> QED  BY <1>1, <1>3, <1>5, <2>1, <3>1, <3>2, KeepWaiting, DueStep
  <2> QED  BY <2>2, <2>3
<1> QED  BY <1>6, <1>7, <1>8, <1>9 DEF MainStep

LEMMA TaskWaiting ==
  ASSUME ~CallsMayFail, HInv, DueOK, NEW t \in Task, TaskStep(t) \/ Failure(t),
         [StationNext]_stationVars, NEW i \in Slot, Waiting(i)
  PROVE  Waiting(i)'
<1>1. TInv /\ StationTypeOK /\ TypeOK /\ CallOK /\ PlaceOK /\ CallsOK /\ Main \in Task
  BY Members DEF HInv, TInv, IInv
<1>2. /\ asked[i] \in Nat /\ heard[i] \in Nat /\ monitor[i] \in Nat
      /\ chance \in Nat /\ Chances \in Nat /\ Worker[i] \in Task
  <2>1. asked[i] \in Nat /\ heard[i] \in Nat /\ Worker[i] \in Task
    BY <1>1, BalanceTypes
  <2>2. Chances \in Nat
    BY Members
  <2>3. chance \in 0 .. Chances /\ monitor[i] \in Nat
    BY <1>1 DEF StationTypeOK
  <2> QED  BY <2>1, <2>2, <2>3
<1>3. UNCHANGED <<chance, slot>>
  BY DEF TaskStep, Failure, SendNext, Deposit, Sent, Inside, Poll, Received, EndDrain,
         Idle, ReportTemperature, ReportLight, Report, CleanUp, SendFailed,
         ReceiveFailed, watch
<1>4. at'[Main] = "check" <=> at[Main] = "check"
  BY <1>1, StationAssumption
  DEF TaskStep, Failure, SendNext, Deposit, Sent, Inside, Poll, Received, EndDrain,
      Idle, ReportTemperature, ReportLight, Report, Step, CleanUp, Exit, Own,
      SendFailed, ReceiveFailed, local, StationTypeOK
<1>5. Need(i)' = Need(i)
  BY <1>3, <1>4 DEF Need
<1>6. ~RequestHeartbeat
  BY <1>1, <1>2, <1>3 DEF RequestHeartbeat
<1>7. CASE Deposit(t)
  <2>1. /\ UNCHANGED <<todo, monitor, heard, call>> /\ pc[t] = "opened"
        /\ pc' = [pc EXCEPT ![t] = "sent"]
        /\ asked'[i] = asked[i] +
             IF /\ t = Main /\ call[t].to = Worker[i]
                /\ call[t].msg.requestId = "HEART_BEAT" /\ call[t].obj = "queue"
             THEN 1 ELSE 0
        /\ call[t].obj \in {"queue", "orphan"}
    BY <1>7 DEF Deposit, MqSend, Goto, local, watch
  <2>2. CASE t = Main /\ call[t].to = Worker[i] /\ call[t].msg.requestId = "HEART_BEAT"
    <3>1. CASE call[t].obj = "queue"
      <4>1. asked'[i] = asked[i] + 1 /\ heard'[i] = heard[i] /\ monitor'[i] = monitor[i]
        BY <2>1, <2>2, <3>1
      <4>2. pc'[Worker[i]] # "exited" => pc[Worker[i]] # "exited"
        BY <1>1, <1>2, ExitedStays
      <4>3. Need(i) \in Nat
        BY <1>2 DEF Need
      <4> QED  BY <1>2, <1>5, <4>1, <4>2, <4>3 DEF Waiting
    <3>2. CASE call[t].obj = "orphan"
      <4>1. pc[Worker[i]] = "exited"
        BY <1>1, <2>1, <2>2, <3>2 DEF CallOK
      <4> QED  BY <1>1, <1>2, <4>1, ExitedStays DEF Waiting
    <3> QED  BY <2>1, <3>1, <3>2
  <2>3. CASE t # Main
    <3>1. asked'[i] = asked[i] /\ pc'[Main] = pc[Main]
      BY <1>1, <1>2, <2>1, <2>3 DEF TypeOK
    <3> QED  BY <1>1, <1>5, <1>6, <2>1, <3>1, KeepWaiting, DueStep
  <2>4. CASE t = Main /\ ~(call[t].to = Worker[i] /\ call[t].msg.requestId = "HEART_BEAT")
    <3>1. asked'[i] = asked[i]
      BY <1>2, <2>1, <2>4
    <3>2. Due(i) => Due(i)'
      BY <2>1, <2>4 DEF Due
    <3> QED  BY <1>1, <1>5, <2>1, <3>1, <3>2, KeepWaiting
  <2> QED  BY <2>2, <2>3, <2>4
<1>8. CASE ~Deposit(t)
  <2>1. pc[Main] = "opened" => pc'[Main] = "opened"
    BY <1>1, <1>8, Quitters
    DEF TaskStep, Failure, SendNext, Sent, Inside, Poll, Received, EndDrain,
        Idle, ReportTemperature, ReportLight, Report, CleanUp, SendFailed,
        ReceiveFailed, SendBegin, SendFail, StoreIncrement, LoadForIncrement,
        LoadForDecrement, StoreDecrement, ReceiveBegin, TestFlag, MqReceive,
        ReceiveFail, Exit, Goto, vars, TypeOK
  <2>2. asked' = asked
    BY <1>8
    DEF TaskStep, Failure, SendNext, Sent, Inside, Poll, Received, EndDrain,
        Idle, ReportTemperature, ReportLight, Report, CleanUp, SendFailed,
        ReceiveFailed, past
  <2>3. ASSUME heard'[i] = heard[i], monitor'[i] = monitor[i] PROVE Waiting(i)'
    BY <1>1, <1>5, <1>6, <2>1, <2>2, <2>3, KeepWaiting, DueStep
  <2>4. CASE Received(t)
    <3>1. Handle(t, Head(queue[t]))
      BY <2>4 DEF Received
    <3> DEFINE beat == /\ Head(queue[t]).requestId = "HEART_BEAT"
                       /\ Head(queue[t]).sourceId = Worker[i]
    <3>2. CASE t = Main /\ beat
      <4>1. monitor'[i] = monitor[i] + 1
        BY <3>1, <3>2 DEF Handle, HandleAsMain
      <4> QED  BY <1>2, <4>1 DEF Waiting
    <3>3. CASE t = Main /\ ~beat
      <4>1. monitor'[i] = monitor[i] + 0 /\ heard'[i] = heard[i] + 0
        BY <3>1, <3>3 DEF Handle, HandleAsMain
      <4> QED  BY <1>2, <2>3, <4>1
    <3>4. CASE t # Main
      BY <2>3, <3>1, <3>4 DEF Handle, HandleAsWorker
    <3> QED  BY <3>2, <3>3, <3>4
  <2>5. CASE ~Received(t) /\ ~Failure(t)
    <3>1. UNCHANGED <<heard, monitor>>
      BY <1>8, <2>5
      DEF TaskStep, SendNext, Sent, Inside, Poll, EndDrain, Idle,
          ReportTemperature, ReportLight, Report, CleanUp, past, watch
    <3> QED  BY <2>3, <3>1
  <2>6. CASE Failure(t)
    BY <2>6 DEF Failure, SendFailed, SendFail, ReceiveFailed, ReceiveFail
  <2> QED  BY <2>4, <2>5, <2>6
<1> QED  BY <1>7, <1>8

LEMMA NextWaiting ==
  ASSUME ~CallsMayFail, HInv, DueOK, [StationNext]_stationVars,
         NEW i \in Slot, Waiting(i)
  PROVE  Waiting(i)'
<1>1. CASE MainStep
  BY <1>1, MainWaiting
<1>2. CASE \E t \in Task : TaskStep(t) \/ Failure(t)
  BY <1>2, TaskWaiting
<1>3. CASE ClientRequest \/ UNCHANGED stationVars
  <2>1. TInv /\ CallsOK /\ StationTypeOK /\ Main \in Task
    BY Members DEF HInv, TInv
  <2>2. UNCHANGED <<vars, watch, past>>
    BY <1>3 DEF ClientRequest, Forward, stationVars
  <2>3. at'[Main] = at[Main]
    BY <1>3, <2>1, StationAssumption
    DEF ClientRequest, Forward, Step, stationVars, local, StationTypeOK
  <2>4. Need(i)' = Need(i) /\ ~RequestHeartbeat
    <3>1. chance \in Nat
      BY <2>1, Members DEF StationTypeOK
    <3> QED  BY <2>2, <2>3, <3>1 DEF Need, RequestHeartbeat, watch
  <2> QED  BY <2>1, <2>2, <2>4, KeepWaiting, DueStep DEF vars, watch, past
<1> QED  BY <1>1, <1>2, <1>3 DEF StationNext

LEMMA SpecWaiting ==
  ~CallsMayFail /\ StationSpec => [](HInv /\ DueOK /\ \A i \in Slot : Waiting(i))
<1>1. CASE CallsMayFail
  BY <1>1
<1>2. CASE ~CallsMayFail
  <2> DEFINE WInv == DueOK /\ \A i \in Slot : Waiting(i)
  <2>1. StationInit => WInv
    <3>1. StationInit => DueOK
      <4> SUFFICES ASSUME StationInit, NEW i \in Slot PROVE ~Due(i)
        BY DEF DueOK
      <4>1. pc[Main] = "run" /\ todo[Main] = <<Msg(Main, Log, "LOG_MSG")>>
        BY Members DEF StationInit, Init
      <4>2. \A k \in DOMAIN todo[Main] : todo[Main][k].requestId = "LOG_MSG"
        BY <4>1 DEF Msg
      <4> QED  BY <4>1, <4>2 DEF Due
    <3> QED  BY <3>1, InitWaiting
  <2>2. HInv /\ WInv /\ [StationNext]_stationVars => WInv'
    BY <1>2, NextDueOK, NextWaiting DEF HInv
  <2>3. StationSpec => []HInv
    BY <1>2, SpecHInv
  <2> QED  BY <2>1, <2>2, <2>3, PTL DEF StationSpec
<1> QED  BY <1>1, <1>2

\* As long as no call fails, the main thread never takes a worker for silent
\* that has answered: in every order of the threads, an alarm for a worker
\* that runs means that a whole cycle of its heartbeat requests is unanswered.
THEOREM AlarmsAreJustified == ~CallsMayFail /\ StationSpec => []AlarmMeansUnanswered
<1>1. HInv /\ DueOK /\ (\A i \in Slot : Waiting(i)) => AlarmMeansUnanswered
  <2> SUFFICES ASSUME HInv, DueOK, NEW i \in Slot, Waiting(i),
                      at[Main] = "check", i <= slot, Silent(i),
                      pc[Worker[i]] # "exited"
               PROVE  asked[i] - heard[i] >= Chances
    BY DEF AlarmMeansUnanswered
  <2>1. asked[i] \in Nat /\ heard[i] \in Nat /\ Chances \in Nat
    BY BalanceTypes, Members DEF HInv
  <2>2. ~Due(i) /\ Need(i) = Chances
    BY DEF DueOK, Need
  <2> QED  BY <2>1, <2>2 DEF Waiting, Silent
<1> QED  BY <1>1, SpecWaiting, PTL

-----------------------------------------------------------------------------
\* The places where a message of a client may be.
Cell == Task \X {"queue", "orphan", "todo", "call"}

\* The messages at a place and at a set of places, when F gives the positions
\* they have at each.
At(F, c) == {<<c[1], c[2], k>> : k \in F[c]}

Held(F, C) == UNION {At(F, c) : c \in C}

LEMMA AtCounted ==
  ASSUME NEW F, NEW c, IsFiniteSet(F[c])
  PROVE  IsFiniteSet(At(F, c)) /\ Cardinality(At(F, c)) = Cardinality(F[c])
<1> DEFINE f == [k \in F[c] |-> <<c[1], c[2], k>>]
<1>1. f \in [F[c] -> At(F, c)]
  BY DEF At
<1>2. \A j, k \in F[c] : f[j] = f[k] => j = k
  OBVIOUS
<1>3. \A x \in At(F, c) : \E k \in F[c] : f[k] = x
  BY DEF At
<1>4. f \in Bijection(F[c], At(F, c))
  BY <1>1, <1>2, <1>3, Fun_IsBij
<1>5. ExistsBijection(F[c], At(F, c))
  BY <1>4 DEF ExistsBijection
<1> QED  BY <1>5, FS_Bijection

LEMMA HeldFinite ==
  ASSUME NEW F, \A c \in Cell : IsFiniteSet(F[c]), NEW C \in SUBSET Cell
  PROVE  IsFiniteSet(Held(F, C))
<1>1. IsFiniteSet(Cell)
  <2>1. IsFiniteSet({"queue", "orphan", "todo"} \cup {"call"})
    <3>1. IsFiniteSet({"queue"})
      BY FS_Singleton
    <3>2. IsFiniteSet({"queue"} \cup {"orphan"})
      BY <3>1, FS_AddElement
    <3>3. IsFiniteSet(({"queue"} \cup {"orphan"}) \cup {"todo"})
      BY <3>2, FS_AddElement
    <3>4. ({"queue"} \cup {"orphan"}) \cup {"todo"} = {"queue", "orphan", "todo"}
      OBVIOUS
    <3> QED  BY <3>3, <3>4, FS_AddElement
  <2>2. {"queue", "orphan", "todo"} \cup {"call"} = {"queue", "orphan", "todo", "call"}
    OBVIOUS
  <2> QED  BY <2>1, <2>2, LayerAssumption, FS_Product DEF Cell
<1>2. IsFiniteSet(C)
  BY <1>1, FS_Subset
<1>3. IsFiniteSet({At(F, c) : c \in C})
  <2> DEFINE g == [c \in C |-> At(F, c)]
  <2>1. g \in Surjection(C, {At(F, c) : c \in C})
    BY Fun_IsSurj
  <2> QED  BY <1>2, <2>1, FS_Surjection
<1>4. \A T \in {At(F, c) : c \in C} : IsFiniteSet(T)
  BY AtCounted
<1> QED  BY <1>3, <1>4, FS_UNION DEF Held

\* What is held at some places is what is held at one and at the others.
LEMMA HeldSplit ==
  ASSUME NEW F, \A c \in Cell : IsFiniteSet(F[c]),
         NEW C \in SUBSET Cell, NEW d \in C
  PROVE  Cardinality(Held(F, C)) =
           Cardinality(Held(F, C \ {d})) + Cardinality(F[d])
<1>1. Held(F, C) = Held(F, C \ {d}) \cup At(F, d)
  BY DEF Held
<1>2. Held(F, C \ {d}) \cap At(F, d) = {}
  <2> SUFFICES ASSUME NEW c \in C \ {d}, NEW j \in F[c], NEW k \in F[d],
                      <<c[1], c[2], j>> = <<d[1], d[2], k>>
               PROVE  FALSE
    BY DEF Held, At
  <2>1. c = <<c[1], c[2]>> /\ d = <<d[1], d[2]>>
    BY DEF Cell
  <2>2. c[1] = d[1] /\ c[2] = d[2]
    OBVIOUS
  <2> QED  BY <2>1, <2>2
<1>3. IsFiniteSet(Held(F, C \ {d})) /\ IsFiniteSet(At(F, d))
      /\ Cardinality(At(F, d)) = Cardinality(F[d])
  BY HeldFinite, AtCounted
<1>4. Cardinality(Held(F, C \ {d})) \in Nat /\ Cardinality(At(F, d)) \in Nat
  BY <1>3, FS_CardinalityType
<1>5. Cardinality(Held(F, C \ {d}) \cap At(F, d)) = 0
  BY <1>2, FS_EmptySet
<1>6. Cardinality(Held(F, C \ {d}) \cup At(F, d)) =
        Cardinality(Held(F, C \ {d})) + Cardinality(At(F, d))
          - Cardinality(Held(F, C \ {d}) \cap At(F, d))
  BY <1>3, FS_Union
<1> QED  BY <1>1, <1>3, <1>4, <1>5, <1>6

\* So a step that changes two places changes the sum by what they change.
LEMMA HeldChange ==
  ASSUME NEW F, NEW G,
         \A c \in Cell : IsFiniteSet(F[c]) /\ IsFiniteSet(G[c]),
         NEW d \in Cell, NEW e \in Cell, d # e,
         \A c \in Cell \ {d, e} : G[c] = F[c]
  PROVE  /\ Cardinality(Held(F, Cell)) \in Nat
         /\ Cardinality(Held(G, Cell)) =
              Cardinality(Held(F, Cell)) + Cardinality(G[d]) - Cardinality(F[d])
                                         + Cardinality(G[e]) - Cardinality(F[e])
<1> DEFINE R == Cell \ {d, e}
<1>1. (Cell \ {d}) \ {e} = R /\ e \in Cell \ {d} /\ R \in SUBSET Cell
  OBVIOUS
<1>2. Held(G, R) = Held(F, R)
  BY DEF Held, At
<1>3. /\ Cardinality(Held(F, Cell)) =
           Cardinality(Held(F, Cell \ {d})) + Cardinality(F[d])
      /\ Cardinality(Held(G, Cell)) =
           Cardinality(Held(G, Cell \ {d})) + Cardinality(G[d])
  BY HeldSplit
<1>4. /\ Cardinality(Held(F, Cell \ {d})) = Cardinality(Held(F, R)) + Cardinality(F[e])
      /\ Cardinality(Held(G, Cell \ {d})) = Cardinality(Held(G, R)) + Cardinality(G[e])
  BY <1>1, HeldSplit
<1>5. IsFiniteSet(Held(F, R)) /\ IsFiniteSet(Held(F, Cell))
  BY <1>1, HeldFinite
<1>6. /\ Cardinality(Held(F, R)) \in Nat /\ Cardinality(Held(F, Cell)) \in Nat
      /\ \A c \in {d, e} : Cardinality(F[c]) \in Nat /\ Cardinality(G[c]) \in Nat
  BY <1>5, FS_CardinalityType
<1> QED  BY <1>2, <1>3, <1>4, <1>6

\* The positions of the requests and answers of clients at a place.
Asking == {m \in Message : Asks(m)}

Load(t, p) ==
  CASE p = "queue" -> {k \in DOMAIN queue[t] : Asks(queue[t][k])}
    [] p = "orphan" -> {k \in DOMAIN orphan[t] : Asks(orphan[t][k])}
    [] p = "todo" -> {k \in DOMAIN todo[t] : Asks(todo[t][k])}
    [] p = "call" -> {k \in {1} : pc[t] = "opened" /\ Asks(call[t].msg)}

Taken == [c \in Cell |-> Load(c[1], c[2])]

TransitHeld == InTransit = Held(Taken, Cell)

Calling(t) == IF pc[t] = "opened" THEN One(call[t].msg, Asking) ELSE 0

LEMMA TransitIsHeld == TransitHeld
<1>1. ASSUME NEW x \in InTransit PROVE x \in Held(Taken, Cell)
  <2>1. PICK t \in Task :
          \/ \E k \in Load(t, "queue") : x = <<t, "queue", k>>
          \/ \E k \in Load(t, "orphan") : x = <<t, "orphan", k>>
          \/ \E k \in Load(t, "todo") : x = <<t, "todo", k>>
          \/ \E k \in Load(t, "call") : x = <<t, "call", k>>
    BY <1>1 DEF InTransit, Load
  <2>2. PICK p \in {"queue", "orphan", "todo", "call"} :
          \E k \in Load(t, p) : x = <<t, p, k>>
    BY <2>1
  <2>3. <<t, p>> \in Cell /\ x \in At(Taken, <<t, p>>)
    BY <2>2 DEF Cell, At, Taken
  <2> QED  BY <2>3 DEF Held
<1>2. ASSUME NEW x \in Held(Taken, Cell) PROVE x \in InTransit
  <2>1. PICK c \in Cell : \E k \in Load(c[1], c[2]) : x = <<c[1], c[2], k>>
    BY <1>2 DEF Held, At, Taken
  <2>2. c[1] \in Task /\ c[2] \in {"queue", "orphan", "todo", "call"}
    BY DEF Cell
  <2> QED  BY <2>1, <2>2 DEF InTransit, Load
<1> QED  BY <1>1, <1>2 DEF TransitHeld

LoadsCounted ==
  \A t \in Task :
    /\ Cardinality(Load(t, "queue")) = Count(queue[t], Asking)
    /\ Cardinality(Load(t, "orphan")) = Count(orphan[t], Asking)
    /\ Cardinality(Load(t, "todo")) = Count(todo[t], Asking)
    /\ Cardinality(Load(t, "call")) = Calling(t)
    /\ \A p \in {"queue", "orphan", "todo", "call"} : IsFiniteSet(Load(t, p))

LEMMA LoadCounted == TInv => LoadsCounted
<1> SUFFICES ASSUME TInv, NEW t \in Task
             PROVE  /\ Cardinality(Load(t, "queue")) = Count(queue[t], Asking)
                    /\ Cardinality(Load(t, "orphan")) = Count(orphan[t], Asking)
                    /\ Cardinality(Load(t, "todo")) = Count(todo[t], Asking)
                    /\ Cardinality(Load(t, "call")) = Calling(t)
                    /\ \A p \in {"queue", "orphan", "todo", "call"} :
                         IsFiniteSet(Load(t, p))
  BY DEF LoadsCounted
<1>1. /\ queue[t] \in Seq(Message) /\ orphan[t] \in Seq(Message)
      /\ todo[t] \in Seq(Message) /\ call[t] \in Call \cup {NoCall}
      /\ CallOK
  BY DEF TInv, IInv, TypeOK, StationTypeOK
<1>2. ASSUME NEW s \in Seq(Message)
      PROVE  {k \in DOMAIN s : Asks(s[k])} = Places(s, Asking)
  <2>1. \A k \in DOMAIN s : s[k] \in Message
    OBVIOUS
  <2> QED  BY <2>1 DEF Places, Asking
<1>3. /\ Load(t, "queue") = Places(queue[t], Asking)
      /\ Load(t, "orphan") = Places(orphan[t], Asking)
      /\ Load(t, "todo") = Places(todo[t], Asking)
  BY <1>1, <1>2 DEF Load
<1>4. CASE pc[t] = "opened" /\ Asks(call[t].msg)
  <2>1. Load(t, "call") = {1}
    BY <1>4 DEF Load
  <2>2. call[t].msg \in Message
    BY <1>1, <1>4 DEF CallOK, Call
  <2>3. Calling(t) = 1
    BY <1>4, <2>2 DEF Calling, One, Asking
  <2>4. IsFiniteSet({1}) /\ Cardinality({1}) = 1
    BY FS_Singleton
  <2> QED  BY <1>1, <1>3, <2>1, <2>3, <2>4, CountType DEF Count
<1>5. CASE ~(pc[t] = "opened" /\ Asks(call[t].msg))
  <2>1. Load(t, "call") = {}
    BY <1>5 DEF Load
  <2>2. Calling(t) = 0
    BY <1>5 DEF Calling, One, Asking
  <2> QED  BY <1>1, <1>3, <2>1, <2>2, CountType, FS_EmptySet DEF Count
<1> QED  BY <1>4, <1>5

\* A step that touches two of the places changes the number of requests and
\* answers on their way by what it changes there.
LEMMA TransitChange ==
  ASSUME TInv, TInv', NEW d \in Cell, NEW e \in Cell, d # e,
         \A t \in Task :
           /\ <<t, "queue">> \notin {d, e} => queue'[t] = queue[t]
           /\ <<t, "orphan">> \notin {d, e} => orphan'[t] = orphan[t]
           /\ <<t, "todo">> \notin {d, e} => todo'[t] = todo[t]
           /\ <<t, "call">> \notin {d, e} =>
                /\ pc'[t] = "opened" <=> pc[t] = "opened"
                /\ pc[t] = "opened" => call'[t] = call[t]
  PROVE  /\ Cardinality(InTransit) \in Nat
         /\ Cardinality(InTransit)' =
              Cardinality(InTransit)
              + Cardinality(Load(d[1], d[2]))' - Cardinality(Load(d[1], d[2]))
              + Cardinality(Load(e[1], e[2]))' - Cardinality(Load(e[1], e[2]))
<1>1. ASSUME NEW c \in Cell
      PROVE  c[1] \in Task /\ c[2] \in {"queue", "orphan", "todo", "call"}
             /\ c = <<c[1], c[2]>>
  BY DEF Cell
<1>2. LoadsCounted /\ LoadsCounted'
  BY LoadCounted, PTL
<1>3. \A c \in Cell : IsFiniteSet(Load(c[1], c[2])) /\ IsFiniteSet(Load(c[1], c[2])')
  <2>1. \A t \in Task, p \in {"queue", "orphan", "todo", "call"} :
          IsFiniteSet(Load(t, p)) /\ IsFiniteSet(Load(t, p)')
    BY <1>2 DEF LoadsCounted
  <2> QED  BY <1>1, <2>1
<1>4. ASSUME NEW c \in Cell \ {d, e} PROVE Load(c[1], c[2])' = Load(c[1], c[2])
  <2>1. CASE c[2] = "queue"
    BY <1>1, <2>1 DEF Load
  <2>2. CASE c[2] = "orphan"
    BY <1>1, <2>2 DEF Load
  <2>3. CASE c[2] = "todo"
    BY <1>1, <2>3 DEF Load
  <2>4. CASE c[2] = "call"
    BY <1>1, <2>4 DEF Load
  <2> QED  BY <1>1, <2>1, <2>2, <2>3, <2>4
<1> DEFINE F == [c \in Cell |-> Load(c[1], c[2])]
           G == [c \in Cell |-> Load(c[1], c[2])']
<1>5. F = Taken /\ G = Taken'
  BY DEF Taken
<1>6. /\ \A c \in Cell : F[c] = Load(c[1], c[2]) /\ G[c] = Load(c[1], c[2])'
      /\ \A c \in Cell : IsFiniteSet(F[c]) /\ IsFiniteSet(G[c])
      /\ \A c \in Cell \ {d, e} : G[c] = F[c]
  BY <1>3, <1>4
<1> HIDE DEF F, G
<1>7. /\ Cardinality(Held(F, Cell)) \in Nat
      /\ Cardinality(Held(G, Cell)) =
           Cardinality(Held(F, Cell)) + Cardinality(G[d]) - Cardinality(F[d])
                                      + Cardinality(G[e]) - Cardinality(F[e])
  BY <1>6, HeldChange
<1>8. InTransit = Held(F, Cell)
  BY <1>5, TransitIsHeld DEF TransitHeld
<1>9. InTransit' = Held(G, Cell)
  <2>1. TransitHeld'
    BY TransitIsHeld, PTL
  <2>2. Held(Taken, Cell)' = Held(Taken', Cell)
    BY DEF Held, At, Cell
  <2> QED  BY <1>5, <2>1, <2>2 DEF TransitHeld
<1> QED  BY <1>6, <1>7, <1>8, <1>9

\* A step that moves none of them.
LEMMA SameAnswers ==
  ASSUME TInv, AnswersMatchClients,
         UNCHANGED <<queue, orphan, todo, clients, answered>>,
         \A t \in Task : pc'[t] = "opened" <=> pc[t] = "opened",
         \A t \in Task : pc[t] = "opened" => call'[t] = call[t]
  PROVE  AnswersMatchClients'
<1>1. InTransit' = InTransit
  BY DEF InTransit
<1> QED  BY <1>1 DEF AnswersMatchClients

LEMMA SendNextAnswers ==
  ASSUME TInv, TInv', NEW t \in Task, SendNext(t), AnswersMatchClients
  PROVE  AnswersMatchClients'
<1> DEFINE m == Head(todo[t])
           d == <<t, "todo">>
           e == <<t, "call">>
<1>1. TypeOK /\ StationTypeOK
  BY DEF TInv, IInv
<1>2. /\ UNCHANGED <<queue, orphan, clients, answered>>
      /\ todo' = [todo EXCEPT ![t] = Tail(@)] /\ todo[t] # <<>>
      /\ pc[t] = "run" /\ pc' = [pc EXCEPT ![t] = "opened"]
      /\ \E o \in Opened(m.destId) :
           call' = [call EXCEPT ![t] = [to |-> m.destId, msg |-> m, obj |-> o]]
  BY DEF SendNext, SendBegin, Goto, past, count
<1>3. /\ \A u \in Task \ {t} : todo'[u] = todo[u] /\ pc'[u] = pc[u] /\ call'[u] = call[u]
      /\ todo'[t] = Tail(todo[t]) /\ pc'[t] = "opened" /\ call'[t].msg = m
  BY <1>1, <1>2 DEF TypeOK, StationTypeOK
<1>4. d \in Cell /\ e \in Cell /\ d # e
  BY DEF Cell
<1>5. /\ Cardinality(InTransit) \in Nat
      /\ Cardinality(InTransit)' =
           Cardinality(InTransit)
           + Cardinality(Load(t, "todo"))' - Cardinality(Load(t, "todo"))
           + Cardinality(Load(t, "call"))' - Cardinality(Load(t, "call"))
  BY <1>2, <1>3, <1>4, TransitChange
<1>6. LoadsCounted /\ LoadsCounted'
  BY LoadCounted, PTL
<1>7. /\ Cardinality(Load(t, "todo")) = Count(todo[t], Asking)
      /\ Cardinality(Load(t, "todo"))' = Count(Tail(todo[t]), Asking)
      /\ Cardinality(Load(t, "call")) = 0
      /\ Cardinality(Load(t, "call"))' = One(m, Asking)
  <2>1. Asking' = Asking
    BY DEF Asking, Asks
  <2>2. Count(todo[t], Asking)' = Count(Tail(todo[t]), Asking)
    BY <1>3, <2>1 DEF Count, Places
  <2>3. Calling(t)' = One(m, Asking)
    BY <1>3, <2>1 DEF Calling, One
  <2> QED  BY <1>2, <1>6, <2>2, <2>3 DEF LoadsCounted, Calling
<1>8. /\ Count(todo[t], Asking) = Count(Tail(todo[t]), Asking) + One(m, Asking)
      /\ Count(Tail(todo[t]), Asking) \in Nat /\ One(m, Asking) \in Nat
  <2>1. todo[t] \in Seq(Message) /\ Tail(todo[t]) \in Seq(Message)
    BY <1>1, <1>2 DEF StationTypeOK
  <2> QED  BY <1>2, <2>1, CountTail, CountType DEF One
<1> QED  BY <1>2, <1>5, <1>7, <1>8 DEF AnswersMatchClients

LEMMA DepositAnswers ==
  ASSUME TInv, TInv', NEW t \in Task, Deposit(t), AnswersMatchClients
  PROVE  AnswersMatchClients'
<1> DEFINE m == call[t].msg
<1>1. TypeOK /\ CallOK
  BY DEF TInv, IInv
<1> PICK q \in Task : q = call[t].to
  <2>1. call[t].to \in Task
    BY <1>1 DEF Deposit, MqSend, Goto, CallOK, Call
  <2> QED  BY <2>1
<1>2. /\ UNCHANGED <<todo, call, clients, answered>>
      /\ pc[t] = "opened" /\ pc' = [pc EXCEPT ![t] = "sent"]
      /\ \/ queue' = [queue EXCEPT ![q] = Append(@, m)] /\ orphan' = orphan
         \/ orphan' = [orphan EXCEPT ![q] = Append(@, m)] /\ queue' = queue
  BY DEF Deposit, MqSend, Goto, local, count
<1>3. m \in Message
  BY <1>1, <1>2 DEF CallOK, Call
<1>4. pc'[t] = "sent" /\ \A u \in Task \ {t} : pc'[u] = pc[u]
  BY <1>1, <1>2 DEF TypeOK
<1>5. LoadsCounted /\ LoadsCounted' /\ Asking' = Asking
  <2>1. Asking' = Asking
    BY DEF Asking, Asks
  <2> QED  BY <2>1, LoadCounted, PTL
<1>6. /\ Cardinality(Load(t, "call")) = One(m, Asking)
      /\ Cardinality(Load(t, "call"))' = 0
      /\ One(m, Asking) \in Nat
  BY <1>2, <1>4, <1>5 DEF LoadsCounted, Calling, One
<1>7. CASE queue' = [queue EXCEPT ![q] = Append(@, m)] /\ orphan' = orphan
  <2> DEFINE d == <<t, "call">>
             e == <<q, "queue">>
  <2>1. d \in Cell /\ e \in Cell /\ d # e
    BY DEF Cell
  <2>2. queue[q] \in Seq(Message) /\ queue'[q] = Append(queue[q], m)
        /\ \A u \in Task \ {q} : queue'[u] = queue[u]
    BY <1>1, <1>3, <1>7 DEF TypeOK
  <2>3. /\ Cardinality(InTransit) \in Nat
        /\ Cardinality(InTransit)' =
             Cardinality(InTransit)
             + Cardinality(Load(t, "call"))' - Cardinality(Load(t, "call"))
             + Cardinality(Load(q, "queue"))' - Cardinality(Load(q, "queue"))
    BY <1>2, <1>4, <1>7, <2>1, <2>2, TransitChange
  <2>4. /\ Cardinality(Load(q, "queue")) = Count(queue[q], Asking)
        /\ Cardinality(Load(q, "queue"))' = Count(Append(queue[q], m), Asking)
    <3>1. Count(queue[q], Asking)' = Count(Append(queue[q], m), Asking)
      BY <1>5, <2>2 DEF Count, Places
    <3> QED  BY <1>5, <3>1 DEF LoadsCounted
  <2>5. Count(Append(queue[q], m), Asking) = Count(queue[q], Asking) + One(m, Asking)
        /\ Count(queue[q], Asking) \in Nat
    BY <1>3, <2>2, CountAppend, CountType
  <2> QED  BY <1>2, <1>6, <2>3, <2>4, <2>5 DEF AnswersMatchClients
<1>8. CASE orphan' = [orphan EXCEPT ![q] = Append(@, m)] /\ queue' = queue
  <2> DEFINE d == <<t, "call">>
             e == <<q, "orphan">>
  <2>1. d \in Cell /\ e \in Cell /\ d # e
    BY DEF Cell
  <2>2. orphan[q] \in Seq(Message) /\ orphan'[q] = Append(orphan[q], m)
        /\ \A u \in Task \ {q} : orphan'[u] = orphan[u]
    BY <1>1, <1>3, <1>8 DEF TypeOK
  <2>3. /\ Cardinality(InTransit) \in Nat
        /\ Cardinality(InTransit)' =
             Cardinality(InTransit)
             + Cardinality(Load(t, "call"))' - Cardinality(Load(t, "call"))
             + Cardinality(Load(q, "orphan"))' - Cardinality(Load(q, "orphan"))
    BY <1>2, <1>4, <1>8, <2>1, <2>2, TransitChange
  <2>4. /\ Cardinality(Load(q, "orphan")) = Count(orphan[q], Asking)
        /\ Cardinality(Load(q, "orphan"))' = Count(Append(orphan[q], m), Asking)
    <3>1. Count(orphan[q], Asking)' = Count(Append(orphan[q], m), Asking)
      BY <1>5, <2>2 DEF Count, Places
    <3> QED  BY <1>5, <3>1 DEF LoadsCounted
  <2>5. Count(Append(orphan[q], m), Asking) = Count(orphan[q], Asking) + One(m, Asking)
        /\ Count(orphan[q], Asking) \in Nat
    BY <1>3, <2>2, CountAppend, CountType
  <2> QED  BY <1>2, <1>6, <2>3, <2>4, <2>5 DEF AnswersMatchClients
<1> QED  BY <1>2, <1>7, <1>8

\* Where the routes take the requests of clients and their answers.
LEMMA AskRoute ==
  ASSUME NEW q \in Task, NEW m \in Addressed(q)
  PROVE  /\ m \in Message /\ m.destId = q
         /\ m.requestId \in TempRequest => q \in {Temp, Log, Socket}
         /\ m.requestId \in LightRequest => q \in {Light, Log, Socket}
<1>1. m \in Message /\ m.destId = q /\ <<m.sourceId, q, m.requestId>> \in Route
  BY DEF Addressed
<1>2. \A r \in Route :
        /\ r[3] \in TempRequest => r[2] \in {Temp, Log, Socket}
        /\ r[3] \in LightRequest => r[2] \in {Light, Log, Socket}
  BY StationAssumption
<1> QED  BY <1>1, <1>2

LEMMA CountOne ==
  ASSUME NEW m \in Message, NEW M
  PROVE  Count(<<m>>, M) = One(m, M)
<1>1. <<>> \in Seq(Message) /\ <<m>> = Append(<<>>, m)
  OBVIOUS
<1>2. Count(Append(<<>>, m), M) = Count(<<>>, M) + One(m, M)
  BY <1>1, CountAppend
<1> QED  BY <1>1, <1>2, CountEmpty DEF One

\* A worker passes a client's request on as one answer; the socket task,
\* which alone takes answers, sends nothing for them.
LEMMA ReplyAsks ==
  ASSUME NEW t \in Task, t # Main, NEW m \in Addressed(t)
  PROVE  Count(Reply(t, m), Asking) + (IF t = Socket /\ Asks(m) THEN 1 ELSE 0)
           = One(m, Asking)
<1>1. /\ m \in Message /\ m.destId = t
      /\ m.requestId \in TempRequest => t \in {Temp, Log, Socket}
      /\ m.requestId \in LightRequest => t \in {Light, Log, Socket}
  BY AskRoute
<1>2. One(m, Asking) = IF Asks(m) THEN 1 ELSE 0
  BY <1>1 DEF One, Asking
<1>3. Count(BeatReply(t, m), Asking) = 0
  <2>1. \A k \in DOMAIN BeatReply(t, m) : BeatReply(t, m)[k] \notin Asking
    BY DEF BeatReply, Asking, Asks, Msg, TempRequest, LightRequest
  <2> QED  BY <2>1, CountNone
<1>4. ASSUME m.requestId \in TempRequest \cup LightRequest
      PROVE  Count(<<Msg(t, Socket, m.requestId)>>, Asking) = 1
  <2>1. Socket \in Task /\ m.requestId \in Request /\ Socket # Log
    BY <1>4, StationAssumption DEF TempRequest, LightRequest
  <2>2. Msg(t, Socket, m.requestId) \in Message
    BY <2>1, MsgType
  <2>3. Msg(t, Socket, m.requestId) \in Asking
    BY <1>4, <2>1, <2>2 DEF Asking, Asks, Msg
  <2> QED  BY <2>2, <2>3, CountOne DEF One
<1>5. CASE t = Temp
  <2>1. t # Log /\ t # Socket /\ t # Light
    BY <1>5, StationAssumption
  <2>2. Asks(m) <=> m.requestId \in TempRequest
    BY <1>1, <2>1 DEF Asks
  <2>3. Reply(t, m) = IF m.requestId \in TempRequest
                      THEN <<Msg(t, Socket, m.requestId)>> ELSE BeatReply(t, m)
    BY <1>5 DEF Reply, TempReply
  <2> QED  BY <1>2, <1>3, <1>4, <2>1, <2>2, <2>3
<1>6. CASE t = Light
  <2>1. t # Log /\ t # Socket /\ t # Temp
    BY <1>6, StationAssumption
  <2>2. Asks(m) <=> m.requestId \in LightRequest
    BY <1>1, <2>1 DEF Asks
  <2>3. Reply(t, m) = IF m.requestId \in LightRequest
                      THEN <<Msg(t, Socket, m.requestId)>> ELSE BeatReply(t, m)
    BY <1>6, <2>1 DEF Reply, LightReply
  <2> QED  BY <1>2, <1>3, <1>4, <2>1, <2>2, <2>3
<1>7. CASE t \notin {Temp, Light}
  <2>1. Reply(t, m) = BeatReply(t, m)
    BY <1>7 DEF Reply
  <2>2. Asks(m) => t = Socket
    BY <1>1, <1>7 DEF Asks
  <2> QED  BY <1>2, <1>3, <2>1, <2>2
<1> QED  BY <1>5, <1>6, <1>7

LEMMA ReceivedAnswers ==
  ASSUME TInv, TInv', CallsOK, NEW t \in Task, Received(t), AnswersMatchClients
  PROVE  AnswersMatchClients'
<1> DEFINE m == Head(queue[t])
           d == <<t, "queue">>
           e == <<t, "todo">>
<1>1. TypeOK /\ StationTypeOK /\ answered \in Nat
  BY DEF TInv, IInv, StationTypeOK
<1>2. /\ UNCHANGED <<orphan, call, clients>>
      /\ pc[t] = "receiving" /\ pc' = [pc EXCEPT ![t] = "run"]
      /\ queue[t] # <<>> /\ queue' = [queue EXCEPT ![t] = Tail(@)]
      /\ Handle(t, m)
      /\ answered' = answered + IF t = Socket /\ Asks(m) THEN 1 ELSE 0
  BY DEF Received, MqReceive, Goto, count
<1>3. /\ queue[t] \in Seq(Message) /\ Tail(queue[t]) \in Seq(Message)
      /\ m \in Addressed(t)
  <2>1. queue[t] \in Seq(Message) /\ Tail(queue[t]) \in Seq(Message)
        /\ 1 \in DOMAIN queue[t] /\ m = queue[t][1]
    BY <1>1, <1>2 DEF TypeOK
  <2> QED  BY <2>1 DEF CallsOK
<1>4. /\ queue'[t] = Tail(queue[t]) /\ pc'[t] = "run"
      /\ \A u \in Task \ {t} : queue'[u] = queue[u] /\ pc'[u] = pc[u]
      /\ \A u \in Task \ {t} : todo'[u] = todo[u]
      /\ todo'[t] = IF t = Main THEN todo[t] ELSE Reply(t, m)
      /\ todo[t] = <<>>
  <2>1. queue'[t] = Tail(queue[t]) /\ pc'[t] = "run"
        /\ \A u \in Task \ {t} : queue'[u] = queue[u] /\ pc'[u] = pc[u]
    BY <1>1, <1>2 DEF TypeOK
  <2>2. todo' = IF t = Main THEN todo ELSE [todo EXCEPT ![t] = Reply(t, m)]
    BY <1>2 DEF Handle, HandleAsMain, HandleAsWorker
  <2>3. todo[t] = <<>>
    BY <1>2 DEF CallsOK
  <2> QED  BY <1>1, <2>1, <2>2, <2>3 DEF StationTypeOK
<1>5. d \in Cell /\ e \in Cell /\ d # e
  BY DEF Cell
<1>6. /\ Cardinality(InTransit) \in Nat
      /\ Cardinality(InTransit)' =
           Cardinality(InTransit)
           + Cardinality(Load(t, "queue"))' - Cardinality(Load(t, "queue"))
           + Cardinality(Load(t, "todo"))' - Cardinality(Load(t, "todo"))
  BY <1>2, <1>4, <1>5, TransitChange
<1>7. LoadsCounted /\ LoadsCounted' /\ Asking' = Asking
  <2>1. Asking' = Asking
    BY DEF Asking, Asks
  <2> QED  BY <2>1, LoadCounted, PTL
<1>8. /\ Cardinality(Load(t, "queue")) = Count(queue[t], Asking)
      /\ Cardinality(Load(t, "queue"))' = Count(Tail(queue[t]), Asking)
  <2>1. Count(queue[t], Asking)' = Count(Tail(queue[t]), Asking)
    BY <1>4, <1>7 DEF Count, Places
  <2> QED  BY <1>7, <2>1 DEF LoadsCounted
<1>9. /\ Count(queue[t], Asking) = Count(Tail(queue[t]), Asking) + One(m, Asking)
      /\ Count(Tail(queue[t]), Asking) \in Nat
      /\ One(m, Asking) = IF Asks(m) THEN 1 ELSE 0
  <2>1. One(m, Asking) = IF Asks(m) THEN 1 ELSE 0
    BY <1>3, AskRoute DEF One, Asking
  <2> QED  BY <1>2, <1>3, <2>1, CountTail, CountType
<1>10. Cardinality(Load(t, "todo")) = 0
  BY <1>4, <1>7, CountEmpty DEF LoadsCounted
<1>11. CASE t = Main
  <2>1. ~Asks(m) /\ t # Socket
    BY <1>3, <1>11, AskRoute, StationAssumption DEF Asks
  <2>2. Cardinality(Load(t, "todo"))' = 0
    <3>1. Count(todo[t], Asking)' = Count(<<>>, Asking)
      BY <1>4, <1>7, <1>11 DEF Count, Places
    <3> QED  BY <1>7, <3>1, CountEmpty DEF LoadsCounted
  <2> QED  BY <1>1, <1>2, <1>6, <1>8, <1>9, <1>10, <2>1, <2>2 DEF AnswersMatchClients
<1>12. CASE t # Main
  <2>1. Cardinality(Load(t, "todo"))' = Count(Reply(t, m), Asking)
    <3>1. Count(todo[t], Asking)' = Count(Reply(t, m), Asking)
      BY <1>4, <1>7, <1>12 DEF Count, Places
    <3> QED  BY <1>7, <3>1 DEF LoadsCounted
  <2>2. Count(Reply(t, m), Asking) + (IF t = Socket /\ Asks(m) THEN 1 ELSE 0)
          = One(m, Asking)
    BY <1>3, <1>12, ReplyAsks
  <2>3. Count(Reply(t, m), Asking) \in Nat
    BY <1>3, AskRoute, ReplyType, CountType
  <2> QED  BY <1>1, <1>2, <1>6, <1>8, <1>9, <1>10, <2>1, <2>2, <2>3
           DEF AnswersMatchClients
<1> QED  BY <1>11, <1>12

\* What a thread decides to send must count for as many clients as it asks for.
LEMMA PostAnswers ==
  ASSUME TInv, TInv', NEW t \in Task, todo[t] = <<>>, NEW s \in Seq(Message),
         Post(t, s), UNCHANGED <<vars, answered>>,
         clients' = clients + Count(s, Asking), AnswersMatchClients
  PROVE  AnswersMatchClients'
<1> DEFINE d == <<t, "todo">>
           e == <<t, "call">>
<1>1. TypeOK /\ StationTypeOK /\ answered \in Nat
  BY DEF TInv, IInv, StationTypeOK
<1>2. UNCHANGED <<queue, orphan, call, pc>> /\ todo' = [todo EXCEPT ![t] = s]
  BY DEF vars, Post
<1>3. todo'[t] = s /\ \A u \in Task \ {t} : todo'[u] = todo[u]
  BY <1>1, <1>2 DEF StationTypeOK
<1>4. d \in Cell /\ e \in Cell /\ d # e
  BY DEF Cell
<1>5. /\ Cardinality(InTransit) \in Nat
      /\ Cardinality(InTransit)' =
           Cardinality(InTransit)
           + Cardinality(Load(t, "todo"))' - Cardinality(Load(t, "todo"))
           + Cardinality(Load(t, "call"))' - Cardinality(Load(t, "call"))
  BY <1>2, <1>3, <1>4, TransitChange
<1>6. LoadsCounted /\ LoadsCounted' /\ Asking' = Asking
  <2>1. Asking' = Asking
    BY DEF Asking, Asks
  <2> QED  BY <2>1, LoadCounted, PTL
<1>7. Cardinality(Load(t, "todo")) = 0
  BY <1>6, CountEmpty DEF LoadsCounted
<1>8. Cardinality(Load(t, "todo"))' = Count(s, Asking)
  <2>1. Count(todo[t], Asking)' = Count(s, Asking)
    BY <1>3, <1>6 DEF Count, Places
  <2> QED  BY <1>6, <2>1 DEF LoadsCounted
<1>9. Cardinality(Load(t, "call"))' = Cardinality(Load(t, "call"))
      /\ Cardinality(Load(t, "call")) \in Nat
  BY <1>2, <1>6 DEF LoadsCounted, Calling, One
<1>10. Count(s, Asking) \in Nat
  BY CountType
<1> QED  BY <1>1, <1>5, <1>7, <1>8, <1>9, <1>10 DEF AnswersMatchClients

LEMMA NextAnswers ==
  ASSUME ~CallsMayFail, TInv, TInv', CallsOK, [StationNext]_stationVars,
         AnswersMatchClients
  PROVE  AnswersMatchClients'
<1>1. TypeOK /\ StationTypeOK /\ clients \in Nat
  <2>1. clients \in 0 .. MaxClients
    BY DEF TInv, StationTypeOK
  <2> QED  BY <2>1 DEF TInv, IInv
<1>2. ASSUME UNCHANGED <<queue, orphan, call, todo, clients, answered>>,
             \A u \in Task : pc'[u] = "opened" <=> pc[u] = "opened"
      PROVE  AnswersMatchClients'
  BY <1>2, SameAnswers
<1>3. ASSUME NEW t \in Task, NEW s \in Seq(Message), todo[t] = <<>>, Post(t, s),
             UNCHANGED <<vars, answered, clients>>,
             \A k \in DOMAIN s : ~Asks(s[k])
      PROVE  AnswersMatchClients'
  <2>1. Count(s, Asking) = 0
    BY <1>3, CountNone DEF Asking
  <2> QED  BY <1>1, <1>3, <2>1, PostAnswers
<1>4. CASE MainStep
  <2>1. CASE RequestHeartbeat
    <3> DEFINE s == [j \in Slot |-> Msg(Main, Worker[j], "HEART_BEAT")]
    <3>1. s \in Seq(Message)
      <4>1. \A j \in Slot : Msg(Main, Worker[j], "HEART_BEAT") \in Message
        BY WorkerType, Members, MsgType
      <4> QED  BY <4>1, Members
    <3>2. \A k \in DOMAIN s : ~Asks(s[k])
      BY DEF Asks, Msg, TempRequest, LightRequest
    <3>3. todo[Main] = <<>> /\ Post(Main, s) /\ UNCHANGED <<vars, answered, clients>>
      BY <2>1 DEF RequestHeartbeat, Own, past
    <3> QED  BY <1>3, <3>1, <3>2, <3>3, Members
  <2>2. CASE Check
    <3>1. CASE Silent(slot)
      <4> DEFINE s == <<Msg(Main, Log, "LOG_MSG")>>
      <4>1. s \in Seq(Message) /\ \A k \in DOMAIN s : ~Asks(s[k])
        BY Members DEF Asks, Msg
      <4>2. todo[Main] = <<>> /\ Post(Main, s)
            /\ UNCHANGED <<vars, answered, clients>>
        BY <2>2, <3>1 DEF Check, Own, past, count
      <4> QED  BY <1>3, <4>1, <4>2, Members
    <3>2. CASE ~Silent(slot)
      BY <1>2, <2>2, <3>2 DEF Check, vars, past, count
    <3> QED  BY <3>1, <3>2
  <2>3. CASE WakeUp \/ EndCheck
    BY <1>2, <2>3 DEF WakeUp, EndCheck, vars, past, count
  <2> QED  BY <1>4, <2>1, <2>2, <2>3 DEF MainStep
<1>5. ASSUME NEW t \in Task, TaskStep(t) \/ Failure(t) PROVE AnswersMatchClients'
  <2>1. CASE SendNext(t) \/ Deposit(t) \/ Received(t)
    BY <2>1, SendNextAnswers, DepositAnswers, ReceivedAnswers
  <2>2. CASE ReportTemperature(t) \/ ReportLight(t)
    <3> DEFINE s == <<Msg(t, Log, "LOG_MSG")>>
    <3>1. s \in Seq(Message) /\ \A k \in DOMAIN s : ~Asks(s[k])
      BY Members DEF Asks, Msg
    <3>2. todo[t] = <<>> /\ Post(t, s) /\ UNCHANGED <<vars, answered, clients>>
      BY <2>2 DEF ReportTemperature, ReportLight, Report, Step, Own, past
    <3> QED  BY <1>3, <3>1, <3>2
  <2>3. CASE Sent(t)
    BY <1>1, <2>3, SameAnswers DEF Sent, StoreIncrement, Goto, past, count, TypeOK
  <2>4. CASE Inside(t) \/ Poll(t)
    BY <1>1, <1>2, <2>4
    DEF Inside, Poll, LoadForIncrement, LoadForDecrement, StoreDecrement,
        ReceiveBegin, TestFlag, Goto, local, past, count, TypeOK
  <2>5. CASE EndDrain(t) \/ Idle(t)
    BY <1>2, <2>5 DEF EndDrain, Idle, vars, past, count
  <2>6. CASE CleanUp(t)
    BY <1>1, <1>2, <2>6 DEF CleanUp, Exit, Goto, past, count, TypeOK
  <2>7. CASE Failure(t)
    BY <2>7 DEF Failure, SendFailed, SendFail, ReceiveFailed, ReceiveFail
  <2> QED  BY <1>5, <2>1, <2>2, <2>3, <2>4, <2>5, <2>6, <2>7 DEF TaskStep
<1>6. CASE ClientRequest
  <2> SUFFICES ASSUME NEW r \in TempRequest \cup LightRequest, Forward(Socket, r)
               PROVE  AnswersMatchClients'
    BY <1>6 DEF ClientRequest
  <2> DEFINE d == IF r \in TempRequest THEN Temp ELSE Light
             a == Msg(Socket, d, r)
             b == Msg(Socket, Log, r)
  <2>1. Socket \in Task /\ r \in Request /\ d \in Task /\ d # Log
    BY StationAssumption DEF TempRequest, LightRequest, Forward
  <2>2. a \in Message /\ b \in Message /\ a \in Asking /\ b \notin Asking
    BY <2>1, Members, MsgType DEF Asking, Asks, Msg
  <2>3. Count(<<a, b>>, Asking) = 1
    <3> HIDE DEF a, b
    <3>1. <<a>> \in Seq(Message) /\ <<a, b>> = Append(<<a>>, b)
      BY <2>2
    <3>2. Count(Append(<<a>>, b), Asking) = Count(<<a>>, Asking) + One(b, Asking)
      BY <2>2, <3>1, CountAppend
    <3>3. Count(<<a>>, Asking) = 1 /\ One(b, Asking) = 0
      BY <2>2, CountOne DEF One
    <3> DEFINE u == Count(Append(<<a>>, b), Asking)
    <3>4. u = 1
      <4> DEFINE x == Count(<<a>>, Asking)
                 y == One(b, Asking)
      <4>1. u = x + y /\ x = 1 /\ y = 0
        BY <3>2, <3>3
      <4> HIDE DEF u, x, y
      <4> QED  BY <4>1
    <3> QED  BY <3>1, <3>4
  <2>4. /\ todo[Socket] = <<>> /\ Post(Socket, <<a, b>>)
        /\ UNCHANGED <<vars, answered>> /\ clients' = clients + 1
    BY DEF Forward, Step, Own, past
  <2>5. <<a, b>> \in Seq(Message)
    BY <2>2
  <2> HIDE DEF a, b
  <2> QED  BY <2>1, <2>3, <2>4, <2>5, PostAnswers
<1>7. CASE UNCHANGED stationVars
  BY <1>2, <1>7 DEF stationVars, vars, local, past, count
<1> QED  BY <1>4, <1>5, <1>6, <1>7 DEF StationNext

\* With no message left behind by an earlier run, nobody asks at the start.
LEMMA InitAnswers == MaxStale = 0 /\ StationInit => AnswersMatchClients
<1> SUFFICES ASSUME MaxStale = 0, StationInit PROVE AnswersMatchClients
  OBVIOUS
<1>1. \A t \in Task : DOMAIN queue[t] = {}
  <2> SUFFICES ASSUME NEW t \in Task PROVE DOMAIN queue[t] = {}
    OBVIOUS
  <2>1. queue[t] \in Leftover(t)
    BY DEF StationInit, Init
  <2>2. PICK n \in 0 .. 0 : queue[t] \in [1 .. n -> Addressed(t)]
    BY <2>1 DEF Leftover
  <2> QED  BY <2>2
<1>2. \A t \in Task : DOMAIN orphan[t] = {} /\ pc[t] = "run"
  BY DEF StationInit, Init
<1>3. \A t \in Task : \A k \in DOMAIN todo[t] : ~Asks(todo[t][k])
  BY DEF StationInit, Asks, Msg
<1>4. InTransit = {}
  BY <1>1, <1>2, <1>3 DEF InTransit
<1>5. clients = 0 /\ answered = 0
  BY DEF StationInit
<1> QED  BY <1>4, <1>5, FS_EmptySet DEF AnswersMatchClients

\* As long as no call fails and no earlier run left messages behind, every
\* client request the socket task took up is answered exactly once: the race
\* of flag++ and flag--, the exits of tasks and the order of the threads may
\* delay an answer or leave it in an orphaned queue, but never duplicate it,
\* drop it or make one up.
THEOREM ClientsAnswered ==
  ~CallsMayFail /\ MaxStale = 0 /\ StationSpec => []AnswersMatchClients
<1>1. CASE CallsMayFail \/ MaxStale # 0
  BY <1>1
<1>2. CASE ~CallsMayFail /\ MaxStale = 0
  <2> DEFINE CInv == TInv /\ CallsOK /\ AnswersMatchClients
  <2>1. StationInit => CInv
    BY <1>2, InitTInv, InitCalls, InitAnswers
  <2>2. CInv /\ [StationNext]_stationVars => CInv'
    BY <1>2, NextTInv, NextCalls, NextAnswers
  <2>3. CInv => AnswersMatchClients
    OBVIOUS
  <2> QED  BY <2>1, <2>2, <2>3, PTL DEF StationSpec
<1> QED  BY <1>1, <1>2

=============================================================================
