------------------------- MODULE MessageQueueProofs -------------------------
(***************************************************************************)
(* Theorems about the communication layer, for any set of threads, any     *)
(* routes between them, any capacity and any number of calls.              *)
(*                                                                         *)
(* The argument rests on one inductive invariant, IInv.  The accounting of *)
(* a queue is disturbed by a sender that has opened the wrong queue object *)
(* or that counts its message for another queue; CallOK excludes both.     *)
(***************************************************************************)
EXTENDS MessageQueue, FiniteSetTheorems, SequenceTheorems, TLAPS

\* What holds of the call a thread is making: the message is addressed to the
\* queue it goes to, and the object is the one its reader reads as long as
\* that reader lives.
CallOK ==
  \A t \in Task : pc[t] \in {"opened", "sent", "counting"} =>
    /\ call[t] \in Call
    /\ call[t].msg.destId = call[t].to
    /\ call[t].obj = "orphan" => pc[call[t].to] = "exited"

IInv == TypeOK /\ CallOK /\ FlagNeverNegative /\ Accounting

-----------------------------------------------------------------------------
\* A queue of an earlier run is a sequence of messages that fits in the queue.
LEMMA LeftoverType ==
  ASSUME NEW q \in Task, NEW f \in Leftover(q)
  PROVE  f \in Seq(Message) /\ Len(f) <= Capacity
<1>1. PICK n \in 0 .. MaxStale : f \in [1 .. n -> Addressed(q)]
  BY DEF Leftover
<1>2. f \in [1 .. n -> Message]
  BY <1>1 DEF Addressed
<1>3. n \in Nat /\ n <= Capacity
  BY LayerAssumption
<1>4. f \in Seq(Message)
  BY <1>2, <1>3
<1>5. Len(f) = n
  BY <1>2, <1>3, <1>4
<1> QED  BY <1>3, <1>4, <1>5

LEMMA InitType == Init => TypeOK
<1> SUFFICES ASSUME Init PROVE TypeOK
  OBVIOUS
<1>1. queue \in [Task -> Seq(Message)]
  BY LeftoverType DEF Init
<1>2. \A q \in Task : Len(queue[q]) \in Nat
  BY <1>1
<1>3. drift \in [Task -> Int]
  BY <1>2 DEF Init
<1>4. orphan \in [Task -> Seq(Message)]
  BY DEF Init
<1> QED
  BY <1>1, <1>3, <1>4, LayerAssumption DEF Init, TypeOK, MutexState, Phase

LEMMA InitInv == Init => IInv
<1> SUFFICES ASSUME Init PROVE IInv
  OBVIOUS
<1>1. TypeOK
  BY InitType
<1>2. CallOK /\ FlagNeverNegative
  BY DEF Init, CallOK, FlagNeverNegative
<1>3. Accounting
  <2> SUFFICES ASSUME NEW q \in Task
               PROVE  Len(queue[q]) = flag[q] + drift[q]
                        + Cardinality(Uncounted(q)) + Claimed(q)
    BY DEF Accounting
  <2>1. Uncounted(q) = {}
    BY DEF Init, Uncounted
  <2>2. Claimed(q) = 0 /\ flag[q] = 0 /\ drift[q] = Len(queue[q])
    BY DEF Init, Claimed
  <2>3. Len(queue[q]) \in Nat
    BY <1>1 DEF TypeOK
  <2> QED  BY <2>1, <2>2, <2>3, FS_EmptySet
<1> QED  BY <1>1, <1>2, <1>3 DEF IInv

-----------------------------------------------------------------------------
LEMMA UncountedFinite ==
  ASSUME NEW q \in Task
  PROVE  IsFiniteSet(Uncounted(q)) /\ Cardinality(Uncounted(q)) \in Nat
<1>1. Uncounted(q) \in SUBSET Task
  BY DEF Uncounted
<1> QED  BY <1>1, LayerAssumption, FS_Subset, FS_CardinalityType

\* The numbers Accounting relates, for one queue.
LEMMA QueueSum ==
  ASSUME IInv, NEW q \in Task
  PROVE  /\ flag[q] \in Int /\ drift[q] \in Int /\ Claimed(q) \in 0 .. 1
         /\ Len(queue[q]) \in Nat
         /\ pc[q] # "exited" =>
              Len(queue[q]) = flag[q] + drift[q]
                                + Cardinality(Uncounted(q)) + Claimed(q)
<1>1. flag[q] \in Int /\ drift[q] \in Int /\ queue[q] \in Seq(Message)
  BY DEF IInv, TypeOK
<1>2. Claimed(q) \in 0 .. 1
  BY DEF Claimed
<1> QED  BY <1>1, <1>2 DEF IInv, Accounting

LEMMA SendBeginInv ==
  ASSUME IInv, NEW t \in Task, NEW q \in Task, NEW m \in Message,
         SendBegin(t, q, m)
  PROVE  IInv'
<1> USE DEF Goto
<1>1. PICK o \in Opened(q) :
        call' = [call EXCEPT ![t] = [to |-> q, msg |-> m, obj |-> o]]
  BY DEF SendBegin
<1>2. m.destId = q /\ o \in Object /\ (o = "orphan" => pc[q] = "exited")
  BY DEF SendBegin, Addressed, Opened, Named, Object
<1>3. TypeOK'
  <2>1. sends' \in [Task -> 0 .. MaxSends]
    BY LayerAssumption DEF IInv, TypeOK, SendBegin
  <2>2. call' \in [Task -> Call \cup {NoCall}]
    BY <1>1, <1>2 DEF IInv, TypeOK, Call
  <2>3. copy' \in [Task -> MutexState]
    BY DEF IInv, TypeOK, SendBegin, LockedCopy, MutexState
  <2>4. pc' \in [Task -> Phase]
    BY DEF IInv, TypeOK, SendBegin, Phase
  <2> QED  BY <2>1, <2>2, <2>3, <2>4 DEF IInv, TypeOK, SendBegin
<1>4. CallOK'
  BY <1>1, <1>2 DEF IInv, TypeOK, CallOK, SendBegin, Call, Phase
<1>5. FlagNeverNegative'
  BY DEF IInv, TypeOK, FlagNeverNegative, SendBegin
<1>6. Accounting'
  <2>1. \A r \in Task : Uncounted(r)' = Uncounted(r) /\ Claimed(r)' = Claimed(r)
    BY <1>1 DEF IInv, TypeOK, SendBegin, Uncounted, Claimed
  <2> QED
    BY <2>1 DEF IInv, TypeOK, Accounting, SendBegin
<1> QED  BY <1>3, <1>4, <1>5, <1>6 DEF IInv

LEMMA MqSendInv ==
  ASSUME IInv, NEW t \in Task, MqSend(t)
  PROVE  IInv'
<1> USE DEF Goto
<1> DEFINE q == call[t].to
<1>1. /\ call[t] \in Call /\ q \in Task /\ call[t].msg \in Message
      /\ pc[t] = "opened" /\ call' = call
      /\ pc[q] # "exited" => call[t].obj # "orphan"
  BY DEF IInv, CallOK, MqSend, Call
<1>2. TypeOK'
  <2>1. \A f \in [Task -> Seq(Message)] :
          [f EXCEPT ![q] = Append(@, call[t].msg)] \in [Task -> Seq(Message)]
    BY <1>1
  <2>2. queue' \in [Task -> Seq(Message)] /\ orphan' \in [Task -> Seq(Message)]
    BY <2>1 DEF IInv, TypeOK, MqSend
  <2> QED  BY <2>2 DEF IInv, TypeOK, MqSend, Phase
<1>3. CallOK'
  BY <1>1 DEF IInv, TypeOK, CallOK, MqSend, Call
<1>4. FlagNeverNegative'
  BY DEF IInv, TypeOK, FlagNeverNegative, MqSend
<1>5. Accounting'
  <2> SUFFICES ASSUME NEW r \in Task, pc'[r] # "exited"
               PROVE  Len(queue'[r]) = flag'[r] + drift'[r]
                        + Cardinality(Uncounted(r)') + Claimed(r)'
    BY DEF Accounting
  <2>1. pc[r] # "exited" /\ Claimed(r)' = Claimed(r)
    BY DEF IInv, TypeOK, MqSend, Claimed
  <2>2. CASE r = q
    <3>1. queue'[r] = Append(queue[r], call[t].msg) /\ queue[r] \in Seq(Message)
      BY <1>1, <2>1, <2>2 DEF IInv, TypeOK, MqSend, Call, Object
    <3>4. Len(queue'[r]) = Len(queue[r]) + 1
      BY <1>1, <3>1
    <3>5. flag'[r] = flag[r] /\ drift'[r] = drift[r]
      BY DEF MqSend
    <3>2. Uncounted(r)' = Uncounted(r) \cup {t} /\ t \notin Uncounted(r)
      BY <1>1, <2>2 DEF IInv, TypeOK, MqSend, Uncounted
    <3>3. Cardinality(Uncounted(r)') = Cardinality(Uncounted(r)) + 1
      BY <3>2, UncountedFinite, FS_AddElement
    <3>6. Cardinality(Uncounted(r)) \in Nat
      BY UncountedFinite
    <3>7. /\ flag[r] \in Int /\ drift[r] \in Int /\ Claimed(r) \in 0 .. 1
          /\ Len(queue[r]) = flag[r] + drift[r]
                                + Cardinality(Uncounted(r)) + Claimed(r)
      BY <2>1, QueueSum
    <3> QED  BY <2>1, <3>3, <3>4, <3>5, <3>6, <3>7
  <2>3. CASE r # q
    <3>1. queue'[r] = queue[r] /\ Uncounted(r)' = Uncounted(r)
      BY <1>1, <2>3 DEF IInv, TypeOK, MqSend, Uncounted
    <3> QED  BY <2>1, <3>1 DEF IInv, TypeOK, Accounting, MqSend
  <2> QED  BY <2>2, <2>3
<1> QED  BY <1>2, <1>3, <1>4, <1>5 DEF IInv

LEMMA SendFailInv ==
  ASSUME IInv, NEW t \in Task, SendFail(t)
  PROVE  IInv'
<1> USE DEF Goto
<1>1. TypeOK'
  <2>1. call' \in [Task -> Call \cup {NoCall}]
    <3>1. call' = [call EXCEPT ![t] = NoCall]
      BY DEF SendFail
    <3> QED  BY <3>1 DEF IInv, TypeOK
  <2>2. pc' \in [Task -> Phase]
    <3>1. pc' = [pc EXCEPT ![t] = "run"]
      BY DEF SendFail
    <3> QED  BY <3>1 DEF IInv, TypeOK, Phase
  <2>3. UNCHANGED <<queue, orphan, flag, mutex, copy, reg, sends, drift>>
    BY DEF SendFail
  <2> QED  BY <2>1, <2>2, <2>3 DEF IInv, TypeOK
<1>2. CallOK'
  BY DEF IInv, TypeOK, CallOK, SendFail
<1>3. FlagNeverNegative'
  BY DEF IInv, TypeOK, FlagNeverNegative, SendFail
<1>4. \A r \in Task : Uncounted(r)' = Uncounted(r) /\ Claimed(r)' = Claimed(r)
  BY DEF IInv, TypeOK, SendFail, Uncounted, Claimed
<1>5. Accounting'
  BY <1>4 DEF IInv, TypeOK, Accounting, SendFail
<1> QED  BY <1>1, <1>2, <1>3, <1>5 DEF IInv

LEMMA LoadForIncrementInv ==
  ASSUME IInv, NEW t \in Task, LoadForIncrement(t)
  PROVE  IInv'
<1> USE DEF Goto
<1>1. call[t].msg.destId \in Task
  BY DEF IInv, CallOK, LoadForIncrement, Call, Message
<1>2. TypeOK'
  BY <1>1 DEF IInv, TypeOK, LoadForIncrement, Phase
<1>3. CallOK'
  BY DEF IInv, TypeOK, CallOK, LoadForIncrement, Call
<1>4. FlagNeverNegative'
  BY <1>1 DEF IInv, TypeOK, FlagNeverNegative, LoadForIncrement
<1>5. \A r \in Task : Uncounted(r)' = Uncounted(r) /\ Claimed(r)' = Claimed(r)
  BY DEF IInv, TypeOK, LoadForIncrement, Uncounted, Claimed
<1>6. Accounting'
  BY <1>5 DEF IInv, TypeOK, Accounting, LoadForIncrement
<1> QED  BY <1>2, <1>3, <1>4, <1>6 DEF IInv

LEMMA StoreIncrementInv ==
  ASSUME IInv, NEW t \in Task, StoreIncrement(t)
  PROVE  IInv'
<1> USE DEF Goto
<1> DEFINE q == call[t].to
<1>1. q \in Task /\ call[t].msg.destId = q /\ pc[t] = "counting"
  BY DEF IInv, CallOK, StoreIncrement, Call
<1>2. TypeOK'
  <2>1. flag' \in [Task -> Int] /\ drift' \in [Task -> Int]
    <3>1. reg[t] \in Int /\ flag[q] \in Int /\ drift[q] \in Int
      BY <1>1 DEF IInv, TypeOK
    <3>2. /\ flag' = [flag EXCEPT ![q] = reg[t] + 1]
          /\ drift' = [drift EXCEPT ![q] = @ + (flag[q] - reg[t])]
      BY <1>1 DEF StoreIncrement
    <3>3. flag \in [Task -> Int] /\ drift \in [Task -> Int]
      BY DEF IInv, TypeOK
    <3>4. \A i \in Int, f \in [Task -> Int] : [f EXCEPT ![q] = i] \in [Task -> Int]
      BY <1>1
    <3>5. reg[t] + 1 \in Int /\ drift[q] + (flag[q] - reg[t]) \in Int
      BY <3>1
    <3> QED  BY <3>2, <3>3, <3>4, <3>5
  <2>2. copy' \in [Task -> MutexState] /\ pc' \in [Task -> Phase]
    BY DEF IInv, TypeOK, StoreIncrement, Phase, UnlockedCopy, MutexState
  <2>3. call' \in [Task -> Call \cup {NoCall}] /\ reg' \in [Task -> Int]
    BY DEF IInv, TypeOK, StoreIncrement
  <2> QED  BY <2>1, <2>2, <2>3 DEF IInv, TypeOK, StoreIncrement
<1>3. CallOK'
  BY DEF IInv, TypeOK, CallOK, StoreIncrement, Call
<1>4. FlagNeverNegative'
  <2>1. reg[t] \in Int /\ reg[t] >= 0
    BY <1>1 DEF IInv, TypeOK, FlagNeverNegative
  <2>2. /\ pc' = [pc EXCEPT ![t] = "run"]
        /\ flag' = [flag EXCEPT ![q] = reg[t] + 1]
        /\ reg' = [reg EXCEPT ![t] = 0]
    BY <1>1 DEF StoreIncrement
  <2>3. \A s \in Task : flag'[s] = IF s = q THEN reg[t] + 1 ELSE flag[s]
    BY <1>1, <2>2 DEF IInv, TypeOK
  <2>4. \A s \in Task : s # t => pc'[s] = pc[s] /\ reg'[s] = reg[s]
    BY <2>2 DEF IInv, TypeOK
  <2>5. pc'[t] = "run"
    BY <2>2 DEF IInv, TypeOK
  <2> SUFFICES ASSUME NEW s \in Task
               PROVE  /\ flag'[s] >= 0
                      /\ pc'[s] = "counting" => reg'[s] >= 0
                      /\ pc'[s] \in {"tested", "uncounting"} => flag'[s] >= 1
                      /\ pc'[s] = "uncounting" => reg'[s] >= 1
    BY DEF FlagNeverNegative
  <2>6. flag'[s] >= 0
    BY <2>1, <2>3 DEF IInv, FlagNeverNegative
  <2>7. CASE s = t
    BY <2>5, <2>6, <2>7
  <2>8. CASE s # t
    BY <2>1, <2>3, <2>4, <2>6, <2>8 DEF IInv, FlagNeverNegative
  <2> QED  BY <2>7, <2>8
<1>5. Accounting'
  <2> SUFFICES ASSUME NEW r \in Task, pc'[r] # "exited"
               PROVE  Len(queue'[r]) = flag'[r] + drift'[r]
                        + Cardinality(Uncounted(r)') + Claimed(r)'
    BY DEF Accounting
  <2>1. pc[r] # "exited" /\ Claimed(r)' = Claimed(r) /\ queue' = queue
    BY DEF IInv, TypeOK, StoreIncrement, Claimed
  <2>2. CASE r = q
    <3>1. Uncounted(r)' = Uncounted(r) \ {t} /\ t \in Uncounted(r)
      BY <1>1, <2>2 DEF IInv, TypeOK, StoreIncrement, Uncounted
    <3>2. Cardinality(Uncounted(r)') = Cardinality(Uncounted(r)) - 1
      BY <3>1, UncountedFinite, FS_RemoveElement
    <3>3. flag'[r] + drift'[r] = flag[r] + drift[r] + 1
      BY <1>1, <2>2 DEF IInv, TypeOK, StoreIncrement
    <3>4. flag'[r] \in Int /\ drift'[r] \in Int
      BY <1>2 DEF TypeOK
    <3> QED
      BY <2>1, <3>2, <3>3, <3>4, UncountedFinite, QueueSum
  <2>3. CASE r # q
    <3>1. Uncounted(r)' = Uncounted(r)
      BY <1>1, <2>3 DEF IInv, TypeOK, StoreIncrement, Uncounted
    <3> QED
      BY <1>1, <2>1, <2>3, <3>1 DEF IInv, TypeOK, Accounting, StoreIncrement
  <2> QED  BY <2>2, <2>3
<1> QED  BY <1>2, <1>3, <1>4, <1>5 DEF IInv

LEMMA TestFlagInv ==
  ASSUME IInv, NEW t \in Task, TestFlag(t)
  PROVE  IInv'
<1> USE DEF Goto
<1>1. TypeOK'
  BY DEF IInv, TypeOK, TestFlag, Phase
<1>2. CallOK'
  BY DEF IInv, TypeOK, CallOK, TestFlag
<1>3. FlagNeverNegative'
  BY DEF IInv, TypeOK, FlagNeverNegative, TestFlag
<1>4. \A r \in Task : Uncounted(r)' = Uncounted(r) /\ Claimed(r)' = Claimed(r)
  BY DEF IInv, TypeOK, TestFlag, Uncounted, Claimed
<1>5. Accounting'
  BY <1>4 DEF IInv, TypeOK, Accounting, TestFlag
<1> QED  BY <1>1, <1>2, <1>3, <1>5 DEF IInv

LEMMA LoadForDecrementInv ==
  ASSUME IInv, NEW t \in Task, LoadForDecrement(t)
  PROVE  IInv'
<1> USE DEF Goto
<1>1. TypeOK'
  BY DEF IInv, TypeOK, LoadForDecrement, Phase
<1>2. CallOK'
  BY DEF IInv, TypeOK, CallOK, LoadForDecrement
<1>3. FlagNeverNegative'
  BY DEF IInv, TypeOK, FlagNeverNegative, LoadForDecrement
<1>4. \A r \in Task : Uncounted(r)' = Uncounted(r) /\ Claimed(r)' = Claimed(r)
  BY DEF IInv, TypeOK, LoadForDecrement, Uncounted, Claimed
<1>5. Accounting'
  BY <1>4 DEF IInv, TypeOK, Accounting, LoadForDecrement
<1> QED  BY <1>1, <1>2, <1>3, <1>5 DEF IInv

LEMMA StoreDecrementInv ==
  ASSUME IInv, NEW t \in Task, StoreDecrement(t)
  PROVE  IInv'
<1> USE DEF Goto
<1>1. /\ pc[t] = "uncounting" /\ pc' = [pc EXCEPT ![t] = "uncounted"]
      /\ flag' = [flag EXCEPT ![t] = reg[t] - 1]
      /\ drift' = [drift EXCEPT ![t] = @ + (flag[t] - reg[t])]
      /\ reg' = [reg EXCEPT ![t] = 0]
      /\ UNCHANGED <<queue, orphan, mutex, copy, call, sends>>
  BY DEF StoreDecrement
<1>2. reg[t] \in Int /\ reg[t] >= 1 /\ flag[t] \in Int /\ drift[t] \in Int
  BY <1>1 DEF IInv, TypeOK, FlagNeverNegative
<1>3. TypeOK'
  BY <1>1, <1>2 DEF IInv, TypeOK, Phase
<1>4. CallOK'
  BY <1>1 DEF IInv, TypeOK, CallOK, Call
<1>5. FlagNeverNegative'
  BY <1>1, <1>2 DEF IInv, TypeOK, FlagNeverNegative
<1>6. Accounting'
  <2> SUFFICES ASSUME NEW r \in Task, pc'[r] # "exited"
               PROVE  Len(queue'[r]) = flag'[r] + drift'[r]
                        + Cardinality(Uncounted(r)') + Claimed(r)'
    BY DEF Accounting
  <2>1. pc[r] # "exited" /\ Uncounted(r)' = Uncounted(r) /\ queue' = queue
    BY <1>1 DEF IInv, TypeOK, Uncounted
  <2>2. Cardinality(Uncounted(r)) \in Nat
    BY UncountedFinite
  <2>3. /\ flag[r] \in Int /\ drift[r] \in Int /\ Claimed(r) \in 0 .. 1
        /\ Len(queue[r]) = flag[r] + drift[r]
                              + Cardinality(Uncounted(r)) + Claimed(r)
    BY <2>1, QueueSum
  <2>4. CASE r = t
    <3>1. Claimed(r) = 0 /\ Claimed(r)' = 1
      BY <1>1, <2>4 DEF IInv, TypeOK, Claimed
    <3>2. flag'[r] + drift'[r] = flag[r] + drift[r] - 1
      BY <1>1, <1>2, <2>4 DEF IInv, TypeOK
    <3>3. flag'[r] \in Int /\ drift'[r] \in Int
      BY <1>3 DEF TypeOK
    <3> QED  BY <2>1, <2>2, <2>3, <3>1, <3>2, <3>3
  <2>5. CASE r # t
    <3>1. Claimed(r)' = Claimed(r) /\ flag'[r] = flag[r] /\ drift'[r] = drift[r]
      BY <1>1, <2>5 DEF IInv, TypeOK, Claimed
    <3> QED  BY <2>1, <2>3, <3>1
  <2> QED  BY <2>4, <2>5
<1> QED  BY <1>3, <1>4, <1>5, <1>6 DEF IInv

LEMMA ReceiveBeginInv ==
  ASSUME IInv, NEW t \in Task, ReceiveBegin(t)
  PROVE  IInv'
<1> USE DEF Goto
<1>1. TypeOK'
  <2>1. copy' \in [Task -> MutexState]
    BY DEF IInv, TypeOK, ReceiveBegin, LockedCopy, MutexState
  <2> QED  BY <2>1 DEF IInv, TypeOK, ReceiveBegin, Phase
<1>2. CallOK'
  BY DEF IInv, TypeOK, CallOK, ReceiveBegin
<1>3. FlagNeverNegative'
  BY DEF IInv, TypeOK, FlagNeverNegative, ReceiveBegin
<1>4. \A r \in Task : Uncounted(r)' = Uncounted(r) /\ Claimed(r)' = Claimed(r)
  BY DEF IInv, TypeOK, ReceiveBegin, Uncounted, Claimed
<1>5. Accounting'
  BY <1>4 DEF IInv, TypeOK, Accounting, ReceiveBegin
<1> QED  BY <1>1, <1>2, <1>3, <1>5 DEF IInv

\* Both ways out of mq_receive end a claim: the one takes a message from the
\* queue, the other adds one to the drift.
LEMMA ReceiveEndInv ==
  ASSUME IInv, NEW t \in Task, MqReceive(t) \/ ReceiveFail(t)
  PROVE  IInv'
<1> USE DEF Goto
<1>1. /\ pc[t] = "receiving" /\ pc' = [pc EXCEPT ![t] = "run"]
      /\ UNCHANGED <<orphan, flag, mutex, call, reg, sends>>
  BY DEF MqReceive, ReceiveFail
<1>2. \/ /\ queue[t] # <<>> /\ queue' = [queue EXCEPT ![t] = Tail(@)]
         /\ UNCHANGED drift
      \/ /\ drift' = [drift EXCEPT ![t] = @ + 1]
         /\ UNCHANGED queue
  BY DEF MqReceive, ReceiveFail
<1>3. /\ queue \in [Task -> Seq(Message)] /\ queue[t] \in Seq(Message)
      /\ drift \in [Task -> Int] /\ drift[t] \in Int
  BY DEF IInv, TypeOK
<1>4. queue[t] # <<>> => /\ Tail(queue[t]) \in Seq(Message)
                         /\ Len(Tail(queue[t])) = Len(queue[t]) - 1
  BY <1>3
<1>5. TypeOK'
  <2>1. copy' \in [Task -> MutexState]
    BY DEF IInv, TypeOK, MqReceive, ReceiveFail, UnlockedCopy, MutexState
  <2>2. queue' \in [Task -> Seq(Message)] /\ drift' \in [Task -> Int]
    <3>1. CASE queue[t] # <<>> /\ queue' = [queue EXCEPT ![t] = Tail(@)]
                 /\ UNCHANGED drift
      BY <1>3, <1>4, <3>1
    <3>2. CASE drift' = [drift EXCEPT ![t] = @ + 1] /\ UNCHANGED queue
      BY <1>3, <3>2
    <3> QED  BY <1>2, <3>1, <3>2
  <2> QED  BY <1>1, <2>1, <2>2 DEF IInv, TypeOK, Phase
<1>6. CallOK'
  BY <1>1 DEF IInv, TypeOK, CallOK
<1>7. FlagNeverNegative'
  BY <1>1 DEF IInv, TypeOK, FlagNeverNegative
<1>8. Accounting'
  <2> SUFFICES ASSUME NEW r \in Task, pc'[r] # "exited"
               PROVE  Len(queue'[r]) = flag'[r] + drift'[r]
                        + Cardinality(Uncounted(r)') + Claimed(r)'
    BY DEF Accounting
  <2>1. pc[r] # "exited" /\ Uncounted(r)' = Uncounted(r) /\ flag' = flag
    BY <1>1 DEF IInv, TypeOK, Uncounted
  <2>2. Cardinality(Uncounted(r)) \in Nat
    BY UncountedFinite
  <2>3. /\ flag[r] \in Int /\ drift[r] \in Int /\ Claimed(r) \in 0 .. 1
        /\ Len(queue[r]) = flag[r] + drift[r]
                              + Cardinality(Uncounted(r)) + Claimed(r)
    BY <2>1, QueueSum
  <2>4. CASE r = t
    <3>1. Claimed(r) = 1 /\ Claimed(r)' = 0
      BY <1>1, <2>4 DEF IInv, TypeOK, Claimed
    <3>2. Len(queue[r]) = flag[r] + drift[r] + Cardinality(Uncounted(r)) + 1
      BY <2>3, <3>1
    <3>3. CASE queue[t] # <<>> /\ queue' = [queue EXCEPT ![t] = Tail(@)]
                 /\ UNCHANGED drift
      <4>1. Len(queue'[r]) = Len(queue[r]) - 1 /\ drift'[r] = drift[r]
        BY <1>3, <1>4, <2>4, <3>3
      <4>2. Len(queue'[r]) = flag[r] + drift[r] + Cardinality(Uncounted(r))
        BY <2>2, <2>3, <3>2, <4>1
      <4> QED  BY <2>1, <2>2, <2>3, <3>1, <4>1, <4>2
    <3>4. CASE drift' = [drift EXCEPT ![t] = @ + 1] /\ UNCHANGED queue
      <4>1. Len(queue'[r]) = Len(queue[r]) /\ drift'[r] = drift[r] + 1
        BY <1>3, <2>4, <3>4
      <4>2. Len(queue'[r]) = flag[r] + drift'[r] + Cardinality(Uncounted(r))
        BY <2>2, <2>3, <3>2, <4>1
      <4> QED  BY <2>1, <2>2, <2>3, <3>1, <4>1, <4>2
    <3> QED  BY <1>2, <3>3, <3>4
  <2>5. CASE r # t
    <3>1. Claimed(r)' = Claimed(r) /\ queue'[r] = queue[r] /\ drift'[r] = drift[r]
      BY <1>1, <1>2, <2>5 DEF IInv, TypeOK, Claimed
    <3> QED  BY <2>1, <2>3, <3>1
  <2> QED  BY <2>4, <2>5
<1> QED  BY <1>5, <1>6, <1>7, <1>8 DEF IInv

LEMMA ExitInv ==
  ASSUME IInv, NEW t \in Task, Exit(t)
  PROVE  IInv'
<1> USE DEF Goto
<1>1. TypeOK'
  BY DEF IInv, TypeOK, Exit, Phase, MutexState
<1>2. CallOK'
  BY DEF IInv, TypeOK, CallOK, Exit
<1>3. FlagNeverNegative'
  BY DEF IInv, TypeOK, FlagNeverNegative, Exit
<1>4. \A r \in Task : /\ Uncounted(r)' = Uncounted(r)
                      /\ Claimed(r)' = Claimed(r)
                      /\ pc'[r] # "exited" => pc[r] # "exited"
  BY DEF IInv, TypeOK, Exit, Uncounted, Claimed
<1>5. Accounting'
  BY <1>4 DEF IInv, TypeOK, Accounting, Exit
<1> QED  BY <1>1, <1>2, <1>3, <1>5 DEF IInv

LEMMA NextInv == IInv /\ [Next]_vars => IInv'
<1> SUFFICES ASSUME IInv, [Next]_vars PROVE IInv'
  OBVIOUS
<1>1. ASSUME NEW t \in Task, Send(t) PROVE IInv'
  BY <1>1, SendBeginInv DEF Send
<1>2. ASSUME NEW t \in Task, TestFlag(t) PROVE IInv'
  BY <1>2, TestFlagInv
<1>3. ASSUME NEW t \in Task, Continue(t) PROVE IInv'
  BY <1>3, MqSendInv, SendFailInv, LoadForIncrementInv, StoreIncrementInv,
     LoadForDecrementInv, StoreDecrementInv, ReceiveBeginInv, ReceiveEndInv
     DEF Continue
<1>4. ASSUME NEW t \in Task, Exit(t) PROVE IInv'
  BY <1>4, ExitInv
<1>5. CASE UNCHANGED vars
  <2>1. TypeOK' /\ CallOK'
    BY <1>5 DEF vars, IInv, TypeOK, CallOK
  <2>2. FlagNeverNegative'
    BY <1>5 DEF vars, IInv, FlagNeverNegative
  <2>3. Accounting'
    BY <1>5 DEF vars, IInv, Accounting, Uncounted, Claimed
  <2> QED  BY <2>1, <2>2, <2>3 DEF IInv
<1> QED  BY <1>1, <1>2, <1>3, <1>4, <1>5 DEF Next

-----------------------------------------------------------------------------
\* Every variable keeps its type: in particular a flag read into a register
\* and stored again stays an integer, and the names in a call are threads.
THEOREM TypeCorrect == Spec => []TypeOK
<1>1. IInv => TypeOK
  BY DEF IInv
<1> QED  BY <1>1, InitInv, NextInv, PTL DEF Spec

\* No interleaving of flag++ and flag-- ever makes a flag negative, so no
\* task reads its flag as set while it counts fewer than one message.
THEOREM FlagsNonNegative == Spec => []FlagNeverNegative
<1>1. IInv => FlagNeverNegative
  BY DEF IInv
<1> QED  BY <1>1, InitInv, NextInv, PTL DEF Spec

\* The messages in a queue are those its flag counts, those on their way to
\* be counted in or received, and the drift: nothing else makes a flag wrong.
THEOREM FlagsAccountForMessages == Spec => []Accounting
<1>1. IInv => Accounting
  BY DEF IInv
<1> QED  BY <1>1, InitInv, NextInv, PTL DEF Spec

\* A task that waits in mq_receive on an empty queue has lost a decrement.
THEOREM BlockedTasksDrifted == Spec => []BlockedMeansDrift
<1>1. IInv => BlockedMeansDrift
  <2> SUFFICES ASSUME IInv, NEW q \in Task,
                      pc[q] = "receiving", queue[q] = <<>>
               PROVE  drift[q] < 0
    BY DEF BlockedMeansDrift
  <2>1. Claimed(q) = 1 /\ Len(queue[q]) = 0
    BY DEF Claimed
  <2>2. flag[q] \in Int /\ flag[q] >= 0
    BY DEF IInv, TypeOK, FlagNeverNegative
  <2>3. /\ drift[q] \in Int
        /\ Len(queue[q]) = flag[q] + drift[q]
                             + Cardinality(Uncounted(q)) + Claimed(q)
    BY QueueSum
  <2>4. Cardinality(Uncounted(q)) \in Nat
    BY UncountedFinite
  <2> QED  BY <2>1, <2>2, <2>3, <2>4
<1> QED  BY <1>1, InitInv, NextInv, PTL DEF Spec

-----------------------------------------------------------------------------
\* Every step of the layer is a step of Mailbox, or leaves the boxes alone.
LEMMA BoxStep ==
  ASSUME IInv, [Next]_vars
  PROVE  [Boxes!Next]_(Boxes!vars)
<1> USE DEF Goto
<1> DEFINE Closed == {t \in Task : pc[t] = "exited"}
<1>1. ASSUME NEW t \in Task, MqSend(t) PROVE [Boxes!Next]_(Boxes!vars)
  <2>1. /\ call[t] \in Call /\ call[t].to \in Task /\ call[t].msg \in Message
        /\ call[t].msg.destId = call[t].to
    BY <1>1 DEF IInv, CallOK, MqSend, Call
  <2>2. Closed' = Closed
    BY <1>1 DEF IInv, TypeOK, MqSend
  <2>3. CASE queue' = queue
    BY <2>2, <2>3 DEF Boxes!vars
  <2>4. CASE queue' # queue
    <3>1. Boxes!Put(call[t].to, call[t].msg)
      BY <1>1, <2>1, <2>2, <2>4 DEF MqSend, Boxes!Put
    <3> QED  BY <2>1, <3>1 DEF Boxes!Next
  <2> QED  BY <2>3, <2>4
<1>2. ASSUME NEW t \in Task, MqReceive(t) PROVE [Boxes!Next]_(Boxes!vars)
  <2>1. Closed' = Closed /\ t \notin Closed
    BY <1>2 DEF IInv, TypeOK, MqReceive
  <2>2. Boxes!Take(t)
    BY <1>2, <2>1 DEF MqReceive, Boxes!Take
  <2> QED  BY <2>2 DEF Boxes!Next
<1>3. ASSUME NEW t \in Task, Exit(t) PROVE [Boxes!Next]_(Boxes!vars)
  <2>1. Closed' = Closed \cup {t}
    BY <1>3 DEF IInv, TypeOK, Exit
  <2>2. Boxes!Close(t)
    BY <1>3, <2>1 DEF Exit, Boxes!Close
  <2> QED  BY <2>2 DEF Boxes!Next
<1>4. ASSUME NEW t \in Task,
             \/ Send(t) \/ TestFlag(t) \/ SendFail(t) \/ LoadForIncrement(t)
             \/ StoreIncrement(t) \/ LoadForDecrement(t) \/ StoreDecrement(t)
             \/ ReceiveBegin(t) \/ ReceiveFail(t)
      PROVE  [Boxes!Next]_(Boxes!vars)
  <2>1. CASE Send(t) \/ SendFail(t) \/ LoadForIncrement(t) \/ StoreIncrement(t)
    <3>1. queue' = queue /\ Closed' = Closed
      BY <2>1
      DEF IInv, TypeOK, Send, SendBegin, SendFail, LoadForIncrement,
          StoreIncrement
    <3> QED  BY <3>1 DEF Boxes!vars
  <2>2. CASE \/ TestFlag(t) \/ LoadForDecrement(t) \/ StoreDecrement(t)
             \/ ReceiveBegin(t) \/ ReceiveFail(t)
    <3>1. queue' = queue /\ Closed' = Closed
      BY <2>2
      DEF IInv, TypeOK, TestFlag, LoadForDecrement, StoreDecrement,
          ReceiveBegin, ReceiveFail
    <3> QED  BY <3>1 DEF Boxes!vars
  <2> QED  BY <1>4, <2>1, <2>2
<1>5. CASE UNCHANGED vars
  BY <1>5 DEF vars, Boxes!vars
<1> QED  BY <1>1, <1>2, <1>3, <1>4, <1>5 DEF Next, Continue

\* The five queues, with their flags, locks and races, implement bounded
\* first-in first-out boxes: no message is lost, duplicated, reordered or
\* taken by another task between mq_send and mq_receive.
THEOREM LayerDelivers == Spec => Delivers
<1>1. Init => Boxes!Init
  <2> SUFFICES ASSUME Init PROVE Boxes!Init
    OBVIOUS
  <2>1. queue \in [Task -> Seq(Message)]
    BY InitType DEF TypeOK
  <2>2. \A q \in Task : Len(queue[q]) <= Capacity
    BY LeftoverType DEF Init
  <2>3. {t \in Task : pc[t] = "exited"} = {}
    BY DEF Init
  <2> QED  BY <2>1, <2>2, <2>3 DEF Boxes!Init
<1>2. IInv /\ [Next]_vars => [Boxes!Next]_(Boxes!vars)
  BY BoxStep
<1> QED  BY <1>1, <1>2, InitInv, NextInv, PTL DEF Spec, Delivers, Boxes!Spec

=============================================================================
