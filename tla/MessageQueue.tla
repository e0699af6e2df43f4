---------------------------- MODULE MessageQueue ----------------------------
(***************************************************************************)
(* The communication layer of the weather station: the five POSIX message  *)
(* queues of Project1/src/message.c, the int32_t flags that count their    *)
(* messages and the mutexes declared beside them.                          *)
(*                                                                         *)
(* Every thread owns the queue of its name and is its only receiver.       *)
(* msg_send and msg_receive are broken into one step per access to memory  *)
(* that threads share.  The -O0 build compiles flag++ and flag-- into a    *)
(* load, an addition and a store, and a thread may be preempted between    *)
(* the load and the store.                                                 *)
(***************************************************************************)
EXTENDS Integers, Sequences, FiniteSets

CONSTANTS
  Task,          \* the threads, each the owner of the queue of its name
  Request,       \* the values of requestId
  Route,         \* <<t, q, r>>: a statement of thread t sends r to queue q
  Quitter,       \* the threads whose clean-up routine may run
  Capacity,      \* attr.mq_maxmsg
  CallsMayFail,  \* whether mq_open, mq_send and mq_receive may return -1
  MaxSends,      \* bound: calls of msg_send per thread
  MaxStale,      \* bound: messages an earlier run left in a queue
  NoCall

Message == [sourceId : Task, destId : Task, requestId : Request]

Object == {"queue", "orphan", "none"}

Call == [to : Task, msg : Message, obj : Object]

ASSUME LayerAssumption ==
  /\ IsFiniteSet(Task)
  /\ Route \subseteq Task \X Task \X Request
  /\ Quitter \subseteq Task
  /\ Capacity \in Nat \ {0}
  /\ CallsMayFail \in BOOLEAN
  /\ MaxSends \in Nat
  /\ MaxStale \in 0 .. Capacity
  /\ NoCall \notin Call

VARIABLES
  queue,    \* the kernel queue object that thread q reads
  orphan,   \* the object O_CREAT makes under the same name after mq_unlink
  flag,     \* main_queue_flag, log_queue_flag, ...
  mutex,    \* main_queue_mutex, log_queue_mutex, ...
  copy,     \* info->thread_mutex_lock, the copy a thread locks and unlocks
  pc,       \* where a thread is in msg_send, msg_receive or its drain loop
  call,     \* the message being sent, its queue and the open descriptor
  reg,      \* the flag as loaded by a ++ or -- that is not yet stored
  sends,    \* calls of msg_send made so far
  drift     \* history: messages in the queue that the flag does not count

vars == <<queue, orphan, flag, mutex, copy, pc, call, reg, sends, drift>>

\* Nobody ever locks a shared mutex, so "held" is the state of copies only.
MutexState == {"free", "held", "destroyed"}

\* "run" is application code.  The next three are inside msg_send, the four
\* after them inside a pass of a drain loop, "exited" follows pthread_exit.
Phase == {"run", "opened", "sent", "counting",
          "tested", "uncounting", "uncounted", "receiving", "exited"}

TypeOK ==
  /\ queue \in [Task -> Seq(Message)]
  /\ orphan \in [Task -> Seq(Message)]
  /\ flag \in [Task -> Int]
  /\ mutex \in [Task -> MutexState \ {"held"}]
  /\ copy \in [Task -> MutexState]
  /\ pc \in [Task -> Phase]
  /\ call \in [Task -> Call \cup {NoCall}]
  /\ reg \in [Task -> Int]
  /\ sends \in [Task -> 0 .. MaxSends]
  /\ drift \in [Task -> Int]

-----------------------------------------------------------------------------
\* What a queue may hold when the program starts: queues are kernel objects
\* that outlive the process, and only a clean-up routine unlinks one.
Addressed(q) ==
  {m \in Message : m.destId = q /\ <<m.sourceId, q, m.requestId>> \in Route}

Leftover(q) == UNION {[1 .. n -> Addressed(q)] : n \in 0 .. MaxStale}

Init ==
  /\ queue \in {f \in [Task -> UNION {Leftover(q) : q \in Task}] :
                  \A q \in Task : f[q] \in Leftover(q)}
  /\ orphan = [q \in Task |-> <<>>]
  /\ flag = [q \in Task |-> 0]
  /\ mutex = [q \in Task |-> "free"]
  /\ copy = [t \in Task |-> "free"]
  /\ pc = [t \in Task |-> "run"]
  /\ call = [t \in Task |-> NoCall]
  /\ reg = [t \in Task |-> 0]
  /\ sends = [t \in Task |-> 0]
  /\ drift = [q \in Task |-> Len(queue[q])]

-----------------------------------------------------------------------------
\* info.thread_mutex_lock = q's mutex; pthread_mutex_lock on the copy: the
\* copy of a free mutex is free, that of a destroyed one is refused (EINVAL).
LockedCopy(q) == IF mutex[q] = "free" THEN "held" ELSE mutex[q]

UnlockedCopy(t) == IF copy[t] = "held" THEN "free" ELSE copy[t]

\* The object mq_open(O_CREAT) finds or creates under the queue's name.
Named(q) == IF pc[q] = "exited" THEN "orphan" ELSE "queue"

Opened(q) == {Named(q)} \cup IF CallsMayFail THEN {"none"} ELSE {}

Goto(t, from, to) ==
  /\ pc[t] = from
  /\ pc' = [pc EXCEPT ![t] = to]

\* msg_send, first part: copy and lock the mutex, open the queue.  Every call
\* site gives in qName the queue of the destId it writes.
SendBegin(t, q, m) ==
  /\ Goto(t, "run", "opened")
  /\ m.sourceId = t /\ m \in Addressed(q)
  /\ sends[t] < MaxSends
  /\ copy' = [copy EXCEPT ![t] = LockedCopy(q)]
  /\ \E o \in Opened(q) :
       call' = [call EXCEPT ![t] = [to |-> q, msg |-> m, obj |-> o]]
  /\ sends' = [sends EXCEPT ![t] = @ + 1]
  /\ UNCHANGED <<queue, orphan, flag, mutex, reg, drift>>

\* Slip: a message sent with a priority overtakes those in the queue.
MqSendUrgent(t) ==
  LET q == call[t].to IN
  /\ Goto(t, "opened", "sent")
  /\ call[t].obj = "queue"
  /\ Len(queue[q]) < Capacity
  /\ queue' = [queue EXCEPT ![q] = <<call[t].msg>> \o @]
  /\ UNCHANGED <<orphan, flag, mutex, copy, call, reg, sends, drift>>

\* mq_send, which blocks while the queue is full.
MqSend(t) ==
  LET q == call[t].to IN
  /\ Goto(t, "opened", "sent")
  /\ \/ /\ call[t].obj = "queue"
        /\ Len(queue[q]) < Capacity
        /\ queue' = [queue EXCEPT ![q] = Append(@, call[t].msg)]
        /\ UNCHANGED orphan
     \/ /\ call[t].obj = "orphan"
        /\ Len(orphan[q]) < Capacity
        /\ orphan' = [orphan EXCEPT ![q] = Append(@, call[t].msg)]
        /\ UNCHANGED queue
  /\ UNCHANGED <<flag, mutex, copy, call, reg, sends, drift>>

\* Slip: without the return ERROR, a message that was not sent is counted.
SendFailCounted(t) ==
  /\ CallsMayFail
  /\ Goto(t, "opened", "sent")
  /\ call[t].obj = "none" \/ Len(queue[call[t].to]) = Capacity
  /\ UNCHANGED <<queue, orphan, flag, mutex, copy, call, reg, sends, drift>>

\* mq_send returns -1: the descriptor is bad, or a signal interrupts the
\* wait for room.  msg_send returns ERROR, the copy stays locked.
SendFail(t) ==
  /\ CallsMayFail
  /\ Goto(t, "opened", "run")
  /\ \/ call[t].obj = "none"
     \/ call[t].obj = "queue" /\ Len(queue[call[t].to]) = Capacity
     \/ call[t].obj = "orphan" /\ Len(orphan[call[t].to]) = Capacity
  /\ call' = [call EXCEPT ![t] = NoCall]
  /\ UNCHANGED <<queue, orphan, flag, mutex, copy, reg, sends, drift>>

\* update_queue_flag: the load of flag++.
LoadForIncrement(t) ==
  /\ Goto(t, "sent", "counting")
  /\ reg' = [reg EXCEPT ![t] = flag[call[t].msg.destId]]
  /\ UNCHANGED <<queue, orphan, flag, mutex, copy, call, sends, drift>>

\* update_queue_flag: the store of flag++, and the end of msg_send.  A store
\* made since the load is overwritten; drift remembers what it was worth.
StoreIncrement(t) ==
  LET q == call[t].msg.destId IN
  /\ Goto(t, "counting", "run")
  /\ flag' = [flag EXCEPT ![q] = reg[t] + 1]
  /\ drift' = [drift EXCEPT ![q] = @ + (flag[q] - reg[t])]
  /\ copy' = [copy EXCEPT ![t] = UnlockedCopy(t)]
  /\ call' = [call EXCEPT ![t] = NoCall]
  /\ reg' = [reg EXCEPT ![t] = 0]
  /\ UNCHANGED <<queue, orphan, mutex, sends>>

-----------------------------------------------------------------------------
\* Slips: a drain loop that tests its flag too late (do ... while), and one
\* that leaves the last message.
TestFlagLate(t) ==
  /\ Goto(t, "run", "tested")
  /\ UNCHANGED <<queue, orphan, flag, mutex, copy, call, reg, sends, drift>>

TestFlagAboveOne(t) ==
  /\ Goto(t, "run", "tested")
  /\ flag[t] > 1
  /\ UNCHANGED <<queue, orphan, flag, mutex, copy, call, reg, sends, drift>>

\* while(flag): the test of a thread's drain loop succeeds.
TestFlag(t) ==
  /\ Goto(t, "run", "tested")
  /\ flag[t] # 0
  /\ UNCHANGED <<queue, orphan, flag, mutex, copy, call, reg, sends, drift>>

\* flag--: the load, then the store.
LoadForDecrement(t) ==
  /\ Goto(t, "tested", "uncounting")
  /\ reg' = [reg EXCEPT ![t] = flag[t]]
  /\ UNCHANGED <<queue, orphan, flag, mutex, copy, call, sends, drift>>

StoreDecrement(t) ==
  /\ Goto(t, "uncounting", "uncounted")
  /\ flag' = [flag EXCEPT ![t] = reg[t] - 1]
  /\ drift' = [drift EXCEPT ![t] = @ + (flag[t] - reg[t])]
  /\ reg' = [reg EXCEPT ![t] = 0]
  /\ UNCHANGED <<queue, orphan, mutex, copy, call, sends>>

\* Slip: msg_receive locks the shared mutex in place of the copy.
ReceiveBeginShared(t) ==
  /\ Goto(t, "uncounted", "receiving")
  /\ mutex[t] = "free"
  /\ mutex' = [mutex EXCEPT ![t] = "held"]
  /\ UNCHANGED <<queue, orphan, flag, copy, call, reg, sends, drift>>

\* msg_receive, first part: copy and lock the mutex, open the queue.
ReceiveBegin(t) ==
  /\ Goto(t, "uncounted", "receiving")
  /\ copy' = [copy EXCEPT ![t] = LockedCopy(t)]
  /\ UNCHANGED <<queue, orphan, flag, mutex, call, reg, sends, drift>>

\* mq_receive, which blocks while the queue is empty, then the unlock.
MqReceive(t) ==
  /\ Goto(t, "receiving", "run")
  /\ queue[t] # <<>>
  /\ queue' = [queue EXCEPT ![t] = Tail(@)]
  /\ copy' = [copy EXCEPT ![t] = UnlockedCopy(t)]
  /\ UNCHANGED <<orphan, flag, mutex, call, reg, sends, drift>>

\* mq_receive returns -1: the queue could not be opened, or a signal ended
\* the wait for a message.  The flag was already decremented.
ReceiveFail(t) ==
  /\ CallsMayFail
  /\ Goto(t, "receiving", "run")
  /\ drift' = [drift EXCEPT ![t] = @ + 1]
  /\ UNCHANGED <<queue, orphan, flag, mutex, copy, call, reg, sends>>

\* A clean-up routine: pthread_mutex_destroy, mq_unlink, pthread_exit.
Exit(t) ==
  /\ t \in Quitter
  /\ Goto(t, "run", "exited")
  /\ mutex' = [mutex EXCEPT ![t] = "destroyed"]
  /\ UNCHANGED <<queue, orphan, flag, copy, call, reg, sends, drift>>

-----------------------------------------------------------------------------
\* The steps a thread takes once it has called msg_send or has seen its flag
\* set; what remains are its decisions to send, to poll and to exit.
Continue(t) ==
  \/ MqSend(t) \/ SendFail(t) \/ LoadForIncrement(t) \/ StoreIncrement(t)
  \/ LoadForDecrement(t) \/ StoreDecrement(t)
  \/ ReceiveBegin(t) \/ MqReceive(t) \/ ReceiveFail(t)

Send(t) == \E q \in Task, m \in Message : SendBegin(t, q, m)

Next == \E t \in Task : Send(t) \/ TestFlag(t) \/ Continue(t) \/ Exit(t)

Spec == Init /\ [][Next]_vars

-----------------------------------------------------------------------------
\* Safety.  A flag is the only thing a task looks at before it calls
\* mq_receive, so what goes wrong with the counting goes wrong with the task.

\* while(flag) treats every non-zero value as "there is a message": a flag
\* below zero would send a task into mq_receive for ever.  The races between
\* flag++ (message.c:57) and flag-- (main.c:115) never make one negative,
\* because the value a decrement stores was loaded after the test.
FlagNeverNegative ==
  \A t \in Task :
    /\ flag[t] >= 0
    /\ pc[t] = "counting" => reg[t] >= 0
    /\ pc[t] \in {"tested", "uncounting"} => flag[t] >= 1
    /\ pc[t] = "uncounting" => reg[t] >= 1

\* The senders between mq_send and the store of flag++.
Uncounted(q) ==
  {s \in Task : pc[s] \in {"sent", "counting"} /\ call[s].to = q}

\* 1 while the owner has counted a message out that it has not yet received.
Claimed(q) == IF pc[q] \in {"uncounted", "receiving"} THEN 1 ELSE 0

\* While its owner lives, a queue holds exactly the messages its flag counts,
\* those whose senders have still to count them and the one the owner is
\* about to receive, plus the drift.  So a flag is wrong (message.c:28 calls
\* it the number of messages) only by what drift records: messages of an
\* earlier run, receives that failed, and stores that overwrote another.
Accounting ==
  \A q \in Task : pc[q] # "exited" =>
    Len(queue[q]) = flag[q] + drift[q] + Cardinality(Uncounted(q)) + Claimed(q)

\* A task waits in mq_receive on an empty queue (message.c:130) only if a
\* lost decrement has left its flag above the messages there are.
BlockedMeansDrift ==
  \A q \in Task : pc[q] = "receiving" /\ queue[q] = <<>> => drift[q] < 0

-----------------------------------------------------------------------------
\* What the layer promises its users: a bounded first-in first-out box per
\* task, which only the task itself takes from, and not after its clean-up.
Boxes == INSTANCE Mailbox WITH
  Owner <- Task,
  box <- queue,
  closed <- {t \in Task : pc[t] = "exited"}

Delivers == Boxes!Spec

=============================================================================
