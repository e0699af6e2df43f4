------------------------------- MODULE Station -------------------------------
(***************************************************************************)
(* The five threads of Project1 over their message queues: the heartbeat   *)
(* loop of the main thread (main.c, request_heartbeat of message.c) and    *)
(* the drain loops of the logger, temperature, light and socket tasks      *)
(* (task_log.c, task_tmp.c, task_apds.c, task_socket.c).                   *)
(*                                                                         *)
(* MessageQueue gives every step a thread takes inside msg_send,           *)
(* msg_receive and the test and decrement of its flag.  An action here is  *)
(* such a step together with what the task's own code makes of it, or a    *)
(* step of that code alone.  The messages a handler sends one after the    *)
(* other are its todo; the thread goes on when the last one is sent.       *)
(***************************************************************************)
EXTENDS MessageQueue

CONSTANTS
  Main, Log, Temp, Light, Socket,
  Worker,       \* the threads Main watches, in the order of Source_t
  Chances,      \* rounds of heartbeats between two checks, 3 in main.c:132
  MaxRounds,    \* bound: rounds of heartbeats
  MaxReports,   \* bound: readings a sensor task writes to the log
  MaxClients    \* bound: client requests the socket task takes up

\* Slot i is heartbeat_monitor[i-1] and belongs to the i-th worker.  The code
\* has all four workers; an instance may have fewer of them, and then leaves
\* out what is sent to and by the others.
Slot == 1 .. Len(Worker)

TempRequest == {"GET_TEMP_C", "GET_TEMP_K", "GET_TEMP_F"} \cap Request

LightRequest == {"GET_LIGHT", "GET_LIGHT_STATE"} \cap Request

Status == {"SUCCESS", "ERROR"}

ASSUME StationAssumption ==
  /\ Worker \in Seq(Task \ {Main}) /\ Worker # <<>> /\ Worker[1] = Log
  /\ \A i, j \in Slot : Worker[i] = Worker[j] => i = j
  /\ TempRequest \cup LightRequest # {} => Socket \in Task
  /\ Main \in Task /\ Task \subseteq {Main, Log, Temp, Light, Socket}
  /\ Main \notin {Log, Temp, Light, Socket} /\ Log \notin {Temp, Light, Socket}
  /\ Temp \notin {Light, Socket} /\ Light # Socket
  /\ {"HEART_BEAT", "LOG_MSG"} \subseteq Request
  /\ \A r \in Route :
       /\ r[3] = "HEART_BEAT" => Main \in {r[1], r[2]}
       /\ r[3] \in TempRequest => r[2] \in {Temp, Log, Socket}
       /\ r[3] \in LightRequest => r[2] \in {Light, Log, Socket}
  /\ Quitter \subseteq Task \ {Main}
  /\ CallsMayFail => Quitter = Task \ {Main}
  /\ Chances \in Nat \ {0}
  /\ MaxRounds \in Nat /\ MaxReports \in Nat /\ MaxClients \in Nat

VARIABLES
  at,        \* where the task's own code is when it is not in the layer
  todo,      \* the messages a handler has still to send, in order
  status,    \* the local variable status of each task
  data,      \* info.data: the message a task received or sent last
  chance,    \* main.c: rounds since the last check
  monitor,   \* heartbeat_monitor: responses per worker since the last check
  slot,      \* i of the check in main.c
  asked,     \* history: heartbeat requests ever put in a worker's queue
  heard,     \* history: heartbeat responses of a worker ever counted
  answered,  \* history: answers the socket task took from its queue
  round, reports, clients   \* counters of the bounded steps

local == <<at, todo, status, data>>
watch == <<chance, monitor, slot>>
past == <<asked, heard, answered>>
count == <<round, reports, clients>>

stationVars == <<vars, local, watch, past, count>>

Msg(s, d, r) == [sourceId |-> s, destId |-> d, requestId |-> r]

\* The number of heartbeat messages of t in a queue or among those to be sent.
Beats(s, t) ==
  Cardinality({k \in DOMAIN s :
                 s[k].requestId = "HEART_BEAT" /\ s[k].sourceId = t})

\* A client's request on its way to a sensor task, or the answer to it.
Asks(m) == m.requestId \in TempRequest \cup LightRequest /\ m.destId # Log

StationTypeOK ==
  /\ at \in [Task -> {"work", "drain", "done", "request", "sleep", "check"}]
  /\ todo \in [Task -> Seq(Message)]
  /\ status \in [Task -> Status]
  /\ data \in [Task -> Message]
  /\ chance \in 0 .. Chances
  /\ monitor \in [Slot -> Nat]
  /\ slot \in 0 .. Len(Worker)
  /\ asked \in [Slot -> Nat] /\ heard \in [Slot -> Nat]
  /\ answered \in Nat
  /\ round \in 0 .. MaxRounds
  /\ reports \in [Task -> 0 .. MaxReports]
  /\ clients \in 0 .. MaxClients

-----------------------------------------------------------------------------
\* The set-up of a task (fopen, timer_setup, sigaction, socket, bind) sets its
\* status.
SetUpStatus ==
  {s \in [Task -> Status] : \A t \in Task : s[t] = "ERROR" => t \in Quitter}

\* The main thread has its start-up message to log.
StationInit ==
  /\ Init
  /\ at = [t \in Task |-> IF t = Main THEN "request" ELSE "work"]
  /\ todo = [t \in Task |->
       IF t = Main THEN <<Msg(Main, Log, "LOG_MSG")>> ELSE <<>>]
  /\ status \in SetUpStatus
  /\ data = [t \in Task |-> Msg(t, Log, "LOG_MSG")]
  /\ chance = 0
  /\ monitor = [i \in Slot |-> 0]
  /\ slot = 0
  /\ asked = [i \in Slot |-> Beats(queue[Worker[i]], Main)
                             + Beats(queue[Main], Worker[i])]
  /\ heard = [i \in Slot |-> 0]
  /\ answered = 0
  /\ round = 0
  /\ reports = [t \in Task |-> 0]
  /\ clients = 0

\* A thread executes its own code: it is outside the layer with nothing
\* left to send.
Own(t, a) == pc[t] = "run" /\ todo[t] = <<>> /\ at[t] = a

\* The handler of t sends these messages one after the other; info.data is
\* where it puts them, except in request_heartbeat, which has its own info.
Post(t, s) ==
  /\ todo' = [todo EXCEPT ![t] = s]
  /\ data' = IF s = <<>> \/ at[t] = "request" THEN data
             ELSE [data EXCEPT ![t] = s[Len(s)]]

-----------------------------------------------------------------------------
\* msg_send, for every call site.
SendNext(t) ==
  /\ pc[t] = "run" /\ todo[t] # <<>>
  /\ SendBegin(t, Head(todo[t]).destId, Head(todo[t]))
  /\ todo' = [todo EXCEPT ![t] = Tail(@)]
  /\ UNCHANGED <<at, status, data, watch, past, count>>

\* mq_send; asked counts the requests of the main thread to a live worker.
Deposit(t) ==
  /\ MqSend(t)
  /\ asked' = [i \in Slot |->
       asked[i] + IF /\ t = Main /\ call[t].to = Worker[i]
                     /\ call[t].msg.requestId = "HEART_BEAT"
                     /\ call[t].obj = "queue"
                  THEN 1 ELSE 0]
  /\ UNCHANGED <<local, watch, heard, answered, count>>

\* Does the code assign the result of this call of msg_send to status?  It
\* does so for heartbeat responses and for what the sensor tasks log.
Kept(t) == t # Main /\ call[t].msg.requestId \in {"HEART_BEAT", "LOG_MSG"}

Sent(t) ==
  /\ StoreIncrement(t)
  /\ status' = IF Kept(t) THEN [status EXCEPT ![t] = "SUCCESS"] ELSE status
  /\ UNCHANGED <<at, todo, data, watch, past, count>>

\* request_heartbeat returns at the first failure; the others go on.
SendFailed(t) ==
  /\ SendFail(t)
  /\ status' = IF Kept(t) THEN [status EXCEPT ![t] = "ERROR"] ELSE status
  /\ todo' = IF t = Main THEN [todo EXCEPT ![t] = <<>>] ELSE todo
  /\ UNCHANGED <<at, data, watch, past, count>>

-----------------------------------------------------------------------------
\* Slip: the break after the case of GET_LIGHT is missing.
LightReplyTwice(m) ==
  IF m.requestId \in LightRequest
  THEN <<Msg(Light, Socket, m.requestId), Msg(Light, Socket, m.requestId)>>
  ELSE <<>>

\* What a worker sends when it takes a message from its queue: every worker
\* answers heartbeat requests, the sensor tasks also those of clients.
BeatReply(t, m) ==
  IF m.requestId = "HEART_BEAT" THEN <<Msg(t, Main, "HEART_BEAT")>> ELSE <<>>

TempReply(m) ==
  IF m.requestId \in TempRequest THEN <<Msg(Temp, Socket, m.requestId)>>
  ELSE BeatReply(Temp, m)

LightReply(m) ==
  IF m.requestId \in LightRequest THEN <<Msg(Light, Socket, m.requestId)>>
  ELSE BeatReply(Light, m)

Reply(t, m) ==
  IF t = Temp THEN TempReply(m)
  ELSE IF t = Light THEN LightReply(m)
  ELSE BeatReply(t, m)

\* The status with which the handler of a received message ends, apart from
\* what its own msg_send returns.  The temperature task keeps the status it
\* had; log_data fails if the log file does.
StatusAfter(t, m) ==
  IF m.requestId = "SHUT_DOWN" /\ t # Socket THEN {"ERROR"}
  ELSE IF t = Log /\ m.requestId = "LOG_MSG" /\ Log \in Quitter THEN Status
  ELSE IF t = Temp THEN {status[t]}
  ELSE {"SUCCESS"}

HandleAsWorker(t, m) ==
  /\ data' = [data EXCEPT ![t] = IF Reply(t, m) = <<>> THEN m ELSE Reply(t, m)[1]]
  /\ todo' = [todo EXCEPT ![t] = Reply(t, m)]
  /\ \E s \in StatusAfter(t, m) : status' = [status EXCEPT ![t] = s]
  /\ UNCHANGED <<monitor, heard>>

\* Slip: heartbeat_monitor[sourceId]++
HandleAsMainOffByOne(m) ==
  /\ LET beat(i) == /\ m.requestId = "HEART_BEAT"
                    /\ i > 1 /\ m.sourceId = Worker[i - 1] IN
     /\ monitor' = [i \in Slot |-> monitor[i] + IF beat(i) THEN 1 ELSE 0]
     /\ heard' = [i \in Slot |-> heard[i] + IF beat(i) THEN 1 ELSE 0]
  /\ data' = [data EXCEPT ![Main] = m]
  /\ UNCHANGED <<todo, status>>

\* heartbeat_monitor[sourceId - 1]++
HandleAsMain(m) ==
  /\ LET beat(i) == m.requestId = "HEART_BEAT" /\ m.sourceId = Worker[i] IN
     /\ monitor' = [i \in Slot |-> monitor[i] + IF beat(i) THEN 1 ELSE 0]
     /\ heard' = [i \in Slot |-> heard[i] + IF beat(i) THEN 1 ELSE 0]
  /\ data' = [data EXCEPT ![Main] = m]
  /\ UNCHANGED <<todo, status>>

Handle(t, m) == IF t = Main THEN HandleAsMain(m) ELSE HandleAsWorker(t, m)

Poll(t) ==
  /\ Own(t, "drain")
  /\ TestFlag(t)
  /\ UNCHANGED <<local, watch, past, count>>

\* The socket task sends an answer on to the client as it takes it.
Received(t) ==
  LET m == Head(queue[t]) IN
  /\ MqReceive(t)
  /\ Handle(t, m)
  /\ answered' = answered + IF t = Socket /\ Asks(m) THEN 1 ELSE 0
  /\ UNCHANGED <<at, chance, slot, asked, count>>

\* The main thread and the temperature task do not test what msg_receive
\* returns and handle whatever is in info.data.
ReceiveFailed(t) ==
  /\ ReceiveFail(t)
  /\ IF t \in {Main, Temp} THEN Handle(t, data[t])
     ELSE /\ status' = [status EXCEPT ![t] = "ERROR"]
          /\ UNCHANGED <<todo, data, monitor, heard>>
  /\ UNCHANGED <<at, chance, slot, asked, answered, count>>

\* The steps inside the layer that concern no other part of a task.
Inside(t) ==
  /\ \/ LoadForIncrement(t) \/ LoadForDecrement(t) \/ StoreDecrement(t)
     \/ ReceiveBegin(t)
  /\ UNCHANGED <<local, watch, past, count>>

\* Slip: if instead of while, and flag = 0 instead of flag--.
EndDrainEarly(t) ==
  /\ Own(t, "drain")
  /\ flag' = [flag EXCEPT ![t] = 0]
  /\ at' = [at EXCEPT ![t] = IF t = Main THEN "sleep" ELSE "work"]
  /\ UNCHANGED <<queue, orphan, mutex, copy, pc, call, reg, sends, drift>>
  /\ UNCHANGED <<todo, status, data, watch, past, count>>

\* The flag is zero: a drain loop ends.  Only now does a worker look at the
\* status its last handler left.
EndDrain(t) ==
  /\ Own(t, "drain") /\ flag[t] = 0
  /\ at' = [at EXCEPT ![t] = IF t = Main THEN "sleep" ELSE "work"]
  /\ UNCHANGED <<vars, todo, status, data, watch, past, count>>

-----------------------------------------------------------------------------
\* while(status == SUCCESS): what a worker does before it drains its queue.
Step(t) ==
  /\ t # Main /\ Own(t, "work") /\ status[t] = "SUCCESS"
  /\ at' = [at EXCEPT ![t] = "drain"]

\* A period without a message: always for the logger; for the light task if
\* the light has not changed, for the socket task if no client connects.
\* The temperature task has one when its reports are used up (MaxReports).
Idle(t) ==
  /\ Step(t)
  /\ t = Temp => reports[t] = MaxReports
  /\ UNCHANGED <<vars, todo, status, data, watch, past, count>>

Report(t) ==
  /\ Step(t)
  /\ reports[t] < MaxReports
  /\ reports' = [reports EXCEPT ![t] = @ + 1]
  /\ Post(t, <<Msg(t, Log, "LOG_MSG")>>)
  /\ UNCHANGED <<vars, status, watch, past, round, clients>>

\* The temperature of the period is logged.  No read of the sensor is ever
\* seen to fail (ret of I2cBus), so the error branch is dead.
ReportTemperature(t) == t = Temp /\ Report(t)

\* So is a change of the light, when the semaphore has been posted.
ReportLight(t) == t = Light /\ Report(t)

\* A client's request goes to the sensor task and, with the same requestId,
\* to the logger.
Forward(t, r) ==
  /\ Step(t)
  /\ t = Socket /\ clients < MaxClients
  /\ LET d == IF r \in TempRequest THEN Temp ELSE Light IN
     d \in Task /\ Post(t, <<Msg(t, d, r), Msg(t, Log, r)>>)
  /\ clients' = clients + 1
  /\ UNCHANGED <<vars, status, watch, past, round, reports>>

\* The loop ends; the clean-up routine destroys the mutex and the queue.
CleanUp(t) ==
  /\ Own(t, "work") /\ status[t] = "ERROR"
  /\ Exit(t)
  /\ at' = [at EXCEPT ![t] = "done"]
  /\ UNCHANGED <<todo, status, data, watch, past, count>>

-----------------------------------------------------------------------------
\* request_heartbeat, then chance++.
RequestHeartbeat ==
  /\ Own(Main, "request") /\ round < MaxRounds
  /\ Post(Main, [i \in Slot |-> Msg(Main, Worker[i], "HEART_BEAT")])
  /\ at' = [at EXCEPT ![Main] = "drain"]
  /\ chance' = chance + 1
  /\ round' = round + 1
  /\ UNCHANGED <<vars, status, monitor, slot, past, reports, clients>>

\* Slips: chance++ in place of chance = 0, and a check after every round.
WakeUpAndCount ==
  /\ Own(Main, "sleep")
  /\ chance' = IF chance = Chances THEN chance + 1 ELSE chance
  /\ slot' = IF chance = Chances THEN Len(Worker) ELSE slot
  /\ at' = [at EXCEPT ![Main] = IF chance = Chances THEN "check" ELSE "request"]
  /\ UNCHANGED <<vars, todo, status, data, monitor, past, count>>

WakeUpToCheck ==
  /\ Own(Main, "sleep")
  /\ chance' = 0
  /\ slot' = Len(Worker)
  /\ at' = [at EXCEPT ![Main] = "check"]
  /\ UNCHANGED <<vars, todo, status, data, monitor, past, count>>

\* sleep(10) is over; every third round ends with a check.
WakeUp ==
  /\ Own(Main, "sleep")
  /\ IF chance = Chances
     THEN /\ chance' = 0
          /\ slot' = Len(Worker)
          /\ at' = [at EXCEPT ![Main] = "check"]
     ELSE /\ at' = [at EXCEPT ![Main] = "request"]
          /\ UNCHANGED <<chance, slot>>
  /\ UNCHANGED <<vars, todo, status, data, monitor, past, count>>

\* The body of the loop over i = 4 .. 1: a silent task is reported to the
\* logger if the logger itself has responded (under the name task[i+1], which
\* is that of the next task).
Silent(i) == monitor[i] = 0 /\ monitor[1] # 0

Check ==
  /\ Own(Main, "check") /\ slot > 0
  /\ IF Silent(slot)
     THEN Post(Main, <<Msg(Main, Log, "LOG_MSG")>>)
     ELSE UNCHANGED <<todo, data>>
  /\ monitor' = [monitor EXCEPT ![slot] = 0]
  /\ slot' = slot - 1
  /\ UNCHANGED <<vars, at, status, chance, past, count>>

EndCheck ==
  /\ Own(Main, "check") /\ slot = 0
  /\ at' = [at EXCEPT ![Main] = "request"]
  /\ UNCHANGED <<vars, todo, status, data, watch, past, count>>

-----------------------------------------------------------------------------
MainStep == RequestHeartbeat \/ WakeUp \/ Check \/ EndCheck

TaskStep(t) ==
  \/ SendNext(t) \/ Deposit(t) \/ Sent(t) \/ Inside(t)
  \/ Poll(t) \/ Received(t) \/ EndDrain(t)
  \/ Idle(t) \/ ReportTemperature(t) \/ ReportLight(t) \/ CleanUp(t)

\* A call returns -1.
Failure(t) == SendFailed(t) \/ ReceiveFailed(t)

\* accept_client_timeout (2 s) returns a client, with any request; a time-out is
\* an Idle period.
ClientRequest == \E r \in TempRequest \cup LightRequest : Forward(Socket, r)

StationNext ==
  MainStep \/ (\E t \in Task : TaskStep(t) \/ Failure(t)) \/ ClientRequest

StationSpec == StationInit /\ [][StationNext]_stationVars

\* Every thread is scheduled and its sleeps, waits and timeouts end; nothing
\* obliges a client to connect, or a signal to end the wait of a task that is
\* blocked in mq_send or mq_receive.  A send to a queue that could not be opened
\* returns.
StationFairness ==
  /\ WF_stationVars(MainStep)
  /\ \A t \in Task :
       WF_stationVars(TaskStep(t) \/ (SendFailed(t) /\ call[t].obj = "none"))

FairStationSpec == StationSpec /\ StationFairness

-----------------------------------------------------------------------------
\* The heartbeat responses of t it has still to put into the main queue.
Owed(t) ==
  Beats(todo[t], t)
  + IF pc[t] = "opened" /\ call[t].msg.requestId = "HEART_BEAT" THEN 1 ELSE 0

\* Every heartbeat request put in the queue of a worker is in exactly one
\* place: in that queue, with the worker as a response not yet sent, in the
\* main queue as a response, or counted in heartbeat_monitor for that worker.
\* No order of the five threads, and no task that exits, loses a request,
\* answers it twice or counts the response for another worker.
RepliesMatchRequests ==
  \A i \in Slot : LET w == Worker[i] IN
    asked[i] = Beats(queue[w], Main) + Owed(w)
               + Beats(queue[Main], w) + heard[i]

\* When the check of main.c:135 finds a worker silent, at least as many of
\* its heartbeat requests are unanswered as there are rounds between two
\* checks: a response counted too early, too late or for another worker
\* never turns into an alarm.
AlarmMeansUnanswered ==
  \A i \in Slot :
    /\ at[Main] = "check" /\ i <= slot /\ todo[Main] = <<>>
    /\ Silent(i) /\ pc[Worker[i]] # "exited"
    => asked[i] - heard[i] >= Chances

\* Where the requests of clients and their answers are: in a queue, orphaned
\* or not, with a task that has still to send one, or at mq_send.
InTransit ==
  UNION {{<<t, "queue", k>> : k \in {k \in DOMAIN queue[t] : Asks(queue[t][k])}}
         \cup
         {<<t, "orphan", k>> : k \in {k \in DOMAIN orphan[t] : Asks(orphan[t][k])}}
         \cup
         {<<t, "todo", k>> : k \in {k \in DOMAIN todo[t] : Asks(todo[t][k])}}
         \cup
         {<<t, "call", k>> : k \in {k \in {1} : pc[t] = "opened" /\ Asks(call[t].msg)}}
         : t \in Task}

\* Every client request the socket task took up is answered once: it, or the
\* answer to it, is in one place until the socket task takes the answer
\* (task_socket.c:155-170).  No race on the flags duplicates or drops one, as
\* long as no call fails and no earlier run left messages behind.
AnswersMatchClients == clients = answered + Cardinality(InTransit)

\* message.h:208 "Main uses this helper function to send heart beat requests
\* to all the threads": the main thread goes through all its rounds.
RoundsComplete == <>(round = MaxRounds /\ at[Main] = "request")

\* A queue is full of messages that failed receives or lost increments have
\* left in it and that its flag does not count: nobody will take one out.
Clogged(q) == drift[q] >= Capacity

\* It does so at least when no decrement of main_queue_flag is lost, no task
\* has left its queue to the heartbeat requests of later rounds, and no queue
\* is clogged.
RoundsCompleteUnlessLost ==
  [](drift[Main] >= 0 /\ \A t \in Task : pc[t] # "exited" /\ ~Clogged(t))
    => RoundsComplete

\* It does so at least when all flags are right, whichever tasks exit.
RoundsOutliveTasks == [](\A q \in Task : drift[q] = 0) => RoundsComplete

\* A worker takes every message out of its queue again and again, unless
\* lost increments or failed receives keep its flag below what the queue
\* holds, or it exits, or a queue it sends to is clogged.
WorkersDrain ==
  \A w \in Task \ {Main} :
    <>[](drift[w] <= 0 /\ pc[w] # "exited" /\ \A q \in Task : ~Clogged(q))
      => []<>(queue[w] = <<>>)

=============================================================================
