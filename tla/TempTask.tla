------------------------------ MODULE TempTask ------------------------------
(***************************************************************************)
(* The temperature task (task_tmp.c) with its timer (helper.c): a periodic *)
(* timer starts a thread for every expiry, which signals a condition       *)
(* variable; the task waits for that signal without a predicate, reads the *)
(* sensor, logs the temperature, drains its queue and waits again.         *)
(*                                                                         *)
(* The queue is what MessageQueue shows a task to see when its flag is     *)
(* right: a sequence of requests.  The queues it sends to are here only    *)
(* full or not: mq_send blocks while they are.                             *)
(***************************************************************************)
EXTENDS Tmp102, Sequences, FiniteSets

CONSTANTS
  Handler,       \* bound: threads of the timer that may run at once
  Climate,       \* the codes the sensor may measure
  Request,       \* what other tasks ask of this one
  CallsMayFail,  \* whether timer_setup, transfers and msg_log may fail
  MaxAsks        \* bound: requests in all

ASSUME TempAssumption ==
  /\ IsFiniteSet(Handler) /\ Handler \cap {"task", "nobody"} = {}
  /\ Climate \subseteq Code /\ Climate # {}
  /\ CallsMayFail \in BOOLEAN
  /\ MaxAsks \in Nat

VARIABLES
  at,        \* where the task is
  status,
  timer,     \* "none", "idle" (created, not set), "armed", "deleted"
  handler,   \* where each timer thread is
  owner,     \* who holds tmp_mutex
  alive,     \* tmp_mutex is initialised
  room,      \* the code the sensor measures now
  full,      \* the queues the task sends to are full
  opFlag, tmp, temperature,
  inbox,     \* the requests in the task's queue
  asks,      \* requests so far
  sampled    \* history: the code measured at the read of this period, or -1

hands == <<timer, handler, owner, alive>>
outside == <<room, full>>
values == <<opFlag, tmp, temperature>>
others == <<outside, values, inbox, asks, sampled>>
vars == <<at, status, hands, others>>

Place == {"setup", "loop", "wait", "woken", "read", "report", "drain",
          "destroy", "delete", "leave", "done", "crashed"}

TypeOK ==
  /\ at \in Place
  /\ status \in {"SUCCESS", "ERROR"}
  /\ timer \in {"none", "idle", "armed", "deleted"}
  /\ handler \in [Handler -> {"idle", "lock", "signal", "unlock"}]
  /\ owner \in Handler \cup {"task", "nobody"}
  /\ alive \in BOOLEAN
  /\ room \in Climate /\ full \in BOOLEAN
  /\ opFlag \in {0, 1}
  /\ tmp \in Word
  /\ temperature \in Int
  /\ inbox \in Seq(Request)
  /\ asks \in 0 .. MaxAsks
  /\ sampled \in Climate \cup {-1}

Init ==
  /\ at = "setup"
  /\ status = "SUCCESS"
  /\ timer = "none"
  /\ handler = [h \in Handler |-> "idle"]
  /\ owner = "nobody"
  /\ alive = TRUE
  /\ room \in Climate /\ full = FALSE
  /\ opFlag = 0
  /\ tmp = 0
  /\ temperature = 0
  /\ inbox = <<>>
  /\ asks = 0
  /\ sampled = -1

Goto(from, to) == at = from /\ at' = to

-----------------------------------------------------------------------------
\* Slip: the result of timer_setup is not looked at.
TimerSetupUnchecked ==
  /\ Goto("setup", "loop")
  /\ timer' \in {"armed"} \cup IF CallsMayFail THEN {"none", "idle"} ELSE {}
  /\ UNCHANGED <<handler, owner, alive, status, others>>

\* timer_setup: timer_create may fail, or timer_settime after it.
TimerSetup ==
  /\ Goto("setup", "loop")
  /\ timer' \in {"armed"} \cup IF CallsMayFail THEN {"none", "idle"} ELSE {}
  /\ status' = IF timer' = "armed" THEN "SUCCESS" ELSE "ERROR"
  /\ UNCHANGED <<handler, owner, alive, others>>

\* Slip: an it_interval of zero makes a timer that expires once.
FireOnce(h) ==
  /\ timer = "armed"
  /\ handler[h] = "idle"
  /\ timer' = "idle"
  /\ handler' = [handler EXCEPT ![h] = "lock"]
  /\ UNCHANGED <<at, status, owner, alive, others>>

\* SIGEV_THREAD: an expiry of the armed timer starts tmp_timer_handler.
Fire(h) ==
  /\ timer = "armed"
  /\ handler[h] = "idle"
  /\ handler' = [handler EXCEPT ![h] = "lock"]
  /\ UNCHANGED <<at, status, timer, owner, alive, others>>

HandlerGoto(h, from, to) ==
  handler[h] = from /\ handler' = [handler EXCEPT ![h] = to]

\* pthread_mutex_lock of the handler; a destroyed mutex refuses at once and
\* the handler goes on without it.
HandlerLock(h) ==
  /\ HandlerGoto(h, "lock", "signal")
  /\ IF alive
     THEN owner = "nobody" /\ owner' = h
     ELSE UNCHANGED owner
  /\ UNCHANGED <<at, status, timer, alive, others>>

\* pthread_cond_signal: lost unless the task waits.
HandlerSignal(h) ==
  /\ HandlerGoto(h, "signal", "unlock")
  /\ at' = IF at = "wait" THEN "woken" ELSE at
  /\ UNCHANGED <<status, timer, owner, alive, others>>

HandlerUnlock(h) ==
  /\ HandlerGoto(h, "unlock", "idle")
  /\ owner' = IF owner = h THEN "nobody" ELSE owner
  /\ UNCHANGED <<at, status, timer, alive, others>>

-----------------------------------------------------------------------------
\* while(status == SUCCESS): lock, and pthread_cond_wait, which releases.
Wait ==
  /\ status = "SUCCESS"
  /\ owner = "nobody"
  /\ Goto("loop", "wait")
  /\ UNCHANGED <<status, hands, others>>

\* pthread_cond_wait may return without a signal.
SpuriousWakeUp ==
  /\ Goto("wait", "woken")
  /\ UNCHANGED <<status, hands, others>>

\* pthread_cond_wait takes the mutex again; then the task unlocks it.
WakeUp ==
  /\ owner = "nobody"
  /\ Goto("woken", "read")
  /\ UNCHANGED <<status, hands, others>>

\* Slip: the word of a failed read keeps its sign.
ReadSigned ==
  /\ Goto("read", "report")
  /\ IF opFlag = 0
     THEN /\ tmp' \in {Sent(room)} \cup IF CallsMayFail THEN {-1} ELSE {}
          /\ opFlag' = 1
     ELSE UNCHANGED <<opFlag, tmp>>
  /\ sampled' = room
  /\ UNCHANGED <<status, hands, outside, temperature, inbox, asks>>

\* The read loop: op_flag keeps the task from reading again, and
\* i2c_read_word_mutex never returns -1, so there is no second try.
Read ==
  /\ Goto("read", "report")
  /\ IF opFlag = 0
     THEN /\ tmp' \in {Sent(room)} \cup (IF CallsMayFail THEN {FailedRead} ELSE {})
          /\ opFlag' = 1
     ELSE UNCHANGED <<opFlag, tmp>>
  /\ sampled' = room
  /\ UNCHANGED <<status, hands, outside, temperature, inbox, asks>>

\* What a call of msg_log or msg_send returns when there is room.
Returned == {"SUCCESS"} \cup IF CallsMayFail THEN {"ERROR"} ELSE {}

\* Convert and log; the status is that of msg_log.
LogTemperature(s) ==
  /\ Goto("report", "drain")
  /\ temperature' = RawToTemperature(tmp)
  /\ status' = s
  /\ UNCHANGED <<hands, outside, opFlag, tmp, inbox, asks, sampled>>

\* while(temp_queue_flag): take a request and respond.  The response to a
\* heartbeat overwrites the status, the answers to a client keep it.
Respond(s) ==
  /\ at = "drain" /\ inbox # <<>>
  /\ inbox' = Tail(inbox)
  /\ status' = CASE Head(inbox) = "SHUT_DOWN" -> "ERROR"
                 [] Head(inbox) = "HEART_BEAT" -> s
                 [] OTHER -> status
  /\ UNCHANGED <<at, hands, outside, values, asks, sampled>>

\* mq_send waits for room.  A request whose answer waits is still in inbox.
Report == ~full /\ \E s \in Returned : LogTemperature(s)

Handle ==
  \E s \in Returned : Respond(s) /\ (full => Head(inbox) = "SHUT_DOWN")

\* A signal ends the wait: msg_log or msg_send returns ERROR.
Interrupt ==
  CallsMayFail /\ full /\ (LogTemperature("ERROR") \/ Respond("ERROR"))

EndDrain ==
  /\ inbox = <<>>
  /\ Goto("drain", "loop")
  /\ UNCHANGED <<status, hands, others>>

-----------------------------------------------------------------------------
\* The clean-up routine.
EndLoop ==
  /\ status = "ERROR"
  /\ Goto("loop", "destroy")
  /\ UNCHANGED <<status, hands, others>>

\* The mutex and the condition variable go first; a mutex that a handler holds
\* is not destroyed (EBUSY).
DestroyMutex ==
  /\ Goto("destroy", "delete")
  /\ alive' = (owner # "nobody")
  /\ UNCHANGED <<status, timer, handler, owner, others>>

\* Slip: the clean-up leaves the timer.
LeaveTimer ==
  /\ Goto("delete", "leave")
  /\ UNCHANGED <<status, hands, others>>

\* timer_delete; the handlers it started run on.  Without a timer its argument
\* was never initialised: nothing happens, or the process dies.
DeleteTimer ==
  /\ at = "delete"
  /\ IF timer = "none"
     THEN at' \in {"leave", "crashed"} /\ UNCHANGED timer
     ELSE at' = "leave" /\ timer' = "deleted"
  /\ UNCHANGED <<status, handler, owner, alive, others>>

\* i2c_disconnect_mutex, the queue's mutex, mq_unlink, the LED, pthread_exit
Leave ==
  /\ Goto("leave", "done")
  /\ UNCHANGED <<status, hands, others>>

-----------------------------------------------------------------------------
Ended == at \in {"done", "crashed"}

\* The main thread sends a heartbeat request, the socket task a client's.
Ask(r) ==
  /\ asks < MaxAsks /\ ~Ended
  /\ asks' = asks + 1
  /\ inbox' = Append(inbox, r)
  /\ UNCHANGED <<at, status, hands, outside, values, sampled>>

\* External: the temperature changes; the owners of the other queues empty
\* them, or other senders fill them.
Weather ==
  /\ room' \in Climate \ {room}
  /\ UNCHANGED <<at, status, hands, full, values, inbox, asks, sampled>>

Traffic ==
  /\ full' = ~full
  /\ UNCHANGED <<at, status, hands, room, values, inbox, asks, sampled>>

TaskStep ==
  \/ TimerSetup \/ Wait \/ WakeUp \/ Read \/ Report \/ Handle \/ EndDrain
  \/ EndLoop \/ DestroyMutex \/ DeleteTimer \/ Leave

HandlerStep(h) == HandlerLock(h) \/ HandlerSignal(h) \/ HandlerUnlock(h)

Next ==
  \/ TaskStep \/ SpuriousWakeUp \/ Interrupt \/ Weather \/ Traffic
  \/ \E h \in Handler : Fire(h) \/ HandlerStep(h)
  \/ \E r \in Request : Ask(r)

Spec == Init /\ [][Next]_vars

\* The threads run, the timer expires for as long as it is armed, and who
\* wants the mutex gets it if it is free again and again: it is held for
\* microseconds in a period of two seconds.  The kernel gives the room in a
\* queue to a sender that waits for it.
Fairness ==
  /\ WF_vars(TaskStep)
  /\ SF_vars(Wait) /\ SF_vars(WakeUp) /\ SF_vars(Report) /\ SF_vars(Handle)
  /\ WF_vars(\E h \in Handler : Fire(h))
  /\ \A h \in Handler : WF_vars(HandlerStep(h)) /\ SF_vars(HandlerLock(h))

FairSpec == Spec /\ Fairness

-----------------------------------------------------------------------------
\* Safety.

\* The wait of task_tmp.c:113 has no timeout of its own: the task waits only
\* while a timer is armed to end the wait and the mutex its handlers lock is
\* there, whichever call of the set-up failed.
WaitsOnlyWhileTimed == at \in {"wait", "woken"} => timer = "armed" /\ alive

\* task_tmp.c:108 "Periodic temperature read", 116 "Read temperature raw data
\* from the sensor": what a period logs and sends on (145, 187) is what the
\* sensor measured when the period read it.
ReportsMeasured ==
  at = "drain" /\ tmp # FailedRead => temperature = Measured(sampled)

-----------------------------------------------------------------------------
\* Liveness.

\* Although a signal is lost whenever the task is not waiting for it, the
\* task logs a temperature again and again until it ends, unless a queue it
\* sends to stays full for ever (message.c:99).
KeepsReporting == <>[]full \/ <>Ended \/ []<><<Report>>_vars

\* Every request is taken from the queue sooner or later, or the task ends:
\* a client waits for a lost signal no longer than until the next one.
RequestsTaken == <>[]full \/ ((inbox # <<>>) ~> (inbox = <<>> \/ Ended))

\* The clean-up destroys the mutex and the condition variable before it deletes
\* the timer (task_tmp.c:222-224), and a handler may run after both.  But the
\* handlers come to an end: once the task is done no thread of the timer goes
\* on using what it destroyed, and none is stuck at the mutex for ever,
\* whichever of them held it or waited for it during the clean-up.
HandlersEnd == (at = "done") ~> [](\A h \in Handler : handler[h] = "idle")

=============================================================================
