------------------------------ MODULE LightTask ------------------------------
(***************************************************************************)
(* Start-up and the light task: main (main.c) initialises the light sensor *)
(* and creates the task, which learns of a change of the light by a chain  *)
(* of events: the sensor compares its channel 0 with two thresholds and    *)
(* asserts its interrupt line, the driver's handler sends SIGIO, the       *)
(* signal handler posts a semaphore, the task clears the interrupt and     *)
(* moves the thresholds (task_apds.c).  The queues the task sends to are   *)
(* not here: a send may take any time, as mq_send blocks while they are    *)
(* full.                                                                   *)
(***************************************************************************)
EXTENDS GpioIrq

CONSTANTS
  Levels,      \* the values of channel 0
  MaxChanges,  \* bound: changes of the light
  MaxRaces     \* bound: measurements between a clear and the new thresholds

Threshold == 500      \* DEFAULT_THRESH_VALUE
Highest == 65280      \* THRESH_MAX
MaxLevel == 65535     \* of uint16_t

ASSUME LightAssumption ==
  /\ Levels \subseteq 0 .. MaxLevel /\ Levels # {}
  /\ MaxChanges \in Nat /\ MaxRaces \in Nat

VARIABLES
  main,      \* where the main thread is in its start-up
  mainStatus,
  at,        \* where the light task is
  status,
  step,      \* the bus transfer that is next in the sensor's set-up or update
  lightState,
  sem,       \* the value of apds_sem
  light,     \* channel 0
  low, high, \* the threshold registers
  enabled,   \* the interrupt register of the sensor
  line,      \* the interrupt is asserted, until it is cleared
  changes, races,
  missed,    \* history: a line asserted since the last clear went unnoticed
  fault      \* history: a transfer failed

sensor == <<light, low, high, enabled, line, changes, races>>
history == <<missed, fault>>
thread == <<at, status, sem>>
vars == <<kernel, file, main, mainStatus, thread, step, lightState, sensor, history>>

\* The transfers of apds9301_init and of one round of the task, in order.
Transfers == {"power", "sample", "low", "high", "enable", "clear", "none"}

TypeOK ==
  /\ DriverTypeOK
  /\ main \in {"sensors", "create", "check", "running", "exited"}
  /\ mainStatus \in {"SUCCESS", "ERROR"} /\ status \in {"SUCCESS", "ERROR"}
  /\ at \in {"absent", "open", "fasync", "semaphore", "sleep", "work",
             "drain", "respond", "done"}
  /\ step \in Transfers
  /\ lightState \in {"DAY", "NIGHT"}
  /\ sem \in Nat
  /\ light \in Levels
  /\ low \in {0, Threshold} /\ high \in {0, Threshold, Highest}
  /\ enabled \in BOOLEAN /\ line \in BOOLEAN
  /\ changes \in 0 .. MaxChanges /\ races \in 0 .. MaxRaces
  /\ missed \in BOOLEAN /\ fault \in BOOLEAN

LowOf(s) == IF s = "NIGHT" THEN 0 ELSE Threshold
HighOf(s) == IF s = "NIGHT" THEN Threshold ELSE Highest

Flipped(s) == IF s = "DAY" THEN "NIGHT" ELSE "DAY"

\* The sensor keeps what an earlier run of the program left in it; light_state
\* is a static variable and starts as 0.
Init ==
  /\ DriverInit
  /\ main = "sensors" /\ mainStatus = "SUCCESS"
  /\ at = "absent" /\ status = "SUCCESS" /\ sem = 0
  /\ step = "power"
  /\ lightState = "DAY"
  /\ light \in Levels
  /\ \E s \in {"DAY", "NIGHT"} : low = LowOf(s) /\ high = HighOf(s)
  /\ enabled \in BOOLEAN
  /\ line \in {FALSE, enabled}
  /\ changes = 0 /\ races = 0
  /\ missed = line /\ fault = FALSE

-----------------------------------------------------------------------------
\* A transfer on the bus: what it writes, unless it fails (f); bound: one
\* failure in a behaviour.
Transfer(from, to) == step = from /\ step' = to

Failing == IF CallsMayFail /\ ~fault THEN {TRUE, FALSE} ELSE {FALSE}

Noting(f) == fault' = (fault \/ f)

\* Slip: light_state flips after the first threshold is written.
WriteLowThenFlip(f) ==
  /\ Noting(f)
  /\ lightState' = Flipped(lightState)
  /\ low' = IF f THEN low ELSE LowOf(lightState)
  /\ UNCHANGED <<light, high, enabled, line, changes, races, missed>>

\* apds_update_state: light_state flips, then the lower threshold follows.
WriteLow(f) ==
  /\ Noting(f)
  /\ lightState' = Flipped(lightState)
  /\ low' = IF f THEN low ELSE LowOf(lightState')
  /\ UNCHANGED <<light, high, enabled, line, changes, races, missed>>

\* apds_update_state: then the upper threshold.
WriteHigh(f) ==
  /\ Noting(f)
  /\ high' = IF f THEN high ELSE HighOf(lightState)
  /\ UNCHANGED <<lightState, light, low, enabled, line, changes, races, missed>>

\* The write of CMD|CLEAR|CONTROL_REG.
Clear(f) ==
  /\ Noting(f)
  /\ line' = (line /\ f)
  /\ missed' = (line /\ (missed \/ f))
  /\ UNCHANGED <<lightState, light, low, high, enabled, changes, races>>

-----------------------------------------------------------------------------
\* External: the light changes.
Change ==
  /\ changes < MaxChanges
  /\ changes' = changes + 1
  /\ light' \in Levels \ {light}
  /\ UNCHANGED <<kernel, file, main, mainStatus, thread, step, lightState,
                 low, high, enabled, line, races, history>>

Outside == light < low \/ light > high

\* The task has cleared the interrupt and not yet moved both thresholds.
Between == at = "work" /\ step \in {"low", "high"}

\* External: the sensor ends a measurement outside its window and asserts the
\* line: a falling edge.
Measure ==
  /\ enabled /\ Outside /\ ~line
  /\ Between => races < MaxRaces
  /\ races' = races + IF Between THEN 1 ELSE 0
  /\ line' = TRUE
  /\ missed' = ~Noticed
  /\ Edge
  /\ UNCHANGED <<kernel, main, mainStatus, thread, step, lightState,
                 light, low, high, enabled, changes, fault>>

\* SIGIO reaches apds_irq_handler: sem_post, before sem_init too.
Signal ==
  /\ sigio /\ at \notin {"absent", "done"} /\ main # "exited"
  /\ sigio' = FALSE
  /\ sem' = sem + 1
  /\ UNCHANGED <<kernel, opened, async, main, mainStatus, at, status, step,
                 lightState, sensor, history>>

-----------------------------------------------------------------------------
\* main: tmp1021_init, whose status the next line overwrites, and the first
\* transfers of apds9301_init.
InitFails ==
  /\ CallsMayFail
  /\ main = "sensors" /\ step \in {"power", "enable"}
  /\ step' = "none" /\ fault' = TRUE
  /\ mainStatus' = "ERROR" /\ main' = "create"
  /\ UNCHANGED <<kernel, file, thread, lightState, sensor, missed>>

PowerOn ==
  /\ main = "sensors" /\ Transfer("power", "sample")
  /\ UNCHANGED <<kernel, file, main, mainStatus, thread, lightState, sensor, history>>

\* ch0 < DEFAULT_THRESH_VALUE ? DAY : NIGHT, which apds_update_state flips.  A
\* read that fails is not noticed and gives 0xffff.
Sample ==
  /\ main = "sensors" /\ Transfer("sample", "low")
  /\ \E f \in Failing :
       /\ fault' = (fault \/ f)
       /\ lightState' = IF light < Threshold /\ ~f THEN "DAY" ELSE "NIGHT"
  /\ UNCHANGED <<kernel, file, main, mainStatus, thread, sensor, missed>>

Enable ==
  /\ main = "sensors" /\ Transfer("enable", "clear")
  /\ enabled' = TRUE
  /\ UNCHANGED <<kernel, file, main, mainStatus, thread, lightState,
                 light, low, high, line, changes, races, history>>

InitWrite(f) ==
  \/ Transfer("low", IF f THEN "none" ELSE "high") /\ WriteLow(f)
  \/ Transfer("high", IF f THEN "none" ELSE "enable") /\ WriteHigh(f)
  \/ Transfer("clear", "none") /\ Clear(f)

\* apds9301_init returns at the first failure, or after the clear.
InitTransfer ==
  /\ main = "sensors"
  /\ \E f \in Failing :
       /\ InitWrite(f)
       /\ mainStatus' = IF f THEN "ERROR" ELSE "SUCCESS"
  /\ main' = IF step' = "none" THEN "create" ELSE "sensors"
  /\ UNCHANGED <<kernel, file, thread>>

\* pthread_create comes before the status is looked at.
CreateTask ==
  /\ main = "create" /\ main' = "check"
  /\ at' = "open" /\ step' = "none"
  /\ UNCHANGED <<kernel, file, mainStatus, status, sem, lightState, sensor, history>>

\* Start-up failed: the LED blinks, and exit ends the threads and closes the
\* file.
Check ==
  /\ main = "check"
  /\ IF mainStatus = "ERROR"
     THEN /\ main' = "exited" /\ at' = "done"
          /\ opened' = None /\ FasyncOff
     ELSE /\ main' = "running"
          /\ UNCHANGED <<at, file>>
  /\ UNCHANGED <<kernel, mainStatus, status, sem, step, lightState, sensor, history>>

-----------------------------------------------------------------------------
GotoAt(from, to) == at = from /\ at' = to

\* sigaction, which has nothing to fail for, and open: without a device the
\* set-up goes on with ERROR.
Open ==
  /\ GotoAt("open", "fasync")
  /\ opened' = node
  /\ status' = IF node = None THEN "ERROR" ELSE "SUCCESS"
  /\ UNCHANGED <<kernel, async, sigio, main, mainStatus, sem, step, lightState,
                 sensor, history>>

\* fcntl: F_SETOWN, then F_SETFL with FASYNC, which fails without a file or
\* without memory for the driver's queue.
Fasync ==
  /\ GotoAt("fasync", "semaphore")
  /\ \E o \in Outcome(opened # None) :
       IF o = "ok" THEN FasyncOn /\ UNCHANGED status
       ELSE status' = "ERROR" /\ UNCHANGED <<async, sigio>>
  /\ UNCHANGED <<kernel, opened, main, mainStatus, sem, step, lightState,
                 sensor, history>>

\* sem_init discards a post that was there.
SemInit ==
  /\ GotoAt("semaphore", "sleep")
  /\ \E o \in Outcome(TRUE) :
       IF o = "ok"
       THEN /\ sem' = 0
            /\ missed' = (missed \/ (sem > 0 /\ line))
            /\ UNCHANGED status
       ELSE status' = "ERROR" /\ UNCHANGED <<sem, missed>>
  /\ UNCHANGED <<kernel, file, main, mainStatus, step, lightState, sensor, fault>>

\* Slip: a time-out is not told from a post.
TakePostOrNone ==
  /\ status = "SUCCESS"
  /\ GotoAt("sleep", "work")
  /\ sem' = sem - 1
  /\ step' = "clear"
  /\ UNCHANGED <<kernel, file, main, mainStatus, status, lightState, sensor, history>>

\* while(status == SUCCESS), sleep(1), sem_timedwait with a time long past:
\* it takes a post that is there and never waits for one.
TakePost ==
  /\ status = "SUCCESS" /\ sem > 0
  /\ GotoAt("sleep", "work")
  /\ sem' = sem - 1
  /\ step' = "clear"
  /\ UNCHANGED <<kernel, file, main, mainStatus, status, lightState, sensor, history>>

NoPost ==
  /\ status = "SUCCESS" /\ sem = 0
  /\ GotoAt("sleep", "drain")
  /\ UNCHANGED <<kernel, file, main, mainStatus, status, sem, step, lightState,
                 sensor, history>>

\* The clear, whose status is ignored, then apds_update_state, whose status
\* is ignored too.
Update ==
  /\ at = "work"
  /\ \E f \in Failing :
       \/ Transfer("clear", "low") /\ Clear(f)
       \/ Transfer("low", IF f THEN "none" ELSE "high") /\ WriteLow(f)
       \/ Transfer("high", "none") /\ WriteHigh(f)
  /\ UNCHANGED <<kernel, file, main, mainStatus, thread>>

Failed == IF CallsMayFail THEN {"ERROR"} ELSE {}

\* Slip: the posts of a round are discarded at its end.
LoggedDrained ==
  /\ step = "none"
  /\ GotoAt("work", "drain")
  /\ status' \in {"SUCCESS"} \cup Failed
  /\ sem' = 0
  /\ UNCHANGED <<kernel, file, main, mainStatus, step, lightState, sensor, history>>

\* The channels are read, the light logged: msg_log gives the status, when
\* its mq_send had room, or was ended by a signal (message.c:99).
Logged ==
  /\ step = "none"
  /\ GotoAt("work", "drain")
  /\ status' \in {"SUCCESS"} \cup Failed
  /\ UNCHANGED <<kernel, file, main, mainStatus, sem, step, lightState, sensor, history>>

\* The drain loop (Station has its messages): nothing to receive, or a receive
\* that fails.
Drain ==
  /\ GotoAt("drain", "sleep")
  /\ status' \in {status} \cup Failed
  /\ UNCHANGED <<kernel, file, main, mainStatus, sem, step, lightState, sensor, history>>

\* A request in the queue, and the response, which waits for room as well;
\* what msg_send returns to a client's request is ignored.
TakeRequest ==
  /\ GotoAt("drain", "respond")
  /\ UNCHANGED <<kernel, file, main, mainStatus, status, sem, step, lightState,
                 sensor, history>>

Respond ==
  /\ GotoAt("respond", "sleep")
  /\ status' \in {"SUCCESS"} \cup Failed
  /\ UNCHANGED <<kernel, file, main, mainStatus, sem, step, lightState, sensor, history>>

\* The clean-up: close, sem_destroy, i2c_disconnect_mutex, the queue.
Leave ==
  /\ status = "ERROR"
  /\ GotoAt("sleep", "done")
  /\ opened' = None /\ FasyncOff
  /\ UNCHANGED <<kernel, main, mainStatus, status, sem, step, lightState, sensor, history>>

-----------------------------------------------------------------------------
MainStep ==
  \/ InitFails \/ PowerOn \/ Sample \/ Enable \/ InitTransfer
  \/ CreateTask \/ Check

LightStep ==
  \/ Open \/ Fasync \/ SemInit \/ TakePost \/ NoPost \/ Update \/ Drain \/ Leave

\* The task waits for room in a queue.
Sending == at = "respond" \/ (at = "work" /\ step = "none")

EndSend == Logged \/ Respond

Kernel ==
  /\ DriverStep
  /\ UNCHANGED <<main, mainStatus, thread, step, lightState, sensor, history>>

Next ==
  \/ MainStep \/ LightStep \/ EndSend \/ TakeRequest
  \/ Signal \/ Measure \/ Change \/ Kernel

Spec == Init /\ [][Next]_vars

\* Threads run, signals are delivered and the sensor measures on; a send need
\* not end, and nobody has to load a driver, to send a request or to change the
\* light.
Fairness ==
  WF_vars(MainStep) /\ WF_vars(LightStep) /\ WF_vars(Signal) /\ WF_vars(Measure)

FairSpec == Spec /\ Fairness

-----------------------------------------------------------------------------
\* Unless a transfer failed, the thresholds in the sensor are those for
\* light_state whenever nobody is moving them (task_apds.c:257-282), at
\* start-up as well as in the task.
WindowMatchesState ==
  main \in {"check", "running"} /\ ~fault /\ ~Between =>
    low = LowOf(lightState) /\ high = HighOf(lightState)

\* The line is asserted until the task clears it, and only an edge wakes the
\* task: an asserted line that the task is not told of leaves it deaf.  This
\* happens only to an edge from before the file was in the driver's queue, or
\* without an interrupt, to a post that sem_init discarded, and after a clear
\* that failed.
NoLostWakeUp ==
  /\ at \in {"sleep", "work", "drain", "respond"} /\ step # "clear"
  /\ line /\ ~missed
  => sigio \/ sem > 0

\* What light_state says of the light; at the threshold both will do.
Agrees ==
  /\ light < Threshold => lightState = "NIGHT"
  /\ light > Threshold => lightState = "DAY"

\* When the light no longer changes, light_state comes to agree with it,
\* whatever spurious or repeated signals flipped it before, unless a wake-up
\* was lost, a transfer failed, the task ended, or a send to a full queue never
\* returns (message.c:99).  A light above THRESH_MAX is outside both
\* windows and flips it for ever.
LightFollowed ==
  /\ <>[](at \notin {"absent", "done"} /\ ~missed /\ ~fault /\ light <= Highest)
  /\ []<>~Sending
  => <>[]Agrees

=============================================================================
