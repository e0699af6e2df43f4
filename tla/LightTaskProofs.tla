--------------------------- MODULE LightTaskProofs ---------------------------
(***************************************************************************)
(* The safety of start-up, drivers and light task for any drivers, levels  *)
(* of light and bounds.  Three arguments that need each other's types      *)
(* only: who owns a name of the kernel follows from where the driver is in *)
(* its initialisation; the registers follow light_state transfer by        *)
(* transfer; and a wake-up passes from the line to the signal, from there  *)
(* to the semaphore, and from there to a task that is about to clear.      *)
(***************************************************************************)
EXTENDS LightTask, TLAPS

\* Each driver owns what its place in gpio_irq_init says.
DriverInv ==
  /\ \A d \in Driver :
       /\ class = d <=> place[d] \in {"classed", "noded", "in", "err"}
       /\ node = d <=> place[d] \in {"noded", "in"}
       /\ irq = d => place[d] = "in"
       /\ opened = d => place[d] \in {"noded", "in"}
       /\ majors[d] = removed[d] + IF place[d] = "out" THEN 0 ELSE 1

\* Which transfer may be next.
StepInv ==
  /\ main \in {"sensors", "create"} => at = "absent"
  /\ main = "sensors" => step # "none"
  /\ main = "exited" => at = "done"
  /\ at = "work" => step \in {"clear", "low", "high", "none"}
  /\ main \in {"create", "check", "running"} /\ at # "work" => step = "none"

\* The window is that of light_state, or the next transfers make it so.
WindowInv ==
  ~fault /\ main # "exited" =>
    /\ step = "high" => low = LowOf(lightState)
    /\ step \notin {"power", "sample", "low", "high"} =>
         low = LowOf(lightState) /\ high = HighOf(lightState)

\* A line that is asserted has left a trace on the way to the clear.
WakeInv ==
  at # "done" /\ line /\ ~missed =>
    sigio \/ sem > 0 \/ (at = "work" /\ step = "clear")

IInv == TypeOK /\ DriverInv /\ StepInv /\ WindowInv /\ WakeInv

-----------------------------------------------------------------------------
LEMMA InitInv == Init => IInv
<1> SUFFICES ASSUME Init PROVE IInv
  OBVIOUS
<1> USE DEF Init, DriverInit, calls
<1>1. DriverTypeOK
  <2>1. place \in [Driver -> {"out", "numbered", "classed", "noded", "in", "err", "err2"}]
    OBVIOUS
  <2>2. majors \in [Driver -> Nat] /\ removed \in [Driver -> Nat]
    OBVIOUS
  <2>3. loads \in 0 .. MaxLoads
    BY DriverAssumption
  <2>4. async \in BOOLEAN /\ sigio \in BOOLEAN
    BY Zenon
  <2> QED
    BY <2>1, <2>2, <2>3, <2>4 DEF DriverTypeOK, Owner
<1>2. TypeOK
  <2>1. low \in {0, Threshold} /\ high \in {0, Threshold, Highest}
    BY DEF LowOf, HighOf
  <2>2. sem \in Nat /\ changes \in 0 .. MaxChanges /\ races \in 0 .. MaxRaces
    BY LightAssumption
  <2>3. line \in BOOLEAN /\ missed \in BOOLEAN /\ fault \in BOOLEAN
    <3>1. enabled \in BOOLEAN /\ fault \in BOOLEAN
      BY Zenon
    <3> QED
      BY <3>1, Zenon
  <2> QED
    BY <1>1, <2>1, <2>2, <2>3 DEF TypeOK, Transfers
<1>3. DriverInv
  BY DriverAssumption DEF DriverInv
<1>4. StepInv /\ WindowInv /\ WakeInv
  BY DEF StepInv, WindowInv, WakeInv
<1> QED
  BY <1>2, <1>3, <1>4 DEF IInv

-----------------------------------------------------------------------------
\* The steps of the drivers leave everything else alone.
LEMMA KernelInv == ASSUME IInv, Kernel PROVE IInv'
<1> USE DEF thread, sensor, history, file, calls, Move
<1>1. UNCHANGED <<opened, async, sigio, main, mainStatus, at, status, sem, step,
                  lightState, light, low, high, enabled, line, changes, races,
                  missed, fault>>
  BY DEF Kernel, DriverStep, Insmod, CreateClass, CreateDevice, DestroyClass,
         Unregister, InitGpio, Rmmod
<1>2. PICK d \in Driver :
        \/ Insmod(d) \/ CreateClass(d) \/ CreateDevice(d) \/ DestroyClass(d)
        \/ Unregister(d) \/ InitGpio(d) \/ Rmmod(d)
  BY DEF Kernel, DriverStep
<1>3. DriverTypeOK' /\ DriverInv'
  <2> USE DEF IInv, TypeOK, DriverTypeOK, Owner, DriverInv
  <2>1. CASE Insmod(d)
    BY <1>1, <2>1, DriverAssumption DEF Insmod
  <2>2. CASE CreateClass(d)
    BY <1>1, <2>2, DriverAssumption DEF CreateClass, Outcome
  <2>3. CASE CreateDevice(d)
    BY <1>1, <2>3, DriverAssumption DEF CreateDevice, Outcome
  <2>4. CASE DestroyClass(d)
    BY <1>1, <2>4, DriverAssumption DEF DestroyClass
  <2>5. CASE Unregister(d)
    BY <1>1, <2>5, DriverAssumption DEF Unregister
  <2>6. CASE InitGpio(d)
    BY <1>1, <2>6, DriverAssumption DEF InitGpio, Outcome
  <2>7. CASE Rmmod(d)
    BY <1>1, <2>7, DriverAssumption DEF Rmmod
  <2> QED
    BY <1>2, <2>1, <2>2, <2>3, <2>4, <2>5, <2>6, <2>7
<1>4. TypeOK'
  BY <1>1, <1>3 DEF IInv, TypeOK
<1>5. StepInv' /\ WindowInv' /\ WakeInv'
  BY <1>1 DEF IInv, StepInv, WindowInv, WakeInv
<1> QED
  BY <1>3, <1>4, <1>5 DEF IInv

-----------------------------------------------------------------------------
\* The light, the sensor and the signal.
LEMMA OutsideInv == ASSUME IInv, Change \/ Measure \/ Signal PROVE IInv'
<1> USE DEF thread, sensor, history, file, kernel, calls
<1>1. CASE Change
  <2>1. TypeOK'
    <3>1. changes' \in 0 .. MaxChanges
      BY <1>1, LightAssumption DEF IInv, TypeOK, Change
    <3> QED
      BY <1>1, <3>1 DEF IInv, TypeOK, DriverTypeOK, Change
  <2> QED
    BY <1>1, <2>1 DEF IInv, DriverInv, StepInv, WindowInv, WakeInv, Change
<1>2. CASE Measure
  <2>1. races' \in 0 .. MaxRaces
    <3>1. races' = races + (IF Between THEN 1 ELSE 0) /\ (Between => races < MaxRaces)
      BY <1>2 DEF Measure
    <3>2. races \in 0 .. MaxRaces
      BY DEF IInv, TypeOK
    <3> QED
      BY <3>1, <3>2, LightAssumption
  <2>2. line' = TRUE /\ missed' = ~Noticed /\ sigio' = (sigio \/ Noticed)
    BY <1>2 DEF Measure, Edge
  <2>3. missed' \in BOOLEAN /\ sigio' \in BOOLEAN
    BY <2>2, Zenon DEF IInv, TypeOK, DriverTypeOK, Noticed
  <2>4. TypeOK'
    BY <1>2, <2>1, <2>2, <2>3 DEF IInv, TypeOK, DriverTypeOK, Measure, Edge
  <2>5. WakeInv'
    BY <2>2 DEF WakeInv
  <2> QED
    BY <1>2, <2>4, <2>5 DEF IInv, DriverInv, StepInv, WindowInv, Measure, Edge
<1>3. CASE Signal
  <2>1. TypeOK'
    <3>1. sem' = sem + 1 /\ sem \in Nat
      BY <1>3 DEF IInv, TypeOK, Signal
    <3>2. sem' \in Nat
      BY <3>1
    <3>3. DriverTypeOK'
      BY <1>3 DEF IInv, TypeOK, DriverTypeOK, Signal
    <3> QED
      BY <1>3, <3>2, <3>3 DEF IInv, TypeOK, Signal
  <2>2. WakeInv'
    BY <1>3 DEF IInv, TypeOK, WakeInv, Signal
  <2> QED
    BY <1>3, <2>1, <2>2 DEF IInv, DriverInv, StepInv, WindowInv, Signal
<1> QED
  BY <1>1, <1>2, <1>3

-----------------------------------------------------------------------------
\* One transfer of the set-up or of a round of the task.
LEMMA WriteLowInv ==
  ASSUME IInv, NEW f \in BOOLEAN, WriteLow(f), step = "low",
         step' = (IF f THEN "none" ELSE "high")
  PROVE  WindowInv' /\ lightState' \in {"DAY", "NIGHT"} /\ low' \in {0, Threshold}
         /\ fault' \in BOOLEAN
<1>1. lightState' \in {"DAY", "NIGHT"}
  BY DEF WriteLow, Flipped
<1>2. low' \in {0, Threshold}
  BY DEF IInv, TypeOK, WriteLow, LowOf
<1>3. fault' \in BOOLEAN
  BY Zenon DEF IInv, TypeOK, WriteLow, Noting
<1>4. WindowInv'
  <2>1. CASE f
    BY <2>1 DEF WriteLow, Noting, WindowInv
  <2>2. CASE ~f
    BY <2>2 DEF WriteLow, WindowInv
  <2> QED
    BY <2>1, <2>2
<1> QED
  BY <1>1, <1>2, <1>3, <1>4

LEMMA WriteHighInv ==
  ASSUME IInv, NEW f \in BOOLEAN, WriteHigh(f), step = "high", step' # "high",
         main # "exited"
  PROVE  WindowInv' /\ high' \in {0, Threshold, Highest} /\ fault' \in BOOLEAN
<1>1. high' \in {0, Threshold, Highest}
  BY DEF IInv, TypeOK, WriteHigh, HighOf
<1>2. fault' \in BOOLEAN
  BY Zenon DEF IInv, TypeOK, WriteHigh, Noting
<1>3. WindowInv'
  <2>1. CASE f
    BY <2>1 DEF WriteHigh, Noting, WindowInv
  <2>2. CASE ~f
    BY <2>2 DEF IInv, WriteHigh, Noting, WindowInv
  <2> QED
    BY <2>1, <2>2
<1> QED
  BY <1>1, <1>2, <1>3

LEMMA ClearInv ==
  ASSUME IInv, NEW f \in BOOLEAN, Clear(f), step = "clear",
         step' \in {"low", "none"}, main # "exited"
  PROVE  /\ WindowInv' /\ WakeInv'
         /\ line' \in BOOLEAN /\ missed' \in BOOLEAN /\ fault' \in BOOLEAN
<1>1. line' \in BOOLEAN /\ missed' \in BOOLEAN /\ fault' \in BOOLEAN
  BY Zenon DEF IInv, TypeOK, Clear, Noting
<1>2. ~(line' /\ ~missed')
  BY Zenon DEF Clear
<1>3. WakeInv'
  BY <1>2 DEF WakeInv
<1>4. WindowInv'
  BY DEF IInv, WindowInv, Clear, Noting
<1> QED
  BY <1>1, <1>3, <1>4

-----------------------------------------------------------------------------
\* The main thread.
LEMMA InitTransferInv == ASSUME IInv, InitTransfer PROVE IInv'
<1> USE DEF thread, sensor, history, file, kernel, calls, Transfer
<1>1. PICK f \in BOOLEAN :
        InitWrite(f) /\ mainStatus' = IF f THEN "ERROR" ELSE "SUCCESS"
  BY DEF InitTransfer, Failing
<1>2. /\ main = "sensors" /\ at = "absent"
      /\ main' = IF step' = "none" THEN "create" ELSE "sensors"
      /\ UNCHANGED <<kernel, file, thread>>
  BY DEF IInv, StepInv, InitTransfer
<1>3. UNCHANGED <<light, enabled, changes, races>>
  BY <1>1 DEF InitWrite, WriteLow, WriteHigh, Clear
<1>4. DriverTypeOK' /\ DriverInv'
  BY <1>2 DEF IInv, TypeOK, DriverTypeOK, DriverInv
<1>5. StepInv'
  BY <1>1, <1>2 DEF InitWrite, StepInv
<1>6. WindowInv' /\ WakeInv'
      /\ lightState' \in {"DAY", "NIGHT"} /\ low' \in {0, Threshold}
      /\ high' \in {0, Threshold, Highest}
      /\ line' \in BOOLEAN /\ missed' \in BOOLEAN /\ fault' \in BOOLEAN
  <2>1. CASE step = "low" /\ WriteLow(f) /\ step' = IF f THEN "none" ELSE "high"
    <3>1. UNCHANGED <<high, line, missed>>
      BY <2>1 DEF WriteLow
    <3>2. WakeInv'
      BY <1>2, <2>1, <3>1 DEF IInv, WakeInv
    <3> QED
      BY <2>1, <3>1, <3>2, WriteLowInv DEF IInv, TypeOK
  <2>2. CASE step = "high" /\ WriteHigh(f) /\ step' = IF f THEN "none" ELSE "enable"
    <3>1. UNCHANGED <<lightState, low, line, missed>>
      BY <2>2 DEF WriteHigh
    <3>2. WakeInv'
      BY <1>2, <2>2, <3>1 DEF IInv, WakeInv
    <3> QED
      BY <1>2, <2>2, <3>1, <3>2, WriteHighInv DEF IInv, TypeOK
  <2>3. CASE step = "clear" /\ Clear(f) /\ step' = "none"
    <3>1. UNCHANGED <<lightState, low, high>>
      BY <2>3 DEF Clear
    <3> QED
      BY <1>2, <2>3, <3>1, ClearInv DEF IInv, TypeOK
  <2> QED
    BY <1>1, <2>1, <2>2, <2>3 DEF InitWrite
<1>7. TypeOK'
  <2>1. step' \in Transfers
    BY <1>1 DEF InitWrite, Transfers
  <2> QED
    BY <1>1, <1>2, <1>3, <1>4, <1>6, <2>1 DEF IInv, TypeOK
<1> QED
  BY <1>4, <1>5, <1>6, <1>7 DEF IInv

LEMMA MainInv == ASSUME IInv, MainStep PROVE IInv'
<1> USE DEF thread, sensor, history, file, kernel, calls, Transfer
<1>1. CASE InitFails
  <2>1. TypeOK'
    BY <1>1 DEF IInv, TypeOK, DriverTypeOK, Transfers, InitFails
  <2> QED
    BY <1>1, <2>1 DEF IInv, DriverInv, StepInv, WindowInv, WakeInv, InitFails
<1>2. CASE PowerOn
  <2>1. TypeOK'
    BY <1>2 DEF IInv, TypeOK, DriverTypeOK, Transfers, PowerOn
  <2> QED
    BY <1>2, <2>1 DEF IInv, DriverInv, StepInv, WindowInv, WakeInv, PowerOn
<1>3. CASE Sample
  <2>1. PICK f \in BOOLEAN :
          /\ fault' = (fault \/ f)
          /\ lightState' = IF light < Threshold /\ ~f THEN "DAY" ELSE "NIGHT"
    BY <1>3 DEF Sample, Failing
  <2>2. fault' \in BOOLEAN
    BY <2>1, Zenon DEF IInv, TypeOK
  <2>3. lightState' \in {"DAY", "NIGHT"}
    BY <2>1
  <2>4. TypeOK'
    BY <1>3, <2>2, <2>3 DEF IInv, TypeOK, DriverTypeOK, Transfers, Sample
  <2> QED
    BY <1>3, <2>4 DEF IInv, DriverInv, StepInv, WindowInv, WakeInv, Sample
<1>4. CASE Enable
  <2>1. TypeOK'
    BY <1>4 DEF IInv, TypeOK, DriverTypeOK, Transfers, Enable
  <2> QED
    BY <1>4, <2>1 DEF IInv, DriverInv, StepInv, WindowInv, WakeInv, Enable
<1>5. CASE CreateTask
  <2>1. TypeOK'
    BY <1>5 DEF IInv, TypeOK, DriverTypeOK, Transfers, CreateTask
  <2> QED
    BY <1>5, <2>1 DEF IInv, DriverInv, StepInv, WindowInv, WakeInv, CreateTask
<1>6. CASE Check
  <2>1. DriverTypeOK'
    BY <1>6 DEF IInv, TypeOK, DriverTypeOK, Owner, Check, FasyncOff
  <2>2. TypeOK'
    BY <1>6, <2>1 DEF IInv, TypeOK, Check
  <2>3. DriverInv'
    BY <1>6, DriverAssumption DEF IInv, DriverInv, Check
  <2> QED
    BY <1>6, <2>2, <2>3 DEF IInv, StepInv, WindowInv, WakeInv, Check
<1> QED
  BY <1>1, <1>2, <1>3, <1>4, <1>5, <1>6, InitTransferInv DEF MainStep

-----------------------------------------------------------------------------
\* The light task.
LEMMA UpdateInv == ASSUME IInv, Update PROVE IInv'
<1> USE DEF thread, sensor, history, file, kernel, calls, Transfer
<1>1. PICK f \in BOOLEAN :
        \/ step = "clear" /\ step' = "low" /\ Clear(f)
        \/ step = "low" /\ step' = (IF f THEN "none" ELSE "high") /\ WriteLow(f)
        \/ step = "high" /\ step' = "none" /\ WriteHigh(f)
  BY DEF Update, Failing
<1>2. at = "work" /\ main # "exited" /\ main \notin {"sensors", "create"}
      /\ UNCHANGED <<kernel, file, main, mainStatus, thread>>
  BY DEF IInv, StepInv, Update
<1>3. UNCHANGED <<light, enabled, changes, races>>
  BY <1>1 DEF WriteLow, WriteHigh, Clear
<1>4. DriverTypeOK' /\ DriverInv'
  BY <1>2 DEF IInv, TypeOK, DriverTypeOK, DriverInv
<1>5. StepInv'
  BY <1>1, <1>2 DEF StepInv
<1>6. WindowInv' /\ WakeInv'
      /\ lightState' \in {"DAY", "NIGHT"} /\ low' \in {0, Threshold}
      /\ high' \in {0, Threshold, Highest}
      /\ line' \in BOOLEAN /\ missed' \in BOOLEAN /\ fault' \in BOOLEAN
  <2>1. CASE step = "low" /\ WriteLow(f) /\ step' = IF f THEN "none" ELSE "high"
    <3>1. UNCHANGED <<high, line, missed>>
      BY <2>1 DEF WriteLow
    <3>2. WakeInv'
      BY <1>2, <2>1, <3>1 DEF IInv, WakeInv
    <3> QED
      BY <2>1, <3>1, <3>2, WriteLowInv DEF IInv, TypeOK
  <2>2. CASE step = "high" /\ WriteHigh(f) /\ step' = "none"
    <3>1. UNCHANGED <<lightState, low, line, missed>>
      BY <2>2 DEF WriteHigh
    <3>2. WakeInv'
      BY <1>2, <2>2, <3>1 DEF IInv, WakeInv
    <3> QED
      BY <1>2, <2>2, <3>1, <3>2, WriteHighInv DEF IInv, TypeOK
  <2>3. CASE step = "clear" /\ Clear(f) /\ step' = "low"
    <3>1. UNCHANGED <<lightState, low, high>>
      BY <2>3 DEF Clear
    <3> QED
      BY <1>2, <2>3, <3>1, ClearInv DEF IInv, TypeOK
  <2> QED
    BY <1>1, <2>1, <2>2, <2>3
<1>7. TypeOK'
  <2>1. step' \in Transfers
    BY <1>1 DEF Transfers
  <2> QED
    BY <1>2, <1>3, <1>4, <1>6, <2>1 DEF IInv, TypeOK
<1> QED
  BY <1>4, <1>5, <1>6, <1>7 DEF IInv

LEMMA SetUpInv == ASSUME IInv, Open \/ Fasync \/ SemInit PROVE IInv'
<1> USE DEF thread, sensor, history, file, kernel, calls, GotoAt
<1>1. CASE Open
  <2>1. TypeOK'
    BY <1>1 DEF IInv, TypeOK, DriverTypeOK, Open
  <2>2. DriverInv'
    BY <1>1 DEF IInv, DriverInv, Open
  <2> QED
    BY <1>1, <2>1, <2>2 DEF IInv, StepInv, WindowInv, WakeInv, Open
<1>2. CASE Fasync
  <2>1. DriverTypeOK'
    BY <1>2 DEF IInv, TypeOK, DriverTypeOK, Fasync, FasyncOn, Outcome
  <2>2. TypeOK'
    BY <1>2, <2>1 DEF IInv, TypeOK, Fasync, Outcome
  <2>3. sigio => sigio'
    BY <1>2 DEF Fasync, FasyncOn, Outcome
  <2> QED
    BY <1>2, <2>2, <2>3 DEF IInv, DriverInv, StepInv, WindowInv, WakeInv, Fasync
<1>3. CASE SemInit
  <2>1. \/ /\ sem' = 0 /\ status' = status
           /\ missed' = (missed \/ (sem > 0 /\ line))
        \/ sem' = sem /\ missed' = missed /\ status' = "ERROR"
    BY <1>3 DEF SemInit, Outcome
  <2>2. sem' \in Nat /\ status' \in {"SUCCESS", "ERROR"}
    BY <2>1 DEF IInv, TypeOK
  <2>3. missed' \in BOOLEAN
    BY <2>1, Zenon DEF IInv, TypeOK
  <2>4. DriverTypeOK' /\ DriverInv'
    BY <1>3 DEF IInv, TypeOK, DriverTypeOK, DriverInv, SemInit
  <2>5. TypeOK'
    BY <1>3, <2>2, <2>3, <2>4 DEF IInv, TypeOK, SemInit
  <2>6. WakeInv'
    BY <1>3, <2>1 DEF IInv, WakeInv, SemInit
  <2> QED
    BY <1>3, <2>4, <2>5, <2>6 DEF IInv, StepInv, WindowInv, SemInit
<1> QED
  BY <1>1, <1>2, <1>3

LEMMA RoundInv ==
  ASSUME IInv,
         \/ TakePost \/ NoPost \/ Logged \/ Drain \/ TakeRequest \/ Respond
         \/ Leave
  PROVE  IInv'
<1> USE DEF thread, sensor, history, file, kernel, calls, GotoAt
<1>1. CASE TakePost
  <2>1. sem \in Nat /\ sem > 0 /\ sem' = sem - 1
    BY <1>1 DEF IInv, TypeOK, TakePost
  <2>2. sem' \in Nat
    BY <2>1
  <2>3. DriverTypeOK' /\ DriverInv'
    BY <1>1 DEF IInv, TypeOK, DriverTypeOK, DriverInv, TakePost
  <2>4. TypeOK'
    BY <1>1, <2>2, <2>3 DEF IInv, TypeOK, Transfers, TakePost
  <2>5. main \in {"check", "running"} /\ step = "none"
    BY <1>1 DEF IInv, TypeOK, StepInv, TakePost
  <2> QED
    BY <1>1, <2>3, <2>4, <2>5 DEF IInv, StepInv, WindowInv, WakeInv, TakePost
<1>2. CASE NoPost
  <2>1. DriverTypeOK' /\ DriverInv'
    BY <1>2 DEF IInv, TypeOK, DriverTypeOK, DriverInv, NoPost
  <2>2. TypeOK'
    BY <1>2, <2>1 DEF IInv, TypeOK, NoPost
  <2> QED
    BY <1>2, <2>1, <2>2 DEF IInv, StepInv, WindowInv, WakeInv, NoPost
<1>3. CASE Logged
  <2>1. DriverTypeOK' /\ DriverInv'
    BY <1>3 DEF IInv, TypeOK, DriverTypeOK, DriverInv, Logged
  <2>2. TypeOK'
    BY <1>3, <2>1 DEF IInv, TypeOK, Logged, Failed
  <2> QED
    BY <1>3, <2>1, <2>2 DEF IInv, StepInv, WindowInv, WakeInv, Logged
<1>4. CASE Drain
  <2>1. DriverTypeOK' /\ DriverInv'
    BY <1>4 DEF IInv, TypeOK, DriverTypeOK, DriverInv, Drain
  <2>2. TypeOK'
    BY <1>4, <2>1 DEF IInv, TypeOK, Drain, Failed
  <2> QED
    BY <1>4, <2>1, <2>2 DEF IInv, StepInv, WindowInv, WakeInv, Drain
<1>6. CASE TakeRequest
  <2>1. DriverTypeOK' /\ DriverInv'
    BY <1>6 DEF IInv, TypeOK, DriverTypeOK, DriverInv, TakeRequest
  <2>2. TypeOK'
    BY <1>6, <2>1 DEF IInv, TypeOK, TakeRequest
  <2> QED
    BY <1>6, <2>1, <2>2 DEF IInv, StepInv, WindowInv, WakeInv, TakeRequest
<1>7. CASE Respond
  <2>1. DriverTypeOK' /\ DriverInv'
    BY <1>7 DEF IInv, TypeOK, DriverTypeOK, DriverInv, Respond
  <2>2. TypeOK'
    BY <1>7, <2>1 DEF IInv, TypeOK, Respond, Failed
  <2> QED
    BY <1>7, <2>1, <2>2 DEF IInv, StepInv, WindowInv, WakeInv, Respond
<1>5. CASE Leave
  <2>1. DriverTypeOK' /\ DriverInv'
    <3>1. opened' = None /\ UNCHANGED kernel
      BY <1>5 DEF Leave
    <3>2. async' = FALSE /\ sigio' = sigio
      BY <1>5 DEF Leave, FasyncOff
    <3>3. DriverTypeOK'
      BY <3>1, <3>2 DEF IInv, TypeOK, DriverTypeOK, Owner
    <3> QED
      BY <3>1, <3>3, DriverAssumption DEF IInv, DriverInv
  <2>2. TypeOK'
    BY <1>5, <2>1 DEF IInv, TypeOK, Leave
  <2> QED
    BY <1>5, <2>1, <2>2 DEF IInv, StepInv, WindowInv, WakeInv, Leave
<1> QED
  BY <1>1, <1>2, <1>3, <1>4, <1>5, <1>6, <1>7

LEMMA NextInv == IInv /\ [Next]_vars => IInv'
<1> SUFFICES ASSUME IInv, [Next]_vars PROVE IInv'
  OBVIOUS
<1>1. CASE UNCHANGED vars
  <2> USE <1>1 DEF IInv, vars, thread, sensor, history, file, kernel, calls
  <2>1. DriverTypeOK' /\ DriverInv'
    BY DEF TypeOK, DriverTypeOK, DriverInv
  <2>2. TypeOK'
    BY <2>1 DEF TypeOK
  <2> QED
    BY <2>1, <2>2 DEF StepInv, WindowInv, WakeInv
<1>2. CASE Next
  BY <1>2, MainInv, UpdateInv, SetUpInv, RoundInv, OutsideInv, KernelInv
  DEF Next, LightStep, EndSend
<1> QED
  BY <1>1, <1>2

LEMMA Invariance == Spec => []IInv
BY InitInv, NextInv, PTL DEF Spec

-----------------------------------------------------------------------------
\* The types of main.c's start-up, of task_apds.c and of both drivers.
THEOREM TypeCorrect == Spec => []TypeOK
<1>1. IInv => TypeOK
  BY DEF IInv
<1> QED
  BY <1>1, Invariance, PTL

\* For any number of drivers that want one name, in any order of insmod and
\* rmmod: a failed insmod leaves nothing behind (gpioIRQ.c:202-206), and a
\* removal its device number only (gpioIRQ.c:213-232).
THEOREM FailedLoadsUndone == Spec => []FailedInsmodUndone
<1>1. IInv => FailedInsmodUndone
  BY DEF IInv, TypeOK, DriverTypeOK, Owner, DriverInv, FailedInsmodUndone
<1> QED
  BY <1>1, Invariance, PTL

\* For any levels and changes of the light, and any number of interrupts that
\* come between a clear and the new thresholds (task_apds.c:257-282).
THEOREM WindowFollows == Spec => []WindowMatchesState
<1>1. IInv => WindowMatchesState
  BY DEF IInv, StepInv, WindowInv, WindowMatchesState, Between
<1> QED
  BY <1>1, Invariance, PTL

\* The wake-ups named in missed are all that can be lost (task_apds.c:83).
THEOREM WakeUpsKept == Spec => []NoLostWakeUp
<1>1. IInv => NoLostWakeUp
  BY DEF IInv, WakeInv, NoLostWakeUp
<1> QED
  BY <1>1, Invariance, PTL

=============================================================================
