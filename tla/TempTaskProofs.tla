--------------------------- MODULE TempTaskProofs ---------------------------
(***************************************************************************)
(* The words of the temperature sensor, and the safety of the task for any *)
(* number of timer threads, any climate and any requests.  The argument:   *)
(* the loop is only entered with an armed timer and only left with an      *)
(* error, so neither the timer nor the mutex can go while the task waits.  *)
(***************************************************************************)
EXTENDS TempTask, SequenceTheorems, TLAPS

-----------------------------------------------------------------------------
\* First what the conversion and the threshold registers of task_tmp.c give,
\* for every word.

\* Sixteenths of a degree as the program reports them.
Reported(code) == Measured(code) + IF Measured(code) < 0 THEN 4096 ELSE 0

\* The provers get the number as two bounds: a range between two numerals they
\* would enumerate.
LEMMA WordValue == MaxWord \in Int /\ 65535 <= MaxWord /\ MaxWord <= 65535
BY DEF MaxWord

\* The two bytes of a reading are put together again.
LEMMA JoinedSent ==
  ASSUME NEW code \in Code
  PROVE  Joined(Sent(code)) = code
<1> DEFINE high == code \div 16
           low == code % 16
<1>0. high \in 0 .. 255 /\ low \in 0 .. 15 /\ code = 16 * high + low
  BY SMT DEF Code
<1>1. Sent(code) \div 4096 = low /\ Sent(code) % 256 = high
  <2>1. Sent(code) = high + 4096 * low
    BY DEF Sent
  <2> HIDE DEF high, low
  <2>2. (high + 4096 * low) \div 4096 = low
    BY <1>0, SMT
  <2>3. (high + 4096 * low) % 256 = high
    BY <1>0, SMT
  <2> QED
    BY <2>1, <2>2, <2>3
<1>2. Joined(Sent(code)) = Int16(code)
  <2> HIDE DEF high, low
  <2> QED
    BY <1>0, <1>1, SMT DEF Joined, Code
<1> QED
  BY <1>2, SMT DEF Int16, Uint16, Code

LEMMA SentWord == ASSUME NEW code \in Code PROVE Sent(code) \in Word
<1>1. PICK high \in 0 .. 255 : code \div 16 = high
  BY SMT DEF Code
<1>2. PICK low \in 0 .. 15 : code % 16 = low
  BY SMT DEF Code
<1>3. high + 4096 * low \in Int /\ 0 <= high + 4096 * low /\ high + 4096 * low <= 65535
  BY SMT
<1>4. high + 4096 * low \in Word
  BY <1>3, WordValue DEF Word
<1> QED
  BY <1>1, <1>2, <1>4 DEF Sent

\* tmp_raw_to_temperature (task_tmp.c:498) gives every reading of zero or more
\* as it was measured and every negative one 256 degrees too high, for the
\* word that is complemented has its upper four bits clear.
THEOREM ReadingConverted ==
  ASSUME NEW code \in Code
  PROVE  RawToTemperature(Sent(code)) = Reported(code)
<1>1. RawToTemperature(Sent(code)) =
        IF (code \div 2048) % 2 = 1 THEN Negated(code) ELSE code
  BY JoinedSent DEF RawToTemperature
<1>2. CASE code < 2048
  <2>1. (code \div 2048) % 2 = 0
    BY <1>2, SMT DEF Code
  <2> QED
    BY <1>1, <1>2, <2>1, SMT DEF Code, Reported, Measured
<1>3. CASE code >= 2048
  <2>1. (code \div 2048) % 2 = 1
    BY <1>3, SMT DEF Code
  <2>2. Int16(65535 - code) = -1 - code
    BY <1>3, SMT DEF Code, Int16, Uint16
  <2>3. Int16(-1 - code + 1) = -code
    BY <1>3, SMT DEF Code, Int16, Uint16
  <2>4. Negated(code) = code
    BY <2>2, <2>3, SMT DEF Negated, Code
  <2> QED
    BY <1>1, <1>3, <2>1, <2>4, SMT DEF Code, Reported, Measured
<1> QED
  BY <1>2, <1>3, SMT DEF Code

\* i2c_read_word_mutex hides a failure (user_i2c.c:198): a setter that goes on
\* with the word of a failed read either writes nothing or writes ones into
\* every field but its own, whatever the sensor held (task_tmp.c:310-406).
THEOREM FailedReadSpoilsConfig ==
  ASSUME NEW chip \in Word, NEW f \in Field, NEW v \in Setting(f)
  PROVE  \/ SetField(chip, FailedRead, f, v) = chip
         \/ \A g \in Field \ {f} :
              GetField(SetField(chip, FailedRead, f, v), g) = g.unit * (g.size - 1)
<1>1. FailedRead = 65535
  BY DEF FailedRead, MaxWord
<1>2. \A g \in Field : Masked(65535, g) = g.unit * (g.size - 1)
  <2>1. Masked(65535, SD) = SD.unit * (SD.size - 1)
    BY SMT DEF Masked, SD
  <2>2. Masked(65535, FQ) = FQ.unit * (FQ.size - 1)
    BY SMT DEF Masked, FQ
  <2>3. Masked(65535, EM) = EM.unit * (EM.size - 1)
    BY SMT DEF Masked, EM
  <2>4. Masked(65535, CR) = CR.unit * (CR.size - 1)
    BY SMT DEF Masked, CR
  <2> QED
    BY <2>1, <2>2, <2>3, <2>4 DEF Field
<1>3. SUFFICES ASSUME v # Masked(65535, f), NEW g \in Field \ {f}
               PROVE  Masked(65535 - f.unit * (f.size - 1) + v, g) = g.unit * (g.size - 1)
  BY <1>1, <1>2 DEF SetField, Replaced, GetField
<1>4. CASE f = SD
  BY <1>4, SMT DEF Masked, Setting, Field, SD, FQ, EM, CR
<1>5. CASE f = FQ
  BY <1>5, SMT DEF Masked, Setting, Field, SD, FQ, EM, CR
<1>6. CASE f = EM
  BY <1>6, SMT DEF Masked, Setting, Field, SD, FQ, EM, CR
<1>7. CASE f = CR
  BY <1>7, SMT DEF Masked, Setting, Field, SD, FQ, EM, CR
<1> QED
  BY <1>4, <1>5, <1>6, <1>7 DEF Field

\* A threshold that fits its register is read back as it was set, in both
\* modes (task_tmp.c:434-492); of others the upper bits are cut off.
THEOREM ThresholdReadBack ==
  ASSUME NEW v \in Word, NEW extended \in BOOLEAN
  PROVE  GetThreshold(SetThreshold(v, extended), extended) =
           v % (IF extended THEN 8192 ELSE 4096)
<1>1. CASE extended
  BY <1>1, WordValue, SMT DEF Word, GetThreshold, SetThreshold, Shift, Uint16
<1>2. CASE ~extended
  BY <1>2, WordValue, SMT DEF Word, GetThreshold, SetThreshold, Shift, Uint16
<1> QED
  BY <1>1, <1>2

-----------------------------------------------------------------------------
\* Now the task.

Looping == {"wait", "woken", "read", "report", "drain"}
Ending == {"delete", "leave", "done", "crashed"}

\* The timer and the mutex outlive the loop, which ends with an error only.
HandsInv ==
  /\ at \in Looping => timer = "armed"
  /\ at = "loop" /\ status = "SUCCESS" => timer = "armed"
  /\ at \notin Ending => alive
  /\ ~alive => owner = "nobody"
  /\ at \in Ending \cup {"destroy"} => status = "ERROR"

IInv == TypeOK /\ HandsInv

-----------------------------------------------------------------------------
LEMMA TemperatureInt == ASSUME NEW word \in Word PROVE RawToTemperature(word) \in Int
<1>1. Joined(word) \in Int
  BY WordValue, SMT DEF Joined, Int16, Uint16, Word
<1>2. ASSUME NEW x \in Int PROVE Int16(x) \in Int
  BY <1>2, SMT DEF Int16, Uint16
<1>3. Int16(65535 - Joined(word)) + 1 \in Int
  BY <1>1, <1>2, SMT
<1>4. Negated(Joined(word)) \in Int
  BY <1>2, <1>3, SMT DEF Negated
<1> QED
  BY <1>1, <1>4 DEF RawToTemperature

LEMMA InitInv == Init => IInv
<1> SUFFICES ASSUME Init PROVE IInv
  OBVIOUS
<1>1. TypeOK
  <2>1. tmp \in Word /\ temperature \in Int /\ inbox \in Seq(Request)
    BY WordValue DEF Init, Word
  <2>2. asks \in 0 .. MaxAsks
    BY TempAssumption DEF Init
  <2>3. handler \in [Handler -> {"idle", "lock", "signal", "unlock"}]
    BY DEF Init
  <2>4. alive \in BOOLEAN
    BY DEF Init
  <2> QED
    BY <2>1, <2>2, <2>3, <2>4 DEF Init, TypeOK, Place
<1>2. HandsInv
  BY DEF Init, HandsInv, Looping, Ending
<1> QED
  BY <1>1, <1>2 DEF IInv

-----------------------------------------------------------------------------
\* The steps of the timer and its threads, of the sensor and of the clients.
LEMMA HandsStep ==
  ASSUME IInv, NEW h \in Handler, Fire(h) \/ HandlerStep(h)
  PROVE  IInv'
<1> USE DEF HandlerGoto, others, outside, values
<1>1. CASE Fire(h)
  BY <1>1 DEF IInv, TypeOK, HandsInv, Fire
<1>2. CASE HandlerLock(h)
  BY <1>2 DEF IInv, TypeOK, HandsInv, HandlerLock
<1>3. CASE HandlerSignal(h)
  BY <1>3 DEF IInv, TypeOK, Place, HandsInv, Looping, Ending, HandlerSignal
<1>4. CASE HandlerUnlock(h)
  BY <1>4 DEF IInv, TypeOK, HandsInv, HandlerUnlock
<1> QED
  BY <1>1, <1>2, <1>3, <1>4 DEF HandlerStep

LEMMA OutsideStep ==
  ASSUME IInv, Weather \/ Traffic \/ \E r \in Request : Ask(r)
  PROVE  IInv'
<1> USE DEF hands, others, outside, values
<1>1. CASE Weather
  BY <1>1 DEF IInv, TypeOK, HandsInv, Weather
<1>2. CASE Traffic
  <2>1. full' \in BOOLEAN
    BY <1>2, Zenon DEF IInv, TypeOK, Traffic
  <2> QED
    BY <1>2, <2>1 DEF IInv, TypeOK, HandsInv, Traffic
<1>3. CASE \E r \in Request : Ask(r)
  <2>1. PICK r \in Request : Ask(r)
    BY <1>3
  <2>2. inbox' \in Seq(Request)
    BY <2>1, AppendProperties DEF IInv, TypeOK, Ask
  <2>3. asks' \in 0 .. MaxAsks
    BY <2>1, TempAssumption DEF IInv, TypeOK, Ask
  <2> QED
    BY <2>1, <2>2, <2>3 DEF IInv, TypeOK, HandsInv, Ask
<1> QED
  BY <1>1, <1>2, <1>3

\* The steps of the task that leave the values alone.
LEMMA WaitStep ==
  ASSUME IInv, TimerSetup \/ Wait \/ SpuriousWakeUp \/ WakeUp \/ EndDrain
  PROVE  IInv'
<1> USE DEF Goto, hands, others, outside, values
<1>1. CASE TimerSetup
  BY <1>1 DEF IInv, TypeOK, Place, HandsInv, Looping, Ending, TimerSetup
<1>2. CASE Wait
  BY <1>2 DEF IInv, TypeOK, Place, HandsInv, Looping, Ending, Wait
<1>3. CASE SpuriousWakeUp
  BY <1>3 DEF IInv, TypeOK, Place, HandsInv, Looping, Ending, SpuriousWakeUp
<1>4. CASE WakeUp
  BY <1>4 DEF IInv, TypeOK, Place, HandsInv, Looping, Ending, WakeUp
<1>5. CASE EndDrain
  BY <1>5 DEF IInv, TypeOK, Place, HandsInv, Looping, Ending, EndDrain
<1> QED
  BY <1>1, <1>2, <1>3, <1>4, <1>5

LEMMA ReadStep == ASSUME IInv, Read PROVE IInv'
<1> USE DEF Goto, hands, outside
<1>1. room \in Code /\ Sent(room) \in Word
  BY SentWord, TempAssumption DEF IInv, TypeOK
<1>2. FailedRead \in Word
  BY WordValue DEF FailedRead, Word
<1>3. TypeOK'
  BY <1>1, <1>2 DEF IInv, TypeOK, Place, Read
<1>4. HandsInv'
  BY DEF IInv, HandsInv, Looping, Ending, Read
<1> QED
  BY <1>3, <1>4 DEF IInv

\* Logging and responding, whatever the call returns.
LEMMA ReportStep ==
  ASSUME IInv, NEW s \in {"SUCCESS", "ERROR"}, LogTemperature(s)
  PROVE  IInv'
<1> USE DEF Goto, hands, outside
<1>1. TypeOK'
  BY TemperatureInt DEF IInv, TypeOK, Place, LogTemperature
<1>2. HandsInv'
  BY DEF IInv, HandsInv, Looping, Ending, LogTemperature
<1> QED
  BY <1>1, <1>2 DEF IInv

LEMMA RespondStep ==
  ASSUME IInv, NEW s \in {"SUCCESS", "ERROR"}, Respond(s)
  PROVE  IInv'
<1> USE DEF hands, outside, values
<1>1. inbox' \in Seq(Request)
  BY HeadTailProperties DEF IInv, TypeOK, Respond
<1>2. status' \in {"SUCCESS", "ERROR"}
  BY DEF IInv, TypeOK, Respond
<1> QED
  BY <1>1, <1>2 DEF IInv, TypeOK, HandsInv, Looping, Ending, Respond

LEMMA SendStep == ASSUME IInv, Report \/ Handle \/ Interrupt PROVE IInv'
<1>1. CASE Report
  BY <1>1, ReportStep DEF Report, Returned
<1>2. CASE Handle
  BY <1>2, RespondStep DEF Handle, Returned
<1>3. CASE Interrupt
  BY <1>3, ReportStep, RespondStep DEF Interrupt
<1> QED
  BY <1>1, <1>2, <1>3

LEMMA CleanUpStep ==
  ASSUME IInv, EndLoop \/ DestroyMutex \/ DeleteTimer \/ Leave
  PROVE  IInv'
<1> USE DEF Goto, hands, others, outside, values
<1>1. CASE EndLoop
  BY <1>1 DEF IInv, TypeOK, Place, HandsInv, Looping, Ending, EndLoop
<1>2. CASE DestroyMutex
  BY <1>2 DEF IInv, TypeOK, Place, HandsInv, Looping, Ending, DestroyMutex
<1>3. CASE DeleteTimer
  BY <1>3 DEF IInv, TypeOK, Place, HandsInv, Looping, Ending, DeleteTimer
<1>4. CASE Leave
  BY <1>4 DEF IInv, TypeOK, Place, HandsInv, Looping, Ending, Leave
<1> QED
  BY <1>1, <1>2, <1>3, <1>4

LEMMA NextInv == IInv /\ [Next]_vars => IInv'
<1> SUFFICES ASSUME IInv, [Next]_vars PROVE IInv'
  OBVIOUS
<1>1. CASE UNCHANGED vars
  BY <1>1 DEF IInv, TypeOK, HandsInv, vars, hands, others, outside, values
<1>2. CASE Next
  BY <1>2, HandsStep, OutsideStep, WaitStep, ReadStep, SendStep, CleanUpStep
  DEF Next, TaskStep
<1> QED
  BY <1>1, <1>2

LEMMA Invariance == Spec => []IInv
BY InitInv, NextInv, PTL DEF Spec

-----------------------------------------------------------------------------
\* Every variable of task_tmp.c keeps its type.
THEOREM TypeCorrect == Spec => []TypeOK
<1>1. IInv => TypeOK
  BY DEF IInv
<1> QED
  BY <1>1, Invariance, PTL

\* The wait of task_tmp.c:113 always has a timer to end it and a mutex to
\* return with, whatever fails before it.
THEOREM WaitsAreTimed == Spec => []WaitsOnlyWhileTimed
<1>1. IInv => WaitsOnlyWhileTimed
  BY DEF IInv, HandsInv, Looping, Ending, WaitsOnlyWhileTimed
<1> QED
  BY <1>1, Invariance, PTL

=============================================================================
