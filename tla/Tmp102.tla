------------------------------- MODULE Tmp102 -------------------------------
(***************************************************************************)
(* The words of the temperature sensor: the register utilities and the     *)
(* conversion of task_tmp.c with the masks of tmp1021.h, as operators on   *)
(* 16-bit words.  i2c_read_word_mutex gives the first byte on the wire in  *)
(* the low half of a word.  Temperatures are counted in sixteenths of a    *)
(* degree Celsius, the unit of the sensor.                                 *)
(***************************************************************************)
EXTENDS Integers

MaxWord == 65535

Word == 0 .. MaxWord

\* uint16_t and int16_t of a number.
Uint16(x) == x % 65536

Int16(x) == IF Uint16(x) >= 32768 THEN Uint16(x) - 65536 ELSE Uint16(x)

\* The fields of CONFIG_REG: a mask is size - 1 times unit.
SD == [unit |-> 1, size |-> 2]
FQ == [unit |-> 8, size |-> 4]
EM == [unit |-> 4096, size |-> 2]
CR == [unit |-> 16384, size |-> 4]

Field == {SD, FQ, EM, CR}

\* The values tmp1021.h names for a field are all those under its mask.
Setting(f) == {f.unit * k : k \in 0 .. f.size - 1}

\* What i2c_read_word_mutex stores when the transfer fails: -1 as a word.  Its
\* comparison with -1 never holds, so the callers go on with it.
FailedRead == MaxWord

\* reg & MASK
Masked(reg, f) == f.unit * ((reg \div f.unit) % f.size)

\* (reg & ~MASK) | v
Replaced(reg, f, v) == reg - Masked(reg, f) + v

\* tmp1021_set_...: the register afterwards, when its read gave reg.
SetField(chip, reg, f, v) ==
  IF Masked(reg, f) # v THEN Replaced(reg, f, v) ELSE chip

\* tmp1021_shutdown_enable and tmp1021_shutdown_disable
Shutdown(chip, reg, on) == SetField(chip, reg, SD, IF on THEN 1 ELSE 0)

\* tmp1021_get_...
GetField(reg, f) == Masked(reg, f)

\* The shift of a threshold: 4 bits, and 3 in extended mode.
Shift(extended) == IF extended THEN 8 ELSE 16

SetThreshold(v, extended) == Uint16(v * Shift(extended))

GetThreshold(reg, extended) == reg \div Shift(extended)

-----------------------------------------------------------------------------
\* External: the sensor counts in two's complement of 12 bits and sends the
\* upper eight of them first, then the others in the upper half of a byte.
Code == 0 .. 4095

Measured(code) == IF code >= 2048 THEN code - 4096 ELSE code

Sent(code) == code \div 16 + 4096 * (code % 16)

\* raw = (int16_t)((raw&0xf000)>>12) | ((raw&0x00ff)<<4)
Joined(word) == Int16(word \div 4096 + 16 * (word % 256))

\* raw ^= 0xffff; raw += 1; -(raw*0.0625)
Negated(raw) == -Int16(Int16(65535 - raw) + 1)

\* tmp_raw_to_temperature
RawToTemperature(word) ==
  LET raw == Joined(word) IN
  IF (raw \div 2048) % 2 = 1 THEN Negated(raw) ELSE raw

=============================================================================
