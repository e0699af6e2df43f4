----------------------------- MODULE MCTempTask -----------------------------
(***************************************************************************)
(* Instances of TempTask for TLC.                                          *)
(***************************************************************************)
EXTENDS TempTask

\* 25 degrees, and a sixteenth below zero.
WarmAndCold == {400, 4095}

\* 25 and 27 degrees.
Warming == {400, 432}

Requests == {"HEART_BEAT", "GET_TEMP_C"}

=============================================================================
