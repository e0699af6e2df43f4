------------------------------ MODULE MCI2cBus ------------------------------
(***************************************************************************)
(* Instances of I2cBus for TLC: three devices.                             *)
(***************************************************************************)
EXTENDS I2cBus

CONSTANTS Temp, Light, Other

Three == {Temp, Light, Other}

=============================================================================
