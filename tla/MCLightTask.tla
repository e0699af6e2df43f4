----------------------------- MODULE MCLightTask -----------------------------
(***************************************************************************)
(* Instances of LightTask for TLC.                                         *)
(***************************************************************************)
EXTENDS LightTask

\* Night, day, and the light of a sun that saturates the channel.
NightDayGlare == {100, 900, 65535}

=============================================================================
