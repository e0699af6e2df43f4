---------------------------- MODULE MCSocketTask ----------------------------
(***************************************************************************)
(* Instances of SocketTask for TLC.                                        *)
(***************************************************************************)
EXTENDS SocketTask

\* stdin, the listening socket and two more.
FourFds == 0 .. 3

=============================================================================
