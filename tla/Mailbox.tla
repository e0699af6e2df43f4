------------------------------ MODULE Mailbox ------------------------------
(***************************************************************************)
(* What the message queues of the weather station are for, without flags,  *)
(* mutexes and threads: each task owns a box of bounded size, anyone may   *)
(* put a message addressed to the owner at its end, and only the owner     *)
(* takes messages, from its head, until it closes the box.                 *)
(***************************************************************************)
EXTENDS Naturals, Sequences

CONSTANTS Owner, Message, Capacity

VARIABLES box, closed

vars == <<box, closed>>

Init ==
  /\ box \in [Owner -> Seq(Message)]
  /\ \A q \in Owner : Len(box[q]) <= Capacity
  /\ closed = {}

\* A sender may hold the box open while its owner closes it, so a message can
\* still arrive in a closed box; nobody will take it.
Put(q, m) ==
  /\ m.destId = q
  /\ Len(box[q]) < Capacity
  /\ box' = [box EXCEPT ![q] = Append(@, m)]
  /\ UNCHANGED closed

Take(q) ==
  /\ q \notin closed
  /\ box[q] # <<>>
  /\ box' = [box EXCEPT ![q] = Tail(@)]
  /\ UNCHANGED closed

Close(q) ==
  /\ closed' = closed \cup {q}
  /\ UNCHANGED box

Next ==
  \E q \in Owner : Take(q) \/ Close(q) \/ \E m \in Message : Put(q, m)

Spec == Init /\ [][Next]_vars

=============================================================================
