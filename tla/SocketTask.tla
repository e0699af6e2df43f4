----------------------------- MODULE SocketTask -----------------------------
(***************************************************************************)
(* The socket task (task_socket.c) and its clients (socket_client.c) over  *)
(* the descriptor table of the process.  The task accepts one connection   *)
(* in a pass, passes its request on to a sensor task, and sends whatever   *)
(* answer is in its queue to newsocketfd, the descriptor of the last       *)
(* accept, which a time-out sets to 0 (stdin).                             *)
(*                                                                         *)
(* Calls of the communication layer do not fail here, but a send may take  *)
(* any time; heartbeats are in Station.  FD_SET of the -1 that a failed    *)
(* accept leaves in newsocketfd is not modelled.                           *)
(*                                                                         *)
(* Every other thread opens and closes a queue descriptor in msg_send and  *)
(* msg_receive, so numbers that were closed are soon in use again.         *)
(***************************************************************************)
EXTENDS Integers, Sequences, FiniteSets, Functions

CONSTANTS
  Client,    \* runs of the client program
  None,
  Fds,       \* bound: the descriptors of the process
  MaxBorrow  \* bound: queues that other threads open

ASSUME SocketAssumption ==
  /\ IsFiniteSet(Client) /\ None \notin Client
  /\ Client \cap {"free", "stdin", "listen", "other"} = {}
  /\ IsFiniteSet(Fds) /\ Fds \subseteq Nat /\ {0, 1} \subseteq Fds
  /\ MaxBorrow \in Nat

VARIABLES
  at,        \* where the task is; "reading": it waits in read
  newfd,     \* newsocketfd; -1 after an accept that failed
  fds,       \* what each descriptor of the process refers to
  conn,      \* the client whose connection the read waits on
  backlog,   \* connections that wait for accept
  kind,      \* what a client sends: a request, a number not in the menu, nothing
  phase,     \* where a client is
  pending,   \* requests that are with the sensor tasks
  inbox,     \* answers in the queue, by the client who asked
  got,       \* whose answer a client was sent
  borrowed,  \* the queue descriptor another thread holds
  borrows,
  reader,    \* history: the client whose request was read in this pass
  late       \* history: an answer came in another pass than its request

process == <<at, newfd, fds, conn>>
clients == <<backlog, kind, phase, got>>
answers == <<pending, inbox>>
others == <<borrowed, borrows>>
history == <<reader, late>>
vars == <<process, clients, answers, others, history>>

Use == Client \cup {"free", "stdin", "listen", "other"}

Number == Fds \cup {-1}

TypeOK ==
  /\ at \in {"accept", "read", "reading", "send", "drain"}
  /\ newfd \in Number
  /\ fds \in [Fds -> Use]
  /\ conn \in Client \cup {None}
  /\ backlog \in Seq(Client)
  /\ kind \in [Client -> {"asks", "odd", "silent"}]
  /\ phase \in [Client -> {"idle", "waiting", "gone"}]
  /\ pending \subseteq Client
  /\ inbox \in Seq(Client)
  /\ got \in [Client -> Client \cup {None}]
  /\ borrowed \in Number
  /\ borrows \in 0 .. MaxBorrow
  /\ reader \in Client \cup {None}
  /\ late \in BOOLEAN

\* socket, bind and listen take the first free descriptor after stdin.
Init ==
  /\ at = "accept" /\ newfd = 0
  /\ fds = [n \in Fds |-> CASE n = 0 -> "stdin" [] n = 1 -> "listen"
                            [] OTHER -> "free"]
  /\ conn = None /\ backlog = <<>>
  /\ kind \in [Client -> {"asks", "odd", "silent"}]
  /\ phase = [c \in Client |-> "idle"]
  /\ pending = {} /\ inbox = <<>>
  /\ got = [c \in Client |-> None]
  /\ borrowed = -1 /\ borrows = 0
  /\ reader = None /\ late = FALSE

Free == {n \in Fds : fds[n] = "free"}

\* The smallest free number, which open, accept and mq_open return.
Lowest == {n \in Free : \A m \in Free : n <= m}

\* close(n): it fails on a number that is not open.
Closed(n) == [m \in Fds |-> IF m = n THEN "free" ELSE fds[m]]

-----------------------------------------------------------------------------
\* accept_client_timeout: select found nobody for two seconds and 0 is
\* returned, which is also a descriptor.
TimeOut ==
  /\ at = "accept" /\ backlog = <<>>
  /\ newfd' = 0
  /\ at' = "drain"
  /\ reader' = None
  /\ UNCHANGED <<fds, conn, clients, answers, others, late>>

\* accept gives the smallest free number.  The caller takes a 0 for a
\* time-out.
Accept ==
  /\ at = "accept" /\ backlog # <<>>
  /\ newfd' \in Lowest
  /\ fds' = [fds EXCEPT ![newfd'] = Head(backlog)]
  /\ backlog' = Tail(backlog)
  /\ at' = IF newfd' = 0 THEN "drain" ELSE "read"
  /\ reader' = None
  /\ UNCHANGED <<conn, kind, phase, got, answers, others, late>>

\* Slip: an accept that failed ends the task.
AcceptEnds ==
  /\ at = "accept" /\ backlog # <<>> /\ Free = {}
  /\ newfd' = -1
  /\ at' = "ended"
  /\ reader' = None
  /\ UNCHANGED <<fds, conn, clients, answers, others, late>>

\* accept fails for want of a descriptor: the read of -1 fails as well.
AcceptFails ==
  /\ at = "accept" /\ backlog # <<>> /\ Free = {}
  /\ newfd' = -1
  /\ at' = "drain"
  /\ reader' = None
  /\ UNCHANGED <<fds, conn, clients, answers, others, late>>

\* read takes the connection newsocketfd refers to at the call, and keeps it
\* while it waits: another thread that closes the number does not end the wait.
Wait ==
  /\ at = "read" /\ fds[newfd] \in Client
  /\ at' = "reading"
  /\ conn' = fds[newfd]
  /\ UNCHANGED <<newfd, fds, clients, answers, others, history>>

\* The number is no longer a connection at the call: the read fails or is short.
NoConnection ==
  /\ at = "read" /\ fds[newfd] \notin Client
  /\ at' = "drain"
  /\ fds' = Closed(newfd)
  /\ UNCHANGED <<newfd, conn, clients, answers, others, history>>

\* Slip: the connection is closed as soon as the request is read.
ReadAndClose(c) ==
  /\ at = "reading" /\ conn = c /\ kind[c] # "silent"
  /\ conn' = None
  /\ fds' = Closed(newfd)
  /\ reader' = c
  /\ at' = IF kind[c] = "asks" THEN "send" ELSE "drain"
  /\ pending' = IF kind[c] = "asks" THEN pending \cup {c} ELSE pending
  /\ UNCHANGED <<newfd, clients, inbox, others, late>>

\* read blocks until the client has sent its message; only a request of the
\* menu goes to a sensor task, and the connection stays open for any.
Read(c) ==
  /\ at = "reading" /\ conn = c /\ kind[c] # "silent"
  /\ conn' = None
  /\ reader' = c
  /\ at' = IF kind[c] = "asks" THEN "send" ELSE "drain"
  /\ pending' = IF kind[c] = "asks" THEN pending \cup {c} ELSE pending
  /\ UNCHANGED <<newfd, fds, clients, inbox, others, late>>

\* The sends of the request, to the sensor task and to the logger, wait for
\* room (message.c:99).
Sent ==
  /\ at = "send" /\ at' = "drain"
  /\ UNCHANGED <<newfd, fds, conn, clients, answers, others, history>>

\* Slip: the end of a client goes unnoticed.
ReadFailsIfSent ==
  /\ at = "reading" /\ kind[conn] # "silent"
  /\ at' = "drain"
  /\ conn' = None
  /\ fds' = Closed(newfd)
  /\ UNCHANGED <<newfd, clients, answers, others, history>>

\* A short message, or the end of a client: the task closes the number,
\* whatever it is now.
ReadFails ==
  /\ at = "reading"
  /\ kind[conn] # "silent" \/ phase[conn] = "gone"
  /\ at' = "drain"
  /\ conn' = None
  /\ fds' = Closed(newfd)
  /\ UNCHANGED <<newfd, clients, answers, others, history>>

\* Slip: the connection stays open after an answer.
AnswerOpen ==
  /\ at = "drain" /\ inbox # <<>>
  /\ LET target == IF newfd \in Fds THEN fds[newfd] ELSE "free" IN
     got' = [c \in Client |-> IF c = target THEN Head(inbox) ELSE got[c]]
  /\ late' = (late \/ Head(inbox) # reader)
  /\ inbox' = Tail(inbox)
  /\ UNCHANGED <<at, newfd, fds, conn, backlog, kind, phase, pending, others, reader>>

\* send to newsocketfd, whatever it is now, and close it.
Answer ==
  /\ at = "drain" /\ inbox # <<>>
  /\ LET target == IF newfd \in Fds THEN fds[newfd] ELSE "free" IN
     got' = [c \in Client |-> IF c = target THEN Head(inbox) ELSE got[c]]
  /\ fds' = Closed(newfd)
  /\ late' = (late \/ Head(inbox) # reader)
  /\ inbox' = Tail(inbox)
  /\ UNCHANGED <<at, newfd, conn, backlog, kind, phase, pending, others, reader>>

EndDrain ==
  /\ at = "drain" /\ inbox = <<>>
  /\ at' = "accept"
  /\ UNCHANGED <<newfd, fds, conn, clients, answers, others, history>>

-----------------------------------------------------------------------------
\* socket_client.c: connect and write.  The second connect of a client fails
\* (its socket was used), so a run of the program asks once.
Connect(c) ==
  /\ phase[c] = "idle"
  /\ phase' = [phase EXCEPT ![c] = "waiting"]
  /\ backlog' = Append(backlog, c)
  /\ UNCHANGED <<process, kind, got, answers, others, history>>

\* read of the client returns with an answer, or the client is ended by its
\* user.
Quit(c) ==
  /\ phase[c] = "waiting"
  /\ phase' = [phase EXCEPT ![c] = "gone"]
  /\ UNCHANGED <<process, backlog, kind, got, answers, others, history>>

\* A sensor task takes the request from its queue and sends its answer to this
\* task's, in its own time and order (task_tmp.c:183-213, task_apds.c:171-192).
SensorAnswers(c) ==
  /\ c \in pending
  /\ pending' = pending \ {c}
  /\ inbox' = Append(inbox, c)
  /\ UNCHANGED <<process, clients, others, history>>

\* mq_open and mq_close of another thread, with the number it was given.
Borrow ==
  /\ borrowed = -1 /\ borrows < MaxBorrow
  /\ borrowed' \in Lowest
  /\ borrows' = borrows + 1
  /\ fds' = [fds EXCEPT ![borrowed'] = "other"]
  /\ UNCHANGED <<at, newfd, conn, clients, answers, history>>

GiveBack ==
  /\ borrowed # -1
  /\ fds' = Closed(borrowed)
  /\ borrowed' = -1
  /\ UNCHANGED <<at, newfd, conn, clients, answers, borrows, history>>

-----------------------------------------------------------------------------
TaskStep ==
  \/ TimeOut \/ Accept \/ AcceptFails
  \/ Wait \/ NoConnection \/ (\E c \in Client : Read(c)) \/ ReadFails
  \/ Answer \/ EndDrain

Next ==
  \/ TaskStep \/ Sent \/ Borrow \/ GiveBack
  \/ \E c \in Client : Connect(c) \/ Quit(c) \/ SensorAnswers(c)

Spec == Init /\ [][Next]_vars

\* The threads run, but a send need not end; clients come and go as they like.
Fairness ==
  /\ WF_vars(TaskStep) /\ WF_vars(GiveBack)
  /\ \A c \in Client : WF_vars(SensorAnswers(c))

FairSpec == Spec /\ Fairness

-----------------------------------------------------------------------------
\* Until an answer comes later than the pass that read its request, all is
\* well: a client gets its own answer, and the task closes no descriptor but
\* those of connections: stdin, its listening socket and the queue of another
\* thread stay open (task_socket.c:165-168).
SoundUntilLate ==
  ~late =>
    /\ \A c \in Client : got[c] \in {None, c}
    /\ fds[0] = "stdin" /\ fds[1] = "listen"
    /\ borrowed # -1 => fds[borrowed] = "other"

\* Late or not, no client is sent a second answer: the close after the send
\* (task_socket.c:168) lets nothing more through, although its number comes
\* into use again.
OneAnswerEach ==
  [][\A c \in Client : got[c] # None => got'[c] = got[c]]_vars

\* The connections the task leaves open between two passes, each of them a
\* descriptor that is not used again: those of requests it does not know
\* (task_socket.c:118) and those whose answer is not there yet.  With none left
\* every accept fails (task_socket.c:206).
LeftOpen ==
  at = "accept" /\ ~late =>
    \A n \in Fds : fds[n] \in Client =>
      kind[fds[n]] = "odd" \/ fds[n] \in pending \cup Range(inbox)

\* The read of the socket task has no time-out (task_socket.c:75): it stops
\* the task, its heartbeat responses included, but only while a client that
\* has sent nothing stays connected.  Else it is a send to a full queue that
\* stops it (message.c:99).
KeepsGoing ==
  \/ \E c \in Client :
       <>[](at = "reading" /\ conn = c /\ kind[c] = "silent" /\ phase[c] = "waiting")
  \/ <>[](at = "send")
  \/ []<>(at = "accept")

\* task_socket.c:169 "SOCKET task responded to client request": the client
\* that is sent an answer is the one who asked.
AnswerReachesAsker == \A c \in Client : got[c] \in {None, c}

=============================================================================
