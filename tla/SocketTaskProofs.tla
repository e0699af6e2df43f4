-------------------------- MODULE SocketTaskProofs --------------------------
(***************************************************************************)
(* The safety of the socket task for any clients, any descriptor table and *)
(* any number of queues opened meanwhile.  The argument: a client is in at *)
(* most one of the places its request passes through, so its connection is *)
(* read once and answered once; and as long as no answer came late, the    *)
(* one that comes finds newsocketfd where the pass has left it.            *)
(***************************************************************************)
EXTENDS SocketTask, SequenceTheorems, TLAPS

Waiting == Range(inbox) \cup pending

\* A client is in one place only, and its request is read once.
PlaceInv ==
  /\ IsInjective(backlog) /\ IsInjective(inbox)
  /\ \A c \in pending : c \notin Range(inbox)
  /\ \A c \in Client : phase[c] = "idle" =>
       /\ c \notin Range(backlog) /\ c \notin Waiting
       /\ got[c] = None /\ \A n \in Fds : fds[n] # c
  /\ \A c \in Range(backlog) :
       /\ c \notin Waiting
       /\ got[c] = None /\ \A n \in Fds : fds[n] # c
  /\ \A n, m \in Fds : fds[n] \in Client /\ fds[n] = fds[m] => n = m
  /\ at = "read" => /\ newfd \in Fds /\ reader = None
                    /\ fds[newfd] \notin Waiting
  /\ at = "reading" => /\ newfd \in Fds /\ reader = None
                       /\ conn \in Client /\ conn \notin Waiting
                       /\ conn \notin Range(backlog) /\ phase[conn] # "idle"
  /\ \A c \in Client : got[c] # None => \A n \in Fds : fds[n] # c

\* As long as no answer came late.
InTime ==
  /\ \A c \in Client : got[c] \in {None, c}
  /\ fds[0] = "stdin" /\ fds[1] = "listen"
  /\ borrowed # -1 => fds[borrowed] = "other"
  /\ at = "read" => fds[newfd] \in Client
  /\ at = "reading" => fds[newfd] = conn
  /\ at \in {"send", "drain"} /\ reader \in Waiting =>
       newfd \in Fds /\ fds[newfd] = reader
  /\ \A n \in Fds : fds[n] \in Client /\ ~(at \in {"read", "reading"} /\ n = newfd) =>
       kind[fds[n]] = "odd" \/ fds[n] \in Waiting

IInv == TypeOK /\ PlaceInv /\ (~late => InTime)

-----------------------------------------------------------------------------
\* Clients are not what else a descriptor may refer to.
LEMMA ClientsApart ==
  /\ None \notin Client
  /\ \A c \in Client : c # "free" /\ c # "stdin" /\ c # "listen" /\ c # "other"
BY SocketAssumption

LEMMA RangeIs ==
  ASSUME NEW s \in Seq(Client)
  PROVE  /\ Range(s) = {s[i] : i \in 1 .. Len(s)} /\ Range(s) \subseteq Client
         /\ IsInjective(s) <=> \A i, j \in 1 .. Len(s) : s[i] = s[j] => i = j
<1>1. DOMAIN s = 1 .. Len(s)
  OBVIOUS
<1> QED
  BY <1>1 DEF Range, IsInjective

\* The first element of a sequence without repetitions leaves it for good.
LEMMA TailRange ==
  ASSUME NEW s \in Seq(Client), s # <<>>, IsInjective(s)
  PROVE  /\ Head(s) \in Client /\ Tail(s) \in Seq(Client) /\ IsInjective(Tail(s))
         /\ Head(s) \notin Range(Tail(s))
         /\ Range(s) = {Head(s)} \cup Range(Tail(s))
<1>1. /\ Head(s) \in Client /\ Tail(s) \in Seq(Client) /\ Head(s) = s[1]
      /\ Len(s) \in Nat /\ Len(s) > 0 /\ Len(Tail(s)) = Len(s) - 1
      /\ \A i \in 1 .. Len(Tail(s)) : Tail(s)[i] = s[i + 1]
  BY HeadTailProperties
<1>2. \A i, j \in 1 .. Len(s) : s[i] = s[j] => i = j
  BY RangeIs
<1>3. IsInjective(Tail(s))
  <2>1. \A i, j \in 1 .. Len(Tail(s)) : Tail(s)[i] = Tail(s)[j] => i = j
    BY <1>1, <1>2
  <2> QED
    BY <1>1, <2>1, RangeIs
<1>4. Range(Tail(s)) = {Tail(s)[i] : i \in 1 .. Len(Tail(s))}
  BY <1>1, RangeIs
<1>5. Head(s) \notin Range(Tail(s))
  BY <1>1, <1>2, <1>4
<1>6. Range(s) = {Head(s)} \cup Range(Tail(s))
  <2>1. Range(s) = {s[i] : i \in 1 .. Len(s)}
    BY RangeIs
  <2>2. ASSUME NEW i \in 1 .. Len(s) PROVE s[i] \in {Head(s)} \cup Range(Tail(s))
    <3>1. CASE i = 1
      BY <1>1, <3>1
    <3>2. CASE i # 1
      <4>1. i - 1 \in 1 .. Len(Tail(s))
        BY <1>1, <3>2
      <4>2. Tail(s)[i - 1] = s[i]
        BY <1>1, <4>1
      <4> QED
        BY <1>4, <4>1, <4>2
    <3> QED
      BY <3>1, <3>2
  <2>3. ASSUME NEW i \in 1 .. Len(Tail(s)) PROVE Tail(s)[i] \in Range(s)
    BY <1>1, <2>1
  <2>4. Head(s) \in Range(s)
    BY <1>1, <2>1
  <2> QED
    BY <1>4, <2>1, <2>2, <2>3, <2>4
<1> QED
  BY <1>1, <1>3, <1>5, <1>6

\* What is appended is added.
LEMMA AppendRange ==
  ASSUME NEW s \in Seq(Client), NEW c \in Client
  PROVE  /\ Append(s, c) \in Seq(Client)
         /\ Range(Append(s, c)) = Range(s) \cup {c}
         /\ IsInjective(s) /\ c \notin Range(s) => IsInjective(Append(s, c))
<1> DEFINE t == Append(s, c)
<1>1. /\ t \in Seq(Client) /\ Len(s) \in Nat /\ Len(t) = Len(s) + 1
      /\ \A i \in 1 .. Len(s) : t[i] = s[i]
      /\ t[Len(s) + 1] = c
  BY AppendProperties
<1> HIDE DEF t
<1>2. Range(t) = {t[i] : i \in 1 .. Len(t)} /\ Range(s) = {s[i] : i \in 1 .. Len(s)}
  BY <1>1, RangeIs
<1>3. Range(t) = Range(s) \cup {c}
  <2>1. \A i \in 1 .. Len(t) : i \in 1 .. Len(s) \/ i = Len(s) + 1
    BY <1>1
  <2>2. \A i \in 1 .. Len(s) : i \in 1 .. Len(t)
    BY <1>1
  <2>3. Len(s) + 1 \in 1 .. Len(t)
    BY <1>1
  <2> QED
    BY <1>1, <1>2, <2>1, <2>2, <2>3
<1>4. ASSUME IsInjective(s), c \notin Range(s) PROVE IsInjective(t)
  <2>1. \A i, j \in 1 .. Len(s) : s[i] = s[j] => i = j
    BY <1>4, RangeIs
  <2>2. \A i \in 1 .. Len(s) : s[i] # c
    BY <1>2, <1>4
  <2>3. \A i, j \in 1 .. Len(t) : t[i] = t[j] => i = j
    BY <1>1, <2>1, <2>2
  <2> QED
    BY <1>1, <2>3, RangeIs
<1> QED
  BY <1>1, <1>3, <1>4 DEF t

LEMMA InitInv == Init => IInv
<1> SUFFICES ASSUME Init PROVE IInv
  OBVIOUS
<1> USE DEF Init
<1>1. \A n \in Fds : fds[n] \in {"stdin", "listen", "free"}
  OBVIOUS
<1>2. fds[0] = "stdin" /\ fds[1] = "listen"
  BY SocketAssumption
<1>3. Range(<<>>) = {} /\ IsInjective(<<>>)
  BY DEF Range, IsInjective
<1>4. TypeOK
  <2>1. borrows \in 0 .. MaxBorrow
    BY SocketAssumption
  <2>2. fds \in [Fds -> Use]
    BY <1>1 DEF Use
  <2>3. newfd \in Number
    BY SocketAssumption DEF Number
  <2>4. backlog \in Seq(Client) /\ inbox \in Seq(Client)
    OBVIOUS
  <2> QED
    BY <2>1, <2>2, <2>3, <2>4 DEF TypeOK, Number
<1>5. PlaceInv
  BY <1>1, <1>3, ClientsApart DEF PlaceInv, Waiting
<1>6. InTime
  BY <1>1, <1>2, <1>3, ClientsApart DEF InTime, Waiting
<1> QED
  BY <1>4, <1>5, <1>6 DEF IInv

-----------------------------------------------------------------------------
\* The passes of the task.
LEMMA NobodyInv ==
  ASSUME IInv, TimeOut \/ AcceptFails \/ Sent \/ EndDrain
  PROVE  IInv'
<1> USE DEF clients, answers, others, history
<1>1. /\ newfd' \in {0, -1, newfd} /\ at' \in {"accept", "drain"}
      /\ at \notin {"read", "reading"}
      /\ at' = "drain" =>
           reader' = None \/ (at = "send" /\ UNCHANGED <<newfd, reader>>)
      /\ reader' \in {None, reader}
      /\ UNCHANGED <<fds, conn, backlog, kind, phase, got, pending, inbox, borrowed,
                     borrows, late>>
  BY DEF TimeOut, AcceptFails, Sent, EndDrain
<1>2. Waiting \subseteq Client
  BY RangeIs DEF IInv, TypeOK, Waiting
<1>3. TypeOK'
  BY <1>1, SocketAssumption DEF IInv, TypeOK, Number
<1>4. PlaceInv'
  BY <1>1 DEF IInv, PlaceInv, Waiting
<1>5. ~late' => InTime'
  BY <1>1, <1>2, ClientsApart DEF IInv, InTime, Waiting
<1> QED
  BY <1>3, <1>4, <1>5 DEF IInv

LEMMA AcceptInv == ASSUME IInv, Accept PROVE IInv'
<1> USE DEF answers, others
<1> DEFINE c == Head(backlog)
<1>1. PICK n \in Fds : newfd' = n /\ fds[n] = "free"
  BY DEF Accept, Lowest, Free
<1>2. /\ at = "accept" /\ at' \in {"drain", "read"} /\ (at' = "drain" => n = 0)
      /\ fds' = [fds EXCEPT ![n] = c]
      /\ backlog # <<>> /\ backlog' = Tail(backlog) /\ reader' = None
      /\ UNCHANGED <<conn, kind, phase, got, pending, inbox, borrowed, borrows, late>>
  BY <1>1 DEF Accept
<1>3. /\ c \in Client /\ backlog' \in Seq(Client) /\ IsInjective(backlog')
      /\ Range(backlog) = {c} \cup Range(backlog') /\ c \notin Range(backlog')
  BY <1>2, TailRange DEF IInv, TypeOK, PlaceInv
<1> HIDE DEF c
<1>4. fds' \in [Fds -> Use] /\ fds'[n] = c
      /\ \A m \in Fds : m # n => fds'[m] = fds[m]
  BY <1>2, <1>3 DEF IInv, TypeOK, Use
<1>5. TypeOK'
  BY <1>1, <1>2, <1>3, <1>4 DEF IInv, TypeOK, Number
<1>6. Waiting \subseteq Client /\ Waiting' = Waiting
  BY <1>2, RangeIs DEF IInv, TypeOK, Waiting
<1>7. c \notin Waiting /\ got[c] = None /\ phase[c] # "idle"
      /\ \A m \in Fds : fds[m] # c
  BY <1>3 DEF IInv, PlaceInv
<1>8. PlaceInv'
  <2>1. \A b \in Range(backlog') : \A m \in Fds : fds'[m] # b
    BY <1>3, <1>4 DEF IInv, PlaceInv
  <2>2. \A m, k \in Fds : fds'[m] \in Client /\ fds'[m] = fds'[k] => m = k
    BY <1>4, <1>7 DEF IInv, PlaceInv
  <2>3. \A b \in Client : phase[b] = "idle" =>
          b \notin Range(backlog') /\ \A m \in Fds : fds'[m] # b
    BY <1>3, <1>4, <1>7 DEF IInv, PlaceInv
  <2>4. \A b \in Client : got[b] # None => \A m \in Fds : fds'[m] # b
    BY <1>4, <1>7 DEF IInv, PlaceInv
  <2> QED
    BY <1>1, <1>2, <1>3, <1>4, <1>6, <1>7, <2>1, <2>2, <2>3, <2>4
    DEF IInv, PlaceInv
<1>9. ASSUME ~late' PROVE InTime'
  <2>1. InTime
    BY <1>2, <1>9 DEF IInv
  <2>2. n # 0 /\ n # 1 /\ (borrowed # -1 => n # borrowed)
    BY <1>1, <2>1 DEF InTime
  <2>3. fds'[0] = "stdin" /\ fds'[1] = "listen"
        /\ (borrowed # -1 => fds'[borrowed] = "other")
    BY <1>4, <2>1, <2>2, SocketAssumption DEF IInv, TypeOK, InTime, Number
  <2>4. \A m \in Fds : fds'[m] \in Client /\ m # n =>
          kind[fds'[m]] = "odd" \/ fds'[m] \in Waiting
    BY <1>2, <1>4, <2>1 DEF InTime
  <2> QED
    BY <1>1, <1>2, <1>3, <1>4, <1>6, <2>1, <2>2, <2>3, <2>4 DEF InTime
<1> QED
  BY <1>5, <1>8, <1>9 DEF IInv

LEMMA WaitInv == ASSUME IInv, Wait PROVE IInv'
<1> USE DEF clients, answers, others, history
<1>1. /\ at = "read" /\ at' = "reading" /\ fds[newfd] \in Client
      /\ conn' = fds[newfd]
      /\ UNCHANGED <<newfd, fds, backlog, kind, phase, got, pending, inbox,
                     borrowed, borrows, reader, late>>
  BY DEF Wait
<1>2. TypeOK'
  BY <1>1 DEF IInv, TypeOK
<1>3. /\ newfd \in Fds /\ reader = None /\ conn' \notin Waiting
      /\ conn' \notin Range(backlog) /\ phase[conn'] # "idle"
  BY <1>1 DEF IInv, PlaceInv
<1>4. PlaceInv'
  BY <1>1, <1>3 DEF IInv, PlaceInv, Waiting
<1>5. ~late' => InTime'
  BY <1>1 DEF IInv, InTime, Waiting
<1> QED
  BY <1>2, <1>4, <1>5 DEF IInv

LEMMA ReadInv == ASSUME IInv, NEW c \in Client, Read(c) PROVE IInv'
<1> USE DEF clients, others
<1>1. /\ at = "reading" /\ at' \in {"send", "drain"} /\ conn = c
      /\ kind[c] # "silent" /\ conn' = None
      /\ reader' = c /\ Waiting \subseteq Waiting' /\ Waiting' \subseteq Waiting \cup {c}
      /\ (kind[c] # "asks" => pending' = pending)
      /\ (kind[c] = "asks" => pending' = pending \cup {c})
      /\ UNCHANGED <<newfd, fds, backlog, kind, phase, got, inbox, borrowed,
                     borrows, late>>
  BY DEF Read, Waiting
<1>2. TypeOK'
  BY <1>1 DEF IInv, TypeOK
<1>3. newfd \in Fds /\ c \notin Waiting
  BY <1>1 DEF IInv, PlaceInv
<1>4. c \notin Range(backlog) /\ phase[c] # "idle"
  BY <1>1 DEF IInv, PlaceInv
<1>5. PlaceInv'
  <2>1. \A b \in pending' : b \notin Range(inbox)
    BY <1>1, <1>3 DEF IInv, PlaceInv, Waiting
  <2>2. \A b \in Client : phase[b] = "idle" => b \notin Waiting'
    BY <1>1, <1>4 DEF IInv, PlaceInv
  <2>3. \A b \in Range(backlog) : b \notin Waiting'
    BY <1>1, <1>4 DEF IInv, PlaceInv
  <2> QED
    BY <1>1, <2>1, <2>2, <2>3 DEF IInv, PlaceInv
<1>6. ASSUME ~late' PROVE InTime'
  <2>1. InTime /\ fds[newfd] = c
    BY <1>1, <1>6 DEF IInv, InTime
  <2>2. kind[c] = "odd" \/ c \in Waiting'
    BY <1>1 DEF IInv, TypeOK, Waiting
  <2>3. \A n \in Fds : fds[n] \in Client =>
          kind[fds[n]] = "odd" \/ fds[n] \in Waiting'
    BY <1>1, <2>1, <2>2 DEF InTime
  <2> QED
    BY <1>1, <1>3, <2>1, <2>3 DEF InTime
<1> QED
  BY <1>2, <1>5, <1>6 DEF IInv

LEMMA ReadFailsInv == ASSUME IInv, ReadFails \/ NoConnection PROVE IInv'
<1> USE DEF clients, answers, others, history
<1>1. /\ at \in {"read", "reading"} /\ at' = "drain" /\ newfd \in Fds
      /\ reader = None /\ fds' = Closed(newfd) /\ conn' \in {None, conn}
      /\ UNCHANGED <<newfd, backlog, kind, phase, got, pending, inbox, borrowed,
                     borrows, reader, late>>
  BY DEF IInv, PlaceInv, ReadFails, NoConnection
<1>2. \A n \in Fds : fds'[n] = IF n = newfd THEN "free" ELSE fds[n]
  BY <1>1 DEF Closed
<1>3. TypeOK'
  BY <1>1 DEF IInv, TypeOK, Closed, Use
<1>4. PlaceInv'
  BY <1>1, <1>2, ClientsApart, RangeIs DEF IInv, TypeOK, PlaceInv, Waiting
<1>5. ASSUME ~late' PROVE InTime'
  <2>1. InTime /\ fds[newfd] \in Client
    BY <1>1, <1>5 DEF IInv, PlaceInv, InTime
  <2>2. newfd # 0 /\ newfd # 1 /\ (borrowed # -1 => newfd # borrowed)
    BY <2>1, ClientsApart DEF InTime
  <2>3. fds'[0] = "stdin" /\ fds'[1] = "listen"
        /\ (borrowed # -1 => fds'[borrowed] = "other")
    BY <1>2, <2>1, <2>2, SocketAssumption, <1>1 DEF IInv, TypeOK, InTime, Number
  <2>4. None \notin Waiting
    BY ClientsApart, RangeIs DEF IInv, TypeOK, Waiting
  <2> QED
    BY <1>1, <1>2, <2>1, <2>3, <2>4, ClientsApart DEF InTime, Waiting
<1> QED
  BY <1>3, <1>4, <1>5 DEF IInv

\* An answer: it goes to whom the descriptor refers to, and the descriptor to
\* nobody.
LEMMA AnswerInv == ASSUME IInv, Answer PROVE IInv'
<1> USE DEF others
<1> DEFINE a == Head(inbox)
           target == IF newfd \in Fds THEN fds[newfd] ELSE "free"
<1>1. /\ at = "drain" /\ inbox # <<>> /\ inbox' = Tail(inbox)
      /\ got' = [c \in Client |-> IF c = target THEN a ELSE got[c]]
      /\ fds' = Closed(newfd)
      /\ UNCHANGED <<at, newfd, conn, backlog, kind, phase, pending, borrowed,
                     borrows, reader>>
  BY DEF Answer
<1>2. late' = (late \/ a # reader)
  BY DEF Answer
<1>3. /\ a \in Client /\ inbox' \in Seq(Client) /\ IsInjective(inbox')
      /\ Range(inbox) = {a} \cup Range(inbox') /\ a \notin Range(inbox')
  BY <1>1, TailRange DEF IInv, TypeOK, PlaceInv
<1>4. \A n \in Fds : fds'[n] = IF n = newfd THEN "free" ELSE fds[n]
  BY <1>1 DEF Closed
<1>5. target \in Client => newfd \in Fds /\ fds[newfd] = target
  BY ClientsApart
<1> HIDE DEF a, target
<1>6. /\ \A c \in Client : c # target => got'[c] = got[c]
      /\ \A c \in Client : c = target => got'[c] = a
  BY <1>1
<1>7. TypeOK'
  <2>1. late' \in BOOLEAN
    BY <1>2, Zenon DEF IInv, TypeOK
  <2>2. fds' \in [Fds -> Use]
    BY <1>1 DEF IInv, TypeOK, Closed, Use
  <2>3. got' \in [Client -> Client \cup {None}]
    BY <1>1, <1>3 DEF IInv, TypeOK
  <2> QED
    BY <1>1, <1>3, <2>1, <2>2, <2>3 DEF IInv, TypeOK
<1>8. a \notin pending /\ Waiting = Waiting' \cup {a} /\ a \notin Waiting'
  BY <1>1, <1>3 DEF IInv, PlaceInv, Waiting
<1>9. PlaceInv'
  <2>1. \A c \in Client : phase[c] = "idle" \/ c \in Range(backlog) => got'[c] = None
    BY <1>5, <1>6 DEF IInv, PlaceInv
  <2>2. \A c \in Client : got'[c] # None => \A n \in Fds : fds'[n] # c
    <3>1. ASSUME NEW c \in Client, c = target, NEW n \in Fds PROVE fds'[n] # c
      BY <1>4, <1>5, <3>1, ClientsApart DEF IInv, PlaceInv
    <3>2. ASSUME NEW c \in Client, c # target, got'[c] # None, NEW n \in Fds
          PROVE  fds'[n] # c
      BY <1>4, <1>6, <3>2, ClientsApart DEF IInv, PlaceInv
    <3> QED
      BY <3>1, <3>2
  <2>3. \A n, m \in Fds : fds'[n] \in Client /\ fds'[n] = fds'[m] => n = m
    BY <1>4, ClientsApart DEF IInv, PlaceInv
  <2>4. \A c \in Client : (\A n \in Fds : fds[n] # c) => \A n \in Fds : fds'[n] # c
    BY <1>4, ClientsApart
  <2>5. Range(backlog) \subseteq Client
    BY RangeIs DEF IInv, TypeOK
  <2> QED
    BY <1>1, <1>3, <1>8, <2>1, <2>2, <2>3, <2>4, <2>5 DEF IInv, PlaceInv
<1>10. ASSUME ~late' PROVE InTime'
  <2>1. InTime /\ reader = a
    BY <1>2, <1>10, Zenon DEF IInv
  <2>2. newfd \in Fds /\ fds[newfd] = a
    BY <1>1, <1>8, <2>1 DEF InTime
  <2>3. \A c \in Client : got'[c] \in {None, c}
    BY <1>6, <2>1, <2>2 DEF InTime, target
  <2>4. newfd # 0 /\ newfd # 1 /\ (borrowed # -1 => newfd # borrowed)
    BY <1>3, <2>1, <2>2, ClientsApart DEF InTime
  <2>5. fds'[0] = "stdin" /\ fds'[1] = "listen"
        /\ (borrowed # -1 => fds'[borrowed] = "other")
    BY <1>1, <1>4, <2>1, <2>4, SocketAssumption DEF IInv, TypeOK, InTime, Number
  <2>6. ASSUME NEW n \in Fds, fds'[n] \in Client
        PROVE  kind[fds'[n]] = "odd" \/ fds'[n] \in Waiting'
    <3>1. n # newfd /\ fds'[n] = fds[n]
      BY <1>4, <2>6, ClientsApart
    <3>2. fds[n] # a
      BY <2>2, <2>6, <3>1 DEF IInv, PlaceInv
    <3> QED
      BY <1>1, <1>8, <2>1, <2>6, <3>1, <3>2 DEF InTime
  <2> QED
    BY <1>1, <1>8, <2>1, <2>3, <2>5, <2>6 DEF InTime
<1> QED
  BY <1>7, <1>9, <1>10 DEF IInv

-----------------------------------------------------------------------------
\* The clients, the sensor tasks and the other threads.
LEMMA ClientInv == ASSUME IInv, NEW c \in Client, Connect(c) \/ Quit(c) PROVE IInv'
<1> USE DEF process, answers, others, history
<1>1. CASE Connect(c)
  <2>1. /\ phase[c] = "idle" /\ phase' = [phase EXCEPT ![c] = "waiting"]
        /\ backlog' = Append(backlog, c)
        /\ UNCHANGED <<at, newfd, fds, conn, kind, got, pending, inbox, borrowed,
                       borrows, reader, late>>
    BY <1>1 DEF Connect
  <2>2. c \notin Range(backlog) /\ c \notin Waiting /\ got[c] = None
        /\ \A n \in Fds : fds[n] # c
    BY <2>1 DEF IInv, PlaceInv
  <2>3. /\ backlog' \in Seq(Client) /\ IsInjective(backlog')
        /\ Range(backlog') = Range(backlog) \cup {c}
    BY <2>1, <2>2, AppendRange DEF IInv, TypeOK, PlaceInv
  <2>4. TypeOK'
    BY <2>1, <2>3 DEF IInv, TypeOK
  <2>5. PlaceInv'
    <3>1. \A b \in Client : phase'[b] = "idle" => phase[b] = "idle" /\ b # c
      BY <2>1 DEF IInv, TypeOK
    <3> QED
      BY <2>1, <2>2, <2>3, <3>1 DEF IInv, PlaceInv, Waiting
  <2>6. ~late' => InTime'
    BY <2>1 DEF IInv, InTime, Waiting
  <2> QED
    BY <2>4, <2>5, <2>6 DEF IInv
<1>2. CASE Quit(c)
  <2>1. TypeOK'
    BY <1>2 DEF IInv, TypeOK, Quit
  <2>2. PlaceInv'
    BY <1>2 DEF IInv, TypeOK, PlaceInv, Waiting, Quit
  <2>3. ~late' => InTime'
    BY <1>2 DEF IInv, InTime, Waiting, Quit
  <2> QED
    BY <2>1, <2>2, <2>3 DEF IInv
<1> QED
  BY <1>1, <1>2

LEMMA SensorInv == ASSUME IInv, NEW c \in Client, SensorAnswers(c) PROVE IInv'
<1> USE DEF process, clients, others, history
<1>1. /\ c \in pending /\ pending' = pending \ {c} /\ inbox' = Append(inbox, c)
      /\ UNCHANGED <<at, newfd, fds, conn, backlog, kind, phase, got, borrowed,
                     borrows, reader, late>>
  BY DEF SensorAnswers
<1>2. c \notin Range(inbox)
  BY <1>1 DEF IInv, PlaceInv
<1>3. /\ inbox' \in Seq(Client) /\ IsInjective(inbox')
      /\ Range(inbox') = Range(inbox) \cup {c}
  BY <1>1, <1>2, AppendRange DEF IInv, TypeOK, PlaceInv
<1>4. Waiting' = Waiting
  BY <1>1, <1>3 DEF Waiting
<1>5. TypeOK'
  BY <1>1, <1>3 DEF IInv, TypeOK
<1>6. PlaceInv'
  BY <1>1, <1>3, <1>4 DEF IInv, PlaceInv
<1>7. ~late' => InTime'
  BY <1>1, <1>4 DEF IInv, InTime
<1> QED
  BY <1>5, <1>6, <1>7 DEF IInv

LEMMA OthersInv == ASSUME IInv, Borrow \/ GiveBack PROVE IInv'
<1> USE DEF clients, answers, history
<1>1. PICK n \in Number, u \in {"free", "other"} :
        /\ \A m \in Fds : fds'[m] = IF m = n THEN u ELSE fds[m]
        /\ fds' \in [Fds -> Use]
        /\ borrowed' \in Number /\ borrows' \in 0 .. MaxBorrow
        /\ borrowed' # -1 => borrowed' = n /\ u = "other" /\ n \in Fds
        /\ n \in Fds => fds[n] = "free" \/ n = borrowed
        /\ UNCHANGED <<at, newfd, conn, backlog, kind, phase, got, pending, inbox,
                       reader, late>>
  <2>1. CASE Borrow
    <3>1. PICK n \in Fds : borrowed' = n /\ fds[n] = "free"
      BY <2>1 DEF Borrow, Lowest, Free
    <3>2. borrows' \in 0 .. MaxBorrow
      BY <2>1, SocketAssumption DEF IInv, TypeOK, Borrow
    <3>3. fds' = [fds EXCEPT ![n] = "other"]
      BY <2>1, <3>1 DEF Borrow
    <3>4. /\ fds' \in [Fds -> Use]
          /\ \A m \in Fds : fds'[m] = IF m = n THEN "other" ELSE fds[m]
      BY <3>3 DEF IInv, TypeOK, Use
    <3>5. n \in Number /\ borrowed' \in Number
      BY <3>1 DEF Number
    <3>6. UNCHANGED <<at, newfd, conn, backlog, kind, phase, got, pending, inbox,
                      reader, late>>
      BY <2>1 DEF Borrow
    <3> QED
      BY <3>1, <3>2, <3>4, <3>5, <3>6
  <2>2. CASE GiveBack
    <3>1. fds' = Closed(borrowed) /\ borrowed' = -1 /\ borrowed \in Number
      BY <2>2 DEF IInv, TypeOK, GiveBack
    <3>2. /\ fds' \in [Fds -> Use]
          /\ \A m \in Fds : fds'[m] = IF m = borrowed THEN "free" ELSE fds[m]
      BY <3>1 DEF IInv, TypeOK, Use, Closed
    <3> QED
      BY <2>2, <3>1, <3>2 DEF IInv, TypeOK, Number, GiveBack
  <2> QED
    BY <2>1, <2>2
<1>2. TypeOK'
  BY <1>1 DEF IInv, TypeOK
<1>3. \A m \in Fds : fds'[m] \in Client => fds'[m] = fds[m]
  BY <1>1, ClientsApart
<1>4. PlaceInv'
  <2>1. \A c \in Client : (\A m \in Fds : fds[m] # c) => \A m \in Fds : fds'[m] # c
    BY <1>3
  <2>2. \A m, k \in Fds : fds'[m] \in Client /\ fds'[m] = fds'[k] => m = k
    BY <1>3 DEF IInv, PlaceInv
  <2>3. Range(backlog) \subseteq Client /\ Waiting \subseteq Client /\ Waiting' = Waiting
    BY <1>1, RangeIs DEF IInv, TypeOK, Waiting
  <2>4. at = "read" => fds'[newfd] \notin Waiting
    BY <1>3, <2>3 DEF IInv, PlaceInv
  <2> QED
    BY <1>1, <2>1, <2>2, <2>3, <2>4 DEF IInv, PlaceInv
<1>5. ASSUME ~late' PROVE InTime'
  <2>1. InTime
    BY <1>1, <1>5 DEF IInv
  <2>2. \A m \in Fds : m = n => fds[m] \in {"free", "other"}
    <3>1. -1 \notin Fds
      BY SocketAssumption
    <3> QED
      BY <1>1, <2>1, <3>1 DEF InTime
  <2>3. \A m \in Fds : fds[m] \in Client \cup {"stdin", "listen"} => fds'[m] = fds[m]
    BY <1>1, <2>2, ClientsApart
  <2>4. Waiting' = Waiting /\ Waiting \subseteq Client
    BY <1>1, RangeIs DEF IInv, TypeOK, Waiting
  <2>5. fds'[0] = "stdin" /\ fds'[1] = "listen"
    BY <2>1, <2>3, SocketAssumption DEF InTime
  <2>6. borrowed' # -1 => fds'[borrowed'] = "other"
    BY <1>1
  <2>7. /\ at = "read" => fds'[newfd] \in Client
        /\ at = "reading" => fds'[newfd] = conn
    BY <2>1, <2>3 DEF IInv, PlaceInv, InTime
  <2>8. at \in {"send", "drain"} /\ reader \in Waiting => newfd \in Fds /\ fds'[newfd] = reader
    BY <2>1, <2>3, <2>4 DEF InTime
  <2> QED
    BY <1>1, <1>3, <2>1, <2>4, <2>5, <2>6, <2>7, <2>8 DEF InTime
<1> QED
  BY <1>2, <1>4, <1>5 DEF IInv

LEMMA NextInv == IInv /\ [Next]_vars => IInv'
<1> SUFFICES ASSUME IInv, [Next]_vars PROVE IInv'
  OBVIOUS
<1>1. CASE UNCHANGED vars
  BY <1>1 DEF IInv, TypeOK, PlaceInv, InTime, Waiting, vars, process, clients,
              answers, others, history
<1>2. CASE Next
  BY <1>2, NobodyInv, AcceptInv, WaitInv, ReadInv, ReadFailsInv, AnswerInv,
     ClientInv, SensorInv, OthersInv
  DEF Next, TaskStep
<1> QED
  BY <1>1, <1>2

LEMMA Invariance == Spec => []IInv
BY InitInv, NextInv, PTL DEF Spec

-----------------------------------------------------------------------------
\* The types of the variables of task_socket.c and of the descriptor table.
THEOREM TypeCorrect == Spec => []TypeOK
<1>1. IInv => TypeOK
  BY DEF IInv
<1> QED
  BY <1>1, Invariance, PTL

\* However many clients and descriptors there are, newsocketfd
\* (task_socket.c:165-168) does no harm before the first late answer.
THEOREM HarmlessUntilLate == Spec => []SoundUntilLate
<1>1. IInv => SoundUntilLate
  BY DEF IInv, InTime, SoundUntilLate
<1> QED
  BY <1>1, Invariance, PTL

\* Which connections are left open (task_socket.c:118, 206).
THEOREM OpenConnections == Spec => []LeftOpen
<1>1. IInv => LeftOpen
  BY DEF IInv, InTime, Waiting, LeftOpen
<1> QED
  BY <1>1, Invariance, PTL

\* The close that follows every send (task_socket.c:168) makes an answer the
\* last thing a client is sent.
THEOREM AnsweredOnce == Spec => OneAnswerEach
<1> DEFINE Kept == \A c \in Client : got[c] # None => got'[c] = got[c]
<1>1. IInv /\ [Next]_vars => Kept
  <2> SUFFICES ASSUME IInv, [Next]_vars, NEW c \in Client, got[c] # None
               PROVE  got'[c] = got[c]
    OBVIOUS
  <2>1. CASE Answer
    <3>1. \A n \in Fds : fds[n] # c
      BY DEF IInv, PlaceInv
    <3> QED
      BY <2>1, <3>1, ClientsApart DEF Answer
  <2>2. CASE UNCHANGED got
    BY <2>2
  <2> QED
    BY <2>1, <2>2
    DEF Next, TaskStep, vars, clients, TimeOut, Accept, AcceptFails, Wait,
        NoConnection, Read, Sent, ReadFails, EndDrain, Borrow, GiveBack, Connect, Quit, SensorAnswers
<1> QED
  BY <1>1, Invariance, PTL DEF Spec, OneAnswerEach

=============================================================================
