---------------------------- MODULE I2cBusProofs ----------------------------
(***************************************************************************)
(* The lock and the count of the I2C interface are right for any number of *)
(* devices, provided pthread_mutex_init succeeds.  The argument: refcnt is *)
(* exact, so the user that counts it down to zero is the last connected    *)
(* one, so nobody is left to find the mutex destroyed, so whoever is past  *)
(* the lock owns it.                                                       *)
(***************************************************************************)
EXTENDS I2cBus, FiniteSetTheorems, TLAPS

\* Before the tasks exist the main thread only connects and sets up.
SetUp ==
  /\ ~started => \A u \in User : pc[u] \in {"unconnected", "idle", "locking",
                                            "inside", "transferred"}
  /\ started => \A u \in User : pc[u] # "unconnected"

\* The life of the mutex, and who is still to destroy it.
MutexLife ==
  /\ mutex = "raw" => \A u \in User : pc[u] = "unconnected"
  /\ mutex = "destroyed" \/ (\E u \in User : pc[u] = "destroying")
       => started /\ Connected = {}
  /\ started /\ Connected = {}
       => mutex = "destroyed" \/ \E u \in User : pc[u] = "destroying"

SectionOwned == \A u \in User : pc[u] \in Section => owner = u

IInv == TypeOK /\ RefcntExact /\ SetUp /\ MutexLife /\ SectionOwned

LEMMA ConnectedFinite ==
  IsFiniteSet(Connected) /\ Cardinality(Connected) \in Nat
<1>1. Connected \in SUBSET User
  BY DEF Connected
<1> QED  BY <1>1, BusAssumption, FS_Subset, FS_CardinalityType

LEMMA InitInv == Init => IInv
<1> SUFFICES ASSUME Init PROVE IInv
  OBVIOUS
<1>1. Connected = {}
  BY DEF Init, Connected
<1>2. RefcntExact
  BY <1>1, FS_EmptySet DEF Init, RefcntExact
<1>3. TypeOK
  <2>1. refcnt \in Nat /\ owner \in User \cup {NoUser}
    BY DEF Init
  <2>2. mutex \in {"raw", "ready", "destroyed"} /\ pc \in [User -> Phase]
    BY DEF Init, Phase
  <2>3. /\ started \in BOOLEAN
        /\ open \in [User -> BOOLEAN] /\ failed \in [User -> BOOLEAN]
    BY Zenon DEF Init
  <2>4. ret \in [User -> {0, -1}]
    BY DEF Init
  <2> QED  BY <2>1, <2>2, <2>3, <2>4 DEF TypeOK
<1>4. SetUp /\ MutexLife /\ SectionOwned
  BY DEF Init, SetUp, MutexLife, SectionOwned, Section
<1> QED  BY <1>2, <1>3, <1>4 DEF IInv

LEMMA ConnectInv ==
  ASSUME IInv, ~InitMayFail, NEW u \in User, Connect(u)
  PROVE  IInv'
<1> USE DEF Goto
<1>1. /\ ~started /\ ~started' /\ pc[u] = "unconnected"
      /\ pc' = [pc EXCEPT ![u] = "idle"]
      /\ refcnt' = refcnt + 1
      /\ mutex' = IF refcnt = 0 THEN "ready" ELSE mutex
      /\ owner' = owner
  BY BusAssumption DEF Connect
<1>2. TypeOK'
  BY <1>1 DEF IInv, TypeOK, Connect, Phase
<1>3. Connected' = Connected \cup {u} /\ u \notin Connected
  BY <1>1 DEF IInv, TypeOK, Connected
<1>4. RefcntExact'
  BY <1>1, <1>3, ConnectedFinite, FS_AddElement DEF IInv, RefcntExact
<1>5. SetUp' /\ SectionOwned'
  BY <1>1 DEF IInv, TypeOK, SetUp, SectionOwned, Section
<1>6. MutexLife'
  <2>1. mutex # "destroyed" /\ \A v \in User : pc[v] # "destroying"
    BY <1>1 DEF IInv, MutexLife
  <2>2. mutex' # "raw"
    <3>1. CASE refcnt = 0
      BY <1>1, <3>1
    <3>2. CASE refcnt # 0
      <4>1. Connected # {}
        BY <3>2, FS_EmptySet DEF IInv, RefcntExact
      <4>2. mutex # "raw"
        BY <4>1 DEF IInv, MutexLife, Connected
      <4> QED  BY <1>1, <4>2
    <3> QED  BY <3>1, <3>2
  <2> QED
    BY <1>1, <2>1, <2>2 DEF IInv, TypeOK, MutexLife
<1> QED  BY <1>2, <1>4, <1>5, <1>6 DEF IInv

LEMMA StartInv == ASSUME IInv, Start PROVE IInv'
<1>1. TypeOK'
  BY DEF IInv, TypeOK, Start
<1>2. Connected' = Connected /\ Connected # {}
  BY BusAssumption DEF Start, Connected
<1> QED
  BY <1>1, <1>2
  DEF IInv, Start, RefcntExact, SetUp, MutexLife, SectionOwned

\* Only a connected user takes the lock, and the mutex it takes is valid.
LEMMA ConnectedReady ==
  ASSUME IInv, NEW u \in User, u \in Connected
  PROVE  /\ mutex = "ready"
         /\ \A v \in User : pc[v] # "destroying"
BY DEF IInv, TypeOK, MutexLife, Connected

\* The steps of a connected user that stays connected.
LEMMA UseInv ==
  ASSUME IInv, NEW u \in User,
         \/ Call(u) \/ Lock(u) \/ Transfer(u) \/ Unlock(u) \/ LockToRelease(u)
  PROVE  IInv'
<1> USE DEF Goto
<1> DEFINE Busy == {"idle", "locking", "inside", "transferred",
                    "closing", "releasing"}
<1>1. /\ pc[u] \in Busy /\ UNCHANGED <<refcnt, mutex, started, open>>
      /\ \E p \in Busy : /\ pc' = [pc EXCEPT ![u] = p]
                         /\ p = "releasing" => pc[u] = "closing"
  BY DEF Call, Lock, Transfer, Unlock, LockToRelease
<1>2. u \in Connected /\ Connected' = Connected
  BY <1>1 DEF IInv, TypeOK, Connected
<1>3. mutex = "ready" /\ \A v \in User : pc[v] # "destroying"
  BY <1>2, ConnectedReady
<1>4. TypeOK'
  <2>1. owner' \in User \cup {NoUser}
    BY DEF IInv, TypeOK, Call, Lock, Transfer, Unlock, LockToRelease, Acquire,
           Release
  <2>2. failed' \in [User -> BOOLEAN] /\ ret' \in [User -> {0, -1}]
    BY DEF IInv, TypeOK, Call, Lock, Transfer, Unlock, LockToRelease
  <2> QED  BY <1>1, <2>1, <2>2 DEF IInv, TypeOK, Phase
<1>5. RefcntExact'
  BY <1>1, <1>2 DEF IInv, RefcntExact
<1>6. SetUp'
  <2>1. CASE Call(u) \/ Lock(u) \/ Transfer(u) \/ Unlock(u)
    BY <2>1 DEF IInv, TypeOK, SetUp, Call, Lock, Transfer, Unlock
  <2>2. CASE LockToRelease(u)
    BY <2>2 DEF IInv, TypeOK, SetUp, LockToRelease
  <2> QED  BY <2>1, <2>2
<1>7. MutexLife'
  BY <1>1, <1>2, <1>3 DEF IInv, TypeOK, MutexLife
<1>8. SectionOwned'
  <2>1. CASE Call(u) \/ Transfer(u)
    BY <2>1 DEF IInv, TypeOK, Call, Transfer, SectionOwned, Section
  <2>2. CASE Lock(u) \/ LockToRelease(u)
    BY <1>3, <2>2, BusAssumption
    DEF IInv, TypeOK, Lock, LockToRelease, Acquire, SectionOwned, Section
  <2>3. CASE Unlock(u)
    BY <2>3 DEF IInv, TypeOK, Unlock, Release, SectionOwned, Section
  <2> QED  BY <2>1, <2>2, <2>3
<1> QED  BY <1>4, <1>5, <1>6, <1>7, <1>8 DEF IInv

\* refcnt counts u itself, so its test never fails.
LEMMA DisconnectInv ==
  ASSUME IInv, NEW u \in User, Disconnect(u)
  PROVE  IInv'
<1> USE DEF Goto
<1>1. u \in Connected
  BY DEF Disconnect, Connected
<1>2. refcnt > 0
  BY <1>1, ConnectedFinite, FS_EmptySet DEF IInv, RefcntExact
<1>3. /\ pc[u] = "idle" /\ pc' = [pc EXCEPT ![u] = "closing"]
      /\ started /\ UNCHANGED <<refcnt, mutex, owner, started, failed, ret>>
  BY <1>2 DEF Disconnect
<1>4. Connected' = Connected
  BY <1>3 DEF IInv, TypeOK, Connected
<1>5. TypeOK'
  BY <1>3 DEF IInv, TypeOK, Phase, Disconnect
<1> QED
  BY <1>3, <1>4, <1>5
  DEF IInv, TypeOK, RefcntExact, SetUp, MutexLife, SectionOwned, Section

LEMMA CountDownInv ==
  ASSUME IInv, NEW u \in User, CountDown(u)
  PROVE  IInv'
<1> USE DEF Goto
<1>1. /\ pc[u] = "releasing" /\ refcnt' = refcnt - 1 /\ Release(u)
      /\ pc' = [pc EXCEPT ![u] = IF refcnt = 1 THEN "destroying" ELSE "gone"]
      /\ UNCHANGED <<mutex, started, open, failed, ret>>
  BY DEF CountDown
<1>2. u \in Connected /\ Connected' = Connected \ {u}
  BY <1>1 DEF IInv, TypeOK, Connected
<1>3. mutex = "ready" /\ \A v \in User : pc[v] # "destroying"
  BY <1>2, ConnectedReady
<1>4. started
  BY <1>1 DEF IInv, SetUp
<1>5. Cardinality(Connected') = Cardinality(Connected) - 1
  BY <1>2, ConnectedFinite, FS_RemoveElement
<1>6. IsFiniteSet(Connected')
  BY <1>2, ConnectedFinite, FS_RemoveElement
<1>7. refcnt = 1 <=> Connected' = {}
  BY <1>5, <1>6, ConnectedFinite, FS_EmptySet DEF IInv, RefcntExact
<1>8. TypeOK'
  <2>1. refcnt' \in Nat
    BY <1>1, <1>5, <1>6, FS_CardinalityType DEF IInv, RefcntExact
  <2> QED  BY <1>1, <2>1 DEF IInv, TypeOK, Phase, Release
<1>9. RefcntExact'
  BY <1>1, <1>5 DEF IInv, RefcntExact
<1>10. SetUp'
  BY <1>1, <1>4 DEF IInv, TypeOK, SetUp
<1>11. MutexLife'
  BY <1>1, <1>3, <1>4, <1>7 DEF IInv, TypeOK, MutexLife
<1>12. SectionOwned'
  BY <1>1 DEF IInv, TypeOK, SectionOwned, Section, Release
<1> QED  BY <1>8, <1>9, <1>10, <1>11, <1>12 DEF IInv

LEMMA DestroyInv ==
  ASSUME IInv, NEW u \in User, Destroy(u)
  PROVE  IInv'
<1> USE DEF Goto
<1>1. /\ pc[u] = "destroying" /\ pc' = [pc EXCEPT ![u] = "gone"]
      /\ mutex' = "destroyed"
      /\ UNCHANGED <<refcnt, owner, started, open, failed, ret>>
  BY DEF Destroy
<1>2. Connected = {} /\ Connected' = Connected /\ started
  BY <1>1 DEF IInv, TypeOK, MutexLife, Connected
<1>3. TypeOK'
  BY <1>1 DEF IInv, TypeOK, Phase
<1>4. RefcntExact'
  BY <1>1, <1>2 DEF IInv, RefcntExact
<1>5. SetUp'
  BY <1>1, <1>2 DEF IInv, TypeOK, SetUp
<1>6. MutexLife'
  BY <1>1, <1>2 DEF IInv, TypeOK, MutexLife
<1>7. SectionOwned'
  BY <1>1 DEF IInv, TypeOK, SectionOwned, Section
<1> QED  BY <1>3, <1>4, <1>5, <1>6, <1>7 DEF IInv

LEMMA NextInv == ~InitMayFail /\ IInv /\ [Next]_vars => IInv'
<1> SUFFICES ASSUME ~InitMayFail, IInv, [Next]_vars PROVE IInv'
  OBVIOUS
<1>1. CASE Start
  BY <1>1, StartInv
<1>2. ASSUME NEW u \in User, Connect(u) PROVE IInv'
  BY <1>2, ConnectInv
<1>3. ASSUME NEW u \in User, Call(u) \/ Disconnect(u) \/ Step(u) PROVE IInv'
  BY <1>3, UseInv, DisconnectInv, CountDownInv, DestroyInv DEF Step
<1>4. CASE UNCHANGED vars
  BY <1>4 DEF vars, IInv, TypeOK, RefcntExact, SetUp, MutexLife, SectionOwned,
              Connected
<1> QED  BY <1>1, <1>2, <1>3, <1>4 DEF Next

LEMMA SpecInv == ~InitMayFail /\ Spec => []IInv
<1>1. CASE InitMayFail
  BY <1>1
<1>2. CASE ~InitMayFail
  <2>1. IInv /\ [Next]_vars => IInv'
    BY <1>2, NextInv
  <2> QED  BY InitInv, <2>1, PTL DEF Spec
<1> QED  BY <1>1, <1>2

-----------------------------------------------------------------------------
\* The types of the bus: the mutex, where every user is, the count, which never
\* goes below zero (user_i2c.c:253), and what the calls return.
THEOREM BusTypeCorrect == ~InitMayFail /\ Spec => []TypeOK
<1>1. IInv => TypeOK
  BY DEF IInv
<1> QED  BY <1>1, SpecInv, PTL

\* At most one task is between lock and unlock of the I2C mutex.
THEOREM BusExclusive == ~InitMayFail /\ Spec => []MutualExclusion
<1>1. IInv => MutualExclusion
  BY DEF IInv, SectionOwned, MutualExclusion
<1> QED  BY <1>1, SpecInv, PTL

\* refcnt is the number of connected devices in every reachable state.
THEOREM RefcntCorrect == ~InitMayFail /\ Spec => []RefcntExact
<1>1. IInv => RefcntExact
  BY DEF IInv
<1> QED  BY <1>1, SpecInv, PTL

\* No task uses the mutex after another has destroyed it.
THEOREM NoUseAfterDestroy == ~InitMayFail /\ Spec => []DestroyedUnused
<1>1. IInv => DestroyedUnused
  BY DEF IInv, MutexLife, DestroyedUnused
<1> QED  BY <1>1, SpecInv, PTL

\* When all tasks have run their clean-up routines the mutex is destroyed.
THEOREM MutexDestroyedAtEnd == ~InitMayFail /\ Spec => []LastDestroys
<1>1. IInv => LastDestroys
  BY DEF IInv, MutexLife, LastDestroys, Connected
<1> QED  BY <1>1, SpecInv, PTL

=============================================================================
