------------------------------- MODULE I2cBus -------------------------------
(***************************************************************************)
(* The I2C interface of user_i2c.c: one pthread mutex and a count of the   *)
(* devices connected to the bus.  The main thread connects and sets up the *)
(* sensors one after the other (tmp1021_init, apds9301_init) and creates   *)
(* the tasks that use them, whatever the set-up returned; each task        *)
(* transfers data and disconnects its sensor in its clean-up routine.      *)
(***************************************************************************)
EXTENDS Integers, FiniteSets

CONSTANTS
  User,         \* the devices, each used by one task
  InitMayFail,  \* whether pthread_mutex_init may fail
  NoUser

ASSUME BusAssumption ==
  /\ IsFiniteSet(User) /\ User # {} /\ NoUser \notin User
  /\ InitMayFail \in BOOLEAN

VARIABLES
  refcnt,   \* lock.refcnt
  mutex,    \* the life of lock.mutex
  owner,    \* who holds lock.mutex
  started,  \* whether the main thread has created the tasks
  pc,       \* where a user is in the functions of user_i2c.c
  open,     \* whether open and ioctl succeeded for the device
  failed,   \* whether the last transfer of a user failed on the bus
  ret       \* what the last i2c_..._mutex call of a user returned

vars == <<refcnt, mutex, owner, started, pc, open, failed, ret>>

\* After "idle": inside a transfer.  After "transferred": inside
\* i2c_disconnect_mutex, where "closing" has found refcnt > 0, "releasing"
\* holds the lock and "destroying" has counted down to zero and unlocked.
Phase == {"unconnected", "idle", "locking", "inside", "transferred",
          "closing", "releasing", "destroying", "gone"}

\* refcnt, an int, never goes below zero.  A call returns 0 or -1, although
\* user_i2c.c:40 and the header say "0 - Success | 1 - Failure" of all of them.
TypeOK ==
  /\ refcnt \in Nat
  /\ mutex \in {"raw", "ready", "destroyed"}
  /\ owner \in User \cup {NoUser}
  /\ started \in BOOLEAN
  /\ pc \in [User -> Phase]
  /\ open \in [User -> BOOLEAN]
  /\ failed \in [User -> BOOLEAN]
  /\ ret \in [User -> {0, -1}]

Init ==
  /\ refcnt = 0
  /\ mutex = "raw"
  /\ owner = NoUser
  /\ started = FALSE
  /\ pc = [u \in User |-> "unconnected"]
  /\ open = [u \in User |-> FALSE]
  /\ failed = [u \in User |-> FALSE]
  /\ ret = [u \in User |-> 0]

-----------------------------------------------------------------------------
Goto(u, from, to) == pc[u] = from /\ pc' = [pc EXCEPT ![u] = to]

\* Until the tasks exist, the main thread makes one call at a time.
MainIsFree == started \/ \A u \in User : pc[u] \in {"unconnected", "idle"}

\* Slip: a device that cannot be opened is not counted.
ConnectOpened(u) ==
  /\ ~started /\ MainIsFree
  /\ Goto(u, "unconnected", "idle")
  /\ \E o \in BOOLEAN :
       /\ open' = [open EXCEPT ![u] = o]
       /\ refcnt' = IF o THEN refcnt + 1 ELSE refcnt
  /\ mutex' = "ready"
  /\ UNCHANGED <<owner, started, failed, ret>>

\* i2c_connect_mutex: refcnt counts the device even if open or ioctl fails;
\* only a failed pthread_mutex_init takes it back.
Connect(u) ==
  /\ ~started /\ MainIsFree
  /\ Goto(u, "unconnected", "idle")
  /\ \E initialised \in {TRUE} \cup {~InitMayFail} :
       /\ refcnt' = IF refcnt = 0 /\ ~initialised THEN refcnt ELSE refcnt + 1
       /\ mutex' = IF refcnt = 0 /\ initialised THEN "ready" ELSE mutex
  /\ \E o \in BOOLEAN : open' = [open EXCEPT ![u] = o]
  /\ UNCHANGED <<owner, started, failed, ret>>

\* pthread_create of every task.
Start ==
  /\ ~started
  /\ \A u \in User : pc[u] = "idle"
  /\ started' = TRUE
  /\ UNCHANGED <<refcnt, mutex, owner, pc, open, failed, ret>>

-----------------------------------------------------------------------------
\* Slip: pthread_mutex_trylock.
AcquireOrNot(u) == owner' = IF owner = NoUser THEN u ELSE owner

\* pthread_mutex_lock waits for a valid mutex and fails at once on one that
\* has been destroyed; nobody looks at what it returns.
Acquire(u) ==
  IF mutex = "destroyed" THEN UNCHANGED owner
  ELSE owner = NoUser /\ owner' = u

Release(u) == owner' = IF owner = u THEN NoUser ELSE owner

\* i2c_write_byte_mutex, i2c_read_word_mutex, ...
Call(u) ==
  /\ MainIsFree
  /\ Goto(u, "idle", "locking")
  /\ UNCHANGED <<refcnt, mutex, owner, started, open, failed, ret>>

Lock(u) ==
  /\ Goto(u, "locking", "inside")
  /\ Acquire(u)
  /\ UNCHANGED <<refcnt, mutex, started, open, failed, ret>>

\* Slip: a failed transfer returns at once, with the lock held.
TransferOrReturn(u) ==
  /\ \E bad \in {TRUE, ~open[u]} :
       /\ Goto(u, "inside", IF bad THEN "idle" ELSE "transferred")
       /\ failed' = [failed EXCEPT ![u] = bad]
       /\ ret' = [ret EXCEPT ![u] = IF bad THEN -1 ELSE 0]
  /\ UNCHANGED <<refcnt, mutex, owner, started, open>>

\* i2c_smbus_...: without a device every transfer fails.  A write is compared
\* with -1 as it is; what a read returns is first stored in an unsigned byte
\* or word, which never equals -1.
Transfer(u) ==
  /\ Goto(u, "inside", "transferred")
  /\ \E bad \in {TRUE, ~open[u]}, unsigned \in BOOLEAN :
       /\ failed' = [failed EXCEPT ![u] = bad]
       /\ ret' = [ret EXCEPT ![u] = IF bad /\ ~unsigned THEN -1 ELSE 0]
  /\ UNCHANGED <<refcnt, mutex, owner, started, open>>

Unlock(u) ==
  /\ Goto(u, "transferred", "idle")
  /\ Release(u)
  /\ UNCHANGED <<refcnt, mutex, started, open, failed, ret>>

-----------------------------------------------------------------------------
\* i2c_disconnect_mutex: close, then the test of refcnt without the lock.
Disconnect(u) ==
  /\ started
  /\ Goto(u, "idle", IF refcnt > 0 THEN "closing" ELSE "gone")
  /\ open' = [open EXCEPT ![u] = FALSE]
  /\ UNCHANGED <<refcnt, mutex, owner, started, failed, ret>>

LockToRelease(u) ==
  /\ Goto(u, "closing", "releasing")
  /\ Acquire(u)
  /\ UNCHANGED <<refcnt, mutex, started, open, failed, ret>>

\* Slips: lock.refcnt-- == 0, and --lock.refcnt <= 1.
CountDownAfterTest(u) ==
  /\ Goto(u, "releasing", IF refcnt = 0 THEN "destroying" ELSE "gone")
  /\ refcnt' = refcnt - 1
  /\ Release(u)
  /\ UNCHANGED <<mutex, started, open, failed, ret>>

CountDownToOne(u) ==
  /\ Goto(u, "releasing", IF refcnt <= 2 THEN "destroying" ELSE "gone")
  /\ refcnt' = refcnt - 1
  /\ Release(u)
  /\ UNCHANGED <<mutex, started, open, failed, ret>>

\* --lock.refcnt == 0 decides what follows the unlock.
CountDown(u) ==
  /\ Goto(u, "releasing", IF refcnt = 1 THEN "destroying" ELSE "gone")
  /\ refcnt' = refcnt - 1
  /\ Release(u)
  /\ UNCHANGED <<mutex, started, open, failed, ret>>

Destroy(u) ==
  /\ Goto(u, "destroying", "gone")
  /\ mutex' = "destroyed"
  /\ UNCHANGED <<refcnt, owner, started, open, failed, ret>>

-----------------------------------------------------------------------------
Step(u) ==
  \/ Lock(u) \/ Transfer(u) \/ Unlock(u)
  \/ LockToRelease(u) \/ CountDown(u) \/ Destroy(u)

Next ==
  \/ Start
  \/ \E u \in User : Connect(u) \/ Call(u) \/ Disconnect(u) \/ Step(u)

Spec == Init /\ [][Next]_vars

\* A call that was begun goes on; whether a task calls or exits is its own
\* affair.
FairSpec == Spec /\ \A u \in User : WF_vars(Step(u))

-----------------------------------------------------------------------------
\* The users that refcnt ought to count.
Connected == {u \in User : pc[u] \notin {"unconnected", "destroying", "gone"}}

Section == {"inside", "transferred", "releasing"}

\* user_i2c.c:208, "with mutex protection": at most one task is between lock
\* and unlock, in a transfer or counting down.
MutualExclusion ==
  \A u, v \in User : pc[u] \in Section /\ pc[v] \in Section => u = v

\* refcnt counts the connected users although it is incremented and tested
\* without the lock.
RefcntExact == refcnt = Cardinality(Connected)

\* The mutex is destroyed only when no user is connected: no call of the
\* other task finds a destroyed mutex, whatever the order in which the two
\* tasks run their clean-up routines.
DestroyedUnused == mutex = "destroyed" => Connected = {}

\* The last user to disconnect does destroy the mutex: with the unlocked test
\* of refcnt the two could leave it to each other.
LastDestroys ==
  started /\ (\A u \in User : pc[u] = "gone") => mutex = "destroyed"

\* Every path out of a transfer and of a disconnection gives the lock back.
LockReleased == \A u \in User : owner = u ~> owner # u

=============================================================================
