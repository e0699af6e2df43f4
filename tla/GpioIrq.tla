------------------------------- MODULE GpioIrq -------------------------------
(***************************************************************************)
(* The kernel modules kernel_module/apds_gpioIRQ and tmp_gpioIRQ (the same *)
(* file twice): their life cycle with the error path of gpio_irq_init, and *)
(* the asynchronous notification they give the file that is open.          *)
(*                                                                         *)
(* Both register the class, the device and the interrupt of GPIO 30 under  *)
(* the name gpio_int, which the kernel gives to one owner at a time.       *)
(***************************************************************************)
EXTENDS Integers, FiniteSets

CONSTANTS
  Driver,        \* the modules that may be loaded
  None,
  CallsMayFail,  \* whether a call the code makes may fail
  MaxLoads       \* bound: calls of insmod

ASSUME DriverAssumption ==
  /\ IsFiniteSet(Driver) /\ None \notin Driver
  /\ CallsMayFail \in BOOLEAN
  /\ MaxLoads \in Nat

VARIABLES
  place,    \* where each driver is in its initialisation
  majors,   \* device numbers each driver has registered
  class,    \* who owns the class gpio_int
  node,     \* who owns /dev/gpio_int
  irq,      \* whose gpio_interrupt handles the line
  opened,   \* the driver whose device the light task has open
  async,    \* the file is in gpio_irq_async_queue
  sigio,    \* SIGIO is pending for the process; signals do not queue
  loads,
  removed   \* history: how often each driver was removed

calls == <<loads, removed>>
kernel == <<place, majors, class, node, irq, calls>>
file == <<opened, async, sigio>>

Owner == Driver \cup {None}

DriverTypeOK ==
  /\ place \in [Driver -> {"out", "numbered", "classed", "noded", "in",
                           "err", "err2"}]
  /\ majors \in [Driver -> Nat]
  /\ class \in Owner /\ node \in Owner /\ irq \in Owner /\ opened \in Owner
  /\ async \in BOOLEAN /\ sigio \in BOOLEAN
  /\ loads \in 0 .. MaxLoads
  /\ removed \in [Driver -> Nat]

DriverInit ==
  /\ place = [d \in Driver |-> "out"]
  /\ majors = [d \in Driver |-> 0]
  /\ class = None /\ node = None /\ irq = None /\ opened = None
  /\ async = FALSE /\ sigio = FALSE
  /\ loads = 0
  /\ removed = [d \in Driver |-> 0]

Move(d, from, to) == place[d] = from /\ place' = [place EXCEPT ![d] = to]

\* A call of the kernel fails where it must or, perhaps, where it need not.
Outcome(possible) ==
  (IF possible THEN {"ok"} ELSE {"fails"}) \cup
  (IF CallsMayFail THEN {"fails"} ELSE {})

-----------------------------------------------------------------------------
\* gpio_irq_init: register_chrdev takes a free number.
Insmod(d) ==
  /\ loads < MaxLoads
  /\ loads' = loads + 1
  /\ Move(d, "out", "numbered")
  /\ majors' = [majors EXCEPT ![d] = @ + 1]
  /\ UNCHANGED <<class, node, irq, removed, file>>

\* class_create refuses a name that is taken.
CreateClass(d) ==
  /\ \E o \in Outcome(class = None) :
       /\ Move(d, "numbered", IF o = "ok" THEN "classed" ELSE "err2")
       /\ class' = IF o = "ok" THEN d ELSE class
  /\ UNCHANGED <<majors, node, irq, calls, file>>

CreateDevice(d) ==
  /\ \E o \in Outcome(node = None) :
       /\ Move(d, "classed", IF o = "ok" THEN "noded" ELSE "err")
       /\ node' = IF o = "ok" THEN d ELSE node
  /\ UNCHANGED <<majors, class, irq, calls, file>>

\* err: class_destroy
DestroyClass(d) ==
  /\ Move(d, "err", "err2")
  /\ class' = None
  /\ UNCHANGED <<majors, node, irq, calls, file>>

\* Slip: err2 without unregister_chrdev.
NotUnregister(d) ==
  /\ Move(d, "err2", "out")
  /\ UNCHANGED <<majors, class, node, irq, calls, file>>

\* err2: unregister_chrdev
Unregister(d) ==
  /\ Move(d, "err2", "out")
  /\ majors' = [majors EXCEPT ![d] = @ - 1]
  /\ UNCHANGED <<class, node, irq, calls, file>>

\* gpio_init and gpio_request_irq: their failures are only printed.
InitGpio(d) ==
  /\ Move(d, "noded", "in")
  /\ \E o \in Outcome(irq = None) : irq' = IF o = "ok" THEN d ELSE irq
  /\ UNCHANGED <<majors, class, node, calls, file>>

\* gpio_irq_exit, not while the device is open (.owner = THIS_MODULE): the
\* interrupt, the device and the class go, the device number stays.
Rmmod(d) ==
  /\ opened # d
  /\ Move(d, "in", "out")
  /\ irq' = None /\ node' = None /\ class' = None
  /\ removed' = [removed EXCEPT ![d] = @ + 1]
  /\ UNCHANGED <<majors, loads, file>>

DriverStep ==
  \E d \in Driver :
    \/ Insmod(d) \/ CreateClass(d) \/ CreateDevice(d) \/ DestroyClass(d)
    \/ Unregister(d) \/ InitGpio(d) \/ Rmmod(d)

-----------------------------------------------------------------------------
\* What the open file and the line do, as parts of the steps of a process.

\* gpio_irq_open and F_SETFL with FASYNC: gpio_irq_fasync puts the file into
\* the queue and at once sends SIGIO to its owner.
FasyncOn == async' = TRUE /\ sigio' = TRUE

\* gpio_irq_release: fasync with the descriptor -1 sends nothing.
FasyncOff == async' = FALSE /\ UNCHANGED sigio

\* A falling edge is noticed if a driver has the interrupt and the file is in
\* its queue.
Noticed == irq # None /\ async

\* gpio_interrupt: kill_fasync
Edge == sigio' = (sigio \/ Noticed) /\ UNCHANGED <<opened, async>>

-----------------------------------------------------------------------------
\* In every order of two loads that compete for one name, a failed insmod
\* undoes exactly what it did (gpioIRQ.c:202-206): a driver that is out owns no
\* class, device, interrupt or file, and no device number but those that its
\* removals left behind (gpio_irq_exit does not unregister, 213-232).  The
\* interrupt is with the driver whose device the task can open, or with none.
FailedInsmodUndone ==
  /\ \A d \in Driver :
       /\ majors[d] = removed[d] + IF place[d] = "out" THEN 0 ELSE 1
       /\ place[d] = "out" => d \notin {class, node, irq, opened}
       /\ place[d] \in {"err", "err2", "numbered"} => irq # d
  /\ irq # None => irq = node /\ node = class

=============================================================================
