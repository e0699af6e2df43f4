# APES Project 1 in TLA+

Specifications of the weather station in `Project1/`: a BeagleBone program of
five POSIX threads that read a temperature sensor and a light sensor over I2C,
write a log file, answer a TCP client and watch each other with heartbeats; the
kernel modules that bring the light sensor's interrupt to it, and the unit test
library that is built with it. TLC checks the specifications on small
instances; TLAPS proves the theorems listed below for every instance.

## The system

| Component | Source | State | Operations |
|---|---|---|---|
| Communication layer | `message.c`, `message.h` | five POSIX queues, a flag and a mutex for each | `msg_send`, `msg_receive`, `msg_log`, `update_queue_flag`; test and decrement of a flag in every drain loop |
| Main thread | `main.c`, `request_heartbeat` | `chance`, `heartbeat_monitor` | request heartbeats, drain, sleep 10 s, check every third round, raise an alarm |
| Start-up | `main.c:24-101` | sensor status | initialise sensors, create threads, blink and exit on failure |
| Logger | `task_log.c` | `status`, the log file | drain every 5 s: log, answer heartbeats, clean up |
| Temperature task | `task_tmp.c`, `helper.c` | `status`, `op_flag`, timer, mutex and condition variable | wait for the timer, read, convert, log, drain, clean up |
| Light task | `task_apds.c` | `status`, `light_state`, semaphore, thresholds in the sensor | on SIGIO clear, move thresholds, log; drain, clean up |
| Socket task | `task_socket.c` | `status`, `newsocketfd`, descriptors | accept (2 s), read, forward, drain and answer, clean up |
| Socket client | `socket_client.c` | its socket | connect, ask, wait |
| I2C interface | `user_i2c.c` | a mutex, `refcnt` | connect, read, write, disconnect |
| Sensor registers | `task_tmp.c:232-521`, `task_apds.c` | in the sensors | fields of the configuration, thresholds, conversion |
| GPIO drivers | `kernel_module/*/gpioIRQ.c` | device number, class, node, interrupt, list of files | init with its error path, exit, fasync, interrupt |
| cmocka | `cmocka/cmocka/src/cmocka.c` | lists of announced values and calls, list of blocks, counters | run a group, mock, check, malloc, free, skip, fail |
| Others | `led.c`, `unit_test.c` | | |

Every thread owns one queue and is its only receiver; everybody may send to it.
A sender puts a message in the queue and then increments the queue's flag. An
owner never looks at the queue: it tests its flag, decrements it and calls
`mq_receive`, which blocks. The main thread sends one heartbeat request to each
worker per round and each worker answers into the main queue. The sensor tasks
log readings; the socket task forwards a client's request to a sensor task and
to the logger, and gets the answer through its own queue. The two sensor tasks
share the I2C mutex. The light sensor's interrupt becomes a SIGIO through the
driver, the signal handler posts the light task's semaphore. When a task's
`status` is not SUCCESS at the end of a period, its clean-up routine destroys
its mutex, unlinks its queue and ends the thread.

What is hard here:

* the flags are read, modified and written by several threads, and the mutexes
  that should prevent it are copied before they are locked, so they exclude
  nobody (`message.c:91`, `main.c:99`). The Makefile builds with `-O0`: `flag++`
  is a load, an addition and a store;
* a wrong flag is not repaired by anything: too small, and messages stay in the
  queue, until they fill it and stop whoever sends to it; too large, and the
  owner blocks in `mq_receive`;
* queues are kernel objects: they outlive the process, while flags restart at 0,
  and `mq_open(O_CREAT)` re-creates a queue that its owner has unlinked;
* `mq_send` blocks on a full queue and the main thread sends to every worker;
* calls fail and the code often goes on (`main.c:120`, `task_tmp.c:166`);
* clean-up of one task runs while others, and its own timer, use what is shared;
* events are edges: a timer signal without a waiter, an interrupt without a
  listener and a post before `sem_init` are lost;
* `newsocketfd` is overwritten by every accept, and closed numbers are reused.

What makes the components correct: a flag that agrees with its queue; FIFO
delivery to the owner only; each heartbeat request answered once and credited to
the right worker; alarms only for workers that did not answer; the main thread
never stuck; each client request answered once and to the client that asked;
exclusive use of the bus and a bus mutex that lives exactly as long as it is
used; thresholds that match the light state and a state that follows the light;
a task that is woken again; tests that pass only if what they announced
happened. `PROJECT.json` lists the hazards behind these at their lines.

## The modules

| Module | Models | Builds on |
|---|---|---|
| `Mailbox` | what the queues are for: a bounded FIFO box per task | |
| `MessageQueue` | the communication layer, one step per shared access | instantiates `Mailbox` |
| `Station` | the main thread and the four tasks on top of the layer | extends `MessageQueue` |
| `I2cBus` | the I2C interface and its users | |
| `Tmp102` | the temperature sensor's registers and conversion, as operators on words | |
| `TempTask` | the temperature task with its timer threads | extends `Tmp102` |
| `GpioIrq` | the two kernel modules and the open file | |
| `LightTask` | start-up, the light sensor and the light task | extends `GpioIrq` |
| `SocketTask` | the socket task, its clients and the descriptor table | |
| `MockStore` | what cmocka's lists of announced values give out | |
| `Cmocka` | a run of a group of tests | extends `MockStore` |
| `MC...` | instances for TLC | the modules they name |
| `...Proofs` | theorems | the modules they name |

**MessageQueue.** `queue[q]` is the kernel object the owner reads, `orphan[q]`
the object re-created under its name after `mq_unlink`; `flag`, `mutex` and
`copy` are the queue flags, the mutexes and the copies in `ThreadInfo_t`. `pc`
follows a thread through `msg_send` (`SendBegin`, `MqSend` or `SendFail`,
`LoadForIncrement`, `StoreIncrement`) and through one pass of a drain loop
(`TestFlag`, `LoadForDecrement`, `StoreDecrement`, `ReceiveBegin`, `MqReceive`
or `ReceiveFail`). `Exit` is what a clean-up routine does to the layer. `drift`
is a history variable: how many messages more than its flag a queue holds for
good. It starts with the messages of an earlier run and changes only with a
failed receive and with a store that overwrites another.

**Station.** An action is a layer action with what the task's own code does in
the same step, or a step of that code alone: `SendNext` is every call of
`msg_send`, `Received` and `ReceiveFailed` are the bodies of the drain loops
(`HandleAsMain`, `HandleAsWorker`), `Idle`, `ReportTemperature`, `ReportLight`
and `Forward` are a period of a task before it drains, `RequestHeartbeat`,
`WakeUp`, `Check` and `EndCheck` the main loop. What a handler sends one after
the other is its `todo`. The drain loops test only the flag; `status` is looked
at when the loop has ended (`Step`, `CleanUp`), so a SHUT_DOWN or an error may
be overwritten by the next message, as in the code. `asked`, `heard` and
`answered` are histories. Where a task's own synchronisation matters, a module
of its own has it (`TempTask`, `LightTask`, `SocketTask`); there the messages
are reduced to what that task sees of them.

**I2cBus.** `Connect` is `i2c_connect_mutex`, called by the main thread before
it creates the tasks; `Call`, `Lock`, `Transfer`, `Unlock` are the reads and
writes; `Disconnect`, `LockToRelease`, `CountDown`, `Destroy` are
`i2c_disconnect_mutex` with its test of `refcnt` outside the lock. A destroyed
mutex is not waited for: `Acquire` then goes on without it, because nobody looks
at what `pthread_mutex_lock` returns.

**Tmp102.** `SetField`, `GetField`, `SetThreshold`, `GetThreshold` and
`Shutdown` are the utilities of `task_tmp.c` with the masks of `tmp1021.h`;
`RawToTemperature` is `tmp_raw_to_temperature` in sixteenths of a degree, with
the casts to `int16_t`. `Measured` and `Sent` say what the sensor means by a
code and how it sends it. A failed read gives `FailedRead`: the comparison of an
unsigned word with -1 never holds. The program does not call the utilities yet.

**TempTask.** `Fire` is an expiry, which starts a thread (SIGEV_THREAD);
`HandlerLock`, `HandlerSignal`, `HandlerUnlock` are `tmp_timer_handler`. `Wait`,
`WakeUp`, `Read`, `Report`, `Handle`, `EndDrain` are a period of the task,
`EndLoop`, `DestroyMutex`, `DeleteTimer`, `Leave` its clean-up in the order of
the code. A signal moves the task only if it waits; `SpuriousWakeUp` is the one
POSIX allows. A destroyed mutex refuses the handler, which goes on without it.
The queues it sends to are reduced to `full`, which `Traffic` changes at any
time: `Report` and `Handle` wait in `mq_send` while it holds, and `Interrupt` is
a signal that ends the wait with an error. Without a timer the clean-up passes
an uninitialised `timer_id` to `timer_delete` (`task_tmp.c:224`): `DeleteTimer`
does nothing then or the process dies.

**GpioIrq, LightTask.** `Insmod` to `InitGpio` follow `gpio_irq_init` call by
call with the labels `err` and `err2`; both drivers want one name and one
interrupt. `FasyncOn`, `FasyncOff`, `Noticed` and `Edge` are parts of steps of
`LightTask`: the open with FASYNC (which sends SIGIO at once), the release, and
the interrupt. `main` goes through the transfers of `apds9301_init` (`step`) and
creates the task before it looks at their status. `Measure` is the sensor that
finds the light outside its window, `Signal` the handler's `sem_post`,
`TakePost` and `NoPost` `sem_timedwait`, whose time is long past. `Update` is
the clear and `apds_update_state`, with the light free to change and the sensor
to measure between any two transfers. `Logged` and `Respond` are sends, which
may take any time (`Sending`); what a send returns is any status. `Drain` and
`TakeRequest` are the drain loop with nothing to answer and with a request.
`missed`, `fault` and `removed` are histories.

**SocketTask.** `fds` is the descriptor table: a number is free, stdin, the
listening socket, a connection or a queue that another thread has open for the
moment (`Borrow`, `GiveBack`). `Accept` takes the lowest free number, `TimeOut`
sets `newsocketfd` to 0. `Wait` is the call of `read`: from then on the task is
at the connection (`conn`) and not at the number, which another thread may close
and open again. `Sent` ends the sends of a request, which may take any time.
`Answer` sends to and closes whatever `newsocketfd` refers to now. `late` is a
history: an answer was taken in another pass than its request was read in.

**MockStore, Cmocka.** A list of announced values is a sequence of values with a
count (`ONCE`, `ALWAYS`, n); `UseAt` is what a use leaves of it. What the lists
promise is said without them: there is a serving, a map from each use to the
node announced for it, that goes through the nodes in their order (`InTurn`,
`InOrder`) and leaves none that has to be used (`AllUsed`). A body that passes
has such a serving (`PassedMeansKept`), and one that is failed for its mocks has
none (`RefusedForCause`), but for `OutOfReach`: `fail_if_leftover_values`
removes one node of a queue only. `Cmocka` runs one group: a body (test or
fixture) makes any sequence of library calls (`Announce`, `Mock`,
`CheckExpected`, `FunctionCalled`, `Malloc`, `Free`, `Skip`, `Fail`, ...), then
it is checked (`ReturnDangling`, `ReturnLeaking`, `ReturnLeftover`, `Return`)
and the runner goes on (`AfterSetup`, `AfterTest`, ...). `exit_test` is the jump
back to the runner. A check point is an address: a body may free the block it
points to. `broken` is the history of the tests and fixtures that failed, with a
place of its own for the group's teardown.

Definitions under a comment "Slip" are wrong on purpose. They replace a
definition to show that a property notices; no specification uses them.

## What TLC checks

| Run | Instance | Shows |
|---|---|---|
| `Heartbeat` | main, logger, temperature; 2 rounds, check after 2, queues of 2, a stale message, both may exit | heartbeats balance; alarms mean unanswered requests; flags never negative and wrong only by the recorded drift; the station's queues refine `Mailbox` |
| `Clients` | all five, 2 client requests, 1 reading of each sensor, queues of 1 | every client request or its answer is in one place |
| `Progress` | main, logger; 6 rounds, check after 2, queues of 1, failing calls, the logger may exit, fair | types; accounting of flags also with failing calls; a task waits on an empty queue only after a lost decrement; rounds complete unless a decrement was lost, a task has gone or a queue is clogged; workers empty their queues |
| `Bus` | three devices, fair | mutual exclusion, exact count, destruction by the last user only, lock released |
| `TempTask` | 2 timer threads, readings of 25 °C and of -1/16 °C, failing calls, queues that fill up, 2 requests, fair | never a wait without a timer; reports and requests go on in spite of lost signals; handlers that outlive the clean-up come to an end |
| `LightTask` | both drivers, 2 loads, light at 100, 900 and 65535, 1 change, 1 measurement between clear and new thresholds, 1 failing transfer, fair | a failed load gives back all it took, the device number included; thresholds match `light_state`; exactly which interrupts are lost; the state follows the light otherwise |
| `SocketTask` | 3 clients that ask, send nonsense or nothing, 4 descriptors, 2 queue descriptors of other threads, fair; deadlock checked | all is well until an answer is late; which descriptors stay open; one answer each; only a silent client, or a send to a full queue, stops the task |
| `Cmocka` | groups with no fixtures, fixtures of tests, of the group, and half of each; 5 library calls, 2 blocks, 2 values, 2 names | values served and checked in order; passing means used as announced, failing means not used so; leaks found; failures counted |

Four runs show where the program does not do what a comment says of it;
`PROJECT.json` quotes the lines under `findings`.

| Run | What happens |
|---|---|
| `LostDecrement` (queues of 4, 3 rounds) | the main thread blocked in `mq_receive` by a lost `main_queue_flag--` |
| `ExitedTask` (queues of 1, the temperature task exits) | the main thread blocked in `mq_send` to the re-created queue of an exited task |
| `Astray` (2 clients) | an answer that comes after the next accept goes to another client |
| `Thermometer` (25 °C and 27 °C) | the second period reports the reading of the first, for `op_flag` is never reset (`task_tmp.c:117`) |

Three more disagreements with a comment have no run of their own; `findings` has
them with the property that names them.

* The I2C functions are documented to return "0 - Success | 1 - Failure"
  (`user_i2c.c:40`, `user_i2c.h:35` and others). They return -1, as their
  callers expect, and a read that failed returns 0, because -1 is stored in an
  unsigned word before it is compared (`user_i2c.c:176`, `198`). `TypeOK` of
  `I2cBus` states the values 0 and -1 (`Bus`).
* `will_return_maybe` is documented never to fail a test (`cmocka.h:367-369`).
  Two of them for one function do: the second is behind the first, and only the
  first node of a queue is removed (`cmocka.c:796`). `RefusedForCause` has this
  as its only exception (`OutOfReach`).
* Temperatures below zero come out 256 degrees too high (`task_tmp.c:508`).
  `ReportsMeasured` is broken by such a reading as well; the climate of
  `Thermometer` is above zero, so that its trace is about `op_flag`, and the
  theorem `ReadingConverted` is about every code.

Other facts that the models show: the copied mutexes exclude nobody
(`LockedCopy`); a flag can stay wrong with everybody at rest (`drift`); an old
response is counted again when a receive fails (`ReceiveFailed`, `main.c:120`);
`rmmod` keeps the device number, which `gpio_irq_exit` does not unregister
(`gpioIRQ.c:213-232`, `removed` in `FailedInsmodUndone`); a group's teardown
that fails is printed but is not in the value returned (`cmocka.c:2892-2907`),
so a group in which nothing else failed exits with 0. An alarm names the wrong
task: `main.c:145` uses `task[i+1]` for the thread with index `i`; the model has
the alarm, not its text.

**Bounds.** `MaxSends`, `MaxRounds`, `MaxReports`, `MaxClients`, `MaxOps`,
`MaxChanges`, `MaxLoads`, `MaxAsks` and `MaxBorrow` bound how often something is
started; where the system stops when they are used up, or when its tasks have
exited, the configuration turns the deadlock check off. `MaxStale` bounds what
an earlier run left, `MaxRaces` how often the light crosses a threshold while
the thresholds move. `Capacity` is 100 in the code; 1 and 2 let queues fill up
after a few steps, 4 (`LostDecrement`) keeps them from filling where a property
is about something else. In `Progress` queues of 1 and 6 rounds are enough for
one failed receive to clog a queue and stop first its senders and then the main
thread. When the rounds are used up the main thread no longer drains, and
responses that do not fit its queue would be blocked by the bound alone; with
queues of 1 a worker has emptied its own queue before that can happen. With
queues of 1 a single uncounted message also clogs a queue for good, which
`RoundsCompleteUnlessLost` names as an exception; with the code's 100 it takes
as many failed receives.

A race needs two threads at one flag, a race between senders three, and an error
of a response credited to the wrong worker two workers; that is why most
instances have two or three threads. Smaller instances leave out the messages to
and from the missing workers. `Chances` is 3 in the code; with 2 a check comes
after more than one round as well. Two timer threads overlap, three clients are
needed for a number to be closed, reused and closed again, four descriptors run
out. 65535 is a light outside both windows. Five library calls announce, use,
allocate, free and fail in any order. There are no symmetry sets: threads have
different code.

**Fairness.** In all modules the kernel schedules every thread: the steps a
thread can take alone are weakly fair.

* `Station`: per thread, with its sleeps and its poll once per period. A thread
  in `mq_send` or `mq_receive` is not enabled while the queue is full or empty,
  and nothing obliges a signal to end such a wait with an error. A send to a
  queue that could not be opened returns. No client has to connect. A worker
  whose `status` is SUCCESS goes on with its period; which of its steps a period
  consists of is left open.
* `I2cBus`: weak fairness of `Lock` means that a thread may be passed over for
  ever if others keep taking the lock; `LockReleased` needs only the holder to
  go on.
* `TempTask`: the timer expires while it is armed (`Fire`). Who waits for the
  mutex gets it if it is free again and again (strong fairness of `Wait`,
  `WakeUp`, `HandlerLock`): it is held for microseconds in a period of two
  seconds. A queue that has room again and again takes the message of the sender
  that waits (strong fairness of `Report`, `Handle`), which POSIX gives to
  senders of one priority. Spurious wake-ups, requests, traffic and weather need
  not come, and a queue may stay full for ever: the properties name that case.
* `LightTask`: main and light thread, delivery of signals, and the sensor's
  measurements. A send need not end, and nobody has to load a driver, to send a
  request or to change the light.
* `SocketTask`: the task, threads giving back a descriptor, and sensor tasks
  answering. A send need not end; clients come and go as they like.

## What is proved

All for every value of the constants that satisfies the named assumptions
(`LayerAssumption`, `StationAssumption`, `BusAssumption`, `TempAssumption`,
`DriverAssumption`, `LightAssumption`, `SocketAssumption`, `CmockaAssumption`).
`StationAssumption` says that the five threads are different, that a worker has
one place in the table, that heartbeats pass between the main thread and the
others only, and that requests for a reading concern the sensor's task, the
socket task and the logger. `CmockaAssumption` says that a symbol is a mocked
function or a parameter but not both, that a group has a test, and that the head
of the list is no block of a test.

* `MessageQueueProofs`. `TypeCorrect`, `FlagsNonNegative`,
  `FlagsAccountForMessages`, `BlockedTasksDrifted` and `LayerDelivers`. The
  accounting equation alone is not inductive: that a sender has deposited the
  message it is about to count, in which object, and what `call` and `reg` hold
  must be known, and that a loaded value was seen non-zero by the test before.
  The last is why no flag becomes negative although the updates race: the only
  thread that decrements a flag is the one that tested it, and a lost update can
  only replace its value by one that another thread loaded and added to.
* `StationProofs`. `StationAccounting`, `StationBlocked`, `StationDelivers` and
  `StationTypeCorrect`, failing calls included, for any workers and bounds. The
  first three follow from the layer's invariants: a lemma shows that a step of
  the station is one of the layer or leaves it alone, for handlers owe only
  well-formed messages.
* `TrafficProofs`, as long as no call fails (a failed receive handles an old
  message again). `HeartbeatsBalance` and `AlarmsAreJustified`: the balance of a
  worker is inductive once it is known that heartbeats pass between the main
  thread and the others only, that a queue holds only what routes allow, and
  that a thread between the test of its flag and its receive owes nothing. For
  the alarm, each worker that has not been counted since its last check has at
  least as many requests unanswered as rounds were counted, where a request
  still to be deposited (`Due`) is one; none is left when a check begins.
  `ClientsAnswered`, which also needs that no message of an earlier run is left
  (`MaxStale = 0`): each thread has four places for messages (its queue, the
  orphaned queue, the call it is in, what its handler still owes), the messages
  in transit are the sum over all places, and a step changes at most two of
  them; `HeldChange` says how the sum then changes, and the invariant behind
  the heartbeats that a handler answers one request at a time. The races on the
  flags do not matter: none of these proofs uses what a flag says.
* `I2cBusProofs`. `BusTypeCorrect`, `BusExclusive`, `RefcntCorrect`,
  `NoUseAfterDestroy`, `MutexDestroyedAtEnd`, for any number of devices, when
  `pthread_mutex_init` succeeds. `refcnt` is exact, so the user that counts it
  down to zero is the last connected one, so nobody is left to find the mutex
  destroyed, so whoever is past the lock owns it. The unlocked test of `refcnt`
  is harmless because the tester itself is still counted.
* `TempTaskProofs`. `TypeCorrect` and `WaitsAreTimed`, for any number of timer
  threads. The strengthening ties `status` to `timer` from the set-up on (a task
  with SUCCESS in its loop has an armed timer) and the mutex to the place in the
  clean-up. The same module proves three facts of `Tmp102`. `ReadingConverted`:
  for all 4096 codes the conversion is the sensor's value, plus 256 degrees
  below zero (the exclusive or is followed by a negation in an `int16_t` whose
  upper four bits were never set). `FailedReadSpoilsConfig`: a setter whose read
  failed writes nothing, or ones into all the other fields. `ThresholdReadBack`:
  what `SetThreshold` stores comes back if it is positive and fits.
* `LightTaskProofs`. `TypeCorrect`, `FailedLoadsUndone`, `WindowFollows`,
  `WakeUpsKept`, for any number of drivers and levels. `FailedLoadsUndone` needs
  to know what a driver owns at each label of its error path, device numbers
  included: one while it is loading or in, and one for each removal.
  `WakeUpsKept` needs that an asserted line which was noticed is on its way as a
  signal, as a post or in the hands of the task.
* `SocketTaskProofs`. `TypeCorrect`, `HarmlessUntilLate`, `OpenConnections`,
  `AnsweredOnce`, for any number of clients and descriptors. A connection has
  one descriptor or none; while no answer has been late, `newsocketfd` is still
  the connection whose request was read in this pass, or has been closed by the
  answer to it.
* `CmockaProofs`, for any groups, names, values and blocks. `CmockaTypeCorrect`.
  `PassingTestFreedAll`: the check point of a test keeps its place in the list,
  and the blocks it has not freed lie behind that place, until it frees the
  check point itself; a freed check point that malloc has not given out again
  always breaks the body. `NoFailureLost` is an account: failures and errors
  counted and skips in fixtures are at least the bodies that broke and are done
  with (but for the group's teardown), the skip that no test has taken yet, and
  the one a test took that is being torn down. `ExitOnlyIfUnclean`: as long as
  all tests pass and tear down what they set up, every test begins with an empty
  list of blocks, so none is left for the end of the group. `ServedAsAnnounced`
  and `PassedAsAnnounced`: the list in the store is at all times the announced
  list without the nodes that are used up, its counts less the uses so far
  (`Tracks`); the invariant keeps the map from its places to the announced
  nodes, which preserves order, beside the serving of the uses so far, and each
  use extends the serving by the node it was given. With a map in place of a
  fold over the list no induction is needed. `FailedForCause` goes the other
  way: a serving of the uses is unique, because where two servings first differ
  one passes over the node the other uses (`OneServing`, by the least-number
  principle). So when the store has no node for a use, no other serving has one
  either, and when something is left that is due, the one serving there is has
  not used it.

So every invariant and every action property of the runs is a theorem, the
refinement of `Mailbox` among them. The liveness properties
(`RoundsCompleteUnlessLost`, `WorkersDrain`, `LockReleased`, `KeepsReporting`,
`RequestsTaken`, `HandlersEnd`, `LightFollowed`, `KeepsGoing`) are only
model-checked: liveness under fairness is out of TLAPS's reach.

A failing `pthread_mutex_init` (`InitMayFail`) is in `I2cBus`, but neither the
run nor the theorems say anything about it.

## What is not modelled

* Time. Sleeps, timeouts and the period of the timer have no length, so the
  false alarms that a short sleep causes (`main.c:131`, cut short by SIGIO) are
  not in `Station`.
* The logger's `FILE` pointer, the LEDs (writes to sysfs), debug output, the
  contents of messages and the formula for lux.
* The leak of descriptors when `msg_send` or `msg_receive` returns early, and in
  `SocketTask` failing calls of the layer.
* The reads and writes of `user_i2c.c` without mutex, which no task uses; the
  light sensor's register utilities that nobody calls.
* Of cmocka the deprecated runners (`cmocka.c:2931-3305`),
  `expect_assert_failure`, `test_realloc`, an announcement with a count of 0
  (which `_will_return` refuses and `_expect_check`, `cmocka.c:1005-1020`, does
  not), the output formats and the examples; of the program's unit tests what
  they ask of the board.

## Plan

1. `HeartbeatTiming`: discrete time with the periods of the tasks and
   interrupted sleeps. Property: an alarm only for a task that is late.
2. `LogFile`: the life of the `FILE` pointer in `log_data` and the clean-up.
3. The deprecated runner of cmocka, and `expect_assert_failure`.
4. The refinement of an abstract heartbeat protocol by `Station`.
