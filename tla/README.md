# TLA+ verification of the MCXN947 web-based data logger

The program is firmware for an NXP MCXN947: FreeRTOS tasks that read a BMP280
and a DS3231 over I2C, keep a log in an AT24C32 EEPROM, serve a dashboard and a
small REST interface over lwIP, and are supervised by a health monitor that feeds
the windowed watchdog. This directory models its own code
(`services/`, `app/`, `source/` and the `My_*` drivers, below
`src/MCXN947_Web_Based_Data_Logger/`), and of the third-party code below it the
parts its correctness hangs on: the blocking transfer of NXP's LPI2C driver and
the scheduling, delays and mutexes of FreeRTOS. lwIP, the devices, the LPI2C
hardware and the clients are modelled from how the code uses them and are marked
external in `PROJECT.json`.

## 1. Inventory

| Component | State it keeps | Operations | Hard behaviour |
|---|---|---|---|
| Health monitor (`HealthMonitor_service.c`) | registry with a check-in flag per service, `uint8_t` counter per service, watchdog | `Registor_service`, `Reset_HeltMonit_service`, the 10 ms loop, warning interrupt | two-step check-ins preempted by the monitor, counter width against timeouts, who supervises the supervisor |
| Start-up (`main`) | order of the `Init_` calls | register, create a task, start the scheduler | watchdog already running, task creation fails, registry full |
| Data logger (`Data_Logger_service.c`) | two interval timers, two ring indices in RAM, the log in the device | a pass every 50 ms, a record every 30 s and every 10 min | failed and torn writes, reset at any point, wrap-around |
| EEPROM driver (`My_I2C_eeprom.c`) | none of its own; the device | self-test, chunked write, read | page roll-over of the device, error between two bursts, a test that writes into the log |
| Web service (`Web_service.c`) | listening socket, one connection, control flag, sensor snapshot and its mutex | accept, recv, route, reply, close; update of the snapshot | segments, silent clients, early returns, preemption inside a copy |
| Main application (`MainApp.c`) | none | copy readings, drive LED 1 | shares the monitor's priority, preempts the analog task |
| Analog service, BMP280 and DS3231 drivers | `temp`, `pressure`, `t` | measure, read the time, set the RTC at boot | unsynchronised fields, failed reads, unbounded bus polling |
| Ethernet service (`ethrnet_service.c`) | listening socket, one session | wait for the link, accept, echo, close | timeouts against errors, clients that do not read |
| Indicator service and LED driver | interval, counter and level per LED | blink, solid, 10 ms step | preempted by the main application, index bound |
| I2C bus (`My_I2C_driver.c`, `fsl_lpi2c.c`) | initialised flag; FIFOs and flags of the controller | one-time initialisation, blocking transfer | one bus, two tasks, no lock, polls without limit |

How they interact:

* Every task polls its notification with no wait and, if there is one, sets its
  flag in the monitor's registry; the monitor notifies all tasks, then reads and
  clears the flags, then decides whether to refresh the watchdog.
* Analog task → globals `temp`, `pressure`, `t` → main application →
  `g_sensor_data` (under `g_sensor_mutex`) → HTTP task → browser.
* Browser → HTTP task → `g_web_control_active` → main application → LED 1.
* Data logger → EEPROM driver → I2C bus, which the analog task uses too.
* Priorities: monitor and main application 17, analog 16, logger 15, both servers
  14, indicator 10. Preemption is on and time slicing is off, so a task that
  busy-waits keeps the processor from everything below it.

What makes each one correct: the monitor reports a task exactly when it has been
silent for its timeout, never resets a healthy board and always resets a lost one;
the logger keeps each partition a window of the latest records, whole ones; the web
service closes what it opens, applies what it acknowledges and serves everybody in
turn; a published reading is one reading, the last one, at the time the RTC showed;
the echo server returns a client's own bytes; LEDs keep their beat and LED 1 shows
the control flag; a byte on the bus reaches the device it is meant for, and a
transfer that reports success has happened.

`PROJECT.json` lists the hazards of this code one by one, at their lines, with
the properties that cover them.

## 2. Modules

| Module | Models | Composes |
|---|---|---|
| `HealthMonitor` | health monitor, watchdog, check-in of the tasks, boot order | |
| `HealthMonitor_proof` | its theorems | `HealthMonitor`, `TLAPS` |
| `Eeprom` | device geometry, chunk size, one page burst with roll-over | |
| `DataLogger` | logger task, self-test, write loop, failures, reset | `Eeprom`, `LogWindow` |
| `DataLogger_proof` | theorems of `Eeprom` and `DataLogger`, the refinement of `LogWindow` | `DataLogger`, `TLAPS` |
| `LogWindow` | abstract: a window of the latest records | |
| `WebService` | HTTP task, clients, control flag | |
| `WebService_proof` | its theorems | `WebService`, `TLAPS` |
| `Conversions` | BCD registers of the RTC, tenths of a degree in the JSON reply | |
| `Conversions_proof` | its theorems | `Conversions`, `TLAPS` |
| `SensorShare` | analog task, main application, HTTP task, mutex, priorities | `Conversions` |
| `SensorShare_proof` | its theorems | `SensorShare`, `Conversions_proof` |
| `Indicator` | blink engine, main application's override, pins | |
| `Indicator_proof` | its theorems | `Indicator`, `TLAPS` |
| `I2CBus` | blocking LPI2C transfers of two tasks, the controller, the devices | |
| `I2CBus_proof` | its theorems | `I2CBus`, `TLAPS` |
| `TcpServer` | echo server task and its clients | |
| `TcpServer_proof` | its theorems | `TcpServer`, `TLAPS` |
| `MC…` | constants for TLC | the module of that name |

Operators called `X_Something`, introduced by a comment that begins with
"Mutant", are faulty variants of `X`. Nothing uses them; they exist so that each
property can be shown to fail for a plausible mistake (`PROJECT.json`, "mutants").

### HealthMonitor

A service is its `task_id`. `restflag`, `timercount`, `handle` and `serviceCount`
are the variables of the code; `notified` is the pending task notification, `pc`
tells whether a task is between taking its notification and setting its flag.
`status` says what a task's loop body does: it runs, blocks (`Stall`), busy-waits
(`Spin`) or has deleted itself (`Delete`). One action `HealthMonitor_service` is one
iteration of the monitor, which nothing preempts; the check-in is two actions,
because the monitor can run between them. `CountAfter` keeps the width of the
counter (`% 256`). `age`, `silent`, `faulted` and `fed` are history variables, which no
guard of the program reads; `OnTime` uses `age` to say that a healthy task comes round within
`LoopMax` periods. `slots` is the size of the registry, chosen from `RegistrySizes`;
a service in `HaltsUncreated` is one whose Init function answers a failed
`xTaskCreate` with `__BKPT(0)`, which without a debugger ends in the loop of
`HardFault_Handler`, as the two servers do, and one in `NeedsMutex` answers a mutex
that could not be created the same way before it registers (`WebService_Init`). A
scheduler that does not start leaves `main` in its endless loop. Boot takes any
number of periods, the watchdog's last one included (`BootTick`): the code prints
some 690 characters over a blocking console at 115200 baud (60 ms), waits 13 ms in
drivers and makes its first I2C transfers after it has started the 100 ms watchdog,
and nothing in it keeps the sum below the 100 ms. Time is counted in monitor periods. The watchdog is refreshed
about every 10 periods at the latest; whether it fires before or after the tenth
iteration is left open (`WatchdogReset` is enabled from the ninth on).

### Eeprom and DataLogger

A byte of a record is the pair of snapshot number and position, so that a torn or
misplaced byte is seen. `EEPROM_Write_Bytes` is one burst of the loop, cut to the
page as in the code; `EEPROM_Write_Error` is a burst that fails after any
number of bytes reached the device; `Reset` loses RAM and leaves the device, with
any part of the burst under way written. The analog task may cut into a burst of the
logger, as `I2CBus` lets it: the burst is then reported written with bytes missing
(`EEPROM_Write_Cut`) or waits without limit for the stop flag that was taken from it
(`EEPROM_Write_Hangs`), on top of going through or failing. The self-test runs before
the scheduler and is not cut into. `stored` is a
history variable: the record each slot holds as far as it was written in whole
bursts, none while it is being rewritten; `job.cut` and `lost` remember that bytes
of a write in progress, or of any record so far, went missing; `byte0` is another, which tells whether the cell the self-test borrows
holds its log byte, a test under way or a token that was left behind. `LogWindow` says what the two partitions promise: only a full
window gives up a record, and it gives up the oldest. A record that is lost on its way
(`Lose`) costs its own place: the window gives way one record early, its oldest
still. After a restart any record may go, but one that comes in is the newest. The
refinement maps its window to the set of stored records, `intact` to there having
been no reset and `complete` to no record having been lost to a cut burst. Timers count passes instead of milliseconds.

### WebService

Requests are records of path, method and the quoted words `"on"` and `"off"` in head
(`head`) and body (`command`), with one member for each branch of the router;
`handle_control_post` searches both, for `"on"` first (`FoundCommand`). Its `shape` says how head and body reach `rx_buf`: in one
segment, in two, or with a head that fills the 639 bytes by itself. `Recv` is the
single `recv()`, `Received` what it finds. `Route` is everything from
`sscanf` to the choice of the reply, including the change of the flag;
`Send` is the reply of whichever helper the router chose. The prefix matches of
`strncmp` and the texts are abstracted. Socket set-up errors are in
`HealthMonitor` (`Delete`).

### SensorShare

Three tasks take steps by priority (`Runs`); the holder of the mutex is lent the
priority of the task that waits, as FreeRTOS does for a mutex. `lends`, chosen
initially, is TRUE for the code's mutex; FALSE stands for a plain semaphore, under
which the timeouts of `xSemaphoreTake` do expire (`GiveUp`), so that their paths
are checked too. Measurements are
numbered, so temperature and pressure of one measurement are equal numbers; a
failed trigger, which the code does not notice, reads the one before again, and an
uncalibrated sensor gives 0. The RTC counts seconds; its registers are BCD and pass
through `bcd2dec`, and the fields are stored seconds first as in `DS3231_ReadTime`,
so a carry can be torn. `BootTimes` covers a clock set to the compile time and one
that kept its own. Arguments of `WebService_UpdateSensorData` are read at the
call, before the mutex. A copy takes less than one time unit of 10 ms of processor
time (`late`); a pass of the analog task takes up to `AnalogTime` units after it
falls due.

### TcpServer

A client sends the bytes 1, 2, 3…; `Received` is what one `recv()` returns,
`EchoByte` hands over a byte when the peer's window has room. Timeouts of
`accept()` and `recv()` are actions of their own, as are the end of a session, a
broken connection and the set-up errors that delete the task.

### Indicator

`led` is the table of the service, `pin` the outputs. `led_service_task_10ms` is
one action for each access the main application can precede: `Test`, `Count`,
`Toggle`, `Write`. The table is shared without a lock and is not volatile, so where
the C code reads an entry a second time, the model takes either the value read
first or the one in memory now. `late` counts the passes that are due:
`vTaskDelayUntil` starts them one after the other. They are counted from the task's
first run, `Indicator_Task`, which reads `xLastWakeTime`: ticks that pass before
the task first gets the processor owe nothing. `clock`, which starts there too, and
`shown` are history variables. The properties compare the table with the clock, so they would fail if
one pass were lost or ran twice.

### I2CBus

Each task is a program counter inside `LPI2C_MasterTransferBlocking`, with the
commands it has still to push and the bytes it still expects; every poll and every
push is a step, and between the logger's steps the analog task may start a transfer
of its own, which then runs to its end. A poll and the clearing of what it found are
one step. The address bytes of a device are one command. `Controller` carries out
one command of the FIFO. It is external, as are the devices; assumed of them, from
the driver's comments and its handling of the flags: an error comes with an
automatic STOP and halts the controller until the flag is cleared; data or a
receive that does not fit the bus state is a FIFO error; a STOP on a free bus sets
the stop flag or the FIFO error flag; the EEPROM stores a burst at its STOP and
forgets it at a repeated START. Arbitration loss and the pin-low timeout are not
told apart from a missing acknowledge: the driver handles all errors alike.

### Conversions

`bcd2dec`, `dec2bcd` and the masks are those of the driver. A temperature is an
integer number of 2^-21 degrees, the grid of a float of magnitude 4 or more, on
which the subtraction and the product of `send_sensor_json` are exact; smaller ones
may differ in the last place before they are cut to tenths.

## 3. What TLC checks

| Run | Checks | Result |
|---|---|---|
| `hms_verdict` | the verdict is exact in the counter's range, no false alarm, no reset without a fault once the monitor has refreshed the watchdog, however long the boot took | holds |
| `hms_lost` | a blocked task with a timeout in range is noticed; a monitor that was not created, a full registry, a task or a mutex whose failed creation halts the board and a scheduler that does not start end in a reset | holds |
| `hms_frozen` | a frozen task leads to a reset: the analog task hangs in a transfer and starves the indicator | **violated** |
| `log_memory` | no burst leaves its slot, a write nobody cuts into ends, a record stored in such bursts stays whole through errors, cut bursts and resets (byte 0 excepted once a self-test was abandoned half-way), each partition implements `LogWindow` | holds |
| `log_reset` | the record overwritten is the oldest, resets included | **violated** |
| `web_served` | no connection is leaked; a command received whole is applied when acknowledged; every client is served | holds |
| `web_split` | every acknowledged command was carried out, split requests included | **violated** |
| `web_silent` | the HTTP task comes back to its ticket, whatever clients do | **violated** |
| `share_reading` | every update is the last reading, whole, with its decimal time; no mixed copy; no mutex timeout where the mutex lends priority | holds |
| `tcp_echo` | a client gets its own bytes back, in order; the buffer is never exceeded; a silent client does not keep the task from its ticket; a session is echoed | holds |
| `led_blink` | a blinking LED shows the half-period of the clock that began with the task's first run, whenever the task has caught up; LED 1 keeps what the main application asked for, and comes to show the flag; no index behind the table | holds |
| `i2c_bus` | no byte reaches a device it was not meant for; a successful read holds its own device's bytes of this read; a burst that was not cut into is stored when it succeeds, and ends; the analog task always returns | holds |

The violated ones are disagreements between the code and what its comments say;
`PROJECT.json` quotes the lines ("findings"). In short:

1. The monitor's counters are `uint8_t` and wrap at 256 ms. Five of the six
   timeouts are never reached: those services may be silent for good and the verdict
   stays healthy. The alarm of the sixth (200 ms) is taken back after 60 ms, before
   the 100 ms watchdog fires. So no frozen task ever causes a reset, not even an
   analog task that hangs in a transfer and starves everything below it.
2. The ring indices live in RAM: after a reset the log overwrites its newest
   records while older ones stay.
3. A POST whose body arrives in a second segment is answered "ok" and ignored.
4. A connected client that sends nothing holds the HTTP task for good.

What the passing runs rest on, and what the code does not enforce:

* `PublishesOneReading` is checked for analog passes that end before the main
  application wakes again (`AnalogPhase + AnalogTime < Period`). With a longer
  `AnalogTime` (7, say) TLC finds an update in the middle of a pass. With the
  code's periods this needs a bus transfer that takes longer than usual, but such
  transfers have no time limit.
* `NoSpuriousReset` begins with the monitor's first refresh. A boot that takes the
  100 ms of the watchdog is reset before it, again and again; how long it takes is
  decided by clocks, console and devices.
* `SuccessIsStored` and `BurstReturns` except a burst during which the analog task
  woke (`overlapped`). Without the exception both fail: a cut burst can find the
  stop flag of the other transfer and report success with nothing stored, or have
  its own stop flag cleared by the other transfer and wait for it for good, the
  FIFO empty and no error set. The analog task wakes every 100 ms and the logger
  every 50 ms from the same start, which keeps them apart as long as no burst is
  delayed. `log_memory` takes these outcomes into the log: the record whose burst
  was cut into is lost unnoticed, or the logger never goes on; no other record is
  harmed. `WriteEnds` is therefore about bursts nobody cut into.
* `WholeCommandIsApplied` leaves out a POST that switches off while its head quotes
  `"on"`: the search over the whole request finds the head's word first.
* `SolidStaysSolid` holds because the main application, of higher priority, runs
  before the indicator's first pass, so LED 1 never blinks while it is created. If
  it started later, a preempted pass could leave its level on the pin for up to
  100 ms.
* `StoredIsIntact` excepts byte 0 of the log after a self-test that an error or a
  reset ended between its write and its restore; `Init_Data_Logger_service` ignores
  the result.

Three more observations without a run: between -1 and 0 degrees the JSON reply
loses the sign (proved, see below); `Web_service.c:245` says that the pages of
`httpsrv_fs_data.c` include "pre-baked HTTP headers", but they begin with the
document; and `Indectors_service.c:101` speaks of a 30 ms timeout that is 200 ms.

### Bounds

* `HealthMonitor`: timeouts and priorities are the real ones; one or two
  services stand for six, because the monitor treats each on its own and
  they meet only in the conjunction of the verdict and through priorities, for
  which two are enough. `Cap` (30 periods of silence) is beyond the wrap at
  26 and reaches the largest timeout in use, 300 ms. `LoopMax`, 1 to 3 periods
  in place of 10, only bounds how stale a healthy task looks. The proofs have none
  of these bounds.
* `DataLogger`: pages of 3 bytes and records of 2, like 32 and 12, make records
  start at different offsets and straddle pages. Partitions of 3 slots and of one both
  wrap within the 6 snapshots of `log_memory`, and fall due together or apart. One
  reset at any point is enough to separate RAM from device; a second repeats the
  first.
* `WebService`: two clients, so that one waits while the other is served, with
  the two commands and other requests of every branch (fewer in `web_split` and
  `web_silent`); paths that are only told apart by the text of their reply are
  represented by one. The sequence of requests is unbounded.
* `SensorShare`: a period of 4 units with a pass of up to 3, the tightest that
  ends before the next wake-up. `MaxDue` limits how many wake-ups the analog task
  may be behind. The clock starts at 9:58 or 59:58 and advances three seconds, over
  a carry in every digit.
* `TcpServer`: two clients, three bytes against a receive buffer of two and a
  send window of two, so that both buffers fill.
* `Indicator`: LEDs, intervals and periods are the real ones; the history clock
  counts modulo 4 s, a common multiple of the blink periods. `MaxLate` is three
  passes.
* `I2CBus`: a FIFO of two in place of eight, bursts and reads of two bytes, so that
  every command can meet a full FIFO and a burst can be cut into before, between
  and after its bytes. Two is the smallest FIFO the assumption of the module allows.

Deadlock is checked in every run. `BoundReached` in `DataLogger` marks the states
in which only the bound on snapshots stops the logger.

### Fairness

* Program steps are weakly fair: a task that is ready gets the processor again,
  unless the model itself starves it (`Starved`, `Runs`).
* `HealthMonitor`: a period passes infinitely often (strong fairness of the
  monitor's period): a task may stall and resume, but not infinitely often within
  10 ms. The watchdog has its own clock.
* `accept()` returns after its timeout, and with a waiting connection it does not
  return an error forever (strong fairness of `Accept`).
* Clients: `web_served` assumes that a client sends or hangs up, and `web_silent`
  shows that the assumption is needed. `tcp_echo` assumes only that a client reads
  what it is sent, since `send()` has no timeout.
* `Indicator`: both tasks get the processor and ticks go on. A tick waits until the
  main application is done and the indicator is less than `MaxLate` behind.
* `I2CBus`: the controller runs on its own clock; a task that has the processor
  goes on. A poll that finds nothing is a stuttering step (`PollAgain`), so a task
  that polls for good is seen by the liveness properties and not as a deadlock.
* A burst or a transfer is not assumed to succeed.

## 4. What is proved

Every invariant and every action property that a passing run checks, and the
refinement of `LogWindow`, are theorems: they hold for every value of the constants
that satisfies the assumptions of the module, not only for the instances of the runs.
The proofs of a component are in its `_proof` module. Each follows the same plan: an
inductive invariant made of named parts, one step per action for its preservation,
and the properties as consequences of it. The inductive invariants were checked by
TLC on small instances before they were proved. Every assumption is evaluated
by TLC on the runs of its module.

| Module | Theorem | States |
|---|---|---|
| `HealthMonitor_proof` | `TypeCorrect`, `Invariance` | `[]TypeOK`, `[]IInv` |
| | `VerdictExact` | `[]VerdictExactInRange` |
| | `OnlyReachableTimeoutsAlarm` | `[]AlarmIsInReach`: no alarm for a timeout above 255 ms |
| | `NoFalseAlarm` | `AlarmHasCause` |
| | `NoResetWithoutFault` | `NoSpuriousReset` |
| `DataLogger_proof` | `BurstProgresses`, `BurstLandsInOrder`, `BurstStaysInDevice` | what one clamped burst does, on the operators of `Eeprom` |
| | `TypeCorrect` | `[]TypeOK` |
| | `StoredRecordsSurvive` | `[]StoredIsIntact` |
| | `WritesConfined` | `WritesStayInSlot` |
| | `LoggerImplementsWindow` | `ImplementsLogWindow`, the refinement |
| `WebService_proof` | `TypeCorrect` | `[]TypeOK` |
| | `NoDescriptorLost` | `[]NoLeakedConnection` |
| | `WholeCommandCarriedOut` | `WholeCommandIsApplied` |
| `SensorShare_proof` | `TypeCorrect` | `[]TypeOK` |
| | `CopiesAreWhole` | `[]ServedIsOneUpdate` |
| | `TakesSucceed` | `[]NoMutexTimeout` |
| | `UpdatesAreOneReading` | `PublishesOneReading`, for passes that end in time |
| `Indicator_proof` | `TypeCorrect` | `[]TypeOK` |
| | `SolidIsKept` | `[]SolidStaysSolid` |
| | `NoBeatLost` | `[]BlinksInStep` |
| `TcpServer_proof` | `TypeCorrect` | `[]TypeOK` |
| | `EchoFaithful` | `[]EchoIsFaithful` |
| | `NoByteLost` | `[]StreamInv`: while a connection holds, no byte is missing |
| `I2CBus_proof` | `TypeCorrect` | `[]TypeOK` |
| | `NoByteGoesAstray` | `[]NoForeignByte` |
| | `ReadsTheirOwn` | `[]ReadsAreOwn` |
| | `BurstIsStored` | `[]SuccessIsStored` |
| `Conversions_proof` | `TimeRoundTrip`, `JsonTempExact`, `JsonTempSignLost` | what the conversions compute |

### HealthMonitor

Assumptions: `SizesAssumption` types the constants. `TimingAssumption` says that
a timeout is longer than a loop of its task (the rule stated in `task_config.h`),
that the watchdog's is longer than a period of the monitor, that no task able to
busy-wait has the monitor's priority, and that the history counters reach beyond the
timeouts. It says nothing of the boot.

The inductive invariant `IInv` joins the type invariant with:

* `BootIsFresh`, `AllRegistered`: what the scheduler starts from;
* `NoLostCredit`: a task at its check-in without a pending notification has its
  flag set. This is what makes the two-step check-in safe: a task that finds no
  notification skips its check-in, and loses nothing by it, because the monitor
  has not run since the last one. Without it a counter could run ahead of the task;
* `CountBehindAge`: a counter never exceeds the time since the check-in, hence no
  false alarm;
* `CountIsSilence`: within the range of the `uint8_t` the counter is the silence;
* `NominalIsOnTime`: while nothing has failed, tasks are on time and each iteration
  leaves the watchdog refreshed, so that after the first one no reset can come;
* `AlarmIsInReach`: an unhealthy verdict is that of a service whose timeout fits the
  counter. It is the reason of half of what `hms_frozen` finds: a timeout above
  255 ms never raises an alarm, whatever the services.

The lemmas on `CountAfter` carry the arithmetic of the wrap.

### Eeprom and DataLogger

Assumptions: the device is a whole number of pages (`EepromAssumption`); record,
partitions and intervals are not empty and both partitions fit the device
(`LoggerAssumption`). The number of snapshots and of resets is any.

First the burst: for every page size, address and length it makes progress and
never exceeds what is left, lands in order without rolling over, and stays in the
device once the length check has passed. Then the layout: slots are inside the
device and do not overlap (`SlotInDevice`, `SlotsApart`), and byte 0, which the
self-test borrows, belongs to the first high-resolution slot only (`ByteZero`).

`IInv` says that the write under way is the one the program counter stands for
(`JobIsCurrent`), that the bytes counted as written are in the device
unless a burst was cut into (`WrittenIsThere`), that records are numbered in the order they were taken and the
slot being written is reported to hold none (`StoredIsOlder`), and that the
self-test's saved byte is the one to put back (`OriginalIsKept`). Only with these
is `StoredIsIntact` inductive: a finished record becomes a stored one because
all its bytes were seen to land, and a failed one is not reported stored.

The refinement needs the order of the ring as well (`RingInv`): no record is held
twice, and, as long as there was no reset, the records of a partition are numbered in
the order of their slots from the index on (`Ordered`), with no empty slot but the
one at the index once the ring has wrapped, unless a record was lost to a cut burst
(`Filled`). `WindowStep` then maps each
step of the logger to a step of `LogWindow` or a stutter: opening a slot drops the
oldest record of the window, a committed record adds the newest, and one that was
cut into is lost.

### WebService

`WebAssumption` only types the requests; clients and requests are any set.
`QueueInv` and `ServedInv` say that a client is known to the server in one place
at a time, in the backlog or in `conn_fd`, so every path through `handle_client`
that comes back to `accept()` has closed what it opened. `WholeInv` follows a request
that comes in one segment, with no word in its head to contradict its body, from the
wire into `rx_buf` and, once routed, ties the flag to its command until the reply is out: no other client can interfere, because the
one task serves one client at a time.

### SensorShare

`ShareAssumption` types the constants; period, phase, length of a pass and the
boot times of the RTC are free. The argument is about priorities: the HTTP task takes
the mutex only while the other two sleep, so whoever wakes during its section wakes
at the one unit boundary that can fall into it (`LateInv`). With lent priority the
section then ends before time goes on, and no take times out. `MutexInv` ties the
mutex to the program counters and `CopyInv` ties copy and original to the last
update, with or without lent priority. `DeviceInv` relates the globals to sensor and
RTC through the lemmas of `Conversions_proof`.

`UpdatesAreOneReading` has one hypothesis, `PassEndsInTime`: a pass of the analog
task ends before the main application wakes again (`AnalogPhase + AnalogTime <
Period`). The code does not enforce it, and TLC has a counterexample without it
(section 3). From it, `PassInv` keeps the analog task asleep while the main
application works, and `UpdateInv` follows the reading through the update.

### Indicator

`IndicatorAssumption`: at least two LEDs, blink intervals of at least one pass, and
a history clock that counts modulo a common multiple of the blink periods.
`SolidInv` holds by priorities: a main application that was created runs before the
indicator's first pass, so no pass is under way at LED 1 once it is solid.
`BlinkInv` is a balance for each LED: half-periods shown plus passes counted since are
the passes that were due since the task's first run and are done, up to whole
periods, at every point of a pass and however late the task runs. `TableInv` says that what the pass has
read of an entry is still true of it. `NoBeatLost` reads the balance off when no pass
is due.

### TcpServer

`ServerAssumption`: buffer and window are not empty. `StreamInv` lays the bytes of
a client one behind the other in four places (read by the client, on their way back,
in `rx_buffer`, in the socket); each step moves bytes to the next place and leaves no
gap. `QueueInv` says that a client is in the backlog or in session and not both, so
that `rx_buffer` is that client's alone. A broken connection may lose what is in
`rx_buffer`, and is never sent to again.

### I2CBus

`BusAssumption`: a FIFO of at least two commands; bursts and reads of any length.
The device has eight (`device/MCXN947_cm33_core0_features.h:703`). One is not enough
for the model: the analog task may leave its STOP in the FIFO while the logger,
interrupted between its poll for room and its push, goes on to push, so the
`TypeOK` of a one-place FIFO does not hold.

The FIFO is read as a chain (`ChainInv`): each command fits the one ahead of it, and
the first fits what the controller has done last. A byte fits when it continues the
transfer to its own device, or when it comes behind a STOP, where it ends in a FIFO error.
`TodoInv` says that the commands a task has still to push form such a chain too,
and that its next one fits the newest in the FIFO whenever that task has the
processor. The reason this survives an interruption is that every path of the
analog task's transfer ends with a STOP pushed or the bus free (`RoomInv`,
`BusInv`). `NoByteGoesAstray` is the first link of the chain. `RoomInv` also holds the room a task
has found, which bounds the FIFO. `ReadInv` counts the bytes of a read in the
receive FIFO and still owed. `BurstInv` follows an undisturbed burst: no byte of
it meets a free bus and its STOP comes behind its last byte, so that all of it is stored
when the STOP has been carried out.

### Conversions

`DS3231_ReadTime` returns what `DS3231_SetTime` wrote, for every
time of the calendar (`TimeRoundTrip`); the temperature in the JSON reply is the
measured one cut to tenths, for every temperature outside -1..0 (`JsonTempExact`);
between -1 and 0 it is that of the opposite temperature (`JsonTempSignLost`). The
first rests on the digits of a BCD byte not carrying into each other, the others on
the uniqueness of quotient and remainder.

### Only model-checked

* The liveness properties: `StallIsNoticed`, `LostMonitorIsReset`, `WriteEnds`,
  `EveryClientIsServed`, `TicketIsRefreshed` and `SessionIsEchoed` of the echo
  server, `LedFollowsFlag`, `AnalogReturns`, `BurstReturns`. Fairness and ENABLED are
  beyond the proof system. `BurstProgresses` is the variant behind `WriteEnds`.
* The four disagreements of section 3, which are counterexamples.
* What a model leaves outside a theorem: the external controller, devices, clients and
  network are assumptions of the models, stated in section 2, and the theorems are
  as good as these.

## 5. What is not modelled

* The compensation formulas of the BMP280: floating point.
* HTTP text, formatting of timestamps, console output.
* Pins, clocks, MDIO, the configuration of the network interface, lwIP, and of the
  SDK and FreeRTOS everything the tasks do not depend on in an order of events:
  they make up nearly all lines of the repository, and are register definitions,
  drivers of peripherals the program does not use, and a kernel and a network stack
  with tests of their own.
* `socket()` before `tcpip_init`: both servers have one priority and the web
  service is created by `main` like the other; what lwIP does in that order is not
  decided by this code.
* Functions no task calls: `I2C_ScanBus`, `DS3231_ReadTemp`, the humidity of the
  BME280, the interrupt-driven transfers of `fsl_lpi2c.c`.
* The notification of a deleted task through its freed control block: undefined
  behaviour of the kernel.
* `g_CurrentSensorMetrics` has no writer anywhere in the program; the model
  numbers the snapshots the logger takes, whatever they hold.

## 6. Plan

* Models: a composition of `WebService` with the check-in of `HealthMonitor`, so
  that a blocked server is followed to the monitor's verdict; the moments at which
  the analog task wakes (`I2CBus`) tied to the passes of the logger.
* Theorems: what remains true of a burst that was cut into (`I2CBus`); the window
  after a reset, from the slots rewritten since (`DataLogger`); an abstract echo
  service that `TcpServer` implements, with `StreamInv` as the refinement's
  invariant.
* Proofs: the steps that pushes and polls of `I2CBus_proof` have in common as
  lemmas.

## 7. Running

    tlc -config hms_verdict.cfg MCHealthMonitor
    tlc -config i2c_bus.cfg I2CBus
    tlapm HealthMonitor_proof.tla

and so on for each configuration and for each of the eight `_proof` modules. The longest,
`I2CBus_proof`, takes a few minutes from nothing. `SensorShare_proof` extends
`Conversions_proof`, whose proofs are checked on their own.

`i2c_bus` runs `I2CBus` itself. Every other `.cfg` belongs to the `MC` module of its
prefix: `hms_` to `MCHealthMonitor`,
`log_` to `MCDataLogger`, `web_` to `MCWebService`, `share_` to `MCSensorShare`,
`tcp_` to `MCTcpServer`, `led_` to `MCIndicator`.
