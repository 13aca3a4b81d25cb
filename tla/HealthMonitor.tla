---------------------------- MODULE HealthMonitor ----------------------------
(***************************************************************************)
(* The health monitor service, the windowed watchdog it feeds and the       *)
(* check-in protocol of the tasks it supervises.                            *)
(*                                                                         *)
(* main() registers the services one by one, each Init_X function calling   *)
(* Registor_service and then xTaskCreate.  Once the scheduler runs, the     *)
(* monitor wakes every 10 ms: it notifies every task, looks at the check-in *)
(* flag of every service, adds 10 ms to the counter of the silent ones and  *)
(* refreshes the watchdog when no counter has reached its timeout.  A task  *)
(* checks in by taking its notification and then setting its flag.          *)
(*                                                                         *)
(* A service is named by the task_id it is given, which is its place in     *)
(* main()'s order of registration.  Time advances in monitor periods of     *)
(* 10 ms.  The monitor has the highest priority and time slicing is off, so *)
(* one iteration of its loop is a single step; the two halves of a task's   *)
(* check-in are two steps, because the monitor can preempt between them.    *)
(***************************************************************************)
EXTENDS Naturals

CONSTANTS
    N,                  \* services main() registers
    RegistrySizes,      \* values of MAX_SERVICE_COUNT the firmware is built with
    Timeout,            \* timeout_value of each service, in ms
    Priority,           \* FreeRTOS priority of each task
    MonitorPriority,    \* PRIO_MONITOR_TASK, the highest there is
    LoopMax,            \* a healthy task checks in at least every LoopMax periods
    WDT_TIMEOUT,        \* watchdog timeout, in monitor periods
    MayStall,           \* tasks that may block in their loop body
    MaySpin,            \* tasks that may busy-wait in their loop body
    MayDelete,          \* tasks with a vTaskDelete(NULL) error path
    HaltsUncreated,     \* services whose Init function executes __BKPT(0) when
                        \* the creation of the task fails
    NeedsMutex,         \* services whose Init function creates a mutex before it
                        \* registers, and executes __BKPT(0) when that fails
    MayCheckInDirectly, \* tasks that also set their flag without a notification
    Cap                 \* bound of the history counters age and silent

Services == 0 .. N - 1

\* HeltMonit_timercount is a uint8_t.
U8 == 256

\* What the monitor adds for a period without a check-in, in ms.
PERIOD_MONITOR_TASK_MS == 10

ASSUME SizesAssumption ==
    /\ N \in Nat /\ RegistrySizes \subseteq Nat
    /\ MonitorPriority \in Nat
    /\ Priority \in [Services -> 0 .. MonitorPriority]
    /\ Timeout \in [Services -> Nat]
    /\ LoopMax \in [Services -> Nat]
    /\ Cap \in Nat /\ WDT_TIMEOUT \in Nat

\* The sizing rule of task_config.h: a timeout leaves room for a whole loop.  The
\* watchdog's is longer than a period of the monitor, and no task that can
\* busy-wait has the monitor's priority.  The history counters reach past every
\* timeout and past the uint8_t range.
ASSUME TimingAssumption ==
    /\ WDT_TIMEOUT > 1
    /\ \A i \in MaySpin \cap Services : Priority[i] < MonitorPriority
    /\ PERIOD_MONITOR_TASK_MS * Cap >= U8
    /\ \A i \in Services :
         /\ LoopMax[i] < Cap
         /\ PERIOD_MONITOR_TASK_MS * LoopMax[i] < Timeout[i]
         /\ Timeout[i] <= PERIOD_MONITOR_TASK_MS * Cap

VARIABLES
    phase,         \* "poweron", "boot", "running", or "hung" before the scheduler
    slots,         \* MAX_SERVICE_COUNT, slots of the registry: never changes
    monitorAlive,  \* xTaskCreate of the monitor task succeeded
    serviceCount,  \* registered services
    handle,        \* *taskHandle is not NULL: xTaskCreate succeeded
    restflag,      \* HeltMonit_Reg[i].restflag
    timercount,    \* HeltMonit_timercount[i]
    notified,      \* the task's notification is pending
    pc,            \* where the task is: "loop", or "credit" inside its check-in
    status,        \* what the task does: "live", "stalled", "spinning", "deleted"
    wdt,           \* periods since the watchdog was refreshed
    healthy,       \* systemHealthy of the last monitor iteration
    fed,           \* history: the monitor has refreshed the watchdog since power-on
    age,           \* history: periods since the task last completed its check-in
    silent,        \* history: iterations in a row that found the flag clear
    faulted        \* history: a task failed, or was not created, since power-on

taskVars == <<handle, restflag, timercount, notified, pc, status>>
registry == <<slots, serviceCount>>
histVars == <<age, silent, faulted>>
vars == <<phase, monitorAlive, registry, taskVars, wdt, healthy, fed, histVars>>

Phases == {"poweron", "boot", "running", "hung"}
Statuses == {"live", "stalled", "spinning", "deleted"}

TypeOK ==
    /\ phase \in Phases
    /\ monitorAlive \in BOOLEAN
    /\ slots \in RegistrySizes
    /\ serviceCount \in 0 .. N /\ serviceCount <= slots
    /\ handle \in [Services -> BOOLEAN]
    /\ restflag \in [Services -> BOOLEAN]
    /\ timercount \in [Services -> 0 .. U8 - 1]
    /\ notified \in [Services -> BOOLEAN]
    /\ pc \in [Services -> {"loop", "credit"}]
    /\ status \in [Services -> Statuses]
    /\ wdt \in 0 .. WDT_TIMEOUT
    /\ healthy \in BOOLEAN /\ fed \in BOOLEAN
    /\ age \in [Services -> 0 .. Cap]
    /\ silent \in [Services -> 0 .. Cap]
    /\ faulted \in BOOLEAN

Registered == {i \in Services : i < serviceCount}

Init ==
    /\ phase = "poweron"
    /\ slots \in RegistrySizes
    /\ monitorAlive = FALSE
    /\ serviceCount = 0
    /\ handle = [i \in Services |-> FALSE]
    /\ restflag = [i \in Services |-> FALSE]
    /\ timercount = [i \in Services |-> 0]
    /\ notified = [i \in Services |-> FALSE]
    /\ pc = [i \in Services |-> "loop"]
    /\ status = [i \in Services |-> "live"]
    /\ wdt = 0
    /\ healthy = TRUE /\ fed = FALSE
    /\ age = [i \in Services |-> 0]
    /\ silent = [i \in Services |-> 0]
    /\ faulted = FALSE

-----------------------------------------------------------------------------
(* Boot: main() before vTaskStartScheduler, with the watchdog running. *)

\* The watchdog starts and the monitor task is created, or is not.
Init_HealthMonitor_service ==
    /\ phase = "poweron"
    /\ phase' = "boot"
    /\ monitorAlive' \in BOOLEAN
    /\ wdt' = 0
    /\ faulted' = ~monitorAlive'
    /\ UNCHANGED <<registry, taskVars, healthy, fed, age, silent>>

\* Mutant: the registry takes one service more than it has slots.
Registor_service_NoLimit ==
    /\ restflag' = [restflag EXCEPT ![serviceCount] = TRUE]
    /\ serviceCount' = serviceCount + 1
    /\ UNCHANGED slots

\* The slot of a newly registered service: flag set, as every caller asks.
Registor_service ==
    /\ serviceCount < slots
    /\ restflag' = [restflag EXCEPT ![serviceCount] = TRUE]
    /\ serviceCount' = serviceCount + 1
    /\ UNCHANGED slots

\* An Init_X function: register, then create the task, which fails without
\* heap.  A failed creation is reported on the console and boot goes on, or
\* __BKPT(0) ends in the endless loop of HardFault_Handler.
Init_X_service ==
    /\ phase = "boot" /\ serviceCount < N
    /\ Registor_service
    /\ \E created \in BOOLEAN :
         /\ handle' = [handle EXCEPT ![serviceCount] = created]
         /\ faulted' = (faulted \/ ~created)
         /\ phase' = IF created \/ serviceCount \notin HaltsUncreated
                     THEN "boot" ELSE "hung"
    /\ UNCHANGED <<monitorAlive, timercount, notified, pc, status,
                   wdt, healthy, fed, age, silent>>

\* Registering one service too many spins forever inside Registor_service.
RegistryFull ==
    /\ phase = "boot" /\ serviceCount < N
    /\ serviceCount >= slots
    /\ phase' = "hung"
    /\ faulted' = TRUE
    /\ UNCHANGED <<monitorAlive, registry, taskVars, wdt, healthy, fed, age, silent>>

\* A mutex could not be created: __BKPT(0) before the service is registered.
MutexNotCreated ==
    /\ phase = "boot" /\ serviceCount < N
    /\ serviceCount \in NeedsMutex
    /\ phase' = "hung"
    /\ faulted' = TRUE
    /\ UNCHANGED <<monitorAlive, registry, taskVars, wdt, healthy, fed, age, silent>>

\* Initialisation takes as long as it takes: nothing in main() bounds it, and
\* nothing refreshes the watchdog meanwhile.
BootTick ==
    /\ phase = "boot"
    /\ wdt < WDT_TIMEOUT
    /\ wdt' = wdt + 1
    /\ UNCHANGED <<phase, monitorAlive, registry, taskVars, healthy, fed, histVars>>

\* The scheduler starts and the monitor task clears its counters first thing, or
\* there is no heap for the idle task and main() ends in its endless loop.
vTaskStartScheduler ==
    /\ phase = "boot" /\ serviceCount = N
    /\ \/ /\ phase' = "running"
          /\ timercount' = [i \in Services |-> 0]
          /\ faulted' = faulted
       \/ /\ phase' = "hung"
          /\ timercount' = timercount
          /\ faulted' = TRUE
    /\ UNCHANGED <<monitorAlive, registry, handle, restflag, notified, pc,
                   status, wdt, healthy, fed, age, silent>>

-----------------------------------------------------------------------------
(* Who gets the processor. *)

\* A busy-waiting task keeps the processor from every task below it.  Tasks of
\* one priority still alternate: each preemption by the monitor rotates them.
Starved(i) ==
    \E j \in Services : status[j] = "spinning" /\ Priority[j] > Priority[i]

Running(i) == handle[i] /\ status[i] = "live" /\ ~Starved(i)

\* A healthy task has come round to its check-in before the period is over.
OnTime == \A i \in Services : Running(i) => age[i] < LoopMax[i]

Older(n) == IF n < Cap THEN n + 1 ELSE Cap

Aged == age' = [i \in Services |-> Older(age[i])]

-----------------------------------------------------------------------------
(* The supervised tasks. *)

\* xTaskNotifyWait with no wait: without a pending notification the check-in
\* is over, otherwise the notification is taken and the flag is set next.
TakeNotification(i) ==
    /\ phase = "running" /\ Running(i) /\ pc[i] = "loop"
    /\ notified' = [notified EXCEPT ![i] = FALSE]
    /\ pc' = [pc EXCEPT ![i] = IF notified[i] THEN "credit" ELSE "loop"]
    /\ age' = [age EXCEPT ![i] = IF notified[i] THEN age[i] ELSE 0]
    /\ UNCHANGED <<phase, monitorAlive, registry, handle, restflag,
                   timercount, status, wdt, healthy, fed, silent, faulted>>

\* The flag a task sets; an unknown task_id is ignored.
SetRestflag(i) ==
    restflag' = [restflag EXCEPT ![i] = (i < serviceCount) \/ restflag[i]]

Reset_HeltMonit_service(i) ==
    /\ phase = "running" /\ Running(i) /\ pc[i] = "credit"
    /\ SetRestflag(i)
    /\ pc' = [pc EXCEPT ![i] = "loop"]
    /\ age' = [age EXCEPT ![i] = 0]
    /\ UNCHANGED <<phase, monitorAlive, registry, handle, timercount,
                   notified, status, wdt, healthy, fed, silent, faulted>>

\* While it waits for the Ethernet link, tcp_server sets its flag unasked.
CheckInDirectly(i) ==
    /\ phase = "running" /\ Running(i) /\ pc[i] = "loop"
    /\ i \in MayCheckInDirectly
    /\ SetRestflag(i)
    /\ age' = [age EXCEPT ![i] = 0]
    /\ UNCHANGED <<phase, monitorAlive, registry, handle, timercount,
                   notified, pc, status, wdt, healthy, fed, silent, faulted>>

Become(i, s) ==
    /\ status' = [status EXCEPT ![i] = s]
    /\ UNCHANGED <<phase, monitorAlive, registry, handle, restflag,
                   timercount, notified, pc, wdt, healthy, fed, age, silent>>

\* The loop body blocks: recv() or send() on a socket of a silent peer.
Stall(i) ==
    /\ phase = "running" /\ Running(i) /\ pc[i] = "loop"
    /\ i \in MayStall
    /\ Become(i, "stalled")
    /\ faulted' = TRUE

\* The loop body busy-waits: an I2C status poll with I2C_RETRY_TIMES = 0.
Spin(i) ==
    /\ phase = "running" /\ Running(i) /\ pc[i] = "loop"
    /\ i \in MaySpin
    /\ Become(i, "spinning")
    /\ faulted' = TRUE

\* What the task waited for came after all.
Resume(i) ==
    /\ phase = "running" /\ status[i] \in {"stalled", "spinning"}
    /\ Become(i, "live")
    /\ UNCHANGED faulted

\* A socket call of the server's start-up failed: vTaskDelete(NULL).  The
\* handle keeps its value, so the monitor goes on notifying the freed task.
Delete(i) ==
    /\ phase = "running" /\ Running(i) /\ pc[i] = "loop"
    /\ i \in MayDelete
    /\ Become(i, "deleted")
    /\ faulted' = TRUE

-----------------------------------------------------------------------------
(* The monitor and the watchdog. *)

\* Mutant: a check-in does not clear the counter.
CountAfter_NoClear(i) ==
    (timercount[i] + (IF restflag[i] THEN 0 ELSE PERIOD_MONITOR_TASK_MS)) % U8

\* Mutant: a delivered notification counts as a check-in.
CountAfter_NotifiedIsAlive(i) ==
    IF restflag[i] \/ notified[i] THEN 0
    ELSE (timercount[i] + PERIOD_MONITOR_TASK_MS) % U8

\* The missed-time counter of a service after an iteration, with its width.
CountAfter(i) ==
    IF restflag[i] THEN 0 ELSE (timercount[i] + PERIOD_MONITOR_TASK_MS) % U8

\* Mutant: the timeout itself is still allowed.
Expired_Strict(i) == CountAfter(i) > Timeout[i]

Expired(i) == CountAfter(i) >= Timeout[i]

\* Mutant: the refresh is missing.
WdtAfterVerdict_NoRefresh(ok) == wdt + 1

\* Only a healthy verdict refreshes the watchdog.
WdtAfterVerdict(ok) == IF ok THEN 0 ELSE wdt + 1

\* Mutant: the warning interrupt feeds the watchdog.
WdtAfterLostPeriod_FedByWarning == IF wdt + 2 >= WDT_TIMEOUT THEN 0 ELSE wdt + 1

\* The warning interrupt clears its status flags and refreshes nothing.
WdtAfterLostPeriod == wdt + 1

\* One iteration of the monitor's loop, a period after the one before.
HealthMonitor_service ==
    /\ phase = "running" /\ monitorAlive /\ OnTime
    /\ wdt < WDT_TIMEOUT
    /\ notified' = [i \in Services |-> notified[i] \/ (i \in Registered /\ handle[i])]
    /\ timercount' = [i \in Services |-> IF i \in Registered THEN CountAfter(i)
                                         ELSE timercount[i]]
    /\ restflag' = [i \in Services |-> restflag[i] /\ i \notin Registered]
    /\ healthy' = \A i \in Registered : ~Expired(i)
    /\ wdt' = WdtAfterVerdict(healthy')
    /\ fed' = (fed \/ healthy')
    /\ silent' = [i \in Services |-> IF restflag[i] THEN 0 ELSE Older(silent[i])]
    /\ Aged
    /\ UNCHANGED <<phase, monitorAlive, registry, handle, pc, status, faulted>>

\* A period passes on a board without a monitor task, or stuck in its boot.
LostPeriod ==
    /\ \/ phase = "running" /\ ~monitorAlive /\ OnTime
       \/ phase = "hung"
    /\ wdt < WDT_TIMEOUT
    /\ wdt' = WdtAfterLostPeriod
    /\ Aged
    /\ UNCHANGED <<phase, monitorAlive, registry, taskVars, healthy, fed,
                   silent, faulted>>

\* The watchdog times out just before the refresh that would be its tenth, or
\* just after it: within the period either may come first.  RAM starts afresh.
WatchdogReset ==
    /\ wdt + 1 >= WDT_TIMEOUT
    /\ phase # "poweron"
    /\ phase' = "poweron"
    /\ monitorAlive' = FALSE
    /\ serviceCount' = 0
    /\ UNCHANGED slots
    /\ handle' = [i \in Services |-> FALSE]
    /\ restflag' = [i \in Services |-> FALSE]
    /\ timercount' = [i \in Services |-> 0]
    /\ notified' = [i \in Services |-> FALSE]
    /\ pc' = [i \in Services |-> "loop"]
    /\ status' = [i \in Services |-> "live"]
    /\ wdt' = 0
    /\ healthy' = TRUE
    /\ fed' = FALSE
    /\ age' = [i \in Services |-> 0]
    /\ silent' = [i \in Services |-> 0]
    /\ faulted' = FALSE

-----------------------------------------------------------------------------
Boot ==
    \/ Init_HealthMonitor_service
    \/ Init_X_service
    \/ RegistryFull
    \/ MutexNotCreated
    \/ vTaskStartScheduler

TaskStep(i) ==
    \/ TakeNotification(i)
    \/ Reset_HeltMonit_service(i)

Next ==
    \/ Boot
    \/ BootTick
    \/ \E i \in Services :
         \/ TaskStep(i)
         \/ CheckInDirectly(i)
         \/ Stall(i)
         \/ Spin(i)
         \/ Resume(i)
         \/ Delete(i)
    \/ HealthMonitor_service
    \/ LostPeriod
    \/ WatchdogReset

Spec == Init /\ [][Next]_vars

\* main() goes on, the watchdog's clock never stops and a task that has the
\* processor comes round to its check-in.  Time diverges: a task may stall and
\* resume as often as it likes, but not infinitely often within one period.
Fairness ==
    /\ WF_vars(Boot)
    /\ SF_vars(HealthMonitor_service \/ LostPeriod)
    /\ WF_vars(WatchdogReset)
    /\ \A i \in Services : WF_vars(TaskStep(i))

FairSpec == Spec /\ Fairness

-----------------------------------------------------------------------------
(* Properties. *)

\* The monitor's verdict is never a false alarm: when an iteration finds the
\* system unhealthy, some service really has gone its whole timeout without
\* completing a check-in, whatever way its two-step check-in interleaved with
\* the monitor (HealthMonitor_service.c, the loop of lines 106-147).
AlarmHasCause ==
    [][(HealthMonitor_service /\ ~healthy') =>
         \E i \in Services : PERIOD_MONITOR_TASK_MS * age'[i] >= Timeout[i]]_vars

\* Once the monitor has refreshed the watchdog, only a fault brings a reset: a board
\* whose tasks were created and have not failed finds every task on time in every
\* iteration, in spite of the counters that the two-step check-ins leave behind
\* (HealthMonitor_service).  Before the first refresh a slow boot is reset too.
NoSpuriousReset ==
    [][phase # "poweron" /\ phase' = "poweron" /\ fed => faulted]_vars

\* As long as no counter has passed the range of a uint8_t, the verdict is exact:
\* the system is unhealthy if and only if some service has been silent for its
\* timeout (lines 117-137).
VerdictExactInRange ==
    (\A i \in Services : PERIOD_MONITOR_TASK_MS * silent[i] < U8) =>
        (healthy <=> \A i \in Services : PERIOD_MONITOR_TASK_MS * silent[i] < Timeout[i])

\* A board whose monitor task was never created, and a boot that hangs in
\* Registor_service, in HardFault_Handler or behind vTaskStartScheduler, is reset.
LostMonitorIsReset ==
    (phase = "hung" \/ (phase = "running" /\ ~monitorAlive)) ~> phase = "poweron"

\* A blocked task whose timeout fits the counter is noticed by some iteration,
\* unless it resumes or the board resets first.
StallIsNoticed ==
    \A i \in Services :
        (status[i] = "stalled" /\ Timeout[i] + PERIOD_MONITOR_TASK_MS <= U8)
            ~> (~healthy \/ status[i] # "stalled")

\* What task_config.h promises of an expired timeout, which "allows 2 missed loops
\* before reset": the board is reset unless the task resumes.
FrozenTaskIsReset ==
    \A i \in Services :
        (phase = "running" /\ status[i] \in {"stalled", "spinning"})
            ~> (phase = "poweron" \/ status[i] \notin {"stalled", "spinning"})
=============================================================================
