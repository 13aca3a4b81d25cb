------------------------- MODULE HealthMonitor_proof -------------------------
(***************************************************************************)
(* Proofs about HealthMonitor, for any number of services, any timeouts and *)
(* any priorities that satisfy the assumptions of that module.              *)
(*                                                                         *)
(* A verdict depends on how the two halves of every task's check-in have    *)
(* interleaved with the monitor, which the properties do not mention; the   *)
(* inductive invariant IInv does.                                           *)
(***************************************************************************)
EXTENDS HealthMonitor, TLAPS

USE DEF registry

\* Before the scheduler starts no task has run: flags of registered services
\* are set and nothing is pending.
BootIsFresh ==
    phase \in {"poweron", "boot"} =>
        /\ healthy /\ ~fed
        /\ phase = "poweron" => serviceCount = 0
        /\ \A i \in Services :
             /\ status[i] = "live" /\ pc[i] = "loop" /\ ~notified[i]
             /\ age[i] = 0 /\ silent[i] = 0 /\ timercount[i] = 0
             /\ i < serviceCount => restflag[i]

\* The scheduler starts only when main() has registered every service.
AllRegistered == phase = "running" => serviceCount = N

\* A created task at its check-in without a pending notification has its flag
\* set: no iteration of the monitor has passed since it last checked in.
NoLostCredit ==
    phase = "running" =>
        \A i \in Services :
            handle[i] /\ pc[i] = "loop" /\ ~notified[i] => restflag[i]

\* A counter never runs ahead of the time since the check-in.
CountBehindAge ==
    phase = "running" =>
        \A i \in Services :
            \/ restflag[i]
            \/ age[i] = Cap
            \/ timercount[i] <= PERIOD_MONITOR_TASK_MS * age[i]

\* Up to the width of the counter, it is the silence in ms.
CountIsSilence ==
    \A i \in Services :
        PERIOD_MONITOR_TASK_MS * silent[i] < U8 =>
            timercount[i] = PERIOD_MONITOR_TASK_MS * silent[i]

\* A counter that only silence moves reaches no timeout beyond its width: an
\* unhealthy verdict is that of a service whose timeout fits a uint8_t.
AlarmIsInReach ==
    ~healthy => \E i \in Services :
                    Timeout[i] < U8 /\ PERIOD_MONITOR_TASK_MS * silent[i] >= Timeout[i]

\* While nothing has failed, every task is on time, and each iteration from the
\* first on leaves the watchdog refreshed.
NominalIsOnTime ==
    ~faulted =>
        /\ phase # "hung"
        /\ phase = "running" => monitorAlive
        /\ phase = "boot" => monitorAlive
        /\ fed => wdt = 0
        /\ \A i \in Services :
             /\ status[i] = "live"
             /\ i < serviceCount => handle[i]
             /\ age[i] <= LoopMax[i]

IInv ==
    /\ TypeOK
    /\ BootIsFresh
    /\ AllRegistered
    /\ NoLostCredit
    /\ CountBehindAge
    /\ CountIsSilence
    /\ VerdictExactInRange
    /\ AlarmIsInReach
    /\ NominalIsOnTime

-----------------------------------------------------------------------------
\* What adding a period to a uint8_t counter returns (HealthMonitor_service.c
\* line 126): never above the sum, and the sum itself below the counter's width.
LEMMA Uint8Add ==
    ASSUME NEW c \in 0 .. U8 - 1
    PROVE  /\ (c + PERIOD_MONITOR_TASK_MS) % U8 \in 0 .. U8 - 1
           /\ (c + PERIOD_MONITOR_TASK_MS) % U8 <= c + PERIOD_MONITOR_TASK_MS
           /\ c + PERIOD_MONITOR_TASK_MS < U8 =>
                (c + PERIOD_MONITOR_TASK_MS) % U8 = c + PERIOD_MONITOR_TASK_MS
  BY DEF U8, PERIOD_MONITOR_TASK_MS

\* The counter of a service after an iteration stays a uint8_t (line 126).
LEMMA CountAfterType ==
    ASSUME TypeOK, NEW i \in Services
    PROVE  CountAfter(i) \in 0 .. U8 - 1
  <1>1. timercount[i] \in 0 .. U8 - 1  BY DEF TypeOK
  <1>2. 0 \in 0 .. U8 - 1  BY DEF U8
  <1> QED  BY <1>1, <1>2, Uint8Add DEF CountAfter

\* The saturating history counters stay within their bound.
LEMMA OlderType ==
    ASSUME NEW n \in 0 .. Cap
    PROVE  /\ Older(n) \in 0 .. Cap
           /\ n < Cap => Older(n) = n + 1
           /\ Older(n) = n + 1 \/ Older(n) = Cap
  BY SizesAssumption DEF Older

\* Zero is a value of every counter.
LEMMA ZeroTypes ==
    /\ 0 \in 0 .. U8 - 1 /\ 0 \in 0 .. Cap /\ 0 \in 0 .. WDT_TIMEOUT
    /\ 0 \in 0 .. N /\ \A m \in RegistrySizes : 0 <= m
  BY SizesAssumption DEF U8

-----------------------------------------------------------------------------
\* Every step of boot, of the tasks, of the monitor and of the watchdog keeps
\* every variable within its type, the counter within a uint8_t included.
LEMMA TypeStep ==
    ASSUME TypeOK, [Next]_vars
    PROVE  TypeOK'
  <1> USE SizesAssumption, TimingAssumption
  <1>1. CASE Init_HealthMonitor_service
    BY <1>1 DEF TypeOK, Init_HealthMonitor_service, taskVars, Phases
  <1>2. CASE Init_X_service
    <2>1. serviceCount' \in 0 .. N /\ serviceCount' <= slots'
      BY <1>2 DEF TypeOK, Init_X_service, Registor_service
    <2>2. restflag' \in [Services -> BOOLEAN]
      BY <1>2 DEF TypeOK, Init_X_service, Registor_service
    <2>3. handle' \in [Services -> BOOLEAN] /\ faulted' \in BOOLEAN
      BY <1>2 DEF TypeOK, Init_X_service
    <2>4. phase' \in Phases /\ slots' \in RegistrySizes
      BY <1>2 DEF TypeOK, Init_X_service, Registor_service, Phases
    <2> QED  BY <1>2, <2>1, <2>2, <2>3, <2>4 DEF TypeOK, Init_X_service
  <1>3. CASE RegistryFull
    BY <1>3 DEF TypeOK, RegistryFull, taskVars, Phases
  <1>3a. CASE MutexNotCreated
    BY <1>3a DEF TypeOK, MutexNotCreated, taskVars, Phases
  <1>4. CASE BootTick
    BY <1>4 DEF TypeOK, BootTick, taskVars, histVars
  <1>5. CASE vTaskStartScheduler
    <2>1. timercount' \in [Services -> 0 .. U8 - 1]
      BY <1>5 DEF TypeOK, vTaskStartScheduler, U8
    <2>2. phase' \in Phases /\ faulted' \in BOOLEAN
      BY <1>5 DEF TypeOK, vTaskStartScheduler, Phases
    <2> QED  BY <1>5, <2>1, <2>2 DEF TypeOK, vTaskStartScheduler
  <1>6. ASSUME NEW i \in Services, TakeNotification(i) PROVE TypeOK'
    BY <1>6 DEF TypeOK, TakeNotification
  <1>7. ASSUME NEW i \in Services, Reset_HeltMonit_service(i) PROVE TypeOK'
    BY <1>7 DEF TypeOK, Reset_HeltMonit_service, SetRestflag
  <1>8. ASSUME NEW i \in Services, CheckInDirectly(i) PROVE TypeOK'
    BY <1>8 DEF TypeOK, CheckInDirectly, SetRestflag
  <1>9. ASSUME NEW i \in Services, Stall(i) \/ Spin(i) \/ Resume(i) \/ Delete(i)
        PROVE  TypeOK'
    BY <1>9 DEF TypeOK, Stall, Spin, Resume, Delete, Become, Statuses
  <1>10. CASE HealthMonitor_service
    <2>1. timercount' \in [Services -> 0 .. U8 - 1]
      BY <1>10, CountAfterType DEF HealthMonitor_service, TypeOK
    <2>2. age' \in [Services -> 0 .. Cap] /\ silent' \in [Services -> 0 .. Cap]
      BY <1>10, OlderType DEF HealthMonitor_service, Aged, TypeOK
    <2>3. wdt' \in 0 .. WDT_TIMEOUT
      BY <1>10 DEF HealthMonitor_service, TypeOK, WdtAfterVerdict
    <2>4. healthy' \in BOOLEAN /\ fed' \in BOOLEAN
      BY <1>10 DEF HealthMonitor_service, TypeOK
    <2>5. notified' \in [Services -> BOOLEAN] /\ restflag' \in [Services -> BOOLEAN]
      BY <1>10 DEF HealthMonitor_service, TypeOK
    <2> QED  BY <1>10, <2>1, <2>2, <2>3, <2>4, <2>5 DEF HealthMonitor_service, TypeOK
  <1>11. CASE LostPeriod
    <2>1. age' \in [Services -> 0 .. Cap]
      BY <1>11, OlderType DEF LostPeriod, Aged, TypeOK
    <2>2. wdt' \in 0 .. WDT_TIMEOUT
      BY <1>11 DEF LostPeriod, TypeOK, WdtAfterLostPeriod
    <2> QED  BY <1>11, <2>1, <2>2 DEF LostPeriod, TypeOK, taskVars
  <1>12. CASE WatchdogReset
    BY <1>12, ZeroTypes DEF TypeOK, WatchdogReset, Phases, Statuses
  <1>13. CASE UNCHANGED vars
    BY <1>13 DEF TypeOK, vars, taskVars, histVars
  <1> QED
    BY <1>1, <1>2, <1>3, <1>3a, <1>4, <1>5, <1>6, <1>7, <1>8, <1>9, <1>10, <1>11,
       <1>12, <1>13 DEF Next, Boot, TaskStep

\* The initial state of every variable has its type.
LEMMA TypeInit == Init => TypeOK
  <1> SUFFICES ASSUME Init PROVE TypeOK  OBVIOUS
  <1>1. /\ phase \in Phases /\ slots \in RegistrySizes
        /\ serviceCount \in 0 .. N /\ serviceCount <= slots
    BY ZeroTypes DEF Init, Phases
  <1>2. /\ timercount \in [Services -> 0 .. U8 - 1] /\ wdt \in 0 .. WDT_TIMEOUT
        /\ age \in [Services -> 0 .. Cap] /\ silent \in [Services -> 0 .. Cap]
    BY ZeroTypes DEF Init
  <1>3. /\ monitorAlive \in BOOLEAN /\ healthy \in BOOLEAN /\ fed \in BOOLEAN /\ faulted \in BOOLEAN
        /\ handle \in [Services -> BOOLEAN] /\ restflag \in [Services -> BOOLEAN]
        /\ notified \in [Services -> BOOLEAN]
    BY DEF Init
  <1>4. /\ pc \in [Services -> {"loop", "credit"}] /\ status \in [Services -> Statuses]
    BY DEF Init, Statuses
  <1> QED  BY <1>1, <1>2, <1>3, <1>4 DEF TypeOK

\* Type correctness of the service: the registry never exceeds its slots
\* (Registor_service line 37), and counters and watchdog keep their range.
THEOREM TypeCorrect == Spec => []TypeOK
  BY TypeInit, TypeStep, PTL DEF Spec

-----------------------------------------------------------------------------
\* The initial state satisfies the inductive invariant.
LEMMA InvInit == Init => IInv
  <1> SUFFICES ASSUME Init PROVE IInv  OBVIOUS
  <1>1. TypeOK  BY TypeInit
  <1>2. BootIsFresh
    BY DEF Init, BootIsFresh, Services
  <1>3. AllRegistered /\ NoLostCredit /\ CountBehindAge
    BY DEF Init, AllRegistered, NoLostCredit, CountBehindAge
  <1>4. CountIsSilence
    BY DEF Init, CountIsSilence, PERIOD_MONITOR_TASK_MS
  <1>5. VerdictExactInRange /\ AlarmIsInReach
    BY SizesAssumption, TimingAssumption
    DEF Init, VerdictExactInRange, AlarmIsInReach, PERIOD_MONITOR_TASK_MS
  <1>6. NominalIsOnTime
    BY SizesAssumption DEF Init, NominalIsOnTime, Services
  <1> QED  BY <1>1, <1>2, <1>3, <1>4, <1>5, <1>6 DEF IInv

\* A step of main() before the scheduler runs keeps the invariant.
LEMMA InvBoot ==
    ASSUME IInv, TypeOK', Boot \/ BootTick
    PROVE  IInv'
  <1> USE SizesAssumption, TimingAssumption
  <1> USE DEF IInv
  <1>1. CASE Init_HealthMonitor_service
    <2> USE <1>1 DEF Init_HealthMonitor_service, taskVars
    <2>1. BootIsFresh'  BY DEF BootIsFresh
    <2>2. AllRegistered' /\ NoLostCredit' /\ CountBehindAge'
      BY DEF AllRegistered, NoLostCredit, CountBehindAge
    <2>3. CountIsSilence' /\ VerdictExactInRange' /\ AlarmIsInReach'
      BY DEF CountIsSilence, VerdictExactInRange, AlarmIsInReach
    <2>4. \A i \in Services : 0 <= LoopMax[i] /\ ~(i < 0)
      BY DEF Services
    <2>5. serviceCount = 0 /\ \A i \in Services : status[i] = "live" /\ age[i] = 0
      BY DEF BootIsFresh
    <2>6. NominalIsOnTime'
      <3>1. faulted' = ~monitorAlive' /\ wdt' = 0 /\ phase' = "boot"
        OBVIOUS
      <3> QED  BY <2>4, <2>5, <3>1 DEF NominalIsOnTime
    <2> QED  BY <2>1, <2>2, <2>3, <2>6
  <1>2. CASE Init_X_service
    <2> USE <1>2 DEF Init_X_service, Registor_service
    <2>1. BootIsFresh'  BY DEF BootIsFresh, TypeOK, Services
    <2>2. AllRegistered' /\ NoLostCredit' /\ CountBehindAge'
      BY DEF AllRegistered, NoLostCredit, CountBehindAge
    <2>3. CountIsSilence' /\ VerdictExactInRange' /\ AlarmIsInReach'
      BY DEF CountIsSilence, VerdictExactInRange, AlarmIsInReach
    <2>4. NominalIsOnTime'
      BY DEF NominalIsOnTime, TypeOK, Services
    <2> QED  BY <2>1, <2>2, <2>3, <2>4
  <1>3. CASE RegistryFull
    <2> USE <1>3 DEF RegistryFull, taskVars
    <2>1. BootIsFresh' /\ AllRegistered' /\ NoLostCredit' /\ CountBehindAge'
      BY DEF BootIsFresh, AllRegistered, NoLostCredit, CountBehindAge
    <2>2. CountIsSilence' /\ VerdictExactInRange' /\ AlarmIsInReach'
      BY DEF CountIsSilence, VerdictExactInRange, AlarmIsInReach
    <2>3. NominalIsOnTime'  BY DEF NominalIsOnTime
    <2> QED  BY <2>1, <2>2, <2>3
  <1>3a. CASE MutexNotCreated
    <2> USE <1>3a DEF MutexNotCreated, taskVars
    <2>1. BootIsFresh' /\ AllRegistered' /\ NoLostCredit' /\ CountBehindAge'
      BY DEF BootIsFresh, AllRegistered, NoLostCredit, CountBehindAge
    <2>2. CountIsSilence' /\ VerdictExactInRange' /\ AlarmIsInReach'
      BY DEF CountIsSilence, VerdictExactInRange, AlarmIsInReach
    <2>3. NominalIsOnTime'  BY DEF NominalIsOnTime
    <2> QED  BY <2>1, <2>2, <2>3
  <1>4. CASE BootTick
    <2> USE <1>4 DEF BootTick, taskVars, histVars
    <2>1. BootIsFresh' /\ AllRegistered' /\ NoLostCredit' /\ CountBehindAge'
      BY DEF BootIsFresh, AllRegistered, NoLostCredit, CountBehindAge
    <2>2. CountIsSilence' /\ VerdictExactInRange' /\ AlarmIsInReach'
      BY DEF CountIsSilence, VerdictExactInRange, AlarmIsInReach
    <2>3. NominalIsOnTime'  BY DEF NominalIsOnTime, BootIsFresh
    <2> QED  BY <2>1, <2>2, <2>3
  <1>5. CASE vTaskStartScheduler
    <2> USE <1>5 DEF vTaskStartScheduler
    <2>0. \A i \in Services : i < serviceCount
      BY DEF Services
    <2>1. BootIsFresh' /\ AllRegistered'
      BY DEF BootIsFresh, AllRegistered
    <2>2. NoLostCredit' /\ CountBehindAge'
      BY <2>0 DEF BootIsFresh, NoLostCredit, CountBehindAge
    <2>3. CountIsSilence' /\ VerdictExactInRange' /\ AlarmIsInReach'
      BY DEF BootIsFresh, CountIsSilence, VerdictExactInRange,
             AlarmIsInReach, PERIOD_MONITOR_TASK_MS
    <2>4. NominalIsOnTime'  BY DEF NominalIsOnTime
    <2> QED  BY <2>1, <2>2, <2>3, <2>4
  <1> QED  BY <1>1, <1>2, <1>3, <1>3a, <1>4, <1>5 DEF Boot

\* A task's check-in, and a task that blocks, spins, resumes or dies, keep the
\* invariant.
LEMMA InvTask ==
    ASSUME IInv, TypeOK', NEW i \in Services,
           \/ TaskStep(i) \/ CheckInDirectly(i)
           \/ Stall(i) \/ Spin(i) \/ Resume(i) \/ Delete(i)
    PROVE  IInv'
  <1> USE SizesAssumption, TimingAssumption
  <1> USE DEF IInv
  <1>1. CASE TakeNotification(i)
    <2> USE <1>1 DEF TakeNotification
    <2>1. BootIsFresh' /\ AllRegistered'
      BY DEF BootIsFresh, AllRegistered
    <2>2. NoLostCredit'
      BY DEF NoLostCredit, TypeOK, Running
    <2>3. CountBehindAge'
      BY DEF NoLostCredit, CountBehindAge, TypeOK, Running
    <2>4. CountIsSilence' /\ VerdictExactInRange' /\ AlarmIsInReach'
      BY DEF CountIsSilence, VerdictExactInRange, AlarmIsInReach
    <2>5. \A j \in Services : age'[j] = age[j] \/ (age'[j] = 0 /\ 0 <= LoopMax[j])
      BY DEF TypeOK
    <2>6. NominalIsOnTime'
      BY <2>5 DEF NominalIsOnTime
    <2> QED  BY <2>1, <2>2, <2>3, <2>4, <2>6
  <1>2. CASE Reset_HeltMonit_service(i) \/ CheckInDirectly(i)
    <2> USE <1>2 DEF Reset_HeltMonit_service, CheckInDirectly, SetRestflag
    <2>0. i < serviceCount  BY DEF AllRegistered, Services
    <2>a. restflag' = [restflag EXCEPT ![i] = TRUE]
      BY <2>0
    <2>1. BootIsFresh' /\ AllRegistered'
      BY DEF BootIsFresh, AllRegistered
    <2>2. NoLostCredit'
      BY <2>a DEF NoLostCredit, TypeOK
    <2>3. CountBehindAge'
      BY <2>a DEF CountBehindAge, TypeOK
    <2>4. CountIsSilence' /\ VerdictExactInRange' /\ AlarmIsInReach'
      BY DEF CountIsSilence, VerdictExactInRange, AlarmIsInReach
    <2>5. \A j \in Services : age'[j] = age[j] \/ (age'[j] = 0 /\ 0 <= LoopMax[j])
      BY DEF TypeOK
    <2>6. NominalIsOnTime'
      BY <2>5 DEF NominalIsOnTime
    <2> QED  BY <2>1, <2>2, <2>3, <2>4, <2>6
  <1>3. CASE Stall(i) \/ Spin(i) \/ Resume(i) \/ Delete(i)
    <2> USE <1>3 DEF Stall, Spin, Resume, Delete, Become
    <2>1. BootIsFresh' /\ AllRegistered' /\ NoLostCredit' /\ CountBehindAge'
      BY DEF BootIsFresh, AllRegistered, NoLostCredit, CountBehindAge
    <2>2. CountIsSilence' /\ VerdictExactInRange' /\ AlarmIsInReach'
      BY DEF CountIsSilence, VerdictExactInRange, AlarmIsInReach
    <2>3. NominalIsOnTime'
      <3>1. CASE Resume(i)
        <4>1. status[i] # "live" /\ faulted' = faulted  BY <3>1
        <4>2. faulted'  BY <4>1 DEF NominalIsOnTime, TypeOK
        <4> QED  BY <4>2 DEF NominalIsOnTime
      <3>2. CASE Stall(i) \/ Spin(i) \/ Delete(i)
        <4>1. faulted'  BY <3>2
        <4> QED  BY <4>1 DEF NominalIsOnTime
      <3> QED  BY <3>1, <3>2
    <2> QED  BY <2>1, <2>2, <2>3
  <1> QED  BY <1>1, <1>2, <1>3 DEF TaskStep

-----------------------------------------------------------------------------
\* What an iteration of the monitor leaves in a counter (lines 117-127): at most
\* the time since the check-in, and in range exactly the silence.
LEMMA IterationCounts ==
    ASSUME IInv, HealthMonitor_service, NEW i \in Services
    PROVE  /\ timercount'[i] = CountAfter(i)
           /\ age'[i] = Cap \/ CountAfter(i) <= PERIOD_MONITOR_TASK_MS * age'[i]
           /\ PERIOD_MONITOR_TASK_MS * silent'[i] < U8 =>
                CountAfter(i) = PERIOD_MONITOR_TASK_MS * silent'[i]
  <1> USE SizesAssumption, TimingAssumption
  <1>1. i \in Registered
    BY DEF IInv, HealthMonitor_service, AllRegistered, Registered, Services
  <1>2. timercount'[i] = CountAfter(i)
    BY <1>1 DEF HealthMonitor_service
  <1>3. /\ timercount[i] \in 0 .. U8 - 1 /\ age[i] \in 0 .. Cap /\ silent[i] \in 0 .. Cap
        /\ age'[i] = Older(age[i])
        /\ silent'[i] = IF restflag[i] THEN 0 ELSE Older(silent[i])
    BY DEF IInv, TypeOK, HealthMonitor_service, Aged
  <1>4. age'[i] = Cap \/ age'[i] = age[i] + 1
    BY <1>3, OlderType
  <1>5. CASE restflag[i]
    <2>1. CountAfter(i) = 0 /\ silent'[i] = 0
      BY <1>3, <1>5 DEF CountAfter
    <2> QED  BY <1>2, <1>3, <1>4, <2>1 DEF PERIOD_MONITOR_TASK_MS
  <1>6. CASE ~restflag[i]
    <2>1. CountAfter(i) = (timercount[i] + PERIOD_MONITOR_TASK_MS) % U8
      BY <1>6 DEF CountAfter
    <2>2. age[i] = Cap \/ timercount[i] <= PERIOD_MONITOR_TASK_MS * age[i]
      BY <1>6 DEF IInv, CountBehindAge, HealthMonitor_service
    <2>3. age'[i] = Cap \/ CountAfter(i) <= PERIOD_MONITOR_TASK_MS * age'[i]
      <3>1. CASE age[i] = Cap
        BY <1>3, <3>1 DEF Older
      <3>2. CASE age[i] # Cap
        BY <1>3, <1>4, <2>1, <2>2, <3>2, Uint8Add DEF PERIOD_MONITOR_TASK_MS
      <3> QED  BY <3>1, <3>2
    <2>4. ASSUME PERIOD_MONITOR_TASK_MS * silent'[i] < U8
          PROVE  CountAfter(i) = PERIOD_MONITOR_TASK_MS * silent'[i]
      <3>1. silent'[i] = silent[i] + 1
        <4>1. silent'[i] # Cap  BY <2>4 DEF PERIOD_MONITOR_TASK_MS, U8
        <4> QED  BY <1>3, <1>6, <4>1, OlderType
      <3>2. timercount[i] = PERIOD_MONITOR_TASK_MS * silent[i]
        BY <1>3, <2>4, <3>1 DEF IInv, CountIsSilence, PERIOD_MONITOR_TASK_MS, U8
      <3> QED  BY <1>3, <2>1, <2>4, <3>1, <3>2, Uint8Add DEF PERIOD_MONITOR_TASK_MS
    <2> QED  BY <1>2, <2>3, <2>4
  <1> QED  BY <1>5, <1>6 DEF IInv, TypeOK

\* A verdict is reached over the counters of all services (lines 129-137).
LEMMA VerdictOfAll ==
    ASSUME IInv, HealthMonitor_service
    PROVE  healthy' = \A i \in Services : ~(CountAfter(i) >= Timeout[i])
  <1>1. Registered = Services
    BY SizesAssumption
    DEF IInv, HealthMonitor_service, AllRegistered, Registered, Services
  <1> QED  BY <1>1 DEF HealthMonitor_service, Expired

\* On a board where nothing has failed, an iteration finds every task on time
\* and refreshes the watchdog (lines 139-141).
LEMMA NominalIsHealthy ==
    ASSUME IInv, HealthMonitor_service, ~faulted
    PROVE  /\ healthy'
           /\ \A i \in Services : age'[i] <= LoopMax[i]
  <1> USE SizesAssumption, TimingAssumption
  <1>1. \A i \in Services : Running(i)
    BY DEF IInv, NominalIsOnTime, HealthMonitor_service, AllRegistered, Running,
           Starved, Services
  <1>2. ASSUME NEW i \in Services
        PROVE  age'[i] <= LoopMax[i] /\ ~(CountAfter(i) >= Timeout[i])
    <2>1. age[i] \in 0 .. Cap /\ age[i] < LoopMax[i] /\ age'[i] = Older(age[i])
      BY <1>1 DEF IInv, TypeOK, HealthMonitor_service, OnTime, Aged
    <2>2. age'[i] = age[i] + 1
      BY <2>1, OlderType
    <2>3. CountAfter(i) <= PERIOD_MONITOR_TASK_MS * age'[i]
      BY <2>1, <2>2, IterationCounts
    <2>4. CountAfter(i) \in Nat
      BY CountAfterType DEF IInv, U8
    <2> QED  BY <2>1, <2>2, <2>3, <2>4 DEF PERIOD_MONITOR_TASK_MS
  <1> QED  BY <1>2, VerdictOfAll

\* An iteration of the monitor keeps the invariant.
LEMMA InvMonitor ==
    ASSUME IInv, TypeOK', HealthMonitor_service
    PROVE  IInv'
  <1> USE SizesAssumption, TimingAssumption
  <1>1. BootIsFresh' /\ AllRegistered'
    BY DEF IInv, HealthMonitor_service, BootIsFresh, AllRegistered
  <1>2. NoLostCredit'
    BY DEF IInv, HealthMonitor_service, AllRegistered, NoLostCredit, Registered, Services
  <1>3. CountBehindAge'
    BY IterationCounts DEF CountBehindAge
  <1>4. CountIsSilence'
    BY IterationCounts DEF CountIsSilence
  <1>5. VerdictExactInRange'
    <2> SUFFICES ASSUME \A i \in Services : PERIOD_MONITOR_TASK_MS * silent'[i] < U8
                 PROVE  healthy' <=> \A i \in Services :
                                       PERIOD_MONITOR_TASK_MS * silent'[i] < Timeout[i]
      BY DEF VerdictExactInRange
    <2>1. \A i \in Services : CountAfter(i) = PERIOD_MONITOR_TASK_MS * silent'[i]
      BY IterationCounts
    <2>2. \A i \in Services : CountAfter(i) \in Nat
      BY CountAfterType DEF IInv, U8
    <2>3. \A i \in Services :
            ~(CountAfter(i) >= Timeout[i]) <=> CountAfter(i) < Timeout[i]
      BY <2>2
    <2> QED  BY <2>1, <2>3, VerdictOfAll
  <1>6. AlarmIsInReach'
    <2> SUFFICES ASSUME ~healthy'
                 PROVE  \E i \in Services : /\ Timeout[i] < U8
                                            /\ PERIOD_MONITOR_TASK_MS * silent'[i] >= Timeout[i]
      BY DEF AlarmIsInReach
    <2>1. PICK i \in Services : CountAfter(i) >= Timeout[i]
      BY VerdictOfAll
    <2>2. Timeout[i] < U8
      BY <2>1, CountAfterType DEF IInv, U8
    <2>3. silent'[i] \in 0 .. Cap
      BY DEF TypeOK
    <2>4. PERIOD_MONITOR_TASK_MS * silent'[i] >= Timeout[i]
      <3>1. CASE PERIOD_MONITOR_TASK_MS * silent'[i] < U8
        BY <2>1, <3>1, IterationCounts
      <3>2. CASE ~(PERIOD_MONITOR_TASK_MS * silent'[i] < U8)
        BY <2>2, <2>3, <3>2 DEF PERIOD_MONITOR_TASK_MS, U8
      <3> QED  BY <3>1, <3>2
    <2> QED  BY <2>2, <2>4
  <1>7. NominalIsOnTime'
    <2> SUFFICES ASSUME ~faulted' PROVE NominalIsOnTime'
      BY DEF NominalIsOnTime
    <2>1. ~faulted /\ NominalIsOnTime
      BY DEF HealthMonitor_service, IInv
    <2>2. wdt' = 0 /\ \A i \in Services : age'[i] <= LoopMax[i]
      BY <2>1, NominalIsHealthy DEF HealthMonitor_service, WdtAfterVerdict
    <2>3. /\ phase' = phase /\ monitorAlive' = monitorAlive /\ status' = status
          /\ handle' = handle /\ serviceCount' = serviceCount
      BY DEF HealthMonitor_service
    <2> QED  BY <2>1, <2>2, <2>3 DEF NominalIsOnTime
  <1> QED  BY <1>1, <1>2, <1>3, <1>4, <1>5, <1>6, <1>7 DEF IInv

\* A period the monitor misses, and a reset, keep the invariant.
LEMMA InvWatchdog ==
    ASSUME IInv, TypeOK', LostPeriod \/ WatchdogReset
    PROVE  IInv'
  <1> USE SizesAssumption, TimingAssumption
  <1> USE DEF IInv
  <1>1. CASE LostPeriod
    <2> USE <1>1 DEF LostPeriod, taskVars
    <2>1. BootIsFresh' /\ AllRegistered' /\ NoLostCredit'
      BY DEF BootIsFresh, AllRegistered, NoLostCredit
    <2>2. CountBehindAge'
      <3> SUFFICES ASSUME phase = "running", NEW i \in Services, ~restflag[i]
                   PROVE  age'[i] = Cap \/ timercount[i] <= PERIOD_MONITOR_TASK_MS * age'[i]
        BY DEF CountBehindAge
      <3>1. age[i] \in 0 .. Cap /\ timercount[i] \in 0 .. U8 - 1 /\ age'[i] = Older(age[i])
        BY DEF TypeOK, Aged
      <3>2. age[i] = Cap \/ timercount[i] <= PERIOD_MONITOR_TASK_MS * age[i]
        BY DEF CountBehindAge
      <3>3. age'[i] = Cap \/ (age[i] # Cap /\ age'[i] = age[i] + 1)
        BY <3>1 DEF Older
      <3> QED  BY <3>1, <3>2, <3>3 DEF PERIOD_MONITOR_TASK_MS, U8
    <2>3. CountIsSilence' /\ VerdictExactInRange' /\ AlarmIsInReach'
      BY DEF CountIsSilence, VerdictExactInRange, AlarmIsInReach
    <2>4. faulted'
      BY DEF NominalIsOnTime, TypeOK
    <2>5. NominalIsOnTime'  BY <2>4 DEF NominalIsOnTime
    <2> QED  BY <2>1, <2>2, <2>3, <2>5
  <1>2. CASE WatchdogReset
    <2> USE <1>2 DEF WatchdogReset
    <2>1. BootIsFresh'  BY DEF BootIsFresh, Services
    <2>2. AllRegistered' /\ NoLostCredit' /\ CountBehindAge'
      BY DEF AllRegistered, NoLostCredit, CountBehindAge
    <2>3. CountIsSilence'
      BY DEF CountIsSilence, PERIOD_MONITOR_TASK_MS
    <2>4. VerdictExactInRange' /\ AlarmIsInReach'
      BY DEF VerdictExactInRange, AlarmIsInReach, PERIOD_MONITOR_TASK_MS
    <2>5. NominalIsOnTime'
      BY DEF NominalIsOnTime, Services
    <2> QED  BY <2>1, <2>2, <2>3, <2>4, <2>5
  <1> QED  BY <1>1, <1>2

\* Every step keeps the inductive invariant.
LEMMA InvStep ==
    ASSUME IInv, [Next]_vars
    PROVE  IInv'
  <1>1. TypeOK'  BY TypeStep DEF IInv
  <1>2. CASE UNCHANGED vars
    BY <1>2 DEF vars, taskVars, histVars, IInv, TypeOK, BootIsFresh, AllRegistered,
       NoLostCredit, CountBehindAge, CountIsSilence, VerdictExactInRange,
       AlarmIsInReach, NominalIsOnTime
  <1>3. CASE Next
    BY <1>1, <1>3, InvBoot, InvTask, InvMonitor, InvWatchdog DEF Next
  <1> QED  BY <1>2, <1>3

\* The inductive invariant holds in every reachable state of the service.
THEOREM Invariance == Spec => []IInv
  BY InvInit, InvStep, PTL DEF Spec

-----------------------------------------------------------------------------
(* What the invariant says of the service. *)

\* For any services and timeouts: as long as the silence of every service is
\* within the uint8_t range, the monitor's verdict (lines 117-137) is exact.
THEOREM VerdictExact == Spec => []VerdictExactInRange
  <1>1. IInv => VerdictExactInRange  BY DEF IInv
  <1> QED  BY <1>1, Invariance, PTL

\* Whose silence the monitor can see at all (lines 126, 129): for any services and
\* timeouts, an unhealthy verdict is always that of a service whose timeout is at
\* most 255 ms, so five of the six in the program never raise an alarm.
THEOREM OnlyReachableTimeoutsAlarm == Spec => []AlarmIsInReach
  <1>1. IInv => AlarmIsInReach  BY DEF IInv
  <1> QED  BY <1>1, Invariance, PTL

\* For any services, timeouts and interleaving of check-ins: an unhealthy verdict
\* (line 130) means that some service has not checked in for its whole timeout.
THEOREM NoFalseAlarm == Spec => AlarmHasCause
  <1>1. ASSUME IInv, [Next]_vars
        PROVE  [(HealthMonitor_service /\ ~healthy') =>
                  \E i \in Services : PERIOD_MONITOR_TASK_MS * age'[i] >= Timeout[i]]_vars
    <2> SUFFICES ASSUME HealthMonitor_service, ~healthy'
                 PROVE  \E i \in Services : PERIOD_MONITOR_TASK_MS * age'[i] >= Timeout[i]
      OBVIOUS
    <2>1. PICK i \in Services : CountAfter(i) >= Timeout[i]
      BY <1>1, VerdictOfAll
    <2>2. age'[i] = Cap \/ CountAfter(i) <= PERIOD_MONITOR_TASK_MS * age'[i]
      BY <1>1, IterationCounts
    <2>3. CountAfter(i) \in 0 .. U8 - 1 /\ age'[i] \in 0 .. Cap
      BY <1>1, CountAfterType, TypeStep DEF IInv, TypeOK
    <2>4. PERIOD_MONITOR_TASK_MS * age'[i] >= Timeout[i]
      BY <2>1, <2>2, <2>3, SizesAssumption, TimingAssumption
      DEF PERIOD_MONITOR_TASK_MS, U8
    <2> QED  BY <2>4
  <1> QED  BY <1>1, Invariance, PTL DEF Spec, AlarmHasCause

\* For any services and timeouts: from the monitor's first refresh (line 141) on,
\* the watchdog never resets a board on which every task was created and none has
\* failed.
THEOREM NoResetWithoutFault == Spec => NoSpuriousReset
  <1>1. ASSUME IInv, [Next]_vars
        PROVE  [phase # "poweron" /\ phase' = "poweron" /\ fed => faulted]_vars
    <2> SUFFICES ASSUME phase # "poweron", phase' = "poweron", fed
                 PROVE  faulted
      OBVIOUS
    <2>1. WatchdogReset
      BY <1>1 DEF Next, vars, Boot, Init_HealthMonitor_service, Init_X_service,
         RegistryFull, MutexNotCreated, vTaskStartScheduler, BootTick, TaskStep,
         TakeNotification, Reset_HeltMonit_service, CheckInDirectly, Stall, Spin,
         Resume, Delete, Become, HealthMonitor_service, LostPeriod
    <2>2. wdt \in Nat /\ wdt + 1 >= WDT_TIMEOUT /\ faulted \in BOOLEAN
      BY <1>1, <2>1, SizesAssumption DEF WatchdogReset, IInv, TypeOK
    <2>3. wdt # 0
      BY <2>2, SizesAssumption, TimingAssumption
    <2> QED  BY <1>1, <2>2, <2>3 DEF IInv, NominalIsOnTime
  <1> QED  BY <1>1, Invariance, PTL DEF Spec, NoSpuriousReset
=============================================================================
