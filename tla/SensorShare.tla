------------------------------ MODULE SensorShare ------------------------------
(***************************************************************************)
(* The path of a reading from the sensors to the browser: three tasks of    *)
(* different priority, three globals and a mutex.                           *)
(*                                                                         *)
(* The analog task writes temp, pressure and the RTC time t field by field  *)
(* and without a lock.  The main application, of higher priority, copies     *)
(* them into g_sensor_data under g_sensor_mutex; the HTTP handler, of lower  *)
(* priority, copies g_sensor_data under the same mutex.  A task takes a step *)
(* only when no ready task has a higher priority; the FreeRTOS kernel lends   *)
(* the holder of a mutex the priority of the task that waits for it.         *)
(*                                                                         *)
(* Time is counted in units of 10 ms, the timeout of the main application's  *)
(* xSemaphoreTake.  A section that only copies and formats is shorter than   *)
(* a unit of processor time, so at most one unit boundary falls into it.     *)
(***************************************************************************)
EXTENDS Conversions

CONSTANTS
    Period,       \* period of the main application and of the analog task
    AnalogPhase,  \* when within the period the analog task wakes
    AnalogTime,   \* units a pass of the analog task may take
    Samples,      \* measurements are numbered 1..Samples, then from 1 again
    BootTimes,    \* second of the hour the RTC may show when it is first read:
                  \* the compile time, or the time it kept when setting it failed
    MaxSeconds,   \* bound: seconds the RTC advances
    MaxDue,       \* bound: wake-ups the analog task may be behind
    Lending       \* the semaphores considered: one that lends priority (a mutex)
                  \* is TRUE, one that does not is FALSE

ASSUME ShareAssumption ==
    /\ Period \in Nat \ {0} /\ AnalogPhase \in 0..(Period - 1) /\ AnalogTime \in Nat
    /\ Samples \in Nat \ {0}
    /\ BootTimes \subseteq 0..3599 /\ BootTimes # {} /\ MaxSeconds \in Nat
    /\ MaxDue \in Nat \ {0} /\ Lending \subseteq BOOLEAN

VARIABLES
    pc,             \* where each task is
    due,            \* wake-ups of each periodic task not yet taken
    phase,          \* units since the main application's wake-up
    used,           \* units since the analog task's current pass fell due
    late,           \* a unit boundary fell into the current copying section
    calibrated,     \* BMP280_Init has read the calibration block
    sample,         \* measurement the BMP280's registers hold
    boot, rtc,      \* second of the hour of the first and of the last RTC time read
    temp, pressure, t,
    args,           \* temp_val, press_val
    holder,         \* the task that holds g_sensor_mutex
    wait,           \* units until xSemaphoreTake gives up
    g_sensor_data, snap,
    published,      \* what the last completed update left in g_sensor_data
    lends           \* g_sensor_mutex lends its holder the priority of a waiting task

taskVars == <<pc, due, phase, used, late>>
deviceVars == <<calibrated, sample, boot, rtc, temp, pressure, t>>
webVars == <<args, holder, wait, g_sensor_data, snap, published, lends>>
vars == <<taskVars, deviceVars, webVars>>

Tasks == {"MainApp", "Analog", "Http"}
NoTask == "none"

NotRead == -1

Readings == [temp : 0..(Samples + 1), pressure : 0..(Samples + 1), min : 0..59, sec : 0..59]
Zeroed == [temp |-> 0, pressure |-> 0, min |-> 0, sec |-> 0]

\* What WebService_Init publishes, 99.99 and 999 at a time that is still zero: no
\* measurement has these values.
Placeholder == [Zeroed EXCEPT !.temp = Samples + 1, !.pressure = Samples + 1]

Points == [MainApp |-> {"sleep", "take", "blocked", "timedout", "write", "stamp", "give"},
           Analog  |-> {"sleep", "measure", "temp", "pressure", "time", "sec", "min"},
           Http    |-> {"idle", "take", "blocked", "timedout", "copy", "stamp", "give", "send"}]

TypeOK ==
    /\ pc \in [Tasks -> UNION {Points[x] : x \in Tasks}]
    /\ \A x \in Tasks : pc[x] \in Points[x]
    /\ due \in [{"MainApp", "Analog"} -> 0..MaxDue]
    /\ phase \in 0..(Period - 1) /\ used \in 0..AnalogTime /\ late \in BOOLEAN
    /\ calibrated \in BOOLEAN /\ sample \in 0..Samples
    /\ boot \in BootTimes /\ rtc \in {NotRead} \cup (boot..(boot + MaxSeconds))
    /\ temp \in 0..Samples /\ pressure \in 0..Samples
    /\ t \in [min : 0..59, sec : 0..59]
    /\ args \in [temp : 0..Samples, pressure : 0..Samples]
    /\ holder \in Tasks \cup {NoTask} /\ wait \in 0..5
    /\ {g_sensor_data, snap, published} \subseteq Readings
    /\ lends \in Lending

\* The scheduler starts with both periodic tasks ready.  Nothing was measured:
\* the globals are zero and WebService_Init has published its placeholder.  Of
\* Init_Analog_service's two steps either may have failed: BMP280_Init leaves the
\* calibration zero, RTC_SetFromCompileTime the time the RTC kept.
Init ==
    /\ pc = [MainApp |-> "sleep", Analog |-> "sleep", Http |-> "idle"]
    /\ due = [MainApp |-> 1, Analog |-> IF AnalogPhase = 0 THEN 1 ELSE 0]
    /\ phase = 0 /\ used = 0 /\ late = FALSE
    /\ calibrated \in BOOLEAN /\ sample = 0
    /\ boot \in BootTimes /\ rtc = NotRead
    /\ temp = 0 /\ pressure = 0 /\ t = [min |-> 0, sec |-> 0]
    /\ args = [temp |-> 0, pressure |-> 0]
    /\ holder = NoTask /\ wait = 0
    /\ g_sensor_data = Placeholder /\ snap = Zeroed /\ published = Placeholder
    /\ lends \in Lending

-----------------------------------------------------------------------------
(* The scheduler. *)

Ready(x) ==
    \/ x # "Http" /\ (pc[x] = "sleep" => due[x] > 0) /\ pc[x] # "blocked"
    \/ x = "Http" /\ pc[x] \notin {"idle", "blocked"}

BasePriority == [MainApp |-> 17, Analog |-> 16, Http |-> 14]

\* Mutant: the guard of g_sensor_data is a plain binary semaphore.
Priority_NotLent(x) == BasePriority[x]

\* The priority a task runs at, lent priority included.
Priority(x) ==
    IF lends /\ x = holder /\ \E y \in Tasks : pc[y] = "blocked"
    THEN BasePriority["MainApp"] ELSE BasePriority[x]

Runs(x) == Ready(x) /\ \A y \in Tasks : Ready(y) => Priority(y) =< Priority(x)

\* Copying under the mutex, and all of the main application's pass.
Copying(x) == x = "MainApp" \/ x = holder

Goto(x, p) == pc' = [pc EXCEPT ![x] = p]

\* A unit of time passes.  The analog task's pass may last; a copying section
\* sees at most one boundary.  The wake-ups of vTaskDelayUntil fall due and a
\* take that has waited its time gives up.
Tick ==
    LET now == (phase + 1) % Period
        wakes == {x \in {"MainApp", "Analog"} :
                     now = IF x = "MainApp" THEN 0 ELSE AnalogPhase}
    IN
    /\ \A x \in Tasks : Runs(x) /\ Copying(x) => ~late
    /\ Ready("Analog") => used < AnalogTime
    /\ \A x \in wakes : due[x] < MaxDue
    /\ phase' = now
    /\ due' = [x \in DOMAIN due |-> IF x \in wakes THEN due[x] + 1 ELSE due[x]]
    /\ used' = IF Ready("Analog") THEN used + 1 ELSE used
    /\ late' = (late \/ \E x \in Tasks : Runs(x) /\ Copying(x))
    /\ wait' = IF wait = 0 THEN 0 ELSE wait - 1
    /\ pc' = [x \in Tasks |-> IF pc[x] = "blocked" /\ wait = 1 THEN "timedout" ELSE pc[x]]
    /\ UNCHANGED <<deviceVars, args, holder, g_sensor_data, snap, published, lends>>

Begin(x, p) ==
    /\ Runs(x) /\ pc[x] = "sleep"
    /\ due' = [due EXCEPT ![x] = @ - 1]
    /\ Goto(x, p)

-----------------------------------------------------------------------------
(* Analog_TASK: BMP280_ReadTempPressure, then DS3231_ReadTime. *)

\* vTaskDelayUntil: the pass is over.
EndAnalog == Goto("Analog", "sleep") /\ used' = 0

\* The DS3231's minute and second registers, which count in decimal digits.
Registers(n) == [min |-> dec2bcd((n \div 60) % 60), sec |-> dec2bcd(n % 60)]

\* What DS3231_ReadTime stores of them.
Fields(n) == [min |-> bcd2dec(Registers(n).min % 128), sec |-> bcd2dec(Registers(n).sec % 128)]

\* BMP280_CompensateTemp and BMP280_CompensatePressure: with a zero calibration
\* both formulas give 0 whatever the device measured.
Compensate(n) == IF calibrated THEN n ELSE 0

BeginAnalog ==
    /\ Begin("Analog", "measure")
    /\ UNCHANGED <<phase, used, late, deviceVars, webVars>>

\* Trigger, wait and read the registers.  The trigger's result is not looked at:
\* without it the registers hold the measurement before.  On an error of the read
\* temp and pressure stay.
Measure ==
    /\ Runs("Analog") /\ pc["Analog"] = "measure"
    /\ \/ sample' \in {sample, (sample % Samples) + 1} /\ Goto("Analog", "temp")
       \/ sample' = sample /\ Goto("Analog", "time")
    /\ UNCHANGED <<due, phase, used, late, calibrated, boot, rtc, temp, pressure, t, webVars>>

WriteTemp ==
    /\ Runs("Analog") /\ pc["Analog"] = "temp"
    /\ temp' = Compensate(sample)
    /\ Goto("Analog", "pressure")
    /\ UNCHANGED <<due, phase, used, late, calibrated, sample, boot, rtc, pressure, t, webVars>>

WritePressure ==
    /\ Runs("Analog") /\ pc["Analog"] = "pressure"
    /\ pressure' = Compensate(sample)
    /\ Goto("Analog", "time")
    /\ UNCHANGED <<due, phase, used, late, calibrated, sample, boot, rtc, temp, t, webVars>>

\* The transfer of the time registers, at most a second after the last one; on
\* an error t stays.
ReadTime ==
    /\ Runs("Analog") /\ pc["Analog"] = "time"
    /\ \/ /\ IF rtc = NotRead
             THEN rtc' = boot
             ELSE \E d \in {0, 1} : rtc' = rtc + d /\ rtc' =< boot + MaxSeconds
          /\ Goto("Analog", "sec") /\ used' = used
       \/ rtc' = rtc /\ EndAnalog
    /\ UNCHANGED <<due, phase, late, calibrated, sample, boot, temp, pressure, t, webVars>>

WriteSec ==
    /\ Runs("Analog") /\ pc["Analog"] = "sec"
    /\ t' = [t EXCEPT !.sec = Fields(rtc).sec]
    /\ Goto("Analog", "min")
    /\ UNCHANGED <<due, phase, used, late, calibrated, sample, boot, rtc, temp, pressure, webVars>>

\* Mutant: only the seconds are updated.
WriteMin_Forgotten ==
    /\ Runs("Analog") /\ pc["Analog"] = "min"
    /\ EndAnalog
    /\ UNCHANGED <<due, phase, late, deviceVars, webVars>>

WriteMin ==
    /\ Runs("Analog") /\ pc["Analog"] = "min"
    /\ t' = [t EXCEPT !.min = Fields(rtc).min]
    /\ EndAnalog
    /\ UNCHANGED <<due, phase, late, calibrated, sample, boot, rtc, temp, pressure, webVars>>

-----------------------------------------------------------------------------
(* g_sensor_mutex, for its two users. *)

FirstPoint(x) == IF x = "MainApp" THEN "write" ELSE "copy"
TakeTimeout(x) == IF x = "MainApp" THEN 1 ELSE 5

\* Mutant: the HTTP task reads without the mutex.
Take_HttpWithout(x) ==
    /\ Runs(x) /\ pc[x] = "take"
    /\ x = "Http" \/ holder = NoTask
    /\ holder' = IF x = "Http" THEN holder ELSE x
    /\ Goto(x, FirstPoint(x))
    /\ UNCHANGED <<due, phase, used, late, deviceVars, args, wait,
                   g_sensor_data, snap, published, lends>>

\* A take that has timed out still succeeds if the mutex is free by then.
Take(x) ==
    /\ Runs(x) /\ pc[x] \in {"take", "timedout"} /\ holder = NoTask
    /\ holder' = x
    /\ Goto(x, FirstPoint(x))
    /\ UNCHANGED <<due, phase, used, late, deviceVars, args, wait,
                   g_sensor_data, snap, published, lends>>

Block(x) ==
    /\ Runs(x) /\ pc[x] = "take" /\ holder # NoTask
    /\ wait' = TakeTimeout(x)
    /\ Goto(x, "blocked")
    /\ UNCHANGED <<due, phase, used, late, deviceVars, args, holder,
                   g_sensor_data, snap, published, lends>>

\* The main application skips its update, the HTTP task serves zeros.
GiveUp(x) ==
    /\ Runs(x) /\ pc[x] = "timedout" /\ holder # NoTask
    /\ snap' = IF x = "Http" THEN Zeroed ELSE snap
    /\ Goto(x, IF x = "Http" THEN "send" ELSE "sleep")
    /\ UNCHANGED <<due, phase, used, late, deviceVars, args, holder, wait,
                   g_sensor_data, published, lends>>

\* xSemaphoreGive: whoever waits is ready again and retries its take.
Release(x, p) ==
    /\ holder' = NoTask
    /\ wait' = 0
    /\ late' = FALSE
    /\ pc' = [y \in Tasks |-> IF y = x THEN p
                              ELSE IF pc[y] = "blocked" THEN "take" ELSE pc[y]]

-----------------------------------------------------------------------------
(* MainApp_TASK and WebService_UpdateSensorData. *)

\* The arguments are read at the call, before the mutex is taken.
BeginMainApp ==
    /\ Begin("MainApp", "take")
    /\ args' = [temp |-> temp, pressure |-> pressure]
    /\ UNCHANGED <<phase, used, late, deviceVars, holder, wait, g_sensor_data,
                   snap, published, lends>>

WriteReadings ==
    /\ Runs("MainApp") /\ pc["MainApp"] = "write"
    /\ g_sensor_data' = [g_sensor_data EXCEPT !.temp = args.temp,
                                              !.pressure = args.pressure]
    /\ Goto("MainApp", "stamp")
    /\ UNCHANGED <<due, phase, used, late, deviceVars, args, holder, wait,
                   snap, published, lends>>

WriteTimestamp ==
    /\ Runs("MainApp") /\ pc["MainApp"] = "stamp"
    /\ g_sensor_data' = [g_sensor_data EXCEPT !.min = t.min, !.sec = t.sec]
    /\ Goto("MainApp", "give")
    /\ UNCHANGED <<due, phase, used, late, deviceVars, args, holder, wait,
                   snap, published, lends>>

GiveMainApp ==
    /\ Runs("MainApp") /\ pc["MainApp"] = "give"
    /\ Release("MainApp", "sleep")
    /\ published' = g_sensor_data
    /\ UNCHANGED <<due, phase, used, deviceVars, args, g_sensor_data, snap, lends>>

-----------------------------------------------------------------------------
(* send_sensor_json. *)

\* The HTTP task has received a GET /api/sensor.
Request ==
    /\ pc["Http"] = "idle" /\ \A x \in Tasks : ~Ready(x)
    /\ Goto("Http", "take")
    /\ UNCHANGED <<due, phase, used, late, deviceVars, webVars>>

CopyReadings ==
    /\ Runs("Http") /\ pc["Http"] = "copy"
    /\ snap' = [g_sensor_data EXCEPT !.min = snap.min, !.sec = snap.sec]
    /\ Goto("Http", "stamp")
    /\ UNCHANGED <<due, phase, used, late, deviceVars, args, holder, wait,
                   g_sensor_data, published, lends>>

CopyTimestamp ==
    /\ Runs("Http") /\ pc["Http"] = "stamp"
    /\ snap' = [snap EXCEPT !.min = g_sensor_data.min, !.sec = g_sensor_data.sec]
    /\ Goto("Http", "give")
    /\ UNCHANGED <<due, phase, used, late, deviceVars, args, holder, wait,
                   g_sensor_data, published, lends>>

GiveHttp ==
    /\ Runs("Http") /\ pc["Http"] = "give"
    /\ Release("Http", "send")
    /\ UNCHANGED <<due, phase, used, deviceVars, args, g_sensor_data, snap, published, lends>>

SendJson ==
    /\ Runs("Http") /\ pc["Http"] = "send"
    /\ snap' = Zeroed    \* a local of send_sensor_json
    /\ Goto("Http", "idle")
    /\ UNCHANGED <<due, phase, used, late, deviceVars, args, holder, wait,
                   g_sensor_data, published, lends>>

-----------------------------------------------------------------------------
AnalogStep == \/ BeginAnalog \/ Measure \/ WriteTemp \/ WritePressure
              \/ ReadTime \/ WriteSec \/ WriteMin

MainAppStep == BeginMainApp \/ WriteReadings \/ WriteTimestamp \/ GiveMainApp

HttpStep == CopyReadings \/ CopyTimestamp \/ GiveHttp \/ SendJson

MutexStep == \E x \in {"MainApp", "Http"} : Take(x) \/ Block(x) \/ GiveUp(x)

Next == Tick \/ Request \/ AnalogStep \/ MainAppStep \/ HttpStep \/ MutexStep

Spec == Init /\ [][Next]_vars

-----------------------------------------------------------------------------
(* Properties. *)

\* What the HTTP task has copied when it gives the mutex back is one completed
\* update, readings and timestamp together, whoever preempted it meanwhile.
ServedIsOneUpdate == pc["Http"] = "give" => snap = published

\* The error paths of the two xSemaphoreTake calls are never needed: no update is
\* skipped and no browser is sent zeros, because the HTTP task finishes its copy
\* at the priority of the task that waits, ahead of the analog task.
NoMutexTimeout == lends => \A x \in Tasks : pc[x] # "timedout"

\* The RTC's time as a clock face shows it; zero before the first reading.
ClockFace(n) ==
    IF n = NotRead THEN [min |-> 0, sec |-> 0]
    ELSE [min |-> (n \div 60) % 60, sec |-> n % 60]

\* Every update of the main application publishes temperature and pressure of one
\* measurement, the last one that was read, with the time the RTC showed then in
\* decimal, also across 9:59, and never a mixture of two passes of the analog
\* task; a sensor that was not calibrated is published as 0.
Latest ==
    LET measured == IF calibrated THEN sample ELSE 0
    IN  [temp |-> measured, pressure |-> measured,
         min |-> ClockFace(rtc).min, sec |-> ClockFace(rtc).sec]
PublishesOneReading ==
    [][lends /\ pc["MainApp"] = "give" /\ pc'["MainApp"] = "sleep"
       => published' = Latest]_vars
=============================================================================
