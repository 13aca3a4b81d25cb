--------------------------- MODULE SensorShare_proof ---------------------------
(***************************************************************************)
(* Proofs about the path of a reading from the sensors to the browser, for  *)
(* every period, phase, length of the analog task's pass and boot time.      *)
(*                                                                         *)
(* The argument is about priorities.  The HTTP task takes g_sensor_mutex     *)
(* only while both other tasks sleep, so whoever wakes during its section    *)
(* wakes at the one unit boundary the section may see (LateInv).  A mutex    *)
(* that lends priority then lets the section finish before time goes on, so  *)
(* no take times out; and the analog task, asleep when the main application  *)
(* wakes, stays asleep until the update is published (PassInv), so an update *)
(* never mixes two of its passes (UpdateInv).                                *)
(***************************************************************************)
EXTENDS SensorShare, Conversions_proof

-----------------------------------------------------------------------------
(* The inductive invariants. *)

MainSection == {"write", "stamp", "give"}
HttpSection == {"copy", "stamp", "give"}

\* A task is between its take and its give exactly while it holds the mutex; only
\* the main application ever waits for it, and only for the HTTP task.
MutexInv ==
    /\ holder # "Analog"
    /\ holder = "MainApp" <=> pc["MainApp"] \in MainSection
    /\ holder = "Http" <=> pc["Http"] \in HttpSection
    /\ pc["MainApp"] = "blocked" => holder = "Http"
    /\ pc["Http"] \notin {"blocked", "timedout"}

\* Outside the main application's section g_sensor_data is its last update, and the
\* HTTP task has copied of that update what it has copied.
CopyInv ==
    /\ pc["MainApp"] \notin {"stamp", "give"} => g_sensor_data = published
    /\ pc["Http"] = "stamp" =>
         snap.temp = published.temp /\ snap.pressure = published.pressure
    /\ pc["Http"] = "give" => snap = published

\* The HTTP task takes the mutex while the others sleep.  A task that wakes during
\* its section wakes at a unit boundary, the only one the section may see.
LateInv ==
    /\ lends => pc["MainApp"] # "timedout"
    /\ holder = "Http" /\ ~late =>
         /\ pc["MainApp"] = "sleep" /\ due["MainApp"] = 0
         /\ pc["Analog"] = "sleep" /\ due["Analog"] = 0

\* The globals are the last measurement and the last time, except for what the
\* analog task is about to write.
DeviceInv ==
    /\ pc["Analog"] \notin {"temp"} => temp = Compensate(sample)
    /\ pc["Analog"] \notin {"temp", "pressure"} => pressure = Compensate(sample)
    /\ pc["Analog"] \in {"sec", "min"} => rtc # NotRead
    /\ pc["Analog"] # "sec" => t.sec = ClockFace(rtc).sec
    /\ pc["Analog"] \notin {"sec", "min"} => t.min = ClockFace(rtc).min

ShareInv == TypeOK /\ MutexInv /\ CopyInv /\ LateInv /\ DeviceInv

\* The analog task's pass ends before the main application wakes again.
PassEndsInTime == AnalogPhase + AnalogTime < Period

\* The analog task has at most one pass to do, and used counts the time since it
\* fell due; it is asleep whenever the main application has a pass to do.
PassInv ==
    /\ Ready("Analog") => phase = AnalogPhase + used
    /\ ~Ready("Analog") => used = 0
    /\ due["Analog"] =< (IF pc["Analog"] = "sleep" THEN 1 ELSE 0)
    /\ lends /\ (pc["MainApp"] # "sleep" \/ due["MainApp"] > 0) => pc["Analog"] = "sleep"

\* What the main application has taken over during its pass is the latest reading.
UpdateInv ==
    lends =>
    /\ pc["MainApp"] \in {"take", "blocked", "write"} =>
         args.temp = temp /\ args.pressure = pressure
    /\ pc["MainApp"] \in {"stamp", "give"} =>
         g_sensor_data.temp = temp /\ g_sensor_data.pressure = pressure
    /\ pc["MainApp"] = "give" => g_sensor_data.min = t.min /\ g_sensor_data.sec = t.sec
-----------------------------------------------------------------------------
(* The clock. *)

\* The RTC's registers and the driver's unpacking show the clock face.
LEMMA FieldsAreClockFace ==
    ASSUME NEW n \in Nat
    PROVE  /\ Fields(n).min = ClockFace(n).min /\ Fields(n).sec = ClockFace(n).sec
           /\ Fields(n).min \in 0..59 /\ Fields(n).sec \in 0..59
<1> DEFINE m == (n \div 60) % 60
           s == n % 60
<1>1. m \in 0..59 /\ s \in 0..59
  OBVIOUS
<1>2. n # NotRead
  BY DEF NotRead
<1> HIDE DEF m, s
<1>3. bcd2dec(dec2bcd(m) % 128) = m /\ bcd2dec(dec2bcd(s) % 128) = s
  BY <1>1, MasksKeep, BcdRoundTrip
<1>4. Fields(n).min = bcd2dec(dec2bcd(m) % 128) /\ Fields(n).sec = bcd2dec(dec2bcd(s) % 128)
  BY DEF Fields, Registers, m, s
<1>5. ClockFace(n).min = m /\ ClockFace(n).sec = s
  BY <1>2 DEF ClockFace, m, s
<1> QED  BY <1>1, <1>3, <1>4, <1>5

\* Time within a period.
LEMMA NextPhase ==
    ASSUME NEW k \in 0..(Period - 1)
    PROVE  (k + 1) % Period = IF k + 1 = Period THEN 0 ELSE k + 1
<1>1. Period \in Nat \ {0}
  BY ShareAssumption
<1>2. CASE k + 1 = Period
  BY <1>1, <1>2
<1>3. CASE k + 1 # Period
  BY <1>1, <1>3
<1> QED  BY <1>2, <1>3

\* The next measurement's number.
LEMMA NextSample ==
    ASSUME NEW n \in 0..Samples
    PROVE  (n % Samples) + 1 \in 1..Samples
<1>1. Samples \in Nat \ {0}
  BY ShareAssumption
<1> QED  BY <1>1

-----------------------------------------------------------------------------
(* The scheduler. *)

PcOK == /\ pc \in [Tasks -> UNION {Points[x] : x \in Tasks}]
        /\ \A x \in Tasks : pc[x] \in Points[x]

\* Who is ready, in terms of where the tasks are.
LEMMA ReadyTasks ==
    ASSUME TypeOK
    PROVE  /\ Ready("MainApp") <=> /\ pc["MainApp"] # "blocked"
                                   /\ pc["MainApp"] = "sleep" => due["MainApp"] > 0
           /\ Ready("Analog") <=> (pc["Analog"] = "sleep" => due["Analog"] > 0)
           /\ Ready("Http") <=> pc["Http"] \notin {"idle", "blocked"}
BY DEF Ready, TypeOK, Points, Tasks

\* The analog task never runs while the main application has something to do, not
\* even while it waits for the mutex, if the mutex lends its priority.
LEMMA RunsAnalog ==
    ASSUME TypeOK, MutexInv, Runs("Analog")
    PROVE  /\ ~Ready("MainApp") /\ (lends => pc["MainApp"] # "blocked")
           /\ lends => pc["MainApp"] = "sleep" /\ due["MainApp"] = 0
<1>1. Priority("MainApp") = 17 /\ Priority("Analog") = 16
  BY DEF Priority, BasePriority, MutexInv
<1>2. ~Ready("MainApp")
  BY <1>1 DEF Runs, Tasks
<1>3. ASSUME lends, pc["MainApp"] = "blocked"
      PROVE  FALSE
  <2>1. holder = "Http" /\ pc["Http"] \in HttpSection
    BY <1>3 DEF MutexInv
  <2>2. Ready("Http")
    BY <2>1, ReadyTasks DEF HttpSection
  <2>3. Priority("Http") = 17
    BY <1>3, <2>1 DEF Priority, BasePriority, Tasks
  <2> QED  BY <1>1, <2>2, <2>3 DEF Runs, Tasks
<1>4. due["MainApp"] \in Nat
  BY ShareAssumption DEF TypeOK
<1> QED  BY <1>2, <1>3, <1>4, ReadyTasks

\* The HTTP task never runs while the main application is ready, and without the
\* mutex it runs only while both others sleep.
LEMMA RunsHttp ==
    ASSUME TypeOK, MutexInv, Runs("Http")
    PROVE  /\ ~Ready("MainApp")
           /\ holder # "Http" => /\ pc["MainApp"] = "sleep" /\ due["MainApp"] = 0
                                 /\ pc["Analog"] = "sleep" /\ due["Analog"] = 0
                                 /\ holder = NoTask
<1>1. Priority("MainApp") = 17 /\ Priority("Analog") = 16
  BY DEF Priority, BasePriority, MutexInv
<1>2. ~Ready("MainApp")
  <2>1. CASE Priority("Http") = 14
    BY <1>1, <2>1 DEF Runs, Tasks
  <2>2. CASE Priority("Http") # 14
    <3>1. PICK y \in Tasks : pc[y] = "blocked"
      BY <2>2 DEF Priority, BasePriority
    <3>2. pc["MainApp"] = "blocked"
      BY <3>1 DEF MutexInv, TypeOK, Tasks, Points
    <3> QED  BY <3>2, ReadyTasks
  <2> QED  BY <2>1, <2>2
<1>3. ASSUME holder # "Http"
      PROVE  ~Ready("Analog") /\ pc["MainApp"] # "blocked"
  <2>1. Priority("Http") = 14
    BY <1>3 DEF Priority, BasePriority
  <2> QED  BY <1>1, <1>3, <2>1 DEF Runs, Tasks, MutexInv
<1>4. due["MainApp"] \in Nat /\ due["Analog"] \in Nat
  BY ShareAssumption DEF TypeOK
<1>5. holder # "Http" => pc["MainApp"] = "sleep" /\ due["MainApp"] = 0
  BY <1>2, <1>3, <1>4, ReadyTasks
<1>6. holder # "Http" => pc["Analog"] = "sleep" /\ due["Analog"] = 0
  BY <1>3, <1>4, ReadyTasks
<1>7. holder # "Http" => holder = NoTask
  BY <1>5 DEF MutexInv, MainSection, TypeOK, Tasks
<1> QED  BY <1>2, <1>5, <1>6, <1>7

\* While the main application waits for the mutex no time passes, if the mutex
\* lends its priority: its holder is running and has seen its unit boundary.
LEMMA NoTickWhileBlocked ==
    ASSUME TypeOK, MutexInv, LateInv, Tick, lends
    PROVE  pc["MainApp"] # "blocked"
<1> SUFFICES ASSUME pc["MainApp"] = "blocked" PROVE FALSE
  OBVIOUS
<1>1. holder = "Http" /\ pc["Http"] \in HttpSection /\ late
  BY DEF MutexInv, LateInv, TypeOK
<1>2. Priority("MainApp") = 17 /\ Priority("Analog") = 16 /\ Priority("Http") = 17
  BY <1>1 DEF Priority, BasePriority, Tasks
<1>3. Runs("Http")
  BY <1>1, <1>2, ReadyTasks DEF Runs, Tasks, HttpSection
<1> QED  BY <1>1, <1>3 DEF Tick, Copying, Tasks

-----------------------------------------------------------------------------
(* Every step keeps the types. *)

\* Where a task goes is one of its points.
LEMMA GotoType ==
    ASSUME PcOK, NEW x \in Tasks, NEW p \in Points[x], Goto(x, p)
    PROVE  PcOK' /\ \A y \in Tasks : pc'[y] = IF y = x THEN p ELSE pc[y]
BY DEF PcOK, Goto

\* What a take or a give does to where the tasks are.
LEMMA ReleaseType ==
    ASSUME PcOK, NEW x \in {"MainApp", "Http"}, NEW p \in Points[x], Release(x, p)
    PROVE  /\ PcOK'
           /\ \A y \in Tasks : pc'[y] = IF y = x THEN p
                                        ELSE IF pc[y] = "blocked" THEN "take" ELSE pc[y]
<1>1. \A y \in Tasks : pc'[y] = IF y = x THEN p
                                ELSE IF pc[y] = "blocked" THEN "take" ELSE pc[y]
  BY DEF Release
<1>2. \A y \in Tasks : pc'[y] \in Points[y]
  BY <1>1 DEF PcOK, Tasks, Points
<1>3. pc' \in [Tasks -> UNION {Points[y] : y \in Tasks}]
  BY <1>1, <1>2 DEF Release
<1> QED  BY <1>1, <1>2, <1>3 DEF PcOK

\* What a tick does to where the tasks are.
LEMMA TickType ==
    ASSUME PcOK, Tick
    PROVE  /\ PcOK'
           /\ \A y \in Tasks : pc'[y] = IF pc[y] = "blocked" /\ wait = 1 THEN "timedout" ELSE pc[y]
<1>1. \A y \in Tasks : pc'[y] = IF pc[y] = "blocked" /\ wait = 1 THEN "timedout" ELSE pc[y]
  BY DEF Tick
<1>2. \A y \in Tasks : pc'[y] \in Points[y]
  BY <1>1 DEF PcOK, Tasks, Points
<1>3. pc' \in [Tasks -> UNION {Points[y] : y \in Tasks}]
  BY <1>1, <1>2 DEF Tick
<1> QED  BY <1>1, <1>2, <1>3 DEF PcOK

\* The variables of the devices and of the web service.
DeviceOK ==
    /\ calibrated \in BOOLEAN /\ sample \in 0..Samples
    /\ boot \in BootTimes /\ rtc \in {NotRead} \cup (boot..(boot + MaxSeconds))
    /\ temp \in 0..Samples /\ pressure \in 0..Samples
    /\ t \in [min : 0..59, sec : 0..59]
TimeOK ==
    /\ due \in [{"MainApp", "Analog"} -> 0..MaxDue]
    /\ phase \in 0..(Period - 1) /\ used \in 0..AnalogTime /\ late \in BOOLEAN
WebOK ==
    /\ args \in [temp : 0..Samples, pressure : 0..Samples]
    /\ holder \in Tasks \cup {NoTask} /\ wait \in 0..5
    /\ {g_sensor_data, snap, published} \subseteq Readings
    /\ lends \in Lending

\* TypeOK, by the parts of the state.
LEMMA TypeParts ==
    /\ TypeOK <=> PcOK /\ TimeOK /\ DeviceOK /\ WebOK
    /\ TypeOK' <=> PcOK' /\ TimeOK' /\ DeviceOK' /\ WebOK'
BY DEF TypeOK, PcOK, TimeOK, DeviceOK, WebOK

\* A wake-up that a task takes was due.
LEMMA BeginType ==
    ASSUME TypeOK, NEW x \in {"MainApp", "Analog"}, NEW p \in Points[x], Begin(x, p)
    PROVE  /\ PcOK' /\ due' \in [{"MainApp", "Analog"} -> 0..MaxDue]
           /\ due[x] \in Nat \ {0} /\ due' = [due EXCEPT ![x] = due[x] - 1]
<1>1. PcOK'
  BY GotoType, TypeParts DEF Begin, Tasks
<1>2. due[x] \in 1..MaxDue
  BY ReadyTasks, ShareAssumption DEF Begin, Runs, TypeOK
<1> QED  BY <1>1, <1>2, ShareAssumption DEF Begin, TypeOK

\* The analog task's steps.
LEMMA AnalogType ==
    ASSUME TypeOK, DeviceInv, AnalogStep
    PROVE  TypeOK'
<1>0. PcOK /\ TimeOK /\ DeviceOK /\ WebOK
  BY TypeParts
<1>1. UNCHANGED webVars => WebOK'
  BY <1>0 DEF WebOK, webVars
<1>2. Compensate(sample) \in 0..Samples
  BY <1>0, ShareAssumption DEF Compensate, DeviceOK
<1>3. CASE BeginAnalog
  <2>1. PcOK' /\ due' \in [{"MainApp", "Analog"} -> 0..MaxDue]
    BY <1>3, BeginType DEF BeginAnalog, Points
  <2>2. TimeOK' /\ DeviceOK'
    BY <1>0, <1>3, <2>1 DEF BeginAnalog, TimeOK, DeviceOK, deviceVars
  <2> QED  BY <1>1, <1>3, <2>1, <2>2, TypeParts DEF BeginAnalog
<1>4. CASE Measure
  <2>1. PcOK'
    BY <1>0, <1>4, GotoType DEF Measure, Tasks, Points
  <2>2. sample' \in 0..Samples
    <3>1. (sample % Samples) + 1 \in 0..Samples
      BY <1>0, NextSample, ShareAssumption DEF DeviceOK
    <3> QED  BY <1>0, <1>4, <3>1 DEF Measure, DeviceOK
  <2>3. TimeOK' /\ DeviceOK'
    BY <1>0, <1>4, <2>2 DEF Measure, TimeOK, DeviceOK
  <2> QED  BY <1>1, <1>4, <2>1, <2>3, TypeParts DEF Measure
<1>5. CASE WriteTemp
  <2>1. PcOK'
    BY <1>0, <1>5, GotoType DEF WriteTemp, Tasks, Points
  <2>2. TimeOK' /\ DeviceOK'
    BY <1>0, <1>2, <1>5 DEF WriteTemp, TimeOK, DeviceOK
  <2> QED  BY <1>1, <1>5, <2>1, <2>2, TypeParts DEF WriteTemp
<1>6. CASE WritePressure
  <2>1. PcOK'
    BY <1>0, <1>6, GotoType DEF WritePressure, Tasks, Points
  <2>2. TimeOK' /\ DeviceOK'
    BY <1>0, <1>2, <1>6 DEF WritePressure, TimeOK, DeviceOK
  <2> QED  BY <1>1, <1>6, <2>1, <2>2, TypeParts DEF WritePressure
<1>7. CASE ReadTime
  <2>1. PcOK'
    BY <1>0, <1>7, GotoType DEF ReadTime, EndAnalog, Tasks, Points
  <2>2. rtc' \in {NotRead} \cup (boot..(boot + MaxSeconds))
    BY <1>0, <1>7, ShareAssumption DEF ReadTime, DeviceOK
  <2>3. TimeOK' /\ DeviceOK'
    BY <1>0, <1>7, <2>2, ShareAssumption DEF ReadTime, EndAnalog, TimeOK, DeviceOK
  <2> QED  BY <1>1, <1>7, <2>1, <2>3, TypeParts DEF ReadTime
<1>8. ASSUME pc["Analog"] \in {"sec", "min"}
      PROVE  Fields(rtc).min \in 0..59 /\ Fields(rtc).sec \in 0..59
  <2>1. rtc \in Nat
    BY <1>0, <1>8, ShareAssumption DEF DeviceInv, DeviceOK
  <2> QED  BY <2>1, FieldsAreClockFace
<1>9. CASE WriteSec
  <2>1. PcOK'
    BY <1>0, <1>9, GotoType DEF WriteSec, Tasks, Points
  <2>2. TimeOK' /\ DeviceOK'
    BY <1>0, <1>8, <1>9 DEF WriteSec, TimeOK, DeviceOK
  <2> QED  BY <1>1, <1>9, <2>1, <2>2, TypeParts DEF WriteSec
<1>10. CASE WriteMin
  <2>1. PcOK'
    BY <1>0, <1>10, GotoType DEF WriteMin, EndAnalog, Tasks, Points
  <2>2. TimeOK' /\ DeviceOK'
    BY <1>0, <1>8, <1>10, ShareAssumption DEF WriteMin, EndAnalog, TimeOK, DeviceOK
  <2> QED  BY <1>1, <1>10, <2>1, <2>2, TypeParts DEF WriteMin
<1> QED  BY <1>3, <1>4, <1>5, <1>6, <1>7, <1>9, <1>10 DEF AnalogStep

\* A tick.
LEMMA TickKeepsType ==
    ASSUME TypeOK, Tick
    PROVE  TypeOK'
<1>0. PcOK /\ TimeOK /\ DeviceOK /\ WebOK
  BY TypeParts
<1>1. PcOK'
  BY <1>0, TickType
<1>2. phase' \in 0..(Period - 1)
  BY <1>0, NextPhase, ShareAssumption DEF Tick, TimeOK
<1>3. due' \in [{"MainApp", "Analog"} -> 0..MaxDue]
  <2>1. \A x \in {"MainApp", "Analog"} : due[x] \in 0..MaxDue /\ (due'[x] = due[x] \/ (due[x] < MaxDue /\ due'[x] = due[x] + 1))
    BY <1>0 DEF Tick, TimeOK
  <2>2. \A x \in {"MainApp", "Analog"} : due'[x] \in 0..MaxDue
    <3>1. MaxDue \in Nat
      BY ShareAssumption
    <3> QED  BY <2>1, <3>1
  <2>3. DOMAIN due = {"MainApp", "Analog"}
    BY <1>0 DEF TimeOK
  <2>4. due' = [x \in {"MainApp", "Analog"} |-> due'[x]]
    BY <2>3 DEF Tick
  <2> QED  BY <2>2, <2>4
<1>4. used' \in 0..AnalogTime
  BY <1>0, ShareAssumption DEF Tick, TimeOK
<1>5. late' \in BOOLEAN
  BY <1>0 DEF Tick, TimeOK
<1>6. wait' \in 0..5
  BY <1>0 DEF Tick, WebOK
<1>7. DeviceOK' /\ WebOK'
  BY <1>0, <1>6 DEF Tick, DeviceOK, WebOK, deviceVars
<1> QED  BY <1>1, <1>2, <1>3, <1>4, <1>5, <1>7, TypeParts DEF TimeOK

\* The steps of the two users of the mutex.
LEMMA WebType ==
    ASSUME TypeOK, MainAppStep \/ HttpStep \/ MutexStep \/ Request
    PROVE  TypeOK'
<1>0. PcOK /\ TimeOK /\ DeviceOK /\ WebOK
  BY TypeParts
<1>1. UNCHANGED deviceVars => DeviceOK'
  BY <1>0 DEF DeviceOK, deviceVars
<1>2. CASE BeginMainApp
  <2>1. PcOK' /\ due' \in [{"MainApp", "Analog"} -> 0..MaxDue]
    BY <1>2, BeginType DEF BeginMainApp, Points
  <2>2. TimeOK' /\ WebOK'
    BY <1>0, <1>2, <2>1 DEF BeginMainApp, TimeOK, WebOK, DeviceOK
  <2> QED  BY <1>1, <1>2, <2>1, <2>2, TypeParts DEF BeginMainApp
<1>3. CASE WriteReadings
  <2>1. PcOK'
    BY <1>0, <1>3, GotoType DEF WriteReadings, Tasks, Points
  <2>2. g_sensor_data' \in Readings
    <3>1. g_sensor_data \in Readings
      BY <1>0 DEF WebOK
    <3>2. Samples \in Nat /\ args.temp \in 0..Samples /\ args.pressure \in 0..Samples
      BY <1>0, ShareAssumption DEF WebOK
    <3>3. args.temp \in 0..(Samples + 1) /\ args.pressure \in 0..(Samples + 1)
      BY <3>2
    <3> QED  BY <1>3, <3>1, <3>3 DEF WriteReadings, Readings
  <2>3. TimeOK' /\ WebOK'
    BY <1>0, <1>3, <2>2 DEF WriteReadings, TimeOK, WebOK
  <2> QED  BY <1>1, <1>3, <2>1, <2>3, TypeParts DEF WriteReadings
<1>4. CASE WriteTimestamp
  <2>1. PcOK'
    BY <1>0, <1>4, GotoType DEF WriteTimestamp, Tasks, Points
  <2>2. g_sensor_data' \in Readings
    BY <1>0, <1>4 DEF WriteTimestamp, WebOK, Readings, DeviceOK
  <2>3. TimeOK' /\ WebOK'
    BY <1>0, <1>4, <2>2 DEF WriteTimestamp, TimeOK, WebOK
  <2> QED  BY <1>1, <1>4, <2>1, <2>3, TypeParts DEF WriteTimestamp
<1>5. CASE GiveMainApp
  <2>1. PcOK'
    BY <1>0, <1>5, ReleaseType DEF GiveMainApp, Points
  <2>2. TimeOK'
    BY <1>0, <1>5 DEF GiveMainApp, Release, TimeOK
  <2>3. WebOK'
    BY <1>0, <1>5 DEF GiveMainApp, Release, WebOK
  <2> QED  BY <1>1, <1>5, <2>1, <2>2, <2>3, TypeParts DEF GiveMainApp
<1>6. CASE CopyReadings
  <2>1. PcOK'
    BY <1>0, <1>6, GotoType DEF CopyReadings, Tasks, Points
  <2>2. snap' \in Readings
    BY <1>0, <1>6 DEF CopyReadings, WebOK, Readings
  <2>3. TimeOK' /\ WebOK'
    BY <1>0, <1>6, <2>2 DEF CopyReadings, TimeOK, WebOK
  <2> QED  BY <1>1, <1>6, <2>1, <2>3, TypeParts DEF CopyReadings
<1>7. CASE CopyTimestamp
  <2>1. PcOK'
    BY <1>0, <1>7, GotoType DEF CopyTimestamp, Tasks, Points
  <2>2. snap' \in Readings
    BY <1>0, <1>7 DEF CopyTimestamp, WebOK, Readings
  <2>3. TimeOK' /\ WebOK'
    BY <1>0, <1>7, <2>2 DEF CopyTimestamp, TimeOK, WebOK
  <2> QED  BY <1>1, <1>7, <2>1, <2>3, TypeParts DEF CopyTimestamp
<1>8. CASE GiveHttp
  <2>1. PcOK'
    BY <1>0, <1>8, ReleaseType DEF GiveHttp, Points
  <2>2. TimeOK'
    BY <1>0, <1>8 DEF GiveHttp, Release, TimeOK
  <2>3. WebOK'
    BY <1>0, <1>8 DEF GiveHttp, Release, WebOK
  <2> QED  BY <1>1, <1>8, <2>1, <2>2, <2>3, TypeParts DEF GiveHttp
<1>9. Zeroed \in Readings
  BY ShareAssumption DEF Zeroed, Readings
<1>10. CASE SendJson
  <2>1. PcOK'
    BY <1>0, <1>10, GotoType DEF SendJson, Tasks, Points
  <2>2. TimeOK' /\ WebOK'
    BY <1>0, <1>9, <1>10 DEF SendJson, TimeOK, WebOK
  <2> QED  BY <1>1, <1>10, <2>1, <2>2, TypeParts DEF SendJson
<1>11. ASSUME NEW x \in {"MainApp", "Http"}, Take(x) \/ Block(x) \/ GiveUp(x)
       PROVE  TypeOK'
  <2>1. PcOK'
    BY <1>0, <1>11, GotoType DEF Take, Block, GiveUp, FirstPoint, Tasks, Points
  <2>2. TimeOK' /\ DeviceOK'
    BY <1>0, <1>1, <1>11 DEF Take, Block, GiveUp, TimeOK
  <2>3. WebOK'
    BY <1>0, <1>9, <1>11 DEF Take, Block, GiveUp, TakeTimeout, WebOK, Tasks
  <2> QED  BY <2>1, <2>2, <2>3, TypeParts
<1>12. CASE Request
  <2>1. PcOK'
    BY <1>0, <1>12, GotoType DEF Request, Tasks, Points
  <2>2. TimeOK' /\ WebOK'
    BY <1>0, <1>12 DEF Request, TimeOK, WebOK, webVars
  <2> QED  BY <1>1, <1>12, <2>1, <2>2, TypeParts DEF Request
<1> QED
  BY <1>2, <1>3, <1>4, <1>5, <1>6, <1>7, <1>8, <1>10, <1>11, <1>12
  DEF MainAppStep, HttpStep, MutexStep

-----------------------------------------------------------------------------
(* The mutex. *)

\* The analog task moves alone and keeps away from the mutex and its data.
LEMMA AnalogOnlyMoves ==
    ASSUME TypeOK, AnalogStep
    PROVE  /\ Runs("Analog") /\ UNCHANGED webVars /\ UNCHANGED <<phase, late>>
           /\ pc' = [pc EXCEPT !["Analog"] = pc'["Analog"]]
           /\ pc'["MainApp"] = pc["MainApp"] /\ pc'["Http"] = pc["Http"]
           /\ due'["MainApp"] = due["MainApp"]
BY DEF AnalogStep, BeginAnalog, Begin, Measure, WriteTemp, WritePressure, ReadTime, WriteSec,
       WriteMin, EndAnalog, Goto, TypeOK, Tasks

\* Every step keeps holder and the tasks' places in agreement.
LEMMA MutexKept ==
    ASSUME TypeOK, MutexInv, [Next]_vars
    PROVE  MutexInv'
<1>0. /\ DOMAIN pc = Tasks /\ holder \in {"MainApp", "Http", "Analog", NoTask}
      /\ pc["MainApp"] \in Points["MainApp"] /\ pc["Http"] \in Points["Http"]
  BY DEF TypeOK, Tasks
<1>1. CASE AnalogStep
  BY <1>1, AnalogOnlyMoves DEF MutexInv, webVars
<1>2. CASE Tick
  <2>1. /\ pc'["Http"] = pc["Http"] /\ holder' = holder
        /\ pc'["MainApp"] # pc["MainApp"] => pc["MainApp"] = "blocked" /\ pc'["MainApp"] = "timedout"
    BY <1>2, TypeParts, TickType DEF MutexInv, Tick, Tasks
  <2> QED  BY <2>1 DEF MutexInv, MainSection
<1>3. ASSUME pc' = [pc EXCEPT !["MainApp"] = pc'["MainApp"]], holder' = holder,
             pc'["MainApp"] \in MainSection <=> pc["MainApp"] \in MainSection,
             pc'["MainApp"] = "blocked" => holder = "Http"
      PROVE  MutexInv'
  <2>1. pc'["Http"] = pc["Http"]
    BY <1>0, <1>3 DEF Tasks
  <2> QED  BY <1>3, <2>1 DEF MutexInv
<1>4. ASSUME pc' = [pc EXCEPT !["Http"] = pc'["Http"]], holder' = holder,
             pc'["Http"] \in HttpSection <=> pc["Http"] \in HttpSection,
             pc'["Http"] \notin {"blocked", "timedout"}
      PROVE  MutexInv'
  <2>1. pc'["MainApp"] = pc["MainApp"]
    BY <1>0, <1>4 DEF Tasks
  <2> QED  BY <1>4, <2>1 DEF MutexInv
<1>5. CASE BeginMainApp \/ WriteReadings \/ WriteTimestamp
  BY <1>0, <1>3, <1>5
  DEF BeginMainApp, Begin, WriteReadings, WriteTimestamp, Goto, Tasks, MainSection
<1>6. CASE CopyReadings \/ CopyTimestamp \/ SendJson \/ Request
  BY <1>0, <1>4, <1>6
  DEF CopyReadings, CopyTimestamp, SendJson, Request, webVars, Goto, Tasks, HttpSection
<1>7. CASE GiveMainApp
  <2>1. pc'["MainApp"] = "sleep" /\ pc'["Http"] = pc["Http"] /\ holder' = NoTask
    BY <1>0, <1>7 DEF GiveMainApp, Release, MutexInv, Tasks
  <2>2. holder = "MainApp"
    BY <1>7 DEF GiveMainApp, MutexInv, MainSection
  <2> QED  BY <2>1, <2>2 DEF MutexInv, MainSection, NoTask
<1>8. CASE GiveHttp
  <2>1. /\ pc'["Http"] = "send" /\ holder' = NoTask
        /\ pc'["MainApp"] = IF pc["MainApp"] = "blocked" THEN "take" ELSE pc["MainApp"]
    BY <1>0, <1>8 DEF GiveHttp, Release, Tasks
  <2>2. holder = "Http"
    BY <1>8 DEF GiveHttp, MutexInv, HttpSection
  <2> QED  BY <2>1, <2>2 DEF MutexInv, MainSection, HttpSection, NoTask
<1>9. CASE Take("MainApp") \/ Block("MainApp") \/ GiveUp("MainApp")
  <2>1. pc'["Http"] = pc["Http"]
    BY <1>0, <1>9 DEF Take, Block, GiveUp, Goto, Tasks
  <2>2. CASE Take("MainApp")
    BY <1>0, <2>1, <2>2 DEF Take, Goto, FirstPoint, MutexInv, MainSection, NoTask, Tasks
  <2>3. CASE Block("MainApp")
    BY <1>0, <2>1, <2>3 DEF Block, Goto, MutexInv, MainSection, NoTask, Tasks
  <2>4. CASE GiveUp("MainApp")
    BY <1>0, <2>1, <2>4 DEF GiveUp, Goto, MutexInv, MainSection, NoTask, Tasks
  <2> QED  BY <1>9, <2>2, <2>3, <2>4
<1>10. CASE Take("Http") \/ Block("Http") \/ GiveUp("Http")
  <2>1. pc'["MainApp"] = pc["MainApp"]
    BY <1>0, <1>10 DEF Take, Block, GiveUp, Goto, Tasks
  <2>2. CASE Take("Http")
    BY <1>0, <2>1, <2>2 DEF Take, Goto, FirstPoint, MutexInv, HttpSection, NoTask, Tasks
  <2>3. ~Block("Http") /\ ~GiveUp("Http")
    BY RunsHttp DEF Block, GiveUp, MutexInv, HttpSection
  <2> QED  BY <1>10, <2>2, <2>3
<1>11. CASE UNCHANGED vars
  BY <1>11 DEF vars, taskVars, webVars, MutexInv
<1> QED
  BY <1>1, <1>2, <1>5, <1>6, <1>7, <1>8, <1>9, <1>10, <1>11
  DEF Next, MainAppStep, HttpStep, MutexStep

\* Every step keeps what the HTTP task has copied consistent with one update.
LEMMA CopyKept ==
    ASSUME TypeOK, MutexInv, CopyInv, [Next]_vars
    PROVE  CopyInv'
<1>0. /\ DOMAIN pc = Tasks
      /\ g_sensor_data \in Readings /\ snap \in Readings /\ published \in Readings
  BY DEF TypeOK
<1>1. ASSUME UNCHANGED <<g_sensor_data, snap, published>>, pc'["Http"] = pc["Http"],
             \/ pc'["MainApp"] = pc["MainApp"]
             \/ pc["MainApp"] \notin {"stamp", "give"}
      PROVE  CopyInv'
  BY <1>1 DEF CopyInv
<1>2. ASSUME UNCHANGED <<g_sensor_data, published>>,
             pc'["Http"] \notin {"stamp", "give"},
             \/ pc'["MainApp"] = pc["MainApp"]
             \/ pc["MainApp"] \notin {"stamp", "give"}
      PROVE  CopyInv'
  BY <1>2 DEF CopyInv
<1>3. CASE AnalogStep
  BY <1>1, <1>3, AnalogOnlyMoves DEF webVars
<1>4. CASE Tick
  <2>1. pc'["Http"] = pc["Http"] /\ (pc'["MainApp"] = pc["MainApp"] \/ pc["MainApp"] = "blocked")
    BY <1>4, TypeParts, TickType DEF MutexInv, Tasks
  <2> QED  BY <1>1, <1>4, <2>1 DEF Tick
<1>5. CASE BeginMainApp \/ Take("MainApp") \/ Block("MainApp") \/ GiveUp("MainApp")
  BY <1>0, <1>1, <1>5 DEF BeginMainApp, Begin, Take, Block, GiveUp, Goto, Tasks
<1>6. CASE WriteReadings \/ WriteTimestamp
  <2>1. /\ pc'["MainApp"] \in {"stamp", "give"} /\ pc'["Http"] = pc["Http"]
        /\ UNCHANGED <<snap, published>>
    BY <1>0, <1>6 DEF WriteReadings, WriteTimestamp, Goto, Tasks
  <2> QED  BY <2>1 DEF CopyInv
<1>7. CASE GiveMainApp
  <2>1. pc["Http"] \notin HttpSection
    BY <1>7 DEF GiveMainApp, MutexInv, MainSection
  <2>2. pc'["Http"] = pc["Http"] /\ published' = g_sensor_data /\ g_sensor_data' = g_sensor_data
    BY <1>0, <1>7 DEF GiveMainApp, Release, MutexInv, Tasks
  <2> QED  BY <2>1, <2>2 DEF CopyInv, HttpSection
<1>8. CASE CopyReadings
  <2>1. g_sensor_data = published /\ pc'["MainApp"] = pc["MainApp"] /\ pc'["Http"] = "stamp"
    BY <1>0, <1>8 DEF CopyReadings, CopyInv, MutexInv, MainSection, HttpSection, Goto, Tasks
  <2>2. snap'.temp = g_sensor_data.temp /\ snap'.pressure = g_sensor_data.pressure
    BY <1>0, <1>8 DEF CopyReadings, Readings
  <2> QED  BY <1>8, <2>1, <2>2 DEF CopyReadings, CopyInv
<1>9. CASE CopyTimestamp
  <2>1. g_sensor_data = published /\ pc'["MainApp"] = pc["MainApp"] /\ pc'["Http"] = "give"
    BY <1>0, <1>9 DEF CopyTimestamp, CopyInv, MutexInv, MainSection, HttpSection, Goto, Tasks
  <2>2. snap.temp = published.temp /\ snap.pressure = published.pressure
    BY <1>9 DEF CopyTimestamp, CopyInv
  <2>3. /\ snap' = [temp |-> snap.temp, pressure |-> snap.pressure,
                    min |-> g_sensor_data.min, sec |-> g_sensor_data.sec]
        /\ published = [temp |-> published.temp, pressure |-> published.pressure,
                        min |-> published.min, sec |-> published.sec]
    BY <1>0, <1>9 DEF CopyTimestamp, Readings
  <2>4. snap' = published
    BY <2>1, <2>2, <2>3
  <2> QED  BY <1>9, <2>1, <2>4 DEF CopyTimestamp, CopyInv
<1>10. CASE GiveHttp
  <2>1. /\ pc'["Http"] = "send" /\ UNCHANGED <<g_sensor_data, published>>
        /\ pc'["MainApp"] = pc["MainApp"] \/ pc["MainApp"] = "blocked"
    BY <1>0, <1>10 DEF GiveHttp, Release, Tasks
  <2> QED  BY <1>2, <2>1
<1>11. CASE SendJson \/ Request \/ Take("Http")
  BY <1>0, <1>2, <1>11 DEF SendJson, Request, Take, FirstPoint, webVars, Goto, Tasks
<1>12. ~Block("Http") /\ ~GiveUp("Http")
  BY RunsHttp DEF Block, GiveUp, MutexInv, HttpSection
<1>13. CASE UNCHANGED vars
  BY <1>13 DEF vars, taskVars, webVars, CopyInv
<1> QED
  BY <1>3, <1>4, <1>5, <1>6, <1>7, <1>8, <1>9, <1>10, <1>11, <1>12, <1>13
  DEF Next, MainAppStep, HttpStep, MutexStep

\* Every step keeps the HTTP task's section to one unit boundary.
LEMMA LateKept ==
    ASSUME TypeOK, MutexInv, LateInv, [Next]_vars
    PROVE  LateInv'
<1>0. /\ DOMAIN pc = Tasks /\ DOMAIN due = {"MainApp", "Analog"} /\ late \in BOOLEAN
      /\ holder \in {"MainApp", "Http", "Analog", NoTask}
      /\ due["MainApp"] \in Nat /\ due["Analog"] \in Nat
  BY ShareAssumption DEF TypeOK, Tasks
<1>1. CASE AnalogStep
  <2>1. Ready("Analog") /\ Runs("Analog")
    BY <1>1, AnalogOnlyMoves DEF Runs
  <2>2. holder = "Http" => late
    BY <1>0, <2>1, ReadyTasks DEF LateInv
  <2> QED  BY <1>1, <2>2, AnalogOnlyMoves DEF LateInv, webVars
<1>2. CASE Tick
  <2>1. lends => pc["MainApp"] # "blocked"
    BY <1>2, NoTickWhileBlocked
  <2>2. /\ lends' = lends /\ holder' = holder
        /\ lends => pc'["MainApp"] = pc["MainApp"]
    BY <1>2, <2>1, TypeParts, TickType DEF Tick, Tasks
  <2>3. ASSUME holder = "Http", ~late
        PROVE  late'
    <3>1. ~Ready("MainApp") /\ ~Ready("Analog")
      BY <1>0, <2>3, ReadyTasks DEF LateInv
    <3>2. Ready("Http")
      BY <2>3, ReadyTasks DEF MutexInv, HttpSection
    <3>3. Priority("Http") =< Priority("Http")
      BY DEF Priority, BasePriority
    <3>4. Runs("Http")
      BY <3>1, <3>2, <3>3 DEF Runs, Tasks
    <3> QED  BY <1>2, <2>3, <3>4 DEF Tick, Copying, Tasks
  <2>4. late => late'
    BY <1>2 DEF Tick
  <2> QED  BY <2>2, <2>3, <2>4 DEF LateInv
<1>3. CASE BeginMainApp \/ WriteReadings \/ WriteTimestamp
             \/ Take("MainApp") \/ Block("MainApp") \/ GiveUp("MainApp")
  <2>1. Ready("MainApp") /\ lends' = lends /\ late' = late /\ pc'["MainApp"] # "timedout"
    BY <1>0, <1>3 DEF BeginMainApp, Begin, WriteReadings, WriteTimestamp, Take, Block, GiveUp,
                      FirstPoint, Runs, Goto, Tasks
  <2>2. holder = "Http" => late
    BY <1>0, <2>1, ReadyTasks DEF LateInv
  <2>3. holder' = "Http" => holder = "Http"
    BY <1>0, <1>3 DEF BeginMainApp, WriteReadings, WriteTimestamp, Take, Block, GiveUp
  <2> QED  BY <2>1, <2>2, <2>3 DEF LateInv
<1>4. CASE GiveMainApp
  BY <1>0, <1>4 DEF GiveMainApp, Release, LateInv, NoTask, Tasks
<1>5. CASE GiveHttp
  <2>1. lends' = lends /\ holder' = NoTask
        /\ (pc'["MainApp"] = pc["MainApp"] \/ pc'["MainApp"] = "take")
    BY <1>0, <1>5 DEF GiveHttp, Release, Tasks
  <2> QED  BY <2>1 DEF LateInv, NoTask
<1>6. CASE Take("Http")
  <2>1. /\ pc["MainApp"] = "sleep" /\ due["MainApp"] = 0
        /\ pc["Analog"] = "sleep" /\ due["Analog"] = 0
    BY <1>6, RunsHttp DEF Take, NoTask
  <2>2. pc'["MainApp"] = pc["MainApp"] /\ pc'["Analog"] = pc["Analog"] /\ due' = due
    BY <1>0, <1>6 DEF Take, Goto, Tasks
  <2> QED  BY <1>6, <2>1, <2>2 DEF Take, LateInv
<1>7. CASE CopyReadings \/ CopyTimestamp \/ SendJson \/ Request
  <2>1. /\ pc'["MainApp"] = pc["MainApp"] /\ pc'["Analog"] = pc["Analog"]
        /\ UNCHANGED <<due, late, holder, lends>>
    BY <1>0, <1>7 DEF CopyReadings, CopyTimestamp, SendJson, Request, webVars, Goto, Tasks
  <2> QED  BY <2>1 DEF LateInv
<1>8. ~Block("Http") /\ ~GiveUp("Http")
  BY RunsHttp DEF Block, GiveUp, MutexInv, HttpSection
<1>9. CASE UNCHANGED vars
  BY <1>9 DEF vars, taskVars, webVars, LateInv
<1> QED
  BY <1>1, <1>2, <1>3, <1>4, <1>5, <1>6, <1>7, <1>8, <1>9
  DEF Next, MainAppStep, HttpStep, MutexStep

-----------------------------------------------------------------------------
(* The globals of the analog task. *)

\* Every step keeps the globals what was measured and read.
LEMMA DeviceKept ==
    ASSUME TypeOK, MutexInv, DeviceInv, [Next]_vars
    PROVE  DeviceInv'
<1>0. /\ DOMAIN pc = Tasks /\ t \in [min : 0..59, sec : 0..59]
      /\ rtc # NotRead => rtc \in Nat
  BY ShareAssumption DEF TypeOK
<1>1. ASSUME UNCHANGED deviceVars, pc'["Analog"] = pc["Analog"]
      PROVE  DeviceInv'
  BY <1>1 DEF DeviceInv, deviceVars, Compensate, ClockFace, NotRead
<1>2. ASSUME UNCHANGED <<calibrated, sample>>
      PROVE  Compensate(sample)' = Compensate(sample)
  BY <1>2 DEF Compensate
<1>3. ASSUME UNCHANGED rtc
      PROVE  ClockFace(rtc)' = ClockFace(rtc)
  BY <1>3 DEF ClockFace, NotRead
<1>4. CASE BeginAnalog
  <2>1. pc["Analog"] = "sleep" /\ pc'["Analog"] = "measure" /\ UNCHANGED deviceVars
    BY <1>0, <1>4 DEF BeginAnalog, Begin, Goto, Tasks
  <2> QED  BY <1>2, <1>3, <2>1 DEF DeviceInv, deviceVars, NotRead
<1>5. CASE Measure
  <2>1. /\ pc["Analog"] = "measure" /\ UNCHANGED <<rtc, calibrated, temp, pressure, t>>
        /\ \/ pc'["Analog"] = "temp"
           \/ pc'["Analog"] = "time" /\ sample' = sample
    BY <1>0, <1>5 DEF Measure, Goto, Tasks
  <2> QED  BY <1>2, <1>3, <2>1 DEF DeviceInv, NotRead
<1>6. CASE WriteTemp
  <2>1. /\ pc["Analog"] = "temp" /\ UNCHANGED <<rtc, calibrated, sample, pressure, t>>
        /\ pc'["Analog"] = "pressure" /\ temp' = Compensate(sample)
    BY <1>0, <1>6 DEF WriteTemp, Goto, Tasks
  <2> QED  BY <1>2, <1>3, <2>1 DEF DeviceInv, NotRead
<1>7. CASE WritePressure
  <2>1. /\ pc["Analog"] = "pressure" /\ UNCHANGED <<rtc, calibrated, sample, temp, t>>
        /\ pc'["Analog"] = "time" /\ pressure' = Compensate(sample)
    BY <1>0, <1>7 DEF WritePressure, Goto, Tasks
  <2> QED  BY <1>2, <1>3, <2>1 DEF DeviceInv, NotRead
<1>8. CASE ReadTime
  <2>1. /\ pc["Analog"] = "time" /\ UNCHANGED <<calibrated, sample, temp, pressure, t>>
        /\ \/ pc'["Analog"] = "sleep" /\ rtc' = rtc
           \/ pc'["Analog"] = "sec" /\ rtc' \in Nat
    BY <1>0, <1>8, ShareAssumption DEF ReadTime, EndAnalog, Goto, Tasks, TypeOK
  <2> QED  BY <1>2, <1>3, <2>1 DEF DeviceInv, NotRead
<1>9. CASE WriteSec
  <2>1. /\ pc["Analog"] = "sec" /\ UNCHANGED <<rtc, calibrated, sample, temp, pressure>>
        /\ pc'["Analog"] = "min" /\ t'.sec = Fields(rtc).sec
    BY <1>0, <1>9 DEF WriteSec, Goto, Tasks
  <2>2. rtc # NotRead /\ Fields(rtc).sec = ClockFace(rtc).sec
    BY <1>0, <2>1, FieldsAreClockFace DEF DeviceInv
  <2> QED  BY <1>2, <1>3, <2>1, <2>2 DEF DeviceInv, NotRead
<1>10. CASE WriteMin
  <2>1. /\ pc["Analog"] = "min" /\ UNCHANGED <<rtc, calibrated, sample, temp, pressure>>
        /\ pc'["Analog"] = "sleep" /\ t'.min = Fields(rtc).min /\ t'.sec = t.sec
    BY <1>0, <1>10 DEF WriteMin, EndAnalog, Goto, Tasks
  <2>2. rtc # NotRead /\ Fields(rtc).min = ClockFace(rtc).min
    BY <1>0, <2>1, FieldsAreClockFace DEF DeviceInv
  <2> QED  BY <1>2, <1>3, <2>1, <2>2 DEF DeviceInv, NotRead
<1>11. CASE Tick
  <2>1. pc'["Analog"] = pc["Analog"]
    BY <1>11, TypeParts, TickType DEF Tasks, PcOK, Points
  <2> QED  BY <1>1, <1>11, <2>1 DEF Tick
<1>12. CASE GiveMainApp \/ GiveHttp
  <2>1. pc["Analog"] # "blocked"
    BY DEF TypeOK, Tasks, Points
  <2>2. pc'["Analog"] = pc["Analog"]
    BY <1>0, <1>12, <2>1 DEF GiveMainApp, GiveHttp, Release, Tasks
  <2> QED  BY <1>1, <1>12, <2>2 DEF GiveMainApp, GiveHttp
<1>13. CASE BeginMainApp \/ WriteReadings \/ WriteTimestamp \/ CopyReadings \/ CopyTimestamp
              \/ SendJson \/ Request
  BY <1>0, <1>1, <1>13
  DEF BeginMainApp, Begin, WriteReadings, WriteTimestamp, CopyReadings, CopyTimestamp, SendJson,
      Request, Goto, Tasks
<1>14. CASE MutexStep
  BY <1>0, <1>1, <1>14 DEF MutexStep, Take, Block, GiveUp, Goto, Tasks
<1>15. CASE UNCHANGED vars
  BY <1>1, <1>15 DEF vars, taskVars
<1> QED
  BY <1>4, <1>5, <1>6, <1>7, <1>8, <1>9, <1>10, <1>11, <1>12, <1>13, <1>14, <1>15
  DEF Next, AnalogStep, MainAppStep, HttpStep

\* The invariant holds of every reachable state.
LEMMA ShareInvHolds == Spec => []ShareInv
<1>1. Init => ShareInv
  <2> SUFFICES ASSUME Init PROVE ShareInv
    OBVIOUS
  <2>1. PcOK
    BY DEF Init, PcOK, Tasks, Points
  <2>2. TimeOK
    <3>1. MaxDue \in Nat \ {0} /\ Period \in Nat \ {0} /\ AnalogTime \in Nat
      BY ShareAssumption
    <3>2. /\ DOMAIN due = {"MainApp", "Analog"} /\ due = [x \in {"MainApp", "Analog"} |-> due[x]]
          /\ due["MainApp"] = 1 /\ due["Analog"] \in {0, 1}
      BY DEF Init
    <3>3. \A x \in {"MainApp", "Analog"} : due[x] \in 0..MaxDue
      BY <3>1, <3>2
    <3>4. due \in [{"MainApp", "Analog"} -> 0..MaxDue]
      BY <3>2, <3>3
    <3>5. phase = 0 /\ used = 0 /\ late = FALSE
      BY DEF Init
    <3>6. 0 \in 0..(Period - 1) /\ 0 \in 0..AnalogTime
      BY <3>1
    <3> QED  BY <3>4, <3>5, <3>6, Zenon DEF TimeOK
  <2>3. DeviceOK
    BY ShareAssumption DEF Init, DeviceOK
  <2>4. Placeholder \in Readings /\ Zeroed \in Readings
    <3>1. Samples \in Nat /\ Samples + 1 \in 0..(Samples + 1) /\ 0 \in 0..(Samples + 1)
      BY ShareAssumption
    <3>2. Zeroed \in Readings
      BY <3>1 DEF Zeroed, Readings
    <3> QED  BY <3>1, <3>2 DEF Placeholder, Readings
  <2>5. WebOK
    BY <2>4, ShareAssumption DEF Init, WebOK
  <2>6. TypeOK
    BY <2>1, <2>2, <2>3, <2>5, TypeParts
  <2>7. MutexInv /\ CopyInv /\ LateInv
    BY DEF Init, MutexInv, CopyInv, LateInv, MainSection, HttpSection, NoTask
  <2>8. DeviceInv
    BY DEF Init, DeviceInv, Compensate, ClockFace, NotRead
  <2> QED  BY <2>6, <2>7, <2>8 DEF ShareInv
<1>2. ASSUME ShareInv, [Next]_vars
      PROVE  ShareInv'
  <2>1. TypeOK'
    <3>1. CASE UNCHANGED vars
      BY <1>2, <3>1 DEF ShareInv, TypeOK, vars, taskVars, deviceVars, webVars
    <3> QED  BY <1>2, <3>1, AnalogType, TickKeepsType, WebType DEF ShareInv, Next
  <2> QED  BY <1>2, <2>1, MutexKept, CopyKept, LateKept, DeviceKept DEF ShareInv
<1> QED  BY <1>1, <1>2, PTL DEF Spec

\* The tasks' state has its types at every step, for all periods and phases.
THEOREM TypeCorrect == Spec => []TypeOK
BY ShareInvHolds, PTL DEF ShareInv

\* send_sensor_json always serves one completed update of
\* WebService_UpdateSensorData, whichever task preempts it, and whether or not the
\* mutex lends its priority.
THEOREM CopiesAreWhole == Spec => []ServedIsOneUpdate
BY ShareInvHolds, PTL DEF ShareInv, CopyInv, ServedIsOneUpdate

\* With a mutex that lends its holder the waiting task's priority no take ever
\* times out, whatever the periods and however long the analog task's pass.
THEOREM TakesSucceed == Spec => []NoMutexTimeout
<1>1. ShareInv => NoMutexTimeout
  BY DEF ShareInv, MutexInv, LateInv, NoMutexTimeout, TypeOK, Tasks, Points
<1> QED  BY <1>1, ShareInvHolds, PTL
-----------------------------------------------------------------------------
(* A pass of the main application. *)

\* A tick wakes the main application only while the analog task has nothing to do.
LEMMA PassTick ==
    ASSUME PassEndsInTime, TypeOK, MutexInv, LateInv, PassInv, Tick
    PROVE  PassInv'
<1>0. /\ Period \in Nat \ {0} /\ AnalogPhase \in 0..(Period - 1) /\ AnalogTime \in Nat
      /\ AnalogPhase + AnalogTime < Period
      /\ phase \in 0..(Period - 1) /\ used \in 0..AnalogTime
      /\ DOMAIN due = {"MainApp", "Analog"} /\ due["MainApp"] \in Nat /\ due["Analog"] \in Nat
  BY ShareAssumption DEF PassEndsInTime, TypeOK
<1>1. /\ phase' = IF phase + 1 = Period THEN 0 ELSE phase + 1
      /\ used' = IF Ready("Analog") THEN used + 1 ELSE used
      /\ Ready("Analog") => used < AnalogTime
      /\ lends' = lends
  BY <1>0, NextPhase DEF Tick
<1>2. /\ due'["MainApp"] = IF phase' = 0 THEN due["MainApp"] + 1 ELSE due["MainApp"]
      /\ due'["Analog"] = IF phase' = AnalogPhase THEN due["Analog"] + 1 ELSE due["Analog"]
  BY <1>0 DEF Tick
<1>3. pc'["Analog"] = pc["Analog"] /\ (lends => pc'["MainApp"] = pc["MainApp"])
  BY TypeParts, TickType, NoTickWhileBlocked DEF PcOK, Tasks, Points
<1>4. TypeOK'
  BY TickKeepsType
<1>5. /\ Ready("Analog") <=> (pc["Analog"] = "sleep" => due["Analog"] > 0)
      /\ Ready("Analog")' <=> (pc'["Analog"] = "sleep" => due'["Analog"] > 0)
  BY <1>3, <1>4, ReadyTasks DEF Ready, TypeOK, Tasks, Points
<1>6. CASE Ready("Analog")
  <2>1. phase = AnalogPhase + used /\ used < AnalogTime
    BY <1>1, <1>6 DEF PassInv
  <2>2. /\ phase' = phase + 1 /\ used' = used + 1
        /\ phase' # AnalogPhase /\ phase' # 0 /\ phase' = AnalogPhase + used'
    BY <1>0, <1>1, <1>6, <2>1
  <2>3. due'["Analog"] = due["Analog"] /\ due'["MainApp"] = due["MainApp"]
    BY <1>2, <2>2
  <2> QED  BY <1>1, <1>3, <1>5, <1>6, <2>2, <2>3 DEF PassInv
<1>7. CASE ~Ready("Analog")
  <2>1. pc["Analog"] = "sleep" /\ due["Analog"] = 0 /\ used = 0
    BY <1>0, <1>5, <1>7 DEF PassInv
  <2>2. used' = 0 /\ (due'["Analog"] > 0 => phase' = AnalogPhase) /\ due'["Analog"] =< 1
    BY <1>0, <1>1, <1>2, <1>7, <2>1
  <2> QED  BY <1>0, <1>3, <1>5, <2>1, <2>2 DEF PassInv
<1> QED  BY <1>6, <1>7

\* Every step keeps the two tasks' passes apart.
LEMMA PassKept ==
    ASSUME PassEndsInTime, ShareInv, PassInv, [Next]_vars
    PROVE  PassInv'
<1>0. /\ DOMAIN pc = Tasks /\ DOMAIN due = {"MainApp", "Analog"} /\ TypeOK /\ TypeOK'
      /\ due["MainApp"] \in Nat /\ due["Analog"] \in Nat /\ MutexInv /\ LateInv
  <2>1. TypeOK'
    <3>1. CASE UNCHANGED vars
      BY <3>1 DEF ShareInv, TypeOK, vars, taskVars, deviceVars, webVars
    <3> QED  BY <3>1, AnalogType, TickKeepsType, WebType DEF ShareInv, Next
  <2> QED  BY <2>1, ShareAssumption DEF ShareInv, TypeOK
<1>1. /\ Ready("Analog") <=> (pc["Analog"] = "sleep" => due["Analog"] > 0)
      /\ Ready("Analog")' <=> (pc'["Analog"] = "sleep" => due'["Analog"] > 0)
  BY <1>0 DEF Ready, TypeOK, Tasks, Points
<1>2. ASSUME UNCHANGED <<phase, used, lends>>, pc'["Analog"] = pc["Analog"],
             due'["Analog"] = due["Analog"],
             \/ pc["MainApp"] # "sleep" \/ due["MainApp"] > 0
             \/ pc'["MainApp"] = pc["MainApp"] /\ due'["MainApp"] = due["MainApp"]
      PROVE  PassInv'
  BY <1>1, <1>2 DEF PassInv
<1>3. CASE AnalogStep
  <2>1. /\ UNCHANGED <<phase, lends>> /\ Runs("Analog") /\ Ready("Analog")
        /\ pc'["MainApp"] = pc["MainApp"] /\ due'["MainApp"] = due["MainApp"]
    BY <1>0, <1>3, AnalogOnlyMoves DEF webVars, Runs
  <2>2. lends => pc["MainApp"] = "sleep" /\ due["MainApp"] = 0
    BY <1>0, <2>1, RunsAnalog
  <2>3. CASE BeginAnalog
    <3>1. /\ pc["Analog"] = "sleep" /\ pc'["Analog"] = "measure" /\ used' = used
          /\ due'["Analog"] = due["Analog"] - 1
      BY <1>0, <2>3 DEF BeginAnalog, Begin, Goto, Tasks
    <3> QED  BY <1>0, <1>1, <2>1, <2>2, <3>1 DEF PassInv
  <2>4. ASSUME pc["Analog"] # "sleep", pc'["Analog"] # "sleep", UNCHANGED <<due, used>>
        PROVE  PassInv'
    BY <1>0, <1>1, <2>1, <2>2, <2>4 DEF PassInv
  <2>5. ASSUME pc["Analog"] # "sleep", EndAnalog, UNCHANGED due
        PROVE  PassInv'
    <3>1. pc'["Analog"] = "sleep" /\ used' = 0 /\ due["Analog"] = 0
      BY <1>0, <2>5 DEF EndAnalog, Goto, Tasks, PassInv
    <3> QED  BY <1>0, <1>1, <2>1, <2>2, <2>5, <3>1 DEF PassInv
  <2> QED
    BY <1>0, <1>3, <2>3, <2>4, <2>5
    DEF AnalogStep, Measure, WriteTemp, WritePressure, ReadTime, WriteSec, WriteMin, Goto, Tasks
<1>4. CASE Tick
  BY <1>0, <1>4, PassTick
<1>5. CASE BeginMainApp
  <2>1. due["MainApp"] > 0
    BY <1>0, <1>5, ReadyTasks DEF BeginMainApp, Begin, Runs
  <2> QED
    BY <1>0, <1>2, <1>5, <2>1 DEF BeginMainApp, Begin, Goto, Tasks
<1>6. CASE WriteReadings \/ WriteTimestamp
  BY <1>0, <1>2, <1>6 DEF WriteReadings, WriteTimestamp, Goto, Tasks
<1>7. CASE GiveMainApp \/ GiveHttp
  <2>1. pc["Analog"] # "blocked"
    BY <1>0 DEF TypeOK, Tasks, Points
  <2>2. pc'["Analog"] = pc["Analog"] /\ (pc["MainApp"] # "sleep" \/ pc'["MainApp"] = pc["MainApp"])
    BY <1>0, <1>7, <2>1 DEF GiveMainApp, GiveHttp, Release, Tasks
  <2> QED  BY <1>2, <1>7, <2>2 DEF GiveMainApp, GiveHttp
<1>8. CASE CopyReadings \/ CopyTimestamp \/ SendJson \/ Request
  BY <1>0, <1>2, <1>8 DEF CopyReadings, CopyTimestamp, SendJson, Request, webVars, Goto, Tasks
<1>9. CASE MutexStep
  BY <1>0, <1>2, <1>9 DEF MutexStep, Take, Block, GiveUp, Goto, Tasks
<1>10. CASE UNCHANGED vars
  BY <1>2, <1>10 DEF vars, taskVars, webVars
<1> QED
  BY <1>3, <1>4, <1>5, <1>6, <1>7, <1>8, <1>9, <1>10 DEF Next, MainAppStep, HttpStep

\* Every step keeps what the main application has taken over the latest.
LEMMA UpdateKept ==
    ASSUME PassEndsInTime, ShareInv, PassInv, UpdateInv, [Next]_vars
    PROVE  UpdateInv'
<1>0. /\ DOMAIN pc = Tasks /\ TypeOK /\ MutexInv /\ LateInv
      /\ g_sensor_data \in Readings
  BY DEF ShareInv, TypeOK
<1>1. ASSUME UNCHANGED <<temp, pressure, t, args, g_sensor_data, lends>>,
             pc'["MainApp"] = pc["MainApp"]
      PROVE  UpdateInv'
  BY <1>1 DEF UpdateInv
<1>2. ASSUME UNCHANGED lends, lends => pc'["MainApp"] = "sleep"
      PROVE  UpdateInv'
  BY <1>2 DEF UpdateInv
<1>3. CASE AnalogStep
  <2>1. pc'["MainApp"] = pc["MainApp"] /\ lends' = lends
    BY <1>0, <1>3, AnalogOnlyMoves DEF webVars
  <2>2. lends => pc["MainApp"] = "sleep"
    BY <1>0, <1>3, AnalogOnlyMoves, RunsAnalog
  <2> QED  BY <1>2, <2>1, <2>2
<1>4. CASE Tick
  <2>1. lends => pc'["MainApp"] = pc["MainApp"]
    BY <1>0, <1>4, NoTickWhileBlocked, TypeParts, TickType DEF Tasks
  <2>2. UNCHANGED <<temp, pressure, t, args, g_sensor_data, lends>>
    BY <1>4 DEF Tick, deviceVars
  <2> QED  BY <2>1, <2>2 DEF UpdateInv
<1>5. CASE BeginMainApp
  <2>1. /\ pc'["MainApp"] = "take" /\ args'.temp = temp /\ args'.pressure = pressure
        /\ UNCHANGED <<temp, pressure, lends>>
    BY <1>0, <1>5 DEF BeginMainApp, Begin, Goto, deviceVars, Tasks
  <2> QED  BY <2>1 DEF UpdateInv
<1>6. CASE WriteReadings
  <2>1. /\ pc["MainApp"] = "write" /\ pc'["MainApp"] = "stamp"
        /\ g_sensor_data'.temp = args.temp /\ g_sensor_data'.pressure = args.pressure
        /\ UNCHANGED <<temp, pressure, lends>>
    BY <1>0, <1>6 DEF WriteReadings, Goto, deviceVars, Tasks, Readings
  <2> QED  BY <2>1 DEF UpdateInv
<1>7. CASE WriteTimestamp
  <2>1. /\ pc["MainApp"] = "stamp" /\ pc'["MainApp"] = "give"
        /\ g_sensor_data'.temp = g_sensor_data.temp
        /\ g_sensor_data'.pressure = g_sensor_data.pressure
        /\ g_sensor_data'.min = t.min /\ g_sensor_data'.sec = t.sec
        /\ UNCHANGED <<temp, pressure, t, lends>>
    BY <1>0, <1>7 DEF WriteTimestamp, Goto, deviceVars, Tasks, Readings
  <2> QED  BY <2>1 DEF UpdateInv
<1>8. CASE GiveMainApp
  BY <1>0, <1>2, <1>8 DEF GiveMainApp, Release, Tasks
<1>9. CASE GiveHttp
  <2>1. /\ pc'["MainApp"] = IF pc["MainApp"] = "blocked" THEN "take" ELSE pc["MainApp"]
        /\ UNCHANGED <<temp, pressure, t, args, g_sensor_data, lends>>
    BY <1>0, <1>9 DEF GiveHttp, Release, deviceVars, Tasks
  <2> QED  BY <2>1 DEF UpdateInv
<1>10. CASE CopyReadings \/ CopyTimestamp \/ SendJson \/ Request
  BY <1>0, <1>1, <1>10
  DEF CopyReadings, CopyTimestamp, SendJson, Request, webVars, deviceVars, Goto, Tasks
<1>11. ASSUME NEW x \in {"MainApp", "Http"}, Take(x) \/ Block(x) \/ GiveUp(x)
       PROVE  UpdateInv'
  <2>1. UNCHANGED <<temp, pressure, t, args, g_sensor_data, lends>>
    BY <1>11 DEF Take, Block, GiveUp, deviceVars
  <2>2. CASE x = "Http"
    BY <1>0, <1>1, <1>11, <2>1, <2>2 DEF Take, Block, GiveUp, Goto, Tasks
  <2>3. CASE x = "MainApp" /\ lends
    <3>1. pc["MainApp"] = "take" /\ pc'["MainApp"] \in {"write", "blocked"}
      BY <1>0, <1>11, <2>3 DEF Take, Block, GiveUp, FirstPoint, Goto, Tasks, LateInv
    <3> QED  BY <2>1, <3>1 DEF UpdateInv
  <2>4. CASE ~lends
    BY <2>1, <2>4 DEF UpdateInv
  <2> QED  BY <2>2, <2>3, <2>4
<1>12. CASE UNCHANGED vars
  BY <1>1, <1>12 DEF vars, taskVars, deviceVars, webVars
<1> QED
  BY <1>3, <1>4, <1>5, <1>6, <1>7, <1>8, <1>9, <1>10, <1>11, <1>12
  DEF Next, MainAppStep, HttpStep, MutexStep

\* Every update of the main application publishes temperature and pressure of one
\* measurement, the last one read, with the time of the last reading of the RTC:
\* it holds for all periods, phases and boot times, as long as the analog task ends
\* its pass before the main application wakes again.
THEOREM UpdatesAreOneReading ==
    ASSUME PassEndsInTime
    PROVE  Spec => PublishesOneReading
<1> DEFINE Publishes ==
      lends /\ pc["MainApp"] = "give" /\ pc'["MainApp"] = "sleep" => published' = Latest
<1>1. Init => PassInv /\ UpdateInv
  <2> SUFFICES ASSUME Init PROVE PassInv /\ UpdateInv
    OBVIOUS
  <2>1. /\ pc["Analog"] = "sleep" /\ pc["MainApp"] = "sleep" /\ phase = 0 /\ used = 0
        /\ due["Analog"] = IF AnalogPhase = 0 THEN 1 ELSE 0
    BY DEF Init
  <2> QED  BY <2>1, ShareAssumption DEF PassInv, UpdateInv, Ready
<1>2. ShareInv /\ PassInv /\ UpdateInv /\ [Next]_vars => PassInv' /\ UpdateInv'
  BY PassKept, UpdateKept
<1>3. ASSUME ShareInv, PassInv, UpdateInv, [Next]_vars
      PROVE  [Publishes]_vars
  <2> SUFFICES ASSUME Next, lends, pc["MainApp"] = "give", pc'["MainApp"] = "sleep"
               PROVE  published' = Latest
    BY <1>3
  <2>1. GiveMainApp
    <3>1. TypeOK /\ MutexInv /\ DOMAIN pc = Tasks
      BY <1>3 DEF ShareInv, TypeOK
    <3>2. holder = "MainApp" /\ pc["Http"] \notin HttpSection
      BY <3>1 DEF MutexInv, MainSection
    <3>3. ~Tick
      BY <3>1, TypeParts, TickType DEF Tasks
    <3>4. ~AnalogStep
      BY <3>1, AnalogOnlyMoves
    <3> QED
      BY <3>1, <3>2, <3>3, <3>4
      DEF Next, MainAppStep, HttpStep, MutexStep, BeginMainApp, Begin, WriteReadings,
          WriteTimestamp, Request, CopyReadings, CopyTimestamp, GiveHttp, SendJson, Take, Block,
          GiveUp, Goto, Tasks, HttpSection
  <2>2. /\ g_sensor_data.temp = temp /\ g_sensor_data.pressure = pressure
        /\ g_sensor_data.min = t.min /\ g_sensor_data.sec = t.sec
    BY <1>3 DEF UpdateInv
  <2>3. pc["Analog"] = "sleep"
    BY <1>3 DEF PassInv
  <2>4. /\ temp = Compensate(sample) /\ pressure = Compensate(sample)
        /\ t.min = ClockFace(rtc).min /\ t.sec = ClockFace(rtc).sec
    BY <1>3, <2>3 DEF ShareInv, DeviceInv
  <2>5. g_sensor_data = [temp |-> g_sensor_data.temp, pressure |-> g_sensor_data.pressure,
                         min |-> g_sensor_data.min, sec |-> g_sensor_data.sec]
    BY <1>3 DEF ShareInv, TypeOK, Readings
  <2>6. g_sensor_data = Latest
    BY <2>2, <2>4, <2>5 DEF Latest, Compensate
  <2> QED  BY <2>1, <2>6 DEF GiveMainApp
<1>4. Spec => [][Publishes]_vars
  BY <1>1, <1>2, <1>3, ShareInvHolds, PTL DEF Spec
<1> QED  BY <1>4 DEF PublishesOneReading
=============================================================================
