---------------------------- MODULE Indicator_proof ----------------------------
(***************************************************************************)
(* Proofs about the blink engine, for every number of LEDs, every interval   *)
(* and every bound on the lateness of the indicator task.                    *)
(*                                                                         *)
(* SolidInv rests on priorities: a main application that exists runs before  *)
(* the indicator's first pass, so no pass is ever under way at LED_1 after    *)
(* it has been made solid.  BlinkInv ties each LED to the clock: half-periods *)
(* shown and passes counted since are, modulo a full period, the passes that  *)
(* were due and are done, at every point of a pass and however late it runs.  *)
(***************************************************************************)
EXTENDS Indicator, Integers, TLAPS

-----------------------------------------------------------------------------
(* The inductive invariants. *)

Entries == [interval_ticks : Nat, counter : Nat, level : BOOLEAN]

Inside == {"count", "toggle", "write"}

\* TypeOK with what makes it inductive: a pass is under way only when one is due,
\* and its index is an LED's while it works on one.
TypeInv ==
    /\ led \in [Leds -> Entries]
    /\ pin \in [Leds -> {0, 1}]
    /\ flag \in {0, 1} /\ shown \in {0, 1, 2}
    /\ pc \in {"start", "wait", "test", "count", "toggle", "write"}
    /\ i \in 0 .. NUM_LEDS /\ (pc \in Inside => i \in Leds)
    /\ reg \in [interval_ticks : Nat, level : BOOLEAN]
    /\ late \in 0 .. MaxLate /\ (pc \notin {"start", "wait"} => late > 0)
    /\ appCreated \in BOOLEAN /\ appReady \in BOOLEAN
    /\ appTimer \in 1 .. AppEvery
    /\ clock \in 0 .. ClockCycle - 1

\* The main application runs before the indicator's first pass; from then on LED_1
\* is solid and no pass is under way at it.
SolidInv ==
    /\ appReady => appCreated
    /\ appCreated /\ shown = 2 => appReady /\ pc \in {"start", "wait"}
    /\ shown # 2 => /\ appCreated
                    /\ led[LED_1].interval_ticks = 0
                    /\ pin[LED_1] = shown
                    /\ pc \in Inside => i # LED_1

\* The interval Init_Indicator_Task gives an LED, in passes.
Interval(k) ==
    IF k \in {LED_1, LED_2, LED_3} THEN BLINK_MS[k] \div PERIOD_INDICATOR_TASK_MS ELSE 0

\* An LED blinks with its interval or not at all, a pass works only on one that
\* blinks and its reads are up to date, and the pins follow the table.
TableInv ==
    /\ \A k \in Leds :
         /\ led[k].interval_ticks \in {0, Interval(k)}
         /\ led[k].interval_ticks > 0 =>
              /\ led[k].counter < led[k].interval_ticks
              /\ (pc = "write" /\ k = i) \/ pin[k] = Level(led[k].level)
    /\ pc \in Inside => led[i].interval_ticks > 0
    /\ pc = "count" => reg.interval_ticks = led[i].interval_ticks
    /\ pc = "write" => reg.level = led[i].level

\* Passes an LED shows: whole half-periods and those counted since.
Beats(k) ==
    Interval(k) * Level(led[k].level) + led[k].counter
        + (IF pc = "toggle" /\ k = i THEN Interval(k) ELSE 0)

\* Passes that are not done: none was before the task's first run but the one that
\* is due with it.
Owed == IF pc = "start" THEN 1 ELSE late

\* Passes it should show: those that were due and are done.
Done(k) ==
    clock + 1 - Owed
        + (IF pc \notin {"start", "wait"} /\ (k < i \/ (k = i /\ pc \in {"toggle", "write"})) THEN 1 ELSE 0)

\* They agree, up to whole periods.
InStep(k) == \E z \in Int : Beats(k) = Done(k) + (2 * Interval(k)) * z

BlinkInv == \A k \in Leds : led[k].interval_ticks > 0 => InStep(k)

IndicatorInv == TypeInv /\ SolidInv /\ TableInv /\ BlinkInv
-----------------------------------------------------------------------------
(* The default assignments. *)

\* LED_1 is an LED of every board; the constants as numbers.
LEMMA LedNumbers ==
    /\ NUM_LEDS \in Nat \ {0, 1} /\ LED_1 \in Leds /\ LED_1 = 1 /\ LED_2 = 2 /\ LED_3 = 3
    /\ \A k \in Leds : k \in Nat /\ k < NUM_LEDS
    /\ \A k \in Nat : k < NUM_LEDS => k \in Leds
    /\ \A k \in {LED_1, LED_2, LED_3} : BLINK_MS[k] \div PERIOD_INDICATOR_TASK_MS \in Nat
    /\ \A k \in Leds : Interval(k) \in Nat
BY IndicatorAssumption
DEF NUM_LEDS, Leds, LED_1, LED_2, LED_3, Interval, PERIOD_INDICATOR_TASK_MS

\* led_service_set_blink sets the interval and the counter of one LED.
LEMMA SetBlink ==
    ASSUME NEW f \in [Leds -> Entries], NEW x \in {LED_1, LED_2, LED_3},
           NEW g, g = led_service_set_blink(f, x, BLINK_MS[x])
    PROVE  /\ g \in [Leds -> Entries]
           /\ \A k \in Leds :
                /\ g[k].level = f[k].level
                /\ g[k].counter = IF k = x THEN 0 ELSE f[k].counter
                /\ g[k].interval_ticks = IF k = x THEN Interval(k) ELSE f[k].interval_ticks
<1> DEFINE n == BLINK_MS[x] \div PERIOD_INDICATOR_TASK_MS
<1>1. n \in Nat /\ x \in Nat /\ (x \in Leds => n = Interval(x))
  BY LedNumbers DEF Interval
<1>2. CASE x >= NUM_LEDS
  BY <1>1, <1>2, LedNumbers DEF led_service_set_blink
<1>3. CASE ~(x >= NUM_LEDS)
  <2> DEFINE h == [f EXCEPT ![x].interval_ticks = n]
  <2>1. x \in Leds
    BY <1>1, <1>3, LedNumbers
  <2>2. g = [h EXCEPT ![x].counter = 0]
    BY <1>3 DEF led_service_set_blink
  <2> HIDE DEF n
  <2>3. /\ h \in [Leds -> Entries]
        /\ h[x].interval_ticks = n /\ h[x].level = f[x].level
        /\ \A k \in Leds : k # x => h[k] = f[k]
    BY <1>1, <2>1 DEF Entries
  <2> HIDE DEF h
  <2>4. /\ g \in [Leds -> Entries]
        /\ g[x].counter = 0 /\ g[x].level = h[x].level /\ g[x].interval_ticks = h[x].interval_ticks
        /\ \A k \in Leds : k # x => g[k] = h[k]
    BY <2>1, <2>2, <2>3 DEF Entries
  <2> QED  BY <1>1, <2>1, <2>3, <2>4
<1> QED  BY <1>2, <1>3

\* What Init_Indicator_Task leaves in the table.
LEMMA Defaults ==
    /\ DefaultAssignments \in [Leds -> Entries]
    /\ \A k \in Leds : /\ DefaultAssignments[k].interval_ticks \in {0, Interval(k)}
                       /\ DefaultAssignments[k].counter = 0
                       /\ DefaultAssignments[k].level = FALSE
<1> DEFINE f0 == led_service_init
           f1 == led_service_set_blink(f0, LED_1, BLINK_MS[LED_1])
           f2 == led_service_set_blink(f1, LED_2, BLINK_MS[LED_2])
           f3 == led_service_set_blink(f2, LED_3, BLINK_MS[LED_3])
           Good(f) == /\ f \in [Leds -> Entries]
                      /\ \A k \in Leds : /\ f[k].interval_ticks \in {0, Interval(k)}
                                         /\ f[k].counter = 0 /\ f[k].level = FALSE
<1>0. f0 = [k \in Leds |-> [interval_ticks |-> 0, counter |-> 0, level |-> FALSE]]
  BY DEF led_service_init
<1> HIDE DEF f0
<1>1. Good(f0)
  BY <1>0 DEF Entries
<1>2. Good(f1)
  <2> HIDE DEF f1
  <2>1. f1 = led_service_set_blink(f0, LED_1, BLINK_MS[LED_1])
    BY DEF f1
  <2> QED  BY <1>1, <2>1, SetBlink
<1> HIDE DEF f1
<1>3. Good(f2)
  <2> HIDE DEF f2
  <2>1. f2 = led_service_set_blink(f1, LED_2, BLINK_MS[LED_2])
    BY DEF f2
  <2> QED  BY <1>2, <2>1, SetBlink
<1> HIDE DEF f2
<1>4. Good(f3)
  <2> HIDE DEF f3
  <2>1. f3 = led_service_set_blink(f2, LED_3, BLINK_MS[LED_3])
    BY DEF f3
  <2> QED  BY <1>3, <2>1, SetBlink
<1> QED  BY <1>4 DEF DefaultAssignments, f0, f1, f2
-----------------------------------------------------------------------------
(* The types. *)

\* TypeInv is strong enough.
LEMMA TypeInvImplies == TypeInv => TypeOK
BY IndicatorAssumption DEF TypeInv, TypeOK, LedStates, Entries

\* The scheduler starts in a state of TypeInv.
LEMMA TypeInit == Init => TypeInv
BY Defaults, LedNumbers, IndicatorAssumption DEF Init, TypeInv, Inside

\* What one step of the walk may do to the table.
LEMMA CountTable ==
    ASSUME TypeInv, Count
    PROVE  /\ i \in Leds /\ led' \in [Leds -> Entries] /\ UNCHANGED <<pin, reg>>
           /\ \A k \in Leds : /\ led'[k].interval_ticks = led[k].interval_ticks
                              /\ led'[k].level = led[k].level
                              /\ k # i => led'[k].counter = led[k].counter
           /\ \E interval \in {reg.interval_ticks, led[i].interval_ticks} :
                \/ /\ led[i].counter + 1 >= interval /\ led'[i].counter = 0
                   /\ i' = i /\ pc' = "toggle"
                \/ /\ ~(led[i].counter + 1 >= interval) /\ led'[i].counter = led[i].counter + 1
                   /\ i' = i + 1 /\ pc' = "test"
<1>1. i \in Leds /\ led[i] \in Entries /\ led[i].counter + 1 \in Nat
  BY DEF TypeInv, Count, Inside, Entries
<1>2. PICK interval \in {reg.interval_ticks, led[i].interval_ticks} :
         \/ /\ led[i].counter + 1 >= interval
            /\ led' = [led EXCEPT ![i].counter = 0] /\ i' = i /\ pc' = "toggle"
         \/ /\ ~(led[i].counter + 1 >= interval)
            /\ led' = [led EXCEPT ![i].counter = led[i].counter + 1] /\ i' = i + 1 /\ pc' = "test"
  BY DEF Count, Reached, Goto
<1>3. \E n \in Nat : /\ led' = [led EXCEPT ![i].counter = n]
                     /\ \/ led[i].counter + 1 >= interval /\ n = 0 /\ i' = i /\ pc' = "toggle"
                        \/ /\ ~(led[i].counter + 1 >= interval) /\ n = led[i].counter + 1
                           /\ i' = i + 1 /\ pc' = "test"
  BY <1>1, <1>2
<1>4. PICK n \in Nat : /\ led' = [led EXCEPT ![i].counter = n]
                       /\ \/ led[i].counter + 1 >= interval /\ n = 0 /\ i' = i /\ pc' = "toggle"
                          \/ /\ ~(led[i].counter + 1 >= interval) /\ n = led[i].counter + 1
                             /\ i' = i + 1 /\ pc' = "test"
  BY <1>3
<1>5. /\ led' \in [Leds -> Entries] /\ led'[i].counter = n
      /\ \A k \in Leds : /\ led'[k].interval_ticks = led[k].interval_ticks
                         /\ led'[k].level = led[k].level
                         /\ k # i => led'[k].counter = led[k].counter
  BY <1>1, <1>4 DEF TypeInv, Entries
<1> QED  BY <1>1, <1>4, <1>5 DEF Count

\* Toggling changes the level of one LED.
LEMMA ToggleTable ==
    ASSUME TypeInv, Toggle
    PROVE  /\ i \in Leds /\ led' \in [Leds -> Entries] /\ pc' = "write" /\ UNCHANGED <<pin, i>>
           /\ \A k \in Leds : /\ led'[k].interval_ticks = led[k].interval_ticks
                              /\ led'[k].counter = led[k].counter
                              /\ led'[k].level = IF k = i THEN ~led[k].level ELSE led[k].level
           /\ reg' \in [interval_ticks : Nat, level : BOOLEAN] /\ reg'.level = led'[i].level
<1>1. i \in Leds /\ led[i] \in Entries /\ (~led[i].level) \in BOOLEAN
  BY DEF TypeInv, Toggle, Inside, Entries
<1>2. led' = [led EXCEPT ![i].level = ~led[i].level] /\ reg' = [reg EXCEPT !.level = ~led[i].level]
  BY DEF Toggle
<1> DEFINE b == ~led[i].level
<1>3. b \in BOOLEAN /\ led' = [led EXCEPT ![i].level = b] /\ reg' = [reg EXCEPT !.level = b]
  BY <1>1, <1>2
<1> HIDE DEF b
<1>4. /\ led' \in [Leds -> Entries] /\ led'[i].level = b
      /\ \A k \in Leds : /\ led'[k].interval_ticks = led[k].interval_ticks
                         /\ led'[k].counter = led[k].counter
                         /\ k # i => led'[k].level = led[k].level
  BY <1>1, <1>3 DEF TypeInv, Entries
<1>5. reg' \in [interval_ticks : Nat, level : BOOLEAN] /\ reg'.level = b
  BY <1>3 DEF TypeInv
<1> QED  BY <1>1, <1>4, <1>5 DEF Toggle, Goto, b

\* The main application makes LED_1 solid and leaves the other LEDs alone.
LEMMA ShowTable ==
    ASSUME TypeInv, Show
    PROVE  /\ led' \in [Leds -> Entries] /\ pin' \in [Leds -> {0, 1}] /\ shown' = flag
           /\ led'[LED_1].interval_ticks = 0 /\ pin'[LED_1] = flag
           /\ \A k \in Leds : k # LED_1 => led'[k] = led[k] /\ pin'[k] = pin[k]
<1>1. LED_1 \in Leds /\ ~(LED_1 >= NUM_LEDS) /\ ~(LED_1 >= LED_DRIVER_NUM_LEDS)
  BY LedNumbers DEF NUM_LEDS
<1> DEFINE b == (flag = 1)
<1>2. /\ led' = [led EXCEPT ![LED_1] = [led[LED_1] EXCEPT !.interval_ticks = 0, !.level = b]]
      /\ pin' = [pin EXCEPT ![LED_1] = Level(b)] /\ shown' = flag
  BY <1>1 DEF Show, led_service_set_solid, SolidEntry, led_driver_write
<1>3. b \in BOOLEAN /\ Level(b) = flag /\ Level(b) \in {0, 1}
  BY DEF Level, TypeInv
<1> HIDE DEF b
<1> DEFINE e == [led[LED_1] EXCEPT !.interval_ticks = 0, !.level = b]
<1>4. e \in Entries /\ e.interval_ticks = 0
  BY <1>1, <1>3 DEF TypeInv, Entries
<1>5. led' = [led EXCEPT ![LED_1] = e]
  BY <1>2
<1> HIDE DEF e
<1> QED  BY <1>1, <1>2, <1>3, <1>4, <1>5 DEF TypeInv

\* The pin written is one of the LEDs' and gets the level of the table.
LEMMA WritePin ==
    ASSUME TypeInv, Write
    PROVE  /\ i \in Leds /\ i' = i + 1 /\ pc' = "test" /\ UNCHANGED <<led, reg>>
           /\ pin' \in [Leds -> {0, 1}]
           /\ \A k \in Leds : k # i => pin'[k] = pin[k]
           /\ pin'[i] \in {Level(reg.level), Level(led[i].level)}
<1>1. i \in Leds /\ ~(i >= LED_DRIVER_NUM_LEDS)
  BY LedNumbers DEF TypeInv, Write, Inside, NUM_LEDS
<1>2. PICK on \in {reg.level, led[i].level} : pin' = [pin EXCEPT ![i] = Level(on)]
  BY <1>1 DEF Write, led_driver_write
<1>3. Level(on) \in {0, 1}
  BY DEF Level
<1> QED  BY <1>1, <1>2, <1>3 DEF Write, Goto, TypeInv

\* Every step keeps the types.
LEMMA TypeStep ==
    ASSUME TypeInv, [Next]_vars
    PROVE  TypeInv'
<1>0. /\ NUM_LEDS \in Nat /\ (\A k \in Leds : k \in Nat /\ k < NUM_LEDS)
      /\ (\A k \in Nat : k < NUM_LEDS => k \in Leds)
      /\ MaxLate \in Nat /\ AppEvery \in Nat \ {0} /\ ClockCycle \in Nat \ {0}
  BY LedNumbers, IndicatorAssumption
<1>1. CASE Indicator_Task \/ StartPass
  <2>1. 1 \in 0 .. MaxLate
    BY <1>0, IndicatorAssumption
  <2> QED  BY <1>0, <1>1, <2>1 DEF Indicator_Task, StartPass, TypeInv, Inside, appVars
<1>2. CASE Test
  <2>1. i \in Leds /\ led[i].interval_ticks \in Nat /\ i + 1 \in 0 .. NUM_LEDS
    BY <1>0, <1>2 DEF Test, TypeInv, Entries
  <2>2. reg' \in [interval_ticks : Nat, level : BOOLEAN]
    BY <1>2, <2>1 DEF Test, TypeInv
  <2>3. /\ UNCHANGED <<led, pin, flag, late, appVars, shown, clock>>
        /\ \/ i' = i + 1 /\ pc' = "test"
           \/ i' = i /\ pc' = "count"
    BY <1>2 DEF Test, Goto
  <2>4. late > 0
    BY <1>2 DEF Test, TypeInv
  <2> QED  BY <2>1, <2>2, <2>3, <2>4 DEF TypeInv, Inside, appVars
<1>3. CASE Count
  <2>1. /\ i \in Leds /\ led' \in [Leds -> Entries] /\ UNCHANGED <<pin, reg>>
        /\ \/ i' = i /\ pc' = "toggle"
           \/ i' = i + 1 /\ pc' = "test"
    BY <1>3, CountTable
  <2>2. UNCHANGED <<flag, late, appVars, shown, clock>> /\ late > 0
    BY <1>3 DEF Count, Goto, TypeInv
  <2>3. i' \in 0 .. NUM_LEDS
    BY <1>0, <2>1
  <2> QED  BY <2>1, <2>2, <2>3 DEF TypeInv, Inside, appVars
<1>4. CASE Toggle
  <2>1. /\ i \in Leds /\ led' \in [Leds -> Entries] /\ pc' = "write" /\ UNCHANGED <<pin, i>>
        /\ reg' \in [interval_ticks : Nat, level : BOOLEAN]
    BY <1>4, ToggleTable
  <2>2. UNCHANGED <<flag, late, appVars, shown, clock>> /\ late > 0
    BY <1>4 DEF Toggle, Goto, TypeInv
  <2> QED  BY <2>1, <2>2 DEF TypeInv, Inside, appVars
<1>5. CASE Write
  <2>1. /\ i \in Leds /\ i' = i + 1 /\ pc' = "test" /\ UNCHANGED <<led, reg>>
        /\ pin' \in [Leds -> {0, 1}]
    BY <1>5, WritePin
  <2>2. UNCHANGED <<flag, late, appVars, shown, clock>> /\ late > 0
    BY <1>5 DEF Write, Goto, TypeInv
  <2>3. i' \in 0 .. NUM_LEDS
    BY <1>0, <2>1
  <2> QED  BY <2>1, <2>2, <2>3 DEF TypeInv, Inside, appVars
<1>6. CASE EndPass
  <2>1. late > 0 /\ late - 1 \in 0 .. MaxLate
    BY <1>0, <1>6 DEF EndPass, TypeInv
  <2> QED  BY <1>6, <2>1 DEF EndPass, LateAfterPass, TypeInv, Inside, appVars
<1>7. CASE MainApp_TASK
  <2>1. led' \in [Leds -> Entries] /\ pin' \in [Leds -> {0, 1}] /\ shown' = flag
    BY <1>7, ShowTable DEF MainApp_TASK
  <2> QED  BY <1>7, <2>1 DEF MainApp_TASK, TypeInv, Inside, taskVars
<1>8. CASE handle_control_post
  BY <1>8 DEF handle_control_post, TypeInv, Inside, taskVars, appVars
<1>9. CASE Tick
  <2>1. late' \in 0 .. MaxLate /\ (late > 0 => late' > 0)
    BY <1>0, <1>9 DEF Tick, TypeInv
  <2>2. clock' \in 0 .. ClockCycle - 1
    <3>1. clock + 1 \in Nat
      BY <1>0 DEF TypeInv
    <3> QED  BY <1>0, <1>9, <3>1 DEF Tick, TypeInv
  <2>3. appTimer' \in 1 .. AppEvery
    BY <1>0, <1>9 DEF Tick, TypeInv
  <2>4. appReady' \in BOOLEAN
    BY <1>9 DEF Tick, TypeInv
  <2>5. UNCHANGED <<led, pin, flag, pc, i, reg, appCreated, shown>>
    BY <1>9 DEF Tick
  <2> QED  BY <2>1, <2>2, <2>3, <2>4, <2>5 DEF Tick, TypeInv, Inside
<1>10. CASE UNCHANGED vars
  BY <1>10 DEF vars, taskVars, appVars, TypeInv, Inside
<1> QED
  BY <1>1, <1>2, <1>3, <1>4, <1>5, <1>6, <1>7, <1>8, <1>9, <1>10
  DEF Next, led_service_task_10ms

-----------------------------------------------------------------------------
(* LED_1 under the main application. *)

\* Every step keeps LED_1 the main application's.
LEMMA SolidStep ==
    ASSUME TypeInv, SolidInv, [Next]_vars
    PROVE  SolidInv'
<1>0. LED_1 \in Leds
  BY LedNumbers
<1>1. ASSUME ~appReady, UNCHANGED <<appCreated, appReady, shown>>,
             shown # 2 => /\ led'[LED_1].interval_ticks = led[LED_1].interval_ticks
                          /\ pin'[LED_1] = pin[LED_1]
                          /\ pc' \in Inside => i' # LED_1
      PROVE  SolidInv'
  BY <1>1 DEF SolidInv
<1>2. CASE Indicator_Task \/ StartPass \/ EndPass
  BY <1>1, <1>2 DEF Indicator_Task, StartPass, EndPass, Runs, appVars, Inside
<1>3. CASE Test
  <2>1. shown # 2 => led[LED_1].interval_ticks = 0
    BY DEF SolidInv
  <2> QED  BY <1>1, <1>3, <2>1 DEF Test, Runs, Goto, appVars, Inside
<1>4. CASE Count
  <2>1. /\ pin' = pin /\ led'[LED_1].interval_ticks = led[LED_1].interval_ticks
        /\ pc' \in Inside => i' = i
    BY <1>0, <1>4, CountTable DEF Inside
  <2>2. ~appReady /\ UNCHANGED <<appCreated, appReady, shown>> /\ pc = "count"
    BY <1>4 DEF Count, Runs, Goto, appVars
  <2> QED  BY <1>1, <2>1, <2>2 DEF SolidInv, Inside
<1>5. CASE Toggle
  <2>1. pin' = pin /\ led'[LED_1].interval_ticks = led[LED_1].interval_ticks /\ i' = i
    BY <1>0, <1>5, ToggleTable
  <2>2. ~appReady /\ UNCHANGED <<appCreated, appReady, shown>> /\ pc = "toggle"
    BY <1>5 DEF Toggle, Runs, Goto, appVars
  <2> QED  BY <1>1, <2>1, <2>2 DEF SolidInv, Inside
<1>6. CASE Write
  <2>1. pc' = "test" /\ led' = led /\ (LED_1 # i => pin'[LED_1] = pin[LED_1])
    BY <1>0, <1>6, WritePin
  <2>2. ~appReady /\ UNCHANGED <<appCreated, appReady, shown>> /\ pc = "write"
    BY <1>6 DEF Write, Runs, Goto, appVars
  <2> QED  BY <1>1, <2>1, <2>2 DEF SolidInv, Inside
<1>7. CASE MainApp_TASK
  <2>1. led'[LED_1].interval_ticks = 0 /\ pin'[LED_1] = flag /\ shown' = flag
    BY <1>7, ShowTable DEF MainApp_TASK
  <2>2. appCreated /\ ~appReady' /\ appCreated' = appCreated /\ flag # 2 /\ UNCHANGED <<pc, i>>
    BY <1>7 DEF MainApp_TASK, SolidInv, TypeInv, taskVars
  <2> QED  BY <2>1, <2>2 DEF SolidInv, Inside
<1>8. CASE handle_control_post
  BY <1>1, <1>8 DEF handle_control_post, appVars, taskVars, SolidInv
<1>9. CASE Tick
  <2>1. /\ ~appReady /\ (appReady' => appCreated) /\ UNCHANGED <<appCreated, shown, led, pin, pc, i>>
    BY <1>9 DEF Tick
  <2> QED  BY <2>1 DEF SolidInv
<1>10. CASE UNCHANGED vars
  BY <1>10 DEF vars, taskVars, appVars, SolidInv
<1> QED
  BY <1>2, <1>3, <1>4, <1>5, <1>6, <1>7, <1>8, <1>9, <1>10 DEF Next, led_service_task_10ms

-----------------------------------------------------------------------------
(* The table and the pins. *)

\* Every step keeps the table in order.
LEMMA TableStep ==
    ASSUME TypeInv, SolidInv, TableInv, [Next]_vars
    PROVE  TableInv'
<1>0. /\ LED_1 \in Leds /\ (\A k \in Leds : led[k] \in Entries)
      /\ \A k \in Leds : /\ led[k].interval_ticks \in Nat /\ led[k].counter \in Nat
                         /\ led[k].level \in BOOLEAN /\ k \in Nat
  BY LedNumbers DEF TypeInv, Entries
<1>1. ASSUME UNCHANGED <<led, pin>>, pc \notin Inside, pc' \notin Inside
      PROVE  TableInv'
  BY <1>1 DEF TableInv, Inside, Interval
<1>2. ASSUME UNCHANGED <<led, pin, pc, i, reg>>
      PROVE  TableInv'
  BY <1>2 DEF TableInv, Interval
<1>3. CASE Indicator_Task \/ StartPass \/ EndPass
  BY <1>1, <1>3 DEF Indicator_Task, StartPass, EndPass, Inside
<1>4. CASE Test
  <2>1. i \in Leds
    BY <1>4, LedNumbers DEF Test, TypeInv
  <2>2. CASE led[i].interval_ticks = 0
    BY <1>1, <1>4, <2>2 DEF Test, Goto, Inside
  <2>3. CASE led[i].interval_ticks # 0
    <3>1. /\ i' = i /\ pc' = "count" /\ reg'.interval_ticks = led[i].interval_ticks
          /\ UNCHANGED <<led, pin>> /\ pc = "test"
      BY <1>4, <2>3 DEF Test, Goto, TypeInv
    <3>2. led[i].interval_ticks > 0
      BY <1>0, <2>1, <2>3
    <3> QED  BY <3>1, <3>2 DEF TableInv, Inside, Interval
  <2> QED  BY <2>2, <2>3
<1>5. CASE Count
  <2>1. /\ i \in Leds /\ UNCHANGED <<pin, reg>> /\ pc = "count"
        /\ \A k \in Leds : /\ led'[k].interval_ticks = led[k].interval_ticks
                           /\ led'[k].level = led[k].level
                           /\ k # i => led'[k].counter = led[k].counter
        /\ \/ led'[i].counter = 0 /\ i' = i /\ pc' = "toggle"
           \/ /\ led[i].counter + 1 < led[i].interval_ticks
              /\ led'[i].counter = led[i].counter + 1
              /\ i' = i + 1 /\ pc' = "test"
    <3>1. reg.interval_ticks = led[i].interval_ticks /\ pc = "count" /\ i \in Leds
      BY <1>5, CountTable DEF Count, TableInv
    <3>2. ~(led[i].counter + 1 >= led[i].interval_ticks) =>
             led[i].counter + 1 < led[i].interval_ticks
      BY <1>0, <3>1
    <3> QED  BY <1>5, <3>1, <3>2, CountTable
  <2>2. led[i].interval_ticks > 0
    BY <2>1 DEF TableInv, Inside
  <2>3. ASSUME NEW k \in Leds, led'[k].interval_ticks > 0
        PROVE  /\ led'[k].counter < led'[k].interval_ticks
               /\ pin'[k] = Level(led'[k].level)
    BY <1>0, <2>1, <2>2, <2>3 DEF TableInv
  <2>4. \A k \in Leds : led'[k].interval_ticks \in {0, Interval(k)}
    BY <2>1 DEF TableInv
  <2> QED  BY <2>1, <2>2, <2>3, <2>4 DEF TableInv, Inside, Interval
<1>6. CASE Toggle
  <2>1. /\ i \in Leds /\ pc' = "write" /\ UNCHANGED <<pin, i>> /\ pc = "toggle"
        /\ \A k \in Leds : /\ led'[k].interval_ticks = led[k].interval_ticks
                           /\ led'[k].counter = led[k].counter
                           /\ k # i => led'[k].level = led[k].level
        /\ reg'.level = led'[i].level
    BY <1>6, ToggleTable DEF Toggle
  <2>2. ASSUME NEW k \in Leds, led'[k].interval_ticks > 0
        PROVE  /\ led'[k].counter < led'[k].interval_ticks
               /\ k = i' \/ pin'[k] = Level(led'[k].level)
    BY <2>1, <2>2 DEF TableInv
  <2>3. \A k \in Leds : led'[k].interval_ticks \in {0, Interval(k)}
    BY <2>1 DEF TableInv
  <2>4. led'[i'].interval_ticks > 0
    BY <2>1 DEF TableInv, Inside
  <2> QED  BY <2>1, <2>2, <2>3, <2>4 DEF TableInv, Inside, Interval
<1>7. CASE Write
  <2>1. /\ i \in Leds /\ pc' = "test" /\ led' = led /\ pc = "write"
        /\ \A k \in Leds : k # i => pin'[k] = pin[k]
        /\ pin'[i] = Level(led[i].level)
    BY <1>7, WritePin DEF Write, TableInv
  <2> QED  BY <2>1 DEF TableInv, Inside, Interval
<1>8. CASE MainApp_TASK
  <2>1. /\ led'[LED_1].interval_ticks = 0
        /\ \A k \in Leds : k # LED_1 => led'[k] = led[k] /\ pin'[k] = pin[k]
        /\ UNCHANGED <<pc, i, reg>>
    BY <1>8, ShowTable DEF MainApp_TASK, taskVars
  <2>2. pc \in Inside => i # LED_1 /\ i \in Leds
    BY <1>8 DEF MainApp_TASK, SolidInv, Inside, TypeInv
  <2>3. \A k \in Leds : led'[k].interval_ticks \in {0, Interval(k)}
    BY <2>1 DEF TableInv
  <2>4. ASSUME NEW k \in Leds, led'[k].interval_ticks > 0
        PROVE  /\ led'[k].counter < led'[k].interval_ticks
               /\ (pc' = "write" /\ k = i') \/ pin'[k] = Level(led'[k].level)
    BY <2>1, <2>4 DEF TableInv
  <2>5. pc \in Inside => led'[i] = led[i]
    BY <2>1, <2>2
  <2> QED  BY <2>1, <2>3, <2>4, <2>5 DEF TableInv, Inside, Interval
<1>9. CASE handle_control_post \/ Tick \/ UNCHANGED vars
  BY <1>2, <1>9 DEF handle_control_post, Tick, vars, taskVars
<1> QED
  BY <1>3, <1>4, <1>5, <1>6, <1>7, <1>8, <1>9 DEF Next, led_service_task_10ms

-----------------------------------------------------------------------------
(* The beat. *)

\* A number without remainder is a multiple.
LEMMA Divides ==
    ASSUME NEW a \in Int, NEW d \in Nat \ {0}, a % d = 0
    PROVE  \E m \in Int : a = d * m
<1>1. a \div d \in Int /\ a = (a \div d) * d + (a % d)
  BY SMT
<1> DEFINE q == a \div d
<1>2. q \in Int /\ a = q * d + 0
  BY <1>1
<1> HIDE DEF q
<1>3. a = d * q
  BY <1>2
<1> QED  BY <1>2, <1>3

\* The history clock counts whole periods of every LED.
LEMMA WholePeriods ==
    ASSUME NEW k \in Leds, Interval(k) > 0
    PROVE  \E m \in Int : ClockCycle = (2 * Interval(k)) * m
<1> DEFINE n == Interval(k)
<1>1. k \in {LED_1, LED_2, LED_3} /\ n = BLINK_MS[k] \div PERIOD_INDICATOR_TASK_MS
  BY DEF Interval
<1>2. n \in Nat /\ n > 0 /\ ClockCycle \in Nat
  BY LedNumbers, IndicatorAssumption
<1>3. ClockCycle % (2 * n) = 0
  BY <1>1, IndicatorAssumption
<1> HIDE DEF n
<1>4. 2 * n \in Nat \ {0}
  BY <1>2
<1>5. \E m \in Int : ClockCycle = (2 * n) * m
  BY <1>2, <1>3, <1>4, Divides
<1> QED  BY <1>5 DEF n

\* A period more or less.
LEMMA MorePeriods ==
    ASSUME NEW d \in Int, NEW z \in Int, NEW m \in Int
    PROVE  d * (z + m) = d * z + d * m /\ d * z \in Int /\ d * m \in Int
OBVIOUS

\* A gap that both sides keep, or that grows on one of them.
LEMMA SameGap ==
    ASSUME NEW a \in Int, NEW b \in Int, NEW a1 \in Int, NEW b1 \in Int,
           NEW p \in Int, NEW q \in Int, a = b + p, a1 - a = b1 - b + q
    PROVE  a1 = b1 + (p + q)
OBVIOUS

\* A half-period is n passes: level and counter give the half-period the time is in.
LEMMA HalfPeriod ==
    ASSUME NEW n \in Nat \ {0}, NEW c \in 0 .. n - 1, NEW b \in {0, 1}, NEW z \in Int,
           NEW x \in Nat, n * b + c = x + (2 * n) * z
    PROVE  b = (x \div n) % 2
<1> DEFINE q == b - 2 * z
<1>1. q \in Int
  OBVIOUS
<1>2. x = n * q + c
  <2>1. n * (b - 2 * z) = n * b - (2 * n) * z
    OBVIOUS
  <2>2. n * b \in Int /\ (2 * n) * z \in Int
    OBVIOUS
  <2> QED  BY <2>1, <2>2
<1> HIDE DEF q
<1>3. x \div n = q
  <2>1. x = q * n + c
    BY <1>1, <1>2
  <2> QED  BY <1>1, <2>1, SMT
<1>4. q % 2 = b
  BY DEF q
<1> QED  BY <1>3, <1>4

\* The parts of the beat are integers.
LEMMA BeatTypes ==
    ASSUME TypeInv, NEW k \in Leds
    PROVE  /\ Interval(k) \in Nat /\ led[k].counter \in Nat
           /\ Interval(k) * Level(led[k].level) \in Int
           /\ Beats(k) \in Int /\ Done(k) \in Int /\ k \in Nat
<1>1. Interval(k) \in Nat /\ k \in Nat
  BY LedNumbers
<1>2. led[k].counter \in Nat /\ Level(led[k].level) \in {0, 1}
  BY DEF TypeInv, Entries, Level
<1>3. Interval(k) * Level(led[k].level) \in Int
  BY <1>1, <1>2
<1>4. clock \in Int /\ Owed \in Int
  BY IndicatorAssumption DEF TypeInv, Owed
<1> QED  BY <1>1, <1>2, <1>3, <1>4 DEF Beats, Done

\* Every step keeps the LEDs in step with the clock.
LEMMA BlinkStep ==
    ASSUME TypeInv, TypeInv', SolidInv, TableInv, BlinkInv, [Next]_vars,
           NEW k \in Leds, led'[k].interval_ticks > 0
    PROVE  InStep(k)'
<1> DEFINE n == Interval(k)
<1>0. n' = n
  BY DEF Interval
<1>1. /\ n \in Nat /\ led[k].counter \in Nat /\ n * Level(led[k].level) \in Int
      /\ Beats(k) \in Int /\ Done(k) \in Int /\ k \in Nat /\ i \in Nat
      /\ Beats(k)' \in Int /\ Done(k)' \in Int /\ led'[k].counter \in Nat
      /\ n * Level(led'[k].level) \in Int
      /\ clock \in Int /\ late \in Int /\ NUM_LEDS \in Nat /\ k < NUM_LEDS
  <2>1. Interval(k) \in Nat /\ Level(led'[k].level) \in {0, 1} /\ led'[k].counter \in Nat
    BY LedNumbers DEF TypeInv, Entries, Level
  <2>2. n * Level(led'[k].level) \in Int
    BY <2>1
  <2>3. clock' \in Int /\ Owed' \in Int
    BY IndicatorAssumption DEF TypeInv, Owed
  <2>4. Beats(k)' \in Int /\ Done(k)' \in Int
    BY <1>0, <2>1, <2>2, <2>3 DEF Beats, Done
  <2> QED
    BY <2>1, <2>2, <2>4, BeatTypes, LedNumbers, IndicatorAssumption DEF TypeInv
<1>2. ASSUME led[k].interval_ticks > 0, Beats(k)' - Beats(k) = Done(k)' - Done(k)
      PROVE  InStep(k)'
  <2>0. InStep(k)
    BY <1>2 DEF BlinkInv
  <2>1. PICK z \in Int : Beats(k) = Done(k) + (2 * n) * z
    BY <2>0, Zenon DEF InStep
  <2>2. (2 * n) * z \in Int
    BY <1>1
  <2> DEFINE p == (2 * n) * z
  <2>3. p \in Int /\ Beats(k) = Done(k) + p
    BY <2>1, <2>2
  <2>4. Beats(k) \in Int /\ Done(k) \in Int /\ Beats(k)' \in Int /\ Done(k)' \in Int
    BY <1>1
  <2>5. Beats(k)' - Beats(k) = Done(k)' - Done(k) + 0
    BY <1>2, <2>4
  <2> HIDE DEF p, n
  <2>6. Beats(k)' = Done(k)' + (p + 0)
    BY <2>3, <2>4, <2>5, SameGap
  <2>7. Beats(k)' = Done(k)' + p
    BY <2>3, <2>6
  <2> QED  BY <1>0, <2>7 DEF InStep, p, n
<1>3. ASSUME led[k].interval_ticks > 0, NEW m \in Int,
             Beats(k)' - Beats(k) = Done(k)' - Done(k) + (2 * n) * m
      PROVE  InStep(k)'
  <2>0. InStep(k)
    BY <1>3 DEF BlinkInv
  <2>1. PICK z \in Int : Beats(k) = Done(k) + (2 * n) * z
    BY <2>0, Zenon DEF InStep
  <2>2. (2 * n) * (z + m) = (2 * n) * z + (2 * n) * m /\ (2 * n) * z \in Int /\ (2 * n) * m \in Int
    BY <1>1, MorePeriods
  <2> DEFINE p == (2 * n) * z
             q == (2 * n) * m
             r == (2 * n) * (z + m)
  <2>3. r = p + q /\ p \in Int /\ q \in Int /\ Beats(k) = Done(k) + p
    BY <2>1, <2>2
  <2>4. Beats(k)' - Beats(k) = Done(k)' - Done(k) + q
    BY <1>3
  <2>5. Beats(k) \in Int /\ Done(k) \in Int /\ Beats(k)' \in Int /\ Done(k)' \in Int
    BY <1>1
  <2> HIDE DEF p, q, r, n
  <2>6. Beats(k)' = Done(k)' + (p + q)
    BY <2>3, <2>4, <2>5, SameGap
  <2>7. Beats(k)' = Done(k)' + r
    BY <2>3, <2>6
  <2> QED  BY <1>0, <2>7 DEF InStep, r, n
<1> DEFINE Now == clock + 1 - (IF pc = "start" THEN 1 ELSE late)
           Lv == n * Level(led[k].level)
<1>4. /\ Beats(k) = Lv + led[k].counter + (IF pc = "toggle" /\ k = i THEN n ELSE 0)
      /\ Done(k) = Now + (IF pc \notin {"start", "wait"} /\ (k < i \/ (k = i /\ pc \in {"toggle", "write"}))
                          THEN 1 ELSE 0)
      /\ Beats(k)' = n * Level(led'[k].level) + led'[k].counter
                       + (IF pc' = "toggle" /\ k = i' THEN n ELSE 0)
      /\ Done(k)' = clock' + 1 - (IF pc' = "start" THEN 1 ELSE late')
                      + (IF pc' \notin {"start", "wait"} /\ (k < i' \/ (k = i' /\ pc' \in {"toggle", "write"}))
                         THEN 1 ELSE 0)
  BY <1>0 DEF Beats, Done, Owed
<1>14. CASE Indicator_Task
  <2>1. pc = "start" /\ pc' = "wait" /\ late' = 1 /\ UNCHANGED <<led, i, clock>>
    BY <1>14 DEF Indicator_Task
  <2> HIDE DEF n
  <2>2. Beats(k)' = Beats(k) /\ Done(k)' = Done(k)
    BY <1>1, <1>4, <2>1
  <2> QED  BY <1>1, <1>2, <2>1, <2>2
<1>5. CASE StartPass
  <2>1. pc = "wait" /\ pc' = "test" /\ i' = 0 /\ UNCHANGED <<led, clock, late>>
    BY <1>5 DEF StartPass
  <2> HIDE DEF n
  <2>2. Beats(k)' = Beats(k) /\ Done(k)' = Done(k)
    BY <1>1, <1>4, <2>1
  <2> QED  BY <1>1, <1>2, <2>1, <2>2
<1>6. CASE Test
  <2>1. /\ pc = "test" /\ UNCHANGED <<led, clock, late>>
        /\ \/ led[i].interval_ticks = 0 /\ i' = i + 1 /\ pc' = "test"
           \/ i' = i /\ pc' = "count"
    BY <1>6 DEF Test, Goto
  <2>2. k # i \/ i' = i
    BY <2>1
  <2> HIDE DEF n
  <2>3. Beats(k)' = Beats(k) /\ Done(k)' = Done(k)
    BY <1>1, <1>4, <2>1, <2>2
  <2> QED  BY <1>1, <1>2, <2>1, <2>3
<1>7. CASE Count
  <2>1. /\ i \in Leds /\ pc = "count" /\ reg.interval_ticks = led[i].interval_ticks
        /\ led[i].interval_ticks = Interval(i) /\ led[i].interval_ticks > 0
        /\ led[i].counter < led[i].interval_ticks
    <3>1. i \in Leds /\ pc = "count"
      BY <1>7, CountTable DEF Count
    <3> QED  BY <3>1 DEF TableInv, Inside
  <2>2. /\ UNCHANGED <<clock, late>>
        /\ led'[k].interval_ticks = led[k].interval_ticks
        /\ led'[k].level = led[k].level
        /\ k # i => led'[k].counter = led[k].counter
        /\ \/ led[i].counter + 1 >= Interval(i) /\ led'[i].counter = 0 /\ i' = i /\ pc' = "toggle"
           \/ led'[i].counter = led[i].counter + 1 /\ i' = i + 1 /\ pc' = "test"
    BY <1>7, <2>1, CountTable DEF Count, Goto
  <2>3. CASE k # i
    <3> HIDE DEF n
    <3>1. Beats(k)' = Beats(k) /\ Done(k)' = Done(k)
      BY <1>1, <1>4, <2>1, <2>2, <2>3
    <3> QED  BY <1>1, <1>2, <2>2, <3>1
  <2>4. CASE k = i
    <3>1. led[k].counter < n /\ (led[k].counter + 1 >= n => led[k].counter + 1 = n)
      BY <1>1, <2>1, <2>4
    <3>2. n * Level(led'[k].level) = Lv
      BY <2>2
    <3>3. \/ /\ led[k].counter + 1 = n /\ led'[k].counter = 0 /\ i' = i /\ pc' = "toggle"
          \/ led'[k].counter = led[k].counter + 1 /\ i' = i + 1 /\ pc' = "test"
      BY <2>2, <2>4, <3>1
    <3>4. Beats(k) = Lv + led[k].counter /\ Done(k) = Now
      BY <1>1, <1>4, <2>1, <2>4
    <3>5. Done(k)' = Now + 1
      BY <1>1, <1>4, <2>1, <2>2, <2>4, <3>3
    <3> HIDE DEF n, Lv
    <3>6. Beats(k)' = Lv + led[k].counter + 1
      BY <1>1, <1>4, <2>4, <3>2, <3>3 DEF Lv
    <3> QED  BY <1>1, <1>2, <2>2, <3>4, <3>5, <3>6 DEF Lv
  <2> QED  BY <2>3, <2>4
<1>8. CASE Toggle
  <2>1. /\ i \in Leds /\ pc' = "write" /\ UNCHANGED <<i, clock, late>> /\ pc = "toggle"
        /\ led'[k].interval_ticks = led[k].interval_ticks /\ led'[k].counter = led[k].counter
        /\ led'[k].level = IF k = i THEN ~led[k].level ELSE led[k].level
    BY <1>8, ToggleTable DEF Toggle, Goto
  <2>2. Done(k)' = Done(k)
    BY <1>1, <1>4, <2>1
  <2>3. CASE k # i
    <3> HIDE DEF n
    <3>1. Beats(k)' = Beats(k)
      BY <1>1, <1>4, <2>1, <2>3
    <3> QED  BY <1>1, <1>2, <2>1, <2>2, <3>1
  <2>4. CASE k = i /\ led[k].level = FALSE
    <3>1. Level(led[k].level) = 0 /\ Level(led'[k].level) = 1
      BY <2>1, <2>4 DEF Level
    <3>2. n * Level(led[k].level) = 0 /\ n * Level(led'[k].level) = n
      BY <1>1, <3>1
    <3> HIDE DEF n
    <3>3. Beats(k)' = Beats(k)
      BY <1>1, <1>4, <2>1, <2>4, <3>2
    <3> QED  BY <1>1, <1>2, <2>1, <2>2, <3>3
  <2>5. CASE k = i /\ led[k].level = TRUE
    <3>1. Level(led[k].level) = 1 /\ Level(led'[k].level) = 0
      BY <2>1, <2>5 DEF Level
    <3>2. n * Level(led[k].level) = n /\ n * Level(led'[k].level) = 0
      BY <1>1, <3>1
    <3> HIDE DEF n
    <3>3. Beats(k)' - Beats(k) = -(2 * n)
      BY <1>1, <1>4, <2>1, <2>5, <3>2
    <3>4. (2 * n) * (-1) = -(2 * n)
      BY <1>1
    <3>5. Beats(k)' - Beats(k) = Done(k)' - Done(k) + (2 * n) * (-1)
      BY <1>1, <2>2, <3>3, <3>4
    <3> QED  BY <1>3, <2>1, <3>5
  <2>6. led[k].level \in BOOLEAN
    BY DEF TypeInv, Entries
  <2> QED  BY <2>3, <2>4, <2>5, <2>6
<1>9. CASE Write
  <2>1. i \in Leds /\ i' = i + 1 /\ pc' = "test" /\ pc = "write" /\ UNCHANGED <<led, clock, late>>
    BY <1>9, WritePin DEF Write, Goto
  <2> HIDE DEF n
  <2>2. Beats(k)' = Beats(k) /\ Done(k)' = Done(k)
    BY <1>1, <1>4, <2>1
  <2> QED  BY <1>1, <1>2, <2>1, <2>2
<1>10. CASE EndPass
  <2>1. pc = "test" /\ i = NUM_LEDS /\ pc' = "wait" /\ late' = late - 1 /\ UNCHANGED <<led, clock>>
    BY <1>10 DEF EndPass, LateAfterPass
  <2> HIDE DEF n
  <2>2. Beats(k)' = Beats(k) /\ Done(k)' = Done(k)
    BY <1>1, <1>4, <2>1
  <2> QED  BY <1>1, <1>2, <2>1, <2>2
<1>11. CASE MainApp_TASK
  <2>1. led'[k] = led[k]
    BY <1>11, ShowTable DEF MainApp_TASK
  <2>2. UNCHANGED <<pc, i, clock, late>>
    BY <1>11 DEF MainApp_TASK, taskVars
  <2>3. Beats(k)' = Beats(k) /\ Done(k)' = Done(k)
    BY <1>4, <2>1, <2>2
  <2> QED  BY <1>1, <1>2, <2>1, <2>3
<1>12. CASE handle_control_post \/ UNCHANGED vars
  <2>1. UNCHANGED <<led, pc, i, clock, late>>
    BY <1>12 DEF handle_control_post, vars, taskVars
  <2>2. Beats(k)' = Beats(k) /\ Done(k)' = Done(k)
    BY <1>4, <2>1
  <2> QED  BY <1>1, <1>2, <2>1, <2>2
<1>15. CASE Tick /\ pc = "start"
  <2>1. UNCHANGED <<led, pc, i, clock, late>>
    BY <1>15 DEF Tick
  <2>2. Beats(k)' = Beats(k) /\ Done(k)' = Done(k)
    BY <1>4, <2>1
  <2> QED  BY <1>1, <1>2, <2>1, <2>2
<1>13. CASE Tick /\ pc # "start"
  <2>1. /\ UNCHANGED <<led, pc, i>> /\ late' = late + 1 /\ clock' = (clock + 1) % ClockCycle
        /\ pc # "start"
    BY <1>13 DEF Tick
  <2>2. clock' = IF clock + 1 = ClockCycle THEN 0 ELSE clock + 1
    <3>1. ClockCycle \in Nat \ {0} /\ clock \in 0 .. ClockCycle - 1
      BY IndicatorAssumption DEF TypeInv
    <3>2. CASE clock + 1 = ClockCycle
      BY <2>1, <3>1, <3>2
    <3>3. CASE clock + 1 # ClockCycle
      BY <2>1, <3>1, <3>3
    <3> QED  BY <3>2, <3>3
  <2> HIDE DEF n
  <2>3. Beats(k)' = Beats(k)
    BY <1>4, <2>1
  <2>4. CASE clock + 1 # ClockCycle
    <3>1. Done(k)' = Done(k)
      BY <1>1, <1>4, <2>1, <2>2, <2>4
    <3> QED  BY <1>1, <1>2, <2>1, <2>3, <3>1
  <2>5. CASE clock + 1 = ClockCycle
    <3>1. Interval(k) > 0 /\ led[k].interval_ticks > 0
      BY <2>1 DEF TableInv
    <3>2. PICK m \in Int : ClockCycle = (2 * Interval(k)) * m
      BY <3>1, WholePeriods
    <3>3. ClockCycle \in Int /\ ClockCycle = (2 * n) * m
      BY <3>2, IndicatorAssumption DEF n
    <3>4. Done(k)' = Done(k) - ClockCycle
      BY <1>1, <1>4, <2>1, <2>2, <2>5, <3>3
    <3>5. Beats(k)' - Beats(k) = Done(k)' - Done(k) + ClockCycle
      BY <1>1, <2>3, <3>3, <3>4
    <3> QED  BY <1>3, <3>1, <3>3, <3>5
  <2> QED  BY <2>4, <2>5
<1> QED
  BY <1>5, <1>6, <1>7, <1>8, <1>9, <1>10, <1>11, <1>12, <1>13, <1>14, <1>15
  DEF Next, led_service_task_10ms

\* The invariant holds of every reachable state.
LEMMA IndicatorInvHolds == Spec => []IndicatorInv
<1>1. Init => IndicatorInv
  <2> SUFFICES ASSUME Init PROVE IndicatorInv
    OBVIOUS
  <2>1. TypeInv
    BY TypeInit
  <2>2. SolidInv
    BY DEF Init, SolidInv
  <2>3. \A k \in Leds : /\ led[k].interval_ticks \in {0, Interval(k)} /\ led[k].counter = 0
                        /\ led[k].level = FALSE /\ pin[k] = 0 /\ k \in Nat
    BY Defaults, LedNumbers DEF Init
  <2>4. TableInv
    BY <2>3 DEF Init, TableInv, Inside, Level
  <2>5. ASSUME NEW k \in Leds
        PROVE  Beats(k) = Done(k) + (2 * Interval(k)) * 0
    <3>1. Interval(k) \in Nat /\ Level(led[k].level) = 0 /\ led[k].counter = 0
      BY <2>3, LedNumbers DEF Level
    <3>2. Interval(k) * 0 = 0 /\ (2 * Interval(k)) * 0 = 0
      BY <3>1
    <3>3. pc = "start" /\ clock = 0
      BY DEF Init
    <3>4. Beats(k) = 0 /\ Done(k) = 0
      BY <3>1, <3>2, <3>3 DEF Beats, Done, Owed
    <3> QED  BY <3>2, <3>4
  <2>6. BlinkInv
    BY <2>5 DEF BlinkInv, InStep
  <2> QED  BY <2>1, <2>2, <2>4, <2>6 DEF IndicatorInv
<1>2. ASSUME IndicatorInv, [Next]_vars
      PROVE  IndicatorInv'
  <2>1. TypeInv' /\ SolidInv' /\ TableInv'
    BY <1>2, TypeStep, SolidStep, TableStep DEF IndicatorInv
  <2>2. \A k \in Leds : led'[k].interval_ticks > 0 => InStep(k)'
    BY <1>2, <2>1, BlinkStep DEF IndicatorInv
  <2>3. BlinkInv'
    BY <2>2 DEF BlinkInv, InStep, Leds
  <2> QED  BY <2>1, <2>3 DEF IndicatorInv
<1> QED  BY <1>1, <1>2, PTL DEF Spec
-----------------------------------------------------------------------------
(* The theorems. *)

\* The table, the pins and the tasks have their types at every step.
THEOREM TypeCorrect == Spec => []TypeOK
BY IndicatorInvHolds, TypeInvImplies, PTL DEF IndicatorInv

\* Whatever the indicator task has read before it is preempted, it never writes
\* LED_1 again once the main application has set it.
THEOREM SolidIsKept == Spec => []SolidStaysSolid
<1>1. IndicatorInv => SolidStaysSolid
  BY DEF IndicatorInv, SolidInv, SolidStaysSolid
<1> QED  BY <1>1, IndicatorInvHolds, PTL

\* From the indicator task's first run on, whenever it has caught up, every
\* blinking LED shows the half-period the time since then is in, for every interval
\* and every lateness (Indicator_Task's vTaskDelayUntil loop).
THEOREM NoBeatLost == Spec => []BlinksInStep
<1>1. ASSUME IndicatorInv, pc = "wait", late = 0, NEW k \in Leds, led[k].interval_ticks > 0
      PROVE  pin[k] = ((clock + 1) \div led[k].interval_ticks) % 2
  <2> DEFINE n == Interval(k)
             b == Level(led[k].level)
  <2>1. /\ led[k].interval_ticks = n /\ n \in Nat \ {0} /\ led[k].counter \in 0 .. n - 1
        /\ pin[k] = b /\ b \in {0, 1}
    BY <1>1, BeatTypes DEF IndicatorInv, TableInv, Level
  <2>2. InStep(k)
    BY <1>1 DEF IndicatorInv, BlinkInv
  <2>3. PICK z \in Int : Beats(k) = Done(k) + (2 * n) * z
    BY <2>2, Zenon DEF InStep
  <2>4. clock + 1 \in Nat
    BY <1>1, IndicatorAssumption DEF IndicatorInv, TypeInv
  <2>5. n * b \in Int
    BY <2>1
  <2>6. Beats(k) = n * b + led[k].counter /\ Done(k) = clock + 1
    BY <1>1, <2>1, <2>4, <2>5 DEF Beats, Done, Owed
  <2> DEFINE c == led[k].counter
             x == clock + 1
  <2>7. /\ n \in Nat \ {0} /\ c \in 0 .. n - 1 /\ b \in {0, 1} /\ x \in Nat
        /\ n * b + c = x + (2 * n) * z
    BY <2>1, <2>3, <2>4, <2>6
  <2> HIDE DEF n, b, c, x
  <2>8. b = (x \div n) % 2
    BY <2>7, HalfPeriod, Zenon
  <2>9. b = ((clock + 1) \div n) % 2
    BY <2>8 DEF x
  <2> QED  BY <2>1, <2>9
<1>2. IndicatorInv => BlinksInStep
  BY <1>1 DEF BlinksInStep
<1> QED  BY <1>2, IndicatorInvHolds, PTL
=============================================================================
