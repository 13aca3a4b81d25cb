------------------------------ MODULE Indicator ------------------------------
(***************************************************************************)
(* The LED blink engine and the main application that overrides LED_1.      *)
(*                                                                         *)
(* The indicator task has the lowest priority.  Every 10 ms it walks the    *)
(* LEDs and toggles those whose counter has reached their interval; late,   *)
(* it catches up, because vTaskDelayUntil counts from the last wake time,   *)
(* which the task takes when it first gets the processor: it owes no pass   *)
(* for the time before.                                                    *)
(* The main application has the highest priority and holds LED_1 solid at   *)
(* the value of g_web_control_active: it preempts the indicator between any *)
(* two accesses to the table both write without a lock.  What the           *)
(* indicator's unlocked reads return is then the compiler's choice: the     *)
(* value it has in a register, or what is in memory by now.                 *)
(***************************************************************************)
EXTENDS Naturals, TLC

CONSTANTS
    LED_DRIVER_NUM_LEDS,
    BLINK_MS,     \* interval of each default assignment, by LED index, in ms
    AppEvery,     \* 10 ms ticks in a period of the main application
    MaxLate,      \* bound: passes the indicator task may be late
    ClockCycle    \* bound: the history clock counts modulo this many ticks

LED_1 == 1
LED_2 == 2
LED_3 == 3
PERIOD_INDICATOR_TASK_MS == 10

NUM_LEDS == LED_DRIVER_NUM_LEDS
Leds == 0 .. NUM_LEDS - 1

ASSUME IndicatorAssumption ==
    /\ LED_DRIVER_NUM_LEDS \in Nat \ {0, 1}
    /\ BLINK_MS \in [{LED_1, LED_2, LED_3} -> Nat]
    /\ AppEvery \in Nat \ {0} /\ MaxLate \in Nat \ {0} /\ ClockCycle \in Nat \ {0}
    /\ \A k \in DOMAIN BLINK_MS \cap Leds :
         LET n == BLINK_MS[k] \div PERIOD_INDICATOR_TASK_MS
         IN  n > 0 /\ ClockCycle % (2 * n) = 0

VARIABLES
    led,         \* the table: interval_ticks (0 is solid), counter and level
    pin,         \* level of each output
    flag,        \* g_web_control_active
    pc,          \* where the indicator task is
    i,           \* the LED it is at
    reg,         \* what it has read of that LED: interval_ticks and level
    late,        \* passes that are due
    appCreated,  \* xTaskCreate of the main application succeeded
    appReady,    \* the main application is ready to run
    appTimer,    \* ticks until it wakes
    shown,       \* history: what the main application last asked of LED_1, 2 before
    clock        \* history: ticks since the indicator's first run, modulo ClockCycle

taskVars == <<pc, i, reg, late>>
appVars == <<appCreated, appReady, appTimer>>
vars == <<led, pin, flag, taskVars, appVars, shown, clock>>

Level(b) == IF b THEN 1 ELSE 0

LedStates(table) ==
    \A k \in DOMAIN table :
        table[k].interval_ticks \in Nat /\ table[k].counter \in Nat /\ table[k].level \in BOOLEAN

TypeOK ==
    /\ DOMAIN led = Leds /\ LedStates(led)
    /\ pin \in [Leds -> {0, 1}]
    /\ flag \in {0, 1} /\ shown \in {0, 1, 2}
    /\ pc \in {"start", "wait", "test", "count", "toggle", "write"}
    /\ i \in 0 .. NUM_LEDS
    /\ reg.interval_ticks \in Nat /\ reg.level \in BOOLEAN
    /\ late \in 0 .. MaxLate
    /\ appCreated \in BOOLEAN /\ appReady \in BOOLEAN
    /\ appTimer \in 0 .. AppEvery
    /\ clock \in 0 .. ClockCycle - 1

-----------------------------------------------------------------------------
(* The service's table. *)

\* Mutant: the index check lets one LED too many pass.
led_service_set_blink_OffByOne(table, index, interval_ms) ==
    IF index > NUM_LEDS THEN table
    ELSE (index :> [interval_ticks |-> interval_ms \div PERIOD_INDICATOR_TASK_MS,
                    counter |-> 0, level |-> FALSE]) @@ table

\* The interval is kept in whole passes; an unknown index is ignored.
led_service_set_blink(table, index, interval_ms) ==
    IF index >= NUM_LEDS THEN table
    ELSE [table EXCEPT ![index].interval_ticks = interval_ms \div PERIOD_INDICATOR_TASK_MS,
                       ![index].counter = 0]

led_service_init ==
    [k \in Leds |-> [interval_ticks |-> 0, counter |-> 0, level |-> FALSE]]

\* Init_Indicator_Task: the default assignments, of which LED_3 is ignored when
\* there are three LEDs.
DefaultAssignments ==
    led_service_set_blink(
        led_service_set_blink(
            led_service_set_blink(led_service_init, LED_1, BLINK_MS[LED_1]),
            LED_2, BLINK_MS[LED_2]),
        LED_3, BLINK_MS[LED_3])

\* main() has started the scheduler: both tasks are ready, if they were created.
Init ==
    /\ led = DefaultAssignments
    /\ pin = [k \in Leds |-> 0]
    /\ flag = 0
    /\ pc = "start" /\ i = 0
    /\ reg = [interval_ticks |-> 0, level |-> FALSE]
    /\ late = 0
    /\ appCreated \in BOOLEAN
    /\ appReady = appCreated
    /\ appTimer = AppEvery
    /\ shown = 2
    /\ clock = 0

-----------------------------------------------------------------------------
(* led_service_task_10ms, one step for each access another task can precede. *)

\* The indicator runs only when the main application does not.
Runs == ~appReady

Goto(next) == pc' = next /\ UNCHANGED <<flag, late, appVars, shown, clock>>

\* The task gets the processor for the first time: its schedule counts from now,
\* and the first pass is due at once.
Indicator_Task ==
    /\ Runs /\ pc = "start"
    /\ pc' = "wait"
    /\ late' = 1
    /\ UNCHANGED <<led, pin, flag, i, reg, appVars, shown, clock>>

StartPass ==
    /\ Runs /\ pc = "wait" /\ late > 0
    /\ i' = 0
    /\ pc' = "test"
    /\ UNCHANGED <<led, pin, flag, reg, late, appVars, shown, clock>>

\* A solid LED is passed over, for the next one or to the end of the loop.
Test ==
    /\ Runs /\ pc = "test" /\ i < NUM_LEDS
    /\ reg' = [reg EXCEPT !.interval_ticks = led[i].interval_ticks]
    /\ IF led[i].interval_ticks = 0
       THEN i' = i + 1 /\ Goto("test")
       ELSE i' = i /\ Goto("count")
    /\ UNCHANGED <<led, pin>>

\* Mutant: the LED toggles one pass late.
Reached_Late(count, interval) == count > interval

Reached(count, interval) == count >= interval

\* The counter advances and is compared, with the interval that was tested or
\* with one that was set to 0 since.
Count ==
    /\ Runs /\ pc = "count"
    /\ \E interval \in {reg.interval_ticks, led[i].interval_ticks} :
         LET n == led[i].counter + 1
         IN  IF Reached(n, interval)
             THEN /\ led' = [led EXCEPT ![i].counter = 0]
                  /\ i' = i /\ Goto("toggle")
             ELSE /\ led' = [led EXCEPT ![i].counter = n]
                  /\ i' = i + 1 /\ Goto("test")
    /\ UNCHANGED <<pin, reg>>

Toggle ==
    /\ Runs /\ pc = "toggle"
    /\ led' = [led EXCEPT ![i].level = ~@]
    /\ reg' = [reg EXCEPT !.level = ~led[i].level]
    /\ Goto("write")
    /\ UNCHANGED <<pin, i>>

led_driver_write(index, on) ==
    pin' = IF index >= LED_DRIVER_NUM_LEDS THEN pin
           ELSE [pin EXCEPT ![index] = Level(on)]

\* The pin gets the level just stored, or one the main application has stored since.
Write ==
    /\ Runs /\ pc = "write"
    /\ \E on \in {reg.level, led[i].level} : led_driver_write(i, on)
    /\ i' = i + 1
    /\ Goto("test")
    /\ UNCHANGED <<led, reg>>

\* Mutant: the task sleeps a period from now, so that the passes it missed are lost.
LateAfterPass_FromNow == 0

\* vTaskDelayUntil: the next pass is due a period after this one was.
LateAfterPass == late - 1

EndPass ==
    /\ Runs /\ pc = "test" /\ i = NUM_LEDS
    /\ pc' = "wait"
    /\ late' = LateAfterPass
    /\ UNCHANGED <<led, pin, flag, i, reg, appVars, shown, clock>>

-----------------------------------------------------------------------------
(* The main application, the web service and the tick. *)

\* Mutant: the LED is switched but goes on blinking.
SolidEntry_StillBlinks(entry, on) == [entry EXCEPT !.level = on]

SolidEntry(entry, on) == [entry EXCEPT !.interval_ticks = 0, !.level = on]

led_service_set_solid(index, on) ==
    IF index >= NUM_LEDS THEN UNCHANGED <<led, pin>>
    ELSE /\ led' = [led EXCEPT ![index] = SolidEntry(led[index], on)]
         /\ led_driver_write(index, on)

\* Mutant: the main application only ever switches LED_1 off.
Show_OffOnly ==
    IF flag = 0
    THEN led_service_set_solid(LED_1, FALSE) /\ shown' = 0
    ELSE UNCHANGED <<led, pin, shown>>

\* The two tests of g_web_control_active: nothing preempts the task between them.
Show ==
    /\ led_service_set_solid(LED_1, flag = 1)
    /\ shown' = flag

MainApp_TASK ==
    /\ appReady
    /\ Show
    /\ appReady' = FALSE
    /\ UNCHANGED <<flag, taskVars, appCreated, appTimer, clock>>

\* handle_control_post, in a task below the main application.
handle_control_post ==
    /\ ~appReady
    /\ flag' \in {0, 1}
    /\ UNCHANGED <<led, pin, taskVars, appVars, shown, clock>>

\* Ten milliseconds pass, before the indicator's first run or at any point of a
\* pass.  The main application is done within them.
Tick ==
    /\ ~appReady /\ late < MaxLate
    /\ IF pc = "start" THEN UNCHANGED <<clock, late>>
       ELSE clock' = (clock + 1) % ClockCycle /\ late' = late + 1
    /\ appTimer' = IF appTimer = 1 THEN AppEvery ELSE appTimer - 1
    /\ appReady' = (appCreated /\ appTimer = 1)
    /\ UNCHANGED <<led, pin, flag, pc, i, reg, appCreated, shown>>

led_service_task_10ms == Test \/ Count \/ Toggle \/ Write

Next ==
    \/ Indicator_Task
    \/ StartPass
    \/ led_service_task_10ms
    \/ EndPass
    \/ MainApp_TASK
    \/ handle_control_post
    \/ Tick

Spec == Init /\ [][Next]_vars

\* Both tasks get the processor and time goes on.
FairSpec ==
    /\ Spec
    /\ WF_vars(Indicator_Task \/ StartPass \/ led_service_task_10ms \/ EndPass)
    /\ WF_vars(MainApp_TASK)
    /\ WF_vars(Tick)

-----------------------------------------------------------------------------
(* Properties. *)

\* No beat is lost from the indicator's first run on: whenever the task has caught
\* up, each blinking LED shows the half-period its clock is in, however late its
\* passes ran and wherever they were preempted (led_service_task_10ms and the
\* vTaskDelayUntil after it, which counts from the xLastWakeTime of line 80).
BlinksInStep ==
    (pc = "wait" /\ late = 0) =>
        \A k \in Leds : led[k].interval_ticks > 0 =>
            pin[k] = ((clock + 1) \div led[k].interval_ticks) % 2

\* Once the main application has run, LED_1 shows what it last asked for: no pass
\* of the indicator task, in progress or to come, writes that pin again, although
\* both write the same table without a lock (led_service_set_solid).  It rests on
\* the main application running before the indicator's first pass.
SolidStaysSolid == shown # 2 => pin[LED_1] = shown

\* LED_1 comes to show the control flag unless the flag changes again or there is
\* no main application (MainApp.c lines 68-75).
LedFollowsFlag ==
    \A v \in {0, 1} :
        (appCreated /\ flag = v) ~> (pin[LED_1] = v \/ flag # v)
=============================================================================
