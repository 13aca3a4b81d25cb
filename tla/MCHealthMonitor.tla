--------------------------- MODULE MCHealthMonitor ---------------------------
(***************************************************************************)
(* Instances of HealthMonitor for TLC.  Timeouts and priorities are those   *)
(* of task_config.h and MainApp.c.  LoopMax, how many periods a healthy     *)
(* task may take to come round, is scaled down from 10 (a 100 ms loop) to a *)
(* few: it only bounds how stale a healthy task may look.                   *)
(***************************************************************************)
EXTENDS HealthMonitor

PrioAnalog == 16
PrioIndicator == 10

\* Service 0 is the analog task, service 1 the indicator task.
AnalogIndicator_Timeout == [i \in 0 .. 1 |-> IF i = 0 THEN 300 ELSE 200]
AnalogIndicator_Priority == [i \in 0 .. 1 |-> IF i = 0 THEN PrioAnalog ELSE PrioIndicator]
AnalogIndicator_LoopMax == [i \in 0 .. 1 |-> IF i = 0 THEN 3 ELSE 2]

\* For hms_frozen, which looks for one behaviour, every healthy task comes round in
\* every period and a board on which a task could not be created halts.
Prompt_LoopMax == [i \in 0 .. 1 |-> 1]

\* The indicator task alone.
Indicator_Timeout == [i \in 0 .. 0 |-> 200]
Indicator_Priority == [i \in 0 .. 0 |-> PrioIndicator]
One_LoopMax == [i \in 0 .. 0 |-> 2]
=============================================================================
