----------------------------- MODULE MCIndicator -----------------------------
(* Instance of Indicator for TLC, with the intervals Init_Indicator_Task sets.  *)
EXTENDS Indicator

Default_BLINK_MS == (LED_1 :> 500) @@ (LED_2 :> 2000) @@ (LED_3 :> 5000)
=============================================================================
