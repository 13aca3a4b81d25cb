----------------------------- MODULE MCSensorShare -----------------------------
(* Instances of SensorShare for TLC; all constants are plain values.            *)
EXTENDS SensorShare
=============================================================================
