----------------------------- MODULE MCDataLogger -----------------------------
(***************************************************************************)
(* Instances of DataLogger for TLC.  Three records of two bytes and one or  *)
(* two more stand for 120 and 72 of twelve; pages of three bytes for pages  *)
(* of 32.  As in the program, a record is shorter than a page, some records *)
(* straddle a page boundary and the second partition starts on one.         *)
(***************************************************************************)
EXTENDS DataLogger
=============================================================================
