------------------------------ MODULE LogWindow ------------------------------
(***************************************************************************)
(* What the data logger promises of its partitions: each one is a window of *)
(* the most recent records.  A record is named by the number of its         *)
(* snapshot, so that newer means greater.  Only a full window gives up a    *)
(* record, and it gives up its oldest.  A record that is lost on its way    *)
(* leaves a window that gives way one record early, its oldest still; once  *)
(* the board has restarted, any record may go.  What comes in is the newest *)
(* whatever has happened.                                                  *)
(***************************************************************************)
EXTENDS Naturals, FiniteSets

CONSTANTS
    Partitions,
    Capacity,    \* records each partition holds
    Records      \* the numbers of the snapshots

VARIABLES
    window,      \* the records each partition holds
    intact,      \* the board has not restarted
    complete     \* no record was lost on its way

flags == <<intact, complete>>

WindowInit == window = [p \in Partitions |-> {}] /\ intact = TRUE /\ complete = TRUE

\* A record, the oldest, makes room for the one about to be written.
Evict(p) ==
    /\ intact /\ complete => Cardinality(window[p]) = Capacity[p]
    /\ \E r \in window[p] :
         /\ intact => \A q \in window[p] : r <= q
         /\ window' = [window EXCEPT ![p] = @ \ {r}]
    /\ UNCHANGED flags

\* A record newer than all the others is in.
Add(p) ==
    /\ Cardinality(window[p]) < Capacity[p]
    /\ \E r \in Records :
         /\ \A q \in window[p] : q < r
         /\ window' = [window EXCEPT ![p] = @ \cup {r}]
    /\ UNCHANGED flags

\* A restart loses no record by itself.
Restart ==
    /\ intact' = FALSE
    /\ UNCHANGED <<window, complete>>

\* A record does not arrive; no other goes with it.
Lose ==
    /\ complete' = FALSE
    /\ UNCHANGED <<window, intact>>

WindowNext == Restart \/ Lose \/ \E p \in Partitions : Evict(p) \/ Add(p)

WindowSpec == WindowInit /\ [][WindowNext]_<<window, flags>>
=============================================================================
