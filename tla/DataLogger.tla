------------------------------ MODULE DataLogger ------------------------------
(***************************************************************************)
(* The data logger task and the EEPROM it writes.                           *)
(*                                                                         *)
(* Boot runs EEPROM_Init, which tests the device by overwriting byte 0, the *)
(* first byte of the log, and putting it back.  The task then loops: every  *)
(* HighEvery passes it writes a record into the high-resolution partition,  *)
(* every LongEvery passes one into the long-term partition.  A record is    *)
(* written in page bursts, each of which may fail part of the way, and the  *)
(* board may reset at any point, between bursts or inside one.  The analog  *)
(* task may cut into a burst of the task, which shares its controller       *)
(* without a lock: then, as I2CBus shows, the burst may be reported written *)
(* with bytes missing, or never return.  Indices and timers are in RAM and  *)
(* the log is in the device.                                                *)
(*                                                                         *)
(* A record is named by the number of the snapshot it holds; its k-th byte  *)
(* is <<number, k>>.                                                        *)
(***************************************************************************)
EXTENDS Eeprom

CONSTANTS
    LOG_RECORD_SIZE,
    HIGH_RES_MAX_RECORDS,
    LONG_TERM_MAX_RECORDS,
    HighEvery,     \* passes between two high-resolution records
    LongEvery,     \* passes between two long-term records
    MaxRecords,    \* bound on the number of snapshots
    MaxResets      \* bound on the number of resets

Partitions == {"high", "long"}

Capacity == [p \in Partitions |-> IF p = "high" THEN HIGH_RES_MAX_RECORDS
                                  ELSE LONG_TERM_MAX_RECORDS]

\* Mutant: the partitions overlap by a record.
Start_Overlapping(p) ==
    IF p = "high" THEN 0 ELSE (HIGH_RES_MAX_RECORDS - 1) * LOG_RECORD_SIZE

\* EEPROM_HIGH_RES_START and EEPROM_LONG_TERM_START.
Start(p) == IF p = "high" THEN 0 ELSE HIGH_RES_MAX_RECORDS * LOG_RECORD_SIZE

Slots(p) == 0 .. Capacity[p] - 1

ASSUME LoggerAssumption ==
    /\ LOG_RECORD_SIZE \in Nat \ {0}
    /\ HIGH_RES_MAX_RECORDS \in Nat \ {0} /\ LONG_TERM_MAX_RECORDS \in Nat \ {0}
    /\ HighEvery \in Nat \ {0} /\ LongEvery \in Nat \ {0}
    /\ MaxRecords \in Nat /\ MaxResets \in Nat
    /\ (HIGH_RES_MAX_RECORDS + LONG_TERM_MAX_RECORDS) * LOG_RECORD_SIZE
         <= EEPROM_TOTAL_BYTES

Records == 1 .. MaxRecords

\* A byte that was never written, and the two test patterns of EEPROM_Init.
Blank == <<0, 0>>
TokenAA == <<0, 1>>
Token55 == <<0, 2>>
Tokens == {TokenAA, Token55}

RecordByte(r, k) == <<r, k>>
Cells == {Blank} \cup Tokens \cup (Records \X (0 .. LOG_RECORD_SIZE - 1))

\* A write in progress: its bytes, where they go, how many are reported written,
\* and (history) whether bytes of those are missing after a burst that was cut into.
NoJob ==
    [address |-> 0, data |-> [k \in {} |-> Blank], len |-> 0, written |-> 0, cut |-> FALSE]
ByteJob(b) ==
    [address |-> 0, data |-> [k \in {0} |-> b], len |-> 1, written |-> 0, cut |-> FALSE]
RecordJob(a, r) ==
    [address |-> a, len |-> LOG_RECORD_SIZE, written |-> 0, cut |-> FALSE,
     data |-> [k \in 0 .. LOG_RECORD_SIZE - 1 |-> RecordByte(r, k)]]

VARIABLES
    memory,    \* the device
    pc,        \* where boot or the task is
    job,       \* the write in progress inside EEPROM_Write_Bytes
    original,  \* original_byte of EEPROM_Init
    index,     \* highResIndex and longTermIndex
    timer,     \* highResTimerMs and longTermTimerMs, in passes
    taken,     \* history: snapshots taken so far
    stored,    \* history: the record each slot holds, 0 when it holds none
    byte0,     \* history: whose byte 0 is, the log's ("log"), the self-test's
               \* while it runs ("test"), or a token's left behind ("token")
    resets,    \* resets so far
    lost       \* history: a record was reported written with bytes missing

vars == <<memory, pc, job, original, index, timer, taken, stored, byte0, resets, lost>>

WritePoints == {"probeWrite", "probeRestore", "highWrite", "longWrite"}
Points == WritePoints \cup {"probeRead", "probeVerify", "loop", "long", "hung"}

TypeOK ==
    /\ memory \in [Addresses -> Cells]
    /\ pc \in Points
    /\ job.address \in Addresses /\ job.len \in 0 .. LOG_RECORD_SIZE
    /\ job.written \in 0 .. job.len
    /\ job.data \in [0 .. job.len - 1 -> Cells] /\ job.cut \in BOOLEAN
    /\ original \in Cells
    /\ \A p \in Partitions : index[p] \in Slots(p)
    /\ timer["high"] \in 0 .. HighEvery /\ timer["long"] \in 0 .. LongEvery
    /\ taken \in 0 .. MaxRecords
    /\ \A p \in Partitions : stored[p] \in [Slots(p) -> 0 .. MaxRecords]
    /\ byte0 \in {"log", "test", "token"}
    /\ resets \in 0 .. MaxResets
    /\ lost \in BOOLEAN

Init ==
    /\ memory = [a \in Addresses |-> Blank]
    /\ pc = "probeRead"
    /\ job = NoJob
    /\ original = Blank
    /\ index = [p \in Partitions |-> 0]
    /\ timer = [p \in Partitions |-> 0]
    /\ taken = 0
    /\ stored = [p \in Partitions |-> [i \in Slots(p) |-> 0]]
    /\ byte0 = "log"
    /\ resets = 0
    /\ lost = FALSE

-----------------------------------------------------------------------------
(* EEPROM_Init.  Its result is ignored: every failure leads to the task loop. *)

logVars == <<index, timer, taken, stored, resets, lost>>

\* The self-test ends without putting byte 0 back.
SelfTestAbandoned == byte0' = IF byte0 = "test" THEN "token" ELSE byte0

\* Steps 1 and 2: read byte 0 and choose a token that differs from it.
EEPROM_Init_Read ==
    /\ pc = "probeRead"
    /\ original' = memory[0]
    /\ job' = ByteJob(IF memory[0] = TokenAA THEN Token55 ELSE TokenAA)
    /\ pc' = "probeWrite"
    /\ byte0' = IF byte0 = "log" THEN "test" ELSE byte0
    /\ UNCHANGED <<memory, logVars>>

\* Step 3 ends.
EEPROM_Init_Written ==
    /\ pc = "probeWrite" /\ job.written = job.len
    /\ pc' = "probeVerify"
    /\ UNCHANGED <<memory, job, original, byte0, logVars>>

\* Mutant: the token is written once more instead of the byte that was there.
EEPROM_Init_Verify_WrongByte ==
    /\ pc = "probeVerify"
    /\ IF memory[0] = job.data[0]
       THEN pc' = "probeRestore" /\ job' = ByteJob(memory[0]) /\ UNCHANGED byte0
       ELSE pc' = "loop" /\ job' = NoJob /\ SelfTestAbandoned
    /\ UNCHANGED <<memory, original, logVars>>

\* Step 4: the token must have arrived before byte 0 is restored.
EEPROM_Init_Verify ==
    /\ pc = "probeVerify"
    /\ IF memory[0] = job.data[0]
       THEN pc' = "probeRestore" /\ job' = ByteJob(original) /\ UNCHANGED byte0
       ELSE pc' = "loop" /\ job' = NoJob /\ SelfTestAbandoned
    /\ UNCHANGED <<memory, original, logVars>>

\* Step 5 ends.
EEPROM_Init_Restored ==
    /\ pc = "probeRestore" /\ job.written = job.len
    /\ pc' = "loop"
    /\ job' = NoJob
    /\ byte0' = IF byte0 = "test" THEN "log" ELSE byte0
    /\ UNCHANGED <<memory, original, logVars>>

\* A read of the self-test fails: EEPROM_Init returns kEeprom_I2cError.
EEPROM_Init_ReadError ==
    /\ pc \in {"probeRead", "probeVerify"}
    /\ pc' = "loop"
    /\ job' = NoJob
    /\ SelfTestAbandoned
    /\ UNCHANGED <<memory, original, logVars>>

-----------------------------------------------------------------------------
(* EEPROM_Write_Bytes, for the self-test and for the records. *)

CurrentAddr == job.address + job.written
Chunk == chunk_size(CurrentAddr, job.len - job.written)
Burst(n) == EEPROM_Write_Raw_Page(memory, CurrentAddr, job.data, job.written, n)

\* One page burst goes through.
EEPROM_Write_Bytes ==
    /\ pc \in WritePoints /\ job.written < job.len
    /\ memory' = Burst(Chunk)
    /\ job' = [job EXCEPT !.written = @ + Chunk]
    /\ UNCHANGED <<pc, original, byte0, logVars>>

\* A burst fails; the device keeps what it had received by then.
EEPROM_Write_Error ==
    /\ pc \in WritePoints /\ job.written < job.len
    /\ \E n \in 0 .. Chunk : memory' = Burst(n)
    /\ pc' = IF pc = "highWrite" THEN "long" ELSE "loop"
    /\ job' = NoJob
    /\ SelfTestAbandoned
    /\ UNCHANGED <<original, logVars>>

\* The analog task cuts into a burst of the task; the scheduler does not run yet
\* during the self-test.
Cut == pc \in {"highWrite", "longWrite"} /\ job.written < job.len

\* The burst is reported written, and the device keeps a beginning of it.
EEPROM_Write_Cut ==
    /\ Cut
    /\ \E n \in 0 .. Chunk - 1 : memory' = Burst(n)
    /\ job' = [job EXCEPT !.written = @ + Chunk, !.cut = TRUE]
    /\ UNCHANGED <<pc, original, byte0, logVars>>

\* The burst waits for a stop flag the analog task has cleared, without limit.
EEPROM_Write_Hangs ==
    /\ Cut
    /\ \E n \in 0 .. Chunk : memory' = Burst(n)
    /\ pc' = "hung"
    /\ job' = NoJob
    /\ UNCHANGED <<original, byte0, logVars>>

PollForever == pc = "hung" /\ UNCHANGED vars

-----------------------------------------------------------------------------
(* Data_Logger_Task. *)

\* The slot about to be written gives up the record it holds.
WriteRecord(p) ==
    /\ taken < MaxRecords
    /\ taken' = taken + 1
    /\ Fits(Start(p) + index[p] * LOG_RECORD_SIZE, LOG_RECORD_SIZE)
    /\ job' = RecordJob(Start(p) + index[p] * LOG_RECORD_SIZE, taken + 1)
    /\ stored' = [stored EXCEPT ![p][index[p]] = 0]
    /\ pc' = IF p = "high" THEN "highWrite" ELSE "longWrite"

\* A pass begins: both timers advance and the high-resolution one is looked at.
HighPass ==
    /\ pc = "loop"
    /\ IF timer["high"] + 1 >= HighEvery
       THEN /\ timer' = [high |-> 0, long |-> timer["long"] + 1]
            /\ WriteRecord("high")
       ELSE /\ timer' = [high |-> timer["high"] + 1, long |-> timer["long"] + 1]
            /\ pc' = "long"
            /\ UNCHANGED <<job, taken, stored>>
    /\ UNCHANGED <<memory, original, index, byte0, resets, lost>>

\* The long-term timer is looked at, and the pass ends when it is not due.
LongPass ==
    /\ pc = "long"
    /\ IF timer["long"] >= LongEvery
       THEN /\ timer' = [timer EXCEPT !["long"] = 0]
            /\ WriteRecord("long")
       ELSE /\ pc' = "loop"
            /\ UNCHANGED <<timer, job, taken, stored>>
    /\ UNCHANGED <<memory, original, index, byte0, resets, lost>>

\* Mutant: the index wraps one slot late.
NextIndex_Late(p) == IF index[p] + 1 > Capacity[p] THEN 0 ELSE index[p] + 1

\* Mutant: the index wraps to the second slot.
NextIndex_ToSecond(p) == IF index[p] + 1 >= Capacity[p] THEN 1 ELSE index[p] + 1

\* Ring buffer wrap-around.
NextIndex(p) == IF index[p] + 1 >= Capacity[p] THEN 0 ELSE index[p] + 1

\* EEPROM_Write_Record returned kStatus_Success: next slot.  The record is in, unless
\* a burst was cut into.
Committed(p) ==
    /\ pc = IF p = "high" THEN "highWrite" ELSE "longWrite"
    /\ job.written = job.len
    /\ IF job.cut
       THEN lost' = TRUE /\ UNCHANGED <<stored, byte0>>
       ELSE /\ stored' = [stored EXCEPT ![p][index[p]] = job.data[0][1]]
            /\ byte0' = IF p = "high" /\ index[p] = 0 THEN "log" ELSE byte0
            /\ UNCHANGED lost
    /\ index' = [index EXCEPT ![p] = NextIndex(p)]
    /\ pc' = IF p = "high" THEN "long" ELSE "loop"
    /\ job' = NoJob
    /\ UNCHANGED <<memory, original, timer, taken, resets>>

-----------------------------------------------------------------------------
\* Power loss or a watchdog reset, possibly inside a burst.  RAM starts afresh.
Reset ==
    /\ resets < MaxResets
    /\ resets' = resets + 1
    /\ IF pc \in WritePoints /\ job.written < job.len
       THEN \E n \in 0 .. Chunk : memory' = Burst(n)
       ELSE UNCHANGED memory
    /\ pc' = "probeRead"
    /\ job' = NoJob
    /\ original' = Blank
    /\ index' = [p \in Partitions |-> 0]
    /\ timer' = [p \in Partitions |-> 0]
    /\ SelfTestAbandoned
    /\ UNCHANGED <<taken, stored, lost>>

\* The bound on the snapshots is reached and the next one is due.
BoundReached ==
    /\ taken = MaxRecords
    /\ \/ pc = "loop" /\ timer["high"] + 1 >= HighEvery
       \/ pc = "long" /\ timer["long"] >= LongEvery
    /\ UNCHANGED vars

Program ==
    \/ EEPROM_Init_Read
    \/ EEPROM_Init_Written
    \/ EEPROM_Init_Verify
    \/ EEPROM_Init_Restored
    \/ EEPROM_Write_Bytes
    \/ HighPass
    \/ LongPass
    \/ \E p \in Partitions : Committed(p)

Next ==
    \/ Program
    \/ EEPROM_Init_ReadError
    \/ EEPROM_Write_Error
    \/ EEPROM_Write_Cut
    \/ EEPROM_Write_Hangs
    \/ PollForever
    \/ Reset
    \/ BoundReached

Spec == Init /\ [][Next]_vars

\* The task has the processor again after every preemption.
FairSpec == Spec /\ WF_vars(Program)

-----------------------------------------------------------------------------
(* Properties. *)

InSlot(a, p, i) ==
    /\ Start(p) + i * LOG_RECORD_SIZE <= a
    /\ a < Start(p) + (i + 1) * LOG_RECORD_SIZE

\* No burst ever lands outside the slot whose record is being written, or outside
\* byte 0 during the self-test: the page clamp of EEPROM_Write_Bytes keeps the
\* device from rolling over into a neighbour's bytes.
WritesStayInSlot ==
    [][\A a \in Addresses : memory'[a] # memory[a] =>
          \/ pc \in {"probeWrite", "probeRestore"} /\ a = 0
          \/ pc = "highWrite" /\ InSlot(a, "high", index["high"])
          \/ pc = "longWrite" /\ InSlot(a, "long", index["long"])]_vars

\* A record that was reported written in bursts nobody cut into is in the device byte
\* for byte until its slot is written again, through failed bursts, torn and cut
\* writes of other slots and resets.  The self-test of EEPROM_Init keeps its side:
\* byte 0 is not the log's only while the test runs, and after a test that an error
\* or a reset ended early.
StoredIsIntact ==
    \A p \in Partitions : \A i \in Slots(p) :
        stored[p][i] # 0 =>
            \A k \in 0 .. LOG_RECORD_SIZE - 1 :
                LET a == Start(p) + i * LOG_RECORD_SIZE + k
                IN  \/ memory[a] = RecordByte(stored[p][i], k)
                    \/ a = 0 /\ byte0 # "log" /\ memory[a] \in Tokens

\* EEPROM_Write_Bytes returns: each burst carries at least a byte, so a write
\* that is under way ends in success, in an error or in a reset, unless the analog
\* task cut into a burst and took the stop flag it waits for.
WriteEnds == pc \in WritePoints ~> pc \notin WritePoints

Held(p) == {stored[p][i] : i \in Slots(p)} \ {0}

Window == INSTANCE LogWindow WITH
    window <- [p \in Partitions |-> Held(p)],
    intact <- resets = 0,
    complete <- ~lost

\* Each partition is a window of the latest records (LogWindow): until the board
\* resets, Data_Logger_Task gives up a record only when a partition is full, and
\* the oldest first; a reset itself loses none, and a record that comes in is
\* newer than every record its partition holds.  A record whose burst was cut into
\* costs its own place and no other record.
ImplementsLogWindow == Window!WindowSpec

\* What the header of Data_Logger_service.c promises of a ring buffer: the record
\* that is overwritten is the oldest of its partition.
OverwritesOldest ==
    [][\A p \in Partitions : \A i \in Slots(p) :
          stored[p][i] # 0 /\ stored'[p][i] = 0 =>
              \A r \in Held(p) : stored[p][i] <= r]_vars
=============================================================================
