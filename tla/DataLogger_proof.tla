--------------------------- MODULE DataLogger_proof ---------------------------
(***************************************************************************)
(* Proofs about the data logger, for every page size, record size, capacity *)
(* of the partitions and period of the task.                                *)
(*                                                                         *)
(* IInv says what a write in progress has already put into the device, that *)
(* the slot being written holds no record, and what byte 0 has to be again  *)
(* when a self-test ends.  With it a burst, whole, torn or cut, keeps every *)
(* record of every other slot (StoredRecordsSurvive) and stays inside its   *)
(* own (WritesConfined).  RingInv adds the order of the slots: until a      *)
(* reset the records are numbered along the ring from the index on, so the  *)
(* slot at the index holds the oldest, which is what implementing LogWindow *)
(* takes (LoggerImplementsWindow).                                          *)
(***************************************************************************)
EXTENDS DataLogger, FiniteSetTheorems, TLAPS

-----------------------------------------------------------------------------
(* The split of a write into bursts, for every page size, address and length. *)

\* An offset within a page stays one of the page's offsets.
LEMMA PageOffset ==
    ASSUME NEW a \in Nat
    PROVE  a % EEPROM_PAGE_SIZE \in 0 .. EEPROM_PAGE_SIZE - 1
BY EepromAssumption

\* The loop of EEPROM_Write_Bytes always makes progress and never sends more than
\* is left: each burst carries at least one byte and at most the remaining ones.
THEOREM BurstProgresses ==
    ASSUME NEW current_addr \in Nat, NEW remaining_bytes \in Nat \ {0}
    PROVE  chunk_size(current_addr, remaining_bytes) \in 1 .. remaining_bytes
BY PageOffset, EepromAssumption DEF chunk_size

\* A clamped burst never rolls over inside the device: its byte k lands k bytes
\* behind the address the driver gave, for every page size.
THEOREM BurstLandsInOrder ==
    ASSUME NEW current_addr \in Nat, NEW remaining_bytes \in Nat \ {0},
           NEW k \in 0 .. chunk_size(current_addr, remaining_bytes) - 1
    PROVE  Landing(current_addr, k) = current_addr + k
<1> DEFINE offset == current_addr % EEPROM_PAGE_SIZE
<1>1. offset \in 0 .. EEPROM_PAGE_SIZE - 1
  BY PageOffset
<1>2. chunk_size(current_addr, remaining_bytes) \in 1 .. (EEPROM_PAGE_SIZE - offset)
  BY <1>1, EepromAssumption DEF chunk_size
<1>3. offset + k \in 0 .. EEPROM_PAGE_SIZE - 1
  BY <1>1, <1>2, EepromAssumption
<1> HIDE DEF offset
<1>4. (offset + k) % EEPROM_PAGE_SIZE = offset + k
  BY <1>3, EepromAssumption
<1>5. Landing(current_addr, k) = current_addr - offset + ((offset + k) % EEPROM_PAGE_SIZE)
  BY DEF Landing, offset
<1> QED
  BY <1>1, <1>3, <1>4, <1>5

\* A burst of a write that fits the device stays inside it.
THEOREM BurstStaysInDevice ==
    ASSUME NEW address \in Nat, NEW len \in Nat, NEW bytes_written \in 0 .. len - 1,
           Fits(address, len),
           NEW k \in 0 .. chunk_size(address + bytes_written, len - bytes_written) - 1
    PROVE  Landing(address + bytes_written, k) \in Addresses
<1>1. /\ address + bytes_written \in Nat
      /\ len - bytes_written \in Nat \ {0}
  OBVIOUS
<1>2. chunk_size(address + bytes_written, len - bytes_written) \in 1 .. (len - bytes_written)
  BY <1>1, BurstProgresses
<1>3. Landing(address + bytes_written, k) = address + bytes_written + k
  BY <1>1, BurstLandsInOrder
<1> QED
  BY <1>2, <1>3, EepromAssumption DEF Fits, Addresses

-----------------------------------------------------------------------------
(* The layout of the partitions. *)

\* Where slot i of partition p begins.
Base(p, i) == Start(p) + i * LOG_RECORD_SIZE

\* Slots of one partition are a record apart.
LEMMA Stride ==
    ASSUME NEW i \in Nat, NEW j \in Nat, i < j
    PROVE  /\ i * LOG_RECORD_SIZE \in Nat /\ j * LOG_RECORD_SIZE \in Nat
           /\ i * LOG_RECORD_SIZE + LOG_RECORD_SIZE <= j * LOG_RECORD_SIZE
<1> DEFINE S == LOG_RECORD_SIZE
<1>1. S \in Nat  BY LoggerAssumption
<1>2. j - i - 1 \in Nat  OBVIOUS
<1> HIDE DEF S
<1>3. (j - i - 1) * S \in Nat /\ i * S \in Nat /\ j * S \in Nat  BY <1>1, <1>2
<1>4. (j - i - 1) * S = j * S - i * S - S  BY <1>1
<1> QED  BY <1>1, <1>3, <1>4 DEF S

\* A slot lies inside the device.
LEMMA SlotInDevice ==
    ASSUME NEW p \in Partitions, NEW i \in Slots(p)
    PROVE  /\ Base(p, i) \in Nat
           /\ Base(p, i) + LOG_RECORD_SIZE <= EEPROM_TOTAL_BYTES
<1> DEFINE S == LOG_RECORD_SIZE
           H == HIGH_RES_MAX_RECORDS
           L == LONG_TERM_MAX_RECORDS
<1>1. S \in Nat /\ H \in Nat /\ L \in Nat /\ EEPROM_TOTAL_BYTES \in Nat
  BY LoggerAssumption, EepromAssumption
<1>2. (H + L) * S = H * S + L * S /\ H * S \in Nat /\ L * S \in Nat
  BY <1>1
<1>3. H * S + L * S <= EEPROM_TOTAL_BYTES
  BY <1>2, LoggerAssumption
<1>4. i \in Nat /\ i < Capacity[p] /\ Capacity[p] \in Nat
  BY <1>1 DEF Slots, Capacity, Partitions
<1>5. i * S \in Nat /\ i * S + S <= Capacity[p] * S
  BY <1>4, Stride
<1>6. CASE p = "high"
  <2>1. Capacity[p] = H /\ Start(p) = 0  BY <1>6 DEF Capacity, Start, Partitions
  <2> HIDE DEF S, H, L
  <2> QED  BY <1>1, <1>2, <1>3, <1>5, <2>1 DEF Base, S
<1>7. CASE p = "long"
  <2>1. Capacity[p] = L /\ Start(p) = H * S  BY <1>7 DEF Capacity, Start, Partitions
  <2> HIDE DEF S, H, L
  <2> QED  BY <1>1, <1>2, <1>3, <1>5, <2>1 DEF Base, S
<1> QED  BY <1>6, <1>7 DEF Partitions

\* No two slots share a byte.
LEMMA SlotsApart ==
    ASSUME NEW p \in Partitions, NEW i \in Slots(p),
           NEW q \in Partitions, NEW j \in Slots(q), p # q \/ i # j
    PROVE  \/ Base(p, i) + LOG_RECORD_SIZE <= Base(q, j)
           \/ Base(q, j) + LOG_RECORD_SIZE <= Base(p, i)
<1>1. ASSUME NEW x \in Slots("high"), NEW y \in Slots("long")
      PROVE  Base("high", x) + LOG_RECORD_SIZE <= Base("long", y)
  <2>1. /\ x \in Nat /\ x < HIGH_RES_MAX_RECORDS /\ HIGH_RES_MAX_RECORDS \in Nat
        /\ y \in Nat /\ LOG_RECORD_SIZE \in Nat
    BY LoggerAssumption DEF Slots, Capacity, Partitions
  <2>2. /\ x * LOG_RECORD_SIZE \in Nat
        /\ x * LOG_RECORD_SIZE + LOG_RECORD_SIZE <= HIGH_RES_MAX_RECORDS * LOG_RECORD_SIZE
        /\ HIGH_RES_MAX_RECORDS * LOG_RECORD_SIZE \in Nat
    BY <2>1, Stride
  <2>3. y * LOG_RECORD_SIZE \in Nat  BY <2>1
  <2>4. /\ Base("high", x) = x * LOG_RECORD_SIZE
        /\ Base("long", y) = HIGH_RES_MAX_RECORDS * LOG_RECORD_SIZE + y * LOG_RECORD_SIZE
    BY <2>2, <2>3 DEF Base, Start
  <2> QED  BY <2>1, <2>2, <2>3, <2>4
<1>2. ASSUME p = q, NEW x \in Slots(p), NEW y \in Slots(p), x < y
      PROVE  Base(p, x) + LOG_RECORD_SIZE <= Base(p, y)
  <2>1. x \in Nat /\ y \in Nat  BY DEF Slots
  <2>2. /\ x * LOG_RECORD_SIZE \in Nat /\ y * LOG_RECORD_SIZE \in Nat
        /\ x * LOG_RECORD_SIZE + LOG_RECORD_SIZE <= y * LOG_RECORD_SIZE
    BY <1>2, <2>1, Stride
  <2>3. Start(p) \in Nat /\ LOG_RECORD_SIZE \in Nat  BY LoggerAssumption DEF Start
  <2> QED  BY <2>2, <2>3 DEF Base
<1>3. CASE p = q
  <2>1. i < j \/ j < i  BY <1>3 DEF Slots
  <2> QED  BY <1>2, <1>3, <2>1
<1>4. CASE p # q
  BY <1>1, <1>4 DEF Partitions
<1> QED  BY <1>3, <1>4

\* Byte 0, which the self-test overwrites, is the first byte of the first
\* high-resolution slot and of no other.
LEMMA ByteZero ==
    /\ "high" \in Partitions /\ 0 \in Slots("high") /\ Base("high", 0) = 0
    /\ 0 \in Addresses
    /\ \A p \in Partitions : \A i \in Slots(p) :
         (p # "high" \/ i # 0) => Base(p, i) >= LOG_RECORD_SIZE
<1>1. "high" \in Partitions /\ 0 \in Slots("high")
  BY LoggerAssumption DEF Slots, Capacity, Partitions
<1>2. Base("high", 0) = 0  BY LoggerAssumption DEF Base, Start
<1>3. 0 \in Addresses
  BY <1>1, <1>2, SlotInDevice, LoggerAssumption, EepromAssumption DEF Addresses
<1>4. ASSUME NEW p \in Partitions, NEW i \in Slots(p), p # "high" \/ i # 0
      PROVE  Base(p, i) >= LOG_RECORD_SIZE
  <2>1. Base(p, i) \in Nat  BY SlotInDevice
  <2> QED  BY <1>1, <1>2, <1>4, <2>1, SlotsApart, LoggerAssumption
<1> QED  BY <1>1, <1>2, <1>3, <1>4
-----------------------------------------------------------------------------
(* The inductive invariant. *)

\* A write in progress is well-formed.
JobOK(j) ==
    /\ j = [address |-> j.address, data |-> j.data, len |-> j.len, written |-> j.written,
            cut |-> j.cut]
    /\ j.address \in Addresses /\ j.len \in 0 .. LOG_RECORD_SIZE
    /\ j.written \in 0 .. j.len
    /\ j.data \in [0 .. j.len - 1 -> Cells] /\ j.cut \in BOOLEAN

\* The index is a slot of its partition and every slot has a record or none.
PartitionsOK ==
    /\ DOMAIN index = Partitions /\ DOMAIN stored = Partitions
    /\ \A p \in Partitions :
         index[p] \in Slots(p) /\ stored[p] \in [Slots(p) -> 0 .. MaxRecords]

\* The timers are below their limits wherever a pass may begin.
TimersOK ==
    /\ DOMAIN timer = Partitions
    /\ timer["high"] \in 0 .. HighEvery - 1 /\ timer["long"] \in 0 .. LongEvery
    /\ pc \notin {"highWrite", "long", "hung"} => timer["long"] < LongEvery

\* TypeOK with what makes it inductive.
TypeInv ==
    /\ memory \in [Addresses -> Cells]
    /\ pc \in Points
    /\ JobOK(job)
    /\ original \in Cells
    /\ PartitionsOK
    /\ TimersOK
    /\ taken \in 0 .. MaxRecords
    /\ byte0 \in {"log", "test", "token"}
    /\ resets \in 0 .. MaxResets
    /\ lost \in BOOLEAN

ProbePoints == {"probeWrite", "probeVerify", "probeRestore"}

WritePoint(p) == IF p = "high" THEN "highWrite" ELSE "longWrite"

\* The write in progress is the one the program counter stands for: the token or
\* the original byte at address 0, or the last snapshot at the current slot.
JobIsCurrent ==
    /\ pc \in {"probeRead", "loop", "long", "hung"} => job = NoJob
    /\ pc \in ProbePoints => job.address = 0 /\ job.len = 1 /\ job.cut = FALSE
    /\ pc \in {"probeWrite", "probeVerify"} => job.data[0] \in Tokens
    /\ pc = "probeVerify" => job.written = 1
    /\ pc = "probeRestore" => job.data[0] = original
    /\ \A p \in Partitions : pc = WritePoint(p) =>
         /\ taken # 0
         /\ job.address = Base(p, index[p]) /\ job.len = LOG_RECORD_SIZE
         /\ \A k \in 0 .. LOG_RECORD_SIZE - 1 : job.data[k] = RecordByte(taken, k)

\* The bytes counted as written are in the device, unless a burst was cut into.
WrittenIsThere ==
    ~job.cut => \A k \in 0 .. job.len - 1 : k < job.written => memory[job.address + k] = job.data[k]

\* Records are numbered in the order they were taken, and the slot being written
\* holds none.
StoredIsOlder ==
    \A p \in Partitions :
        /\ \A i \in Slots(p) : stored[p][i] <= taken
        /\ pc = WritePoint(p) => stored[p][index[p]] = 0
        /\ pc \in {"highWrite", "longWrite"} => \A i \in Slots(p) : stored[p][i] < taken

\* While the self-test runs, original is what byte 0 has to be again: the log's
\* byte, unless an earlier test left its token there.
OriginalIsKept ==
    /\ byte0 = "test" => pc \in ProbePoints
    /\ pc \in ProbePoints =>
         /\ byte0 # "log"
         /\ stored["high"][0] # 0 =>
              \/ original = RecordByte(stored["high"][0], 0)
              \/ byte0 = "token" /\ original \in Tokens

IInv ==
    /\ TypeInv
    /\ JobIsCurrent
    /\ WrittenIsThere
    /\ StoredIsOlder
    /\ OriginalIsKept
    /\ StoredIsIntact

\* Slot i of partition p was written before slot j: the slots from the index on,
\* then those before it.
Before(p, i, j) ==
    \/ i < j /\ (j < index[p] \/ index[p] <= i)
    \/ index[p] <= i /\ j < index[p]

\* The records a partition holds are numbered in that order, so none is held twice.
Ordered(p) ==
    \A i, j \in Slots(p) :
        stored[p][i] # 0 /\ stored[p][j] # 0 /\ Before(p, i, j) => stored[p][i] < stored[p][j]

\* Before the index every slot is filled; from it on none is, or all but the one
\* at the index, which a failed write may have left empty; true while none was lost.
Filled(p) ==
    /\ \A i \in Slots(p) : i < index[p] => stored[p][i] # 0
    /\ \/ \A i \in Slots(p) : i >= index[p] => stored[p][i] = 0
       \/ \A i \in Slots(p) : i > index[p] => stored[p][i] # 0

\* No record is in two slots of a partition.
HeldOnce ==
    \A p \in Partitions : \A i, j \in Slots(p) :
        stored[p][i] # 0 /\ stored[p][i] = stored[p][j] => i = j

RingInv ==
    /\ HeldOnce
    /\ resets = 0 => \A p \in Partitions : Ordered(p) /\ (~lost => Filled(p))
-----------------------------------------------------------------------------
(* What a burst does. *)

\* A burst carries at least one byte of the write in progress and none past its end.
LEMMA ChunkOfJob ==
    ASSUME TypeOK, job.written < job.len
    PROVE  /\ CurrentAddr \in Nat /\ job.written \in Nat /\ job.len \in Nat
           /\ job.address \in Nat /\ job.len - job.written \in Nat \ {0}
           /\ Chunk \in 1 .. job.len - job.written
<1>1. /\ CurrentAddr \in Nat /\ job.written \in Nat /\ job.len \in Nat /\ job.address \in Nat
      /\ job.len - job.written \in Nat \ {0}
  BY LoggerAssumption, EepromAssumption DEF TypeOK, CurrentAddr, Addresses
<1> QED  BY <1>1, BurstProgresses DEF Chunk

\* A clamped burst of which the device stored n bytes: byte k of the write in
\* progress goes to the k-th address behind job.address, and no other byte of the
\* device changes.
LEMMA BurstOfJob ==
    ASSUME TypeOK, job.written < job.len, NEW n \in 0 .. Chunk
    PROVE  /\ n \in 0 .. job.len - job.written
           /\ Burst(n) \in [Addresses -> Cells]
           /\ \A a \in Addresses :
                Burst(n)[a] = IF CurrentAddr <= a /\ a < CurrentAddr + n
                              THEN job.data[a - job.address] ELSE memory[a]
<1>1. /\ CurrentAddr \in Nat /\ job.written \in Nat /\ job.len \in Nat /\ job.address \in Nat
      /\ job.len - job.written \in Nat \ {0}
  BY ChunkOfJob
<1>2. Chunk \in 1 .. job.len - job.written /\ n \in Nat
  BY ChunkOfJob
<1>3. \A k \in 0 .. n - 1 : Landing(CurrentAddr, k) = CurrentAddr + k
  <2>1. \A k \in 0 .. n - 1 : k \in 0 .. chunk_size(CurrentAddr, job.len - job.written) - 1
    BY <1>1, <1>2 DEF Chunk
  <2> QED  BY <1>1, <2>1, BurstLandsInOrder
<1>4. ASSUME NEW a \in Addresses
      PROVE  Burst(n)[a] = IF CurrentAddr <= a /\ a < CurrentAddr + n
                           THEN job.data[a - job.address] ELSE memory[a]
  <2> DEFINE P(k) == Landing(CurrentAddr, k) = a
             first == CHOOSE k \in 0 .. n - 1 : P(k)
  <2>1. a \in Int
    BY EepromAssumption DEF Addresses
  <2>2. Burst(n)[a] = IF \E k \in 0 .. n - 1 : P(k)
                      THEN job.data[job.written + first] ELSE memory[a]
    BY DEF Burst, EEPROM_Write_Raw_Page
  <2>3. CASE CurrentAddr <= a /\ a < CurrentAddr + n
    <3>1. a - CurrentAddr \in 0 .. n - 1 /\ P(a - CurrentAddr)
      BY <1>1, <1>2, <1>3, <2>1, <2>3
    <3>2. \A k \in 0 .. n - 1 : P(k) => k = a - CurrentAddr
      BY <1>1, <1>2, <1>3, <2>1
    <3> HIDE DEF P
    <3>3. first = a - CurrentAddr
      BY <3>1, <3>2
    <3>4. job.written + (a - CurrentAddr) = a - job.address
      BY <1>1, <2>1 DEF CurrentAddr
    <3> QED  BY <2>2, <2>3, <3>1, <3>3, <3>4
  <2>4. CASE ~(CurrentAddr <= a /\ a < CurrentAddr + n)
    <3>1. ~ \E k \in 0 .. n - 1 : P(k)
      BY <1>1, <1>2, <1>3, <2>1, <2>4
    <3> HIDE DEF P, first
    <3> QED  BY <2>2, <2>4, <3>1
  <2> QED  BY <2>3, <2>4
<1>5. ASSUME NEW a \in Addresses
      PROVE  Burst(n)[a] \in Cells
  <2>1. CASE CurrentAddr <= a /\ a < CurrentAddr + n
    <3>1. a - job.address \in 0 .. job.len - 1
      BY <1>1, <1>2, <2>1, EepromAssumption DEF CurrentAddr, Addresses
    <3> QED  BY <1>4, <2>1, <3>1 DEF TypeOK
  <2>2. CASE ~(CurrentAddr <= a /\ a < CurrentAddr + n)
    BY <1>4, <2>2 DEF TypeOK
  <2> QED  BY <2>1, <2>2
<1>6. Burst(n) = [a \in Addresses |-> Burst(n)[a]]
  BY DEF Burst, EEPROM_Write_Raw_Page
<1>7. Burst(n) \in [Addresses -> Cells]
  BY <1>5, <1>6
<1> QED  BY <1>1, <1>2, <1>4, <1>7
-----------------------------------------------------------------------------
(* Types. *)

\* The writes the program starts are well-formed.
LEMMA JobTypes ==
    /\ JobOK(NoJob)
    /\ \A b \in Cells : JobOK(ByteJob(b))
    /\ \A p \in Partitions : \A i \in Slots(p) : \A r \in Records :
         JobOK(RecordJob(Base(p, i), r))
<1>1. 0 \in Addresses /\ LOG_RECORD_SIZE \in Nat \ {0}
  BY ByteZero, LoggerAssumption
<1>2. JobOK(NoJob)
  BY <1>1 DEF JobOK, NoJob, Cells
<1>3. ASSUME NEW b \in Cells PROVE JobOK(ByteJob(b))
  BY <1>1 DEF JobOK, ByteJob
<1>4. ASSUME NEW p \in Partitions, NEW i \in Slots(p), NEW r \in Records
      PROVE  JobOK(RecordJob(Base(p, i), r))
  <2>1. Base(p, i) \in Addresses
    BY <1>1, SlotInDevice, EepromAssumption DEF Addresses
  <2>2. \A k \in 0 .. LOG_RECORD_SIZE - 1 : RecordByte(r, k) \in Cells
    BY DEF RecordByte, Cells
  <2> QED  BY <1>1, <2>1, <2>2 DEF JobOK, RecordJob
<1> QED  BY <1>2, <1>3, <1>4

\* The index stays within its partition.
LEMMA IndexType ==
    ASSUME NEW p \in Partitions, index[p] \in Slots(p)
    PROVE  NextIndex(p) \in Slots(p) /\ 0 \in Slots(p)
<1>1. Capacity[p] \in Nat \ {0}
  BY LoggerAssumption DEF Capacity, Partitions
<1> QED  BY <1>1 DEF Slots, NextIndex

\* TypeInv is strong enough.
LEMMA TypeInvImplies == TypeInv => TypeOK
<1> SUFFICES ASSUME TypeInv PROVE TypeOK
  OBVIOUS
<1>1. timer["high"] \in 0 .. HighEvery /\ timer["long"] \in 0 .. LongEvery
  BY LoggerAssumption DEF TypeInv, TimersOK
<1>2. /\ job.address \in Addresses /\ job.len \in 0 .. LOG_RECORD_SIZE
      /\ job.written \in 0 .. job.len /\ job.data \in [0 .. job.len - 1 -> Cells]
      /\ job.cut \in BOOLEAN
  BY DEF TypeInv, JobOK
<1> QED  BY <1>1, <1>2 DEF TypeInv, TypeOK, PartitionsOK

\* Init_Data_Logger_service finds a blank device and starts with every index and
\* timer at zero.
LEMMA TypeInit == Init => TypeInv
<1> SUFFICES ASSUME Init PROVE TypeInv
  OBVIOUS
<1>1. JobOK(job)
  BY JobTypes DEF Init
<1>2. Blank \in Cells
  BY DEF Cells
<1>3. PartitionsOK
  BY LoggerAssumption DEF Init, PartitionsOK, Partitions, Slots, Capacity
<1>4. TimersOK
  BY LoggerAssumption DEF Init, TimersOK, Partitions
<1>5. memory \in [Addresses -> Cells] /\ original \in Cells
  BY <1>2 DEF Init
<1>6. pc \in Points /\ byte0 \in {"log", "test", "token"} /\ lost \in BOOLEAN
  BY DEF Init, Points
<1>7. taken \in 0 .. MaxRecords /\ resets \in 0 .. MaxResets
  BY LoggerAssumption DEF Init
<1> QED
  BY <1>1, <1>3, <1>4, <1>5, <1>6, <1>7 DEF TypeInv

\* What a step that starts and ends no record leaves of the log's variables.
LEMMA LogKept ==
    ASSUME TypeInv, UNCHANGED logVars,
           pc' \notin {"highWrite", "long", "hung"} => timer["long"] < LongEvery
    PROVE  /\ PartitionsOK' /\ TimersOK'
           /\ taken' \in 0 .. MaxRecords /\ resets' \in 0 .. MaxResets /\ lost' \in BOOLEAN
<1>1. PartitionsOK'
  BY DEF TypeInv, PartitionsOK, logVars, Slots
<1>2. TimersOK'
  BY DEF TypeInv, TimersOK, logVars
<1> QED  BY <1>1, <1>2 DEF TypeInv, logVars

\* Starting a record keeps the types, for either partition.
LEMMA WriteRecordType ==
    ASSUME TypeInv, NEW p \in Partitions, WriteRecord(p)
    PROVE  /\ JobOK(job)' /\ pc' = WritePoint(p) /\ pc' \in Points
           /\ taken' \in 1 .. MaxRecords
           /\ DOMAIN stored' = Partitions
           /\ \A q \in Partitions : stored'[q] \in [Slots(q) -> 0 .. MaxRecords]
<1>1. index[p] \in Slots(p) /\ taken \in 0 .. MaxRecords /\ MaxRecords \in Nat
  BY LoggerAssumption DEF TypeInv, PartitionsOK
<1>2. taken + 1 \in Records /\ taken' \in 1 .. MaxRecords
  BY <1>1 DEF WriteRecord, Records
<1>3. job' = RecordJob(Base(p, index[p]), taken + 1)
  BY DEF WriteRecord, Base
<1>4. JobOK(job')
  BY <1>1, <1>2, <1>3, JobTypes
<1>5. /\ DOMAIN stored' = Partitions
      /\ \A q \in Partitions : stored'[q] \in [Slots(q) -> 0 .. MaxRecords]
  BY <1>1 DEF TypeInv, PartitionsOK, WriteRecord
<1> QED
  BY <1>2, <1>4, <1>5 DEF WriteRecord, WritePoint, Points, WritePoints, JobOK

\* Every step of boot, of the task, of the device and of a reset keeps every
\* variable within its type.
LEMMA TypeStep ==
    ASSUME TypeInv, JobIsCurrent, [Next]_vars
    PROVE  TypeInv'
<1>0. /\ memory \in [Addresses -> Cells] /\ original \in Cells /\ pc \in Points
      /\ byte0 \in {"log", "test", "token"} /\ JobOK(job) /\ JobOK(NoJob) /\ TypeOK
      /\ 0 \in Addresses
      /\ Blank \in Cells /\ TokenAA \in Cells /\ Token55 \in Cells
      /\ pc \notin {"highWrite", "long", "hung"} => timer["long"] < LongEvery
  BY ByteZero, JobTypes, TypeInvImplies DEF TypeInv, TimersOK, Cells, Tokens
<1>1. CASE EEPROM_Init_Read
  <2>1. JobOK(job')
    BY <1>0, <1>1, JobTypes DEF EEPROM_Init_Read
  <2>2. memory' \in [Addresses -> Cells] /\ original' \in Cells /\ pc' = "probeWrite"
    BY <1>0, <1>1 DEF EEPROM_Init_Read
  <2>3. byte0' \in {"log", "test", "token"} /\ UNCHANGED logVars
    BY <1>0, <1>1 DEF EEPROM_Init_Read
  <2> QED
    BY <1>0, <1>1, <2>1, <2>2, <2>3, LogKept
    DEF EEPROM_Init_Read, TypeInv, Points, WritePoints, JobOK
<1>2. CASE EEPROM_Init_Written
  BY <1>0, <1>2, LogKept DEF EEPROM_Init_Written, TypeInv, Points, WritePoints, JobOK
<1>3. CASE EEPROM_Init_Verify
  <2>1. JobOK(job')
    BY <1>0, <1>3, JobTypes DEF EEPROM_Init_Verify
  <2> QED
    BY <1>0, <1>3, <2>1, LogKept
    DEF EEPROM_Init_Verify, SelfTestAbandoned, TypeInv, Points, WritePoints, JobOK
<1>4. CASE EEPROM_Init_Restored
  BY <1>0, <1>4, LogKept DEF EEPROM_Init_Restored, TypeInv, Points, WritePoints, JobOK
<1>5. CASE EEPROM_Init_ReadError
  BY <1>0, <1>5, LogKept
  DEF EEPROM_Init_ReadError, SelfTestAbandoned, TypeInv, Points, WritePoints, JobOK
<1>6. CASE EEPROM_Write_Bytes
  <2>1. job.written < job.len
    BY <1>6 DEF EEPROM_Write_Bytes
  <2>2. Chunk \in 1 .. job.len - job.written /\ job.written \in Nat /\ job.len \in Nat
    BY <1>0, <2>1, ChunkOfJob
  <2>3. memory' \in [Addresses -> Cells]
    BY <1>0, <1>6, <2>1, <2>2, BurstOfJob DEF EEPROM_Write_Bytes
  <2>4. JobOK(job')
    <3>1. job' = [address |-> job.address, data |-> job.data, len |-> job.len,
                  written |-> job.written + Chunk, cut |-> job.cut]
      BY <1>0, <1>6 DEF EEPROM_Write_Bytes, JobOK
    <3>2. job.written + Chunk \in 0 .. job.len
      BY <2>2
    <3> QED  BY <1>0, <3>1, <3>2 DEF JobOK
  <2> QED
    BY <1>0, <1>6, <2>3, <2>4, LogKept DEF EEPROM_Write_Bytes, TypeInv, JobOK
<1>7. CASE EEPROM_Write_Error
  <2>1. memory' \in [Addresses -> Cells]
    BY <1>0, <1>7, BurstOfJob DEF EEPROM_Write_Error
  <2>2. pc' \notin {"highWrite", "long", "hung"} => timer["long"] < LongEvery
    BY <1>0, <1>7 DEF EEPROM_Write_Error, WritePoints
  <2> QED
    BY <1>0, <1>7, <2>1, <2>2, LogKept
    DEF EEPROM_Write_Error, SelfTestAbandoned, TypeInv, Points, WritePoints, JobOK
<1>13. CASE EEPROM_Write_Cut
  <2>1. job.written < job.len
    BY <1>13 DEF EEPROM_Write_Cut, Cut
  <2>2. Chunk \in 1 .. job.len - job.written /\ job.written \in Nat /\ job.len \in Nat
    BY <1>0, <2>1, ChunkOfJob
  <2>3. memory' \in [Addresses -> Cells]
    <3>1. PICK n \in 0 .. Chunk - 1 : memory' = Burst(n)
      BY <1>13 DEF EEPROM_Write_Cut
    <3> QED  BY <1>0, <2>1, <2>2, <3>1, BurstOfJob
  <2>4. JobOK(job')
    <3>1. job' = [address |-> job.address, data |-> job.data, len |-> job.len,
                  written |-> job.written + Chunk, cut |-> TRUE]
      BY <1>0, <1>13 DEF EEPROM_Write_Cut, JobOK
    <3>2. job.written + Chunk \in 0 .. job.len
      BY <2>2
    <3> QED  BY <1>0, <3>1, <3>2 DEF JobOK
  <2> QED
    BY <1>0, <1>13, <2>3, <2>4, LogKept DEF EEPROM_Write_Cut, TypeInv, JobOK
<1>14. CASE EEPROM_Write_Hangs
  <2>1. memory' \in [Addresses -> Cells]
    BY <1>0, <1>14, BurstOfJob DEF EEPROM_Write_Hangs, Cut
  <2> QED
    BY <1>0, <1>14, <2>1, LogKept DEF EEPROM_Write_Hangs, TypeInv, Points, WritePoints, JobOK
<1>8. CASE HighPass
  <2>1. /\ timer["high"] \in 0 .. HighEvery - 1 /\ timer["long"] \in 0 .. LongEvery - 1
        /\ HighEvery \in Nat /\ LongEvery \in Nat /\ pc = "loop"
    BY <1>8, LoggerAssumption DEF HighPass, TypeInv, TimersOK
  <2>2. CASE timer["high"] + 1 >= HighEvery
    <3>1. WriteRecord("high") /\ timer' = [high |-> 0, long |-> timer["long"] + 1]
      BY <1>8, <2>2 DEF HighPass
    <3>2. /\ JobOK(job)' /\ pc' = "highWrite" /\ pc' \in Points /\ taken' \in 0 .. MaxRecords
          /\ DOMAIN stored' = Partitions
          /\ \A q \in Partitions : stored'[q] \in [Slots(q) -> 0 .. MaxRecords]
      BY <3>1, WriteRecordType, LoggerAssumption DEF Partitions, WritePoint
    <3>3. TimersOK'
      BY <2>1, <3>1, <3>2 DEF TimersOK, Partitions
    <3>4. PartitionsOK'
      BY <1>8, <3>2 DEF HighPass, TypeInv, PartitionsOK, Slots
    <3> QED  BY <1>8, <3>2, <3>3, <3>4 DEF HighPass, TypeInv
  <2>3. CASE ~(timer["high"] + 1 >= HighEvery)
    <3>1. /\ timer' = [high |-> timer["high"] + 1, long |-> timer["long"] + 1]
          /\ pc' = "long" /\ UNCHANGED <<job, taken, stored>>
      BY <1>8, <2>3 DEF HighPass
    <3>2. TimersOK'
      BY <2>1, <2>3, <3>1 DEF TimersOK, Partitions
    <3>3. PartitionsOK'
      BY <1>8, <3>1 DEF HighPass, TypeInv, PartitionsOK, Slots
    <3> QED  BY <1>8, <3>1, <3>2, <3>3 DEF HighPass, TypeInv, Points, WritePoints, JobOK
  <2> QED  BY <2>2, <2>3
<1>9. CASE LongPass
  <2>1. /\ timer["high"] \in 0 .. HighEvery - 1 /\ timer["long"] \in 0 .. LongEvery
        /\ HighEvery \in Nat /\ LongEvery \in Nat \ {0} /\ DOMAIN timer = Partitions
    BY <1>9, LoggerAssumption DEF TypeInv, TimersOK
  <2>2. CASE timer["long"] >= LongEvery
    <3>1. WriteRecord("long") /\ timer' = [timer EXCEPT !["long"] = 0]
      BY <1>9, <2>2 DEF LongPass
    <3>2. /\ JobOK(job)' /\ pc' = "longWrite" /\ pc' \in Points /\ taken' \in 0 .. MaxRecords
          /\ DOMAIN stored' = Partitions
          /\ \A q \in Partitions : stored'[q] \in [Slots(q) -> 0 .. MaxRecords]
      BY <3>1, WriteRecordType, LoggerAssumption DEF Partitions, WritePoint
    <3>3. TimersOK'
      BY <2>1, <3>1, <3>2 DEF TimersOK, Partitions
    <3>4. PartitionsOK'
      BY <1>9, <3>2 DEF LongPass, TypeInv, PartitionsOK, Slots
    <3> QED  BY <1>9, <3>2, <3>3, <3>4 DEF LongPass, TypeInv
  <2>3. CASE ~(timer["long"] >= LongEvery)
    <3>1. pc' = "loop" /\ UNCHANGED <<timer, job, taken, stored>>
      BY <1>9, <2>3 DEF LongPass
    <3>2. TimersOK'
      BY <2>1, <2>3, <3>1 DEF TimersOK, Partitions
    <3>3. PartitionsOK'
      BY <1>9, <3>1 DEF LongPass, TypeInv, PartitionsOK, Slots
    <3> QED  BY <1>9, <3>1, <3>2, <3>3 DEF LongPass, TypeInv, Points, WritePoints, JobOK
  <2> QED  BY <2>2, <2>3
<1>10. ASSUME NEW p \in Partitions, Committed(p)
       PROVE  TypeInv'
  <2>1. index[p] \in Slots(p) /\ NextIndex(p) \in Slots(p)
    BY IndexType DEF TypeInv, PartitionsOK
  <2>2. job.data[0][1] = taken
    <3>1. pc = WritePoint(p)
      BY <1>10 DEF Committed, WritePoint
    <3>2. job.data[0] = RecordByte(taken, 0)
      BY <3>1, LoggerAssumption DEF JobIsCurrent
    <3> QED  BY <3>2 DEF RecordByte
  <2>3. PartitionsOK'
    <3>1. stored' = IF job.cut THEN stored ELSE [stored EXCEPT ![p][index[p]] = taken]
      BY <1>10, <2>2 DEF Committed
    <3>2. taken \in 0 .. MaxRecords
      BY DEF TypeInv
    <3>3. index' = [index EXCEPT ![p] = NextIndex(p)]
      BY <1>10 DEF Committed
    <3> QED  BY <2>1, <3>1, <3>2, <3>3 DEF TypeInv, PartitionsOK, Slots
  <2>4. TimersOK'
    <3>1. /\ pc' = IF p = "high" THEN "long" ELSE "loop"
          /\ pc = IF p = "high" THEN "highWrite" ELSE "longWrite"
          /\ timer' = timer
      BY <1>10 DEF Committed
    <3> QED  BY <1>0, <3>1 DEF TypeInv, TimersOK
  <2>5. byte0' \in {"log", "test", "token"} /\ lost' \in BOOLEAN
    BY <1>0, <1>10 DEF Committed, TypeInv
  <2>6. memory' = memory /\ job' = NoJob /\ original' = original /\ UNCHANGED <<taken, resets>>
    BY <1>10 DEF Committed
  <2>7. pc' \in Points
    BY <1>10 DEF Committed, Points, WritePoints
  <2> QED
    BY <1>0, <2>3, <2>4, <2>5, <2>6, <2>7 DEF TypeInv, JobOK
<1>11. CASE Reset
  <2>1. memory' \in [Addresses -> Cells]
    BY <1>0, <1>11, BurstOfJob DEF Reset
  <2>2. TimersOK'
    BY <1>11, LoggerAssumption DEF Reset, TimersOK, Partitions
  <2>3. PartitionsOK'
    <3>1. index' = [p \in Partitions |-> 0] /\ stored' = stored
      BY <1>11 DEF Reset
    <3>2. \A p \in Partitions : 0 \in Slots(p)
      BY IndexType DEF TypeInv, PartitionsOK
    <3> QED  BY <3>1, <3>2 DEF TypeInv, PartitionsOK, Slots
  <2>4. resets' \in 0 .. MaxResets
    BY <1>11, LoggerAssumption DEF Reset, TypeInv
  <2> QED
    BY <1>0, <1>11, <2>1, <2>2, <2>3, <2>4
    DEF Reset, SelfTestAbandoned, TypeInv, Points, WritePoints, JobOK
<1>12. CASE UNCHANGED vars
  <2>1. UNCHANGED logVars /\ pc' = pc /\ job' = job
    BY <1>12 DEF vars, logVars
  <2> QED
    BY <1>0, <1>12, <2>1, LogKept DEF vars, TypeInv, JobOK
<1> QED
  BY <1>1, <1>2, <1>3, <1>4, <1>5, <1>6, <1>7, <1>8, <1>9, <1>10, <1>11, <1>12, <1>13, <1>14
  DEF Next, Program, PollForever, BoundReached
-----------------------------------------------------------------------------
(* The write in progress. *)

\* A write in progress never leaves the device.
LEMMA JobFits ==
    ASSUME TypeInv, JobIsCurrent, pc \in WritePoints
    PROVE  /\ job.address \in Nat /\ job.len \in Nat
           /\ job.address + job.len <= EEPROM_TOTAL_BYTES
<1>1. CASE pc \in {"probeWrite", "probeRestore"}
  <2>1. job.address = 0 /\ job.len = 1
    BY <1>1 DEF JobIsCurrent, ProbePoints
  <2> QED  BY <2>1, ByteZero, EepromAssumption DEF Addresses
<1>2. ASSUME NEW p \in Partitions, pc = WritePoint(p)
      PROVE  /\ job.address \in Nat /\ job.len \in Nat
             /\ job.address + job.len <= EEPROM_TOTAL_BYTES
  <2>1. job.address = Base(p, index[p]) /\ job.len = LOG_RECORD_SIZE
    BY <1>2 DEF JobIsCurrent
  <2>2. index[p] \in Slots(p)
    BY DEF TypeInv, PartitionsOK
  <2> QED  BY <2>1, <2>2, SlotInDevice, LoggerAssumption
<1> QED  BY <1>1, <1>2 DEF WritePoints, WritePoint, Partitions

\* Where no write is in progress there is nothing to show of it.
LEMMA NoJobIsCurrent ==
    ASSUME job' = NoJob, pc' \in {"probeRead", "loop", "long", "hung"}
    PROVE  JobIsCurrent' /\ WrittenIsThere'
BY DEF JobIsCurrent, WrittenIsThere, NoJob, ProbePoints, WritePoint

\* A write that has just started is the current one and nothing of it is written.
LEMMA NewRecordIsCurrent ==
    ASSUME TypeInv, NEW p \in Partitions, WriteRecord(p), UNCHANGED index
    PROVE  JobIsCurrent' /\ WrittenIsThere'
<1>1. job' = RecordJob(Base(p, index[p]), taken + 1) /\ taken' = taken + 1 /\ pc' = WritePoint(p)
  BY DEF WriteRecord, Base, WritePoint
<1>2. taken + 1 # 0
  BY LoggerAssumption DEF TypeInv
<1>3. p = "high" \/ p = "long"
  BY DEF Partitions
<1>4. \A q \in Partitions : pc' = WritePoint(q) => q = p
  BY <1>1 DEF Partitions, WritePoint
<1>5. WrittenIsThere'
  BY <1>1, LoggerAssumption DEF WrittenIsThere, RecordJob
<1>6. Base(p, index[p])' = Base(p, index[p])
  BY DEF Base, Start
<1>7. \A q \in Partitions : pc' = WritePoint(q) =>
         /\ taken' # 0
         /\ job'.address = Base(q, index'[q]) /\ job'.len = LOG_RECORD_SIZE
         /\ \A k \in 0 .. LOG_RECORD_SIZE - 1 : job'.data[k] = RecordByte(taken', k)
  BY <1>1, <1>2, <1>4 DEF RecordJob
<1> QED
  BY <1>1, <1>3, <1>5, <1>7 DEF JobIsCurrent, ProbePoints, WritePoint, Base, Start, RecordByte

\* Every step leaves in job the write that the program counter stands for, and in
\* the device the bytes of it that EEPROM_Write_Bytes has counted.
LEMMA JobStep ==
    ASSUME TypeInv, JobIsCurrent, WrittenIsThere, [Next]_vars
    PROVE  JobIsCurrent' /\ WrittenIsThere'
<1>0. TypeOK
  BY TypeInvImplies
<1>1. CASE EEPROM_Init_Read
  BY <1>1
  DEF EEPROM_Init_Read, JobIsCurrent, WrittenIsThere, ByteJob, ProbePoints, WritePoint, Tokens
<1>2. CASE EEPROM_Init_Written
  BY <1>2, LoggerAssumption
  DEF EEPROM_Init_Written, JobIsCurrent, WrittenIsThere, ProbePoints, WritePoint, logVars
<1>3. CASE EEPROM_Init_Verify
  <2>1. CASE memory[0] = job.data[0]
    BY <1>3, <2>1
    DEF EEPROM_Init_Verify, JobIsCurrent, WrittenIsThere, ByteJob, ProbePoints, WritePoint
  <2>2. CASE memory[0] # job.data[0]
    BY <1>3, <2>2, NoJobIsCurrent DEF EEPROM_Init_Verify
  <2> QED  BY <2>1, <2>2
<1>4. CASE EEPROM_Init_Restored \/ EEPROM_Init_ReadError \/ EEPROM_Write_Error
             \/ EEPROM_Write_Hangs \/ Reset
  BY <1>4, NoJobIsCurrent
  DEF EEPROM_Init_Restored, EEPROM_Init_ReadError, EEPROM_Write_Error, EEPROM_Write_Hangs, Reset
<1>10. CASE EEPROM_Write_Cut
  <2>1. pc \in {"highWrite", "longWrite"} /\ UNCHANGED <<pc, original, index, taken>>
    BY <1>10 DEF EEPROM_Write_Cut, Cut, logVars
  <2>2. job'.address = job.address /\ job'.len = job.len /\ job'.data = job.data /\ job'.cut
    BY <1>10 DEF EEPROM_Write_Cut, TypeInv, JobOK
  <2> QED
    BY <2>1, <2>2
    DEF JobIsCurrent, WrittenIsThere, ProbePoints, WritePoint, Base, Start, RecordByte
<1>5. CASE EEPROM_Write_Bytes
  <2>1. pc \in WritePoints /\ job.written < job.len /\ UNCHANGED <<pc, original, index, taken>>
    BY <1>5 DEF EEPROM_Write_Bytes, logVars
  <2>2. /\ job'.address = job.address /\ job'.len = job.len /\ job'.data = job.data
        /\ job'.written = job.written + Chunk /\ job'.cut = job.cut
    BY <1>5 DEF EEPROM_Write_Bytes, TypeInv, JobOK
  <2>3. JobIsCurrent'
    BY <2>1, <2>2 DEF JobIsCurrent, WritePoints, ProbePoints, WritePoint, Base, Start, RecordByte
  <2>4. /\ CurrentAddr \in Nat /\ job.written \in Nat /\ job.len \in Nat /\ job.address \in Nat
        /\ Chunk \in 1 .. job.len - job.written
    BY <1>0, <2>1, ChunkOfJob
  <2>5. \A a \in Addresses :
            memory'[a] = IF CurrentAddr <= a /\ a < CurrentAddr + Chunk
                         THEN job.data[a - job.address] ELSE memory[a]
    BY <1>0, <1>5, <2>1, <2>4, BurstOfJob DEF EEPROM_Write_Bytes
  <2>6. ASSUME ~job.cut, NEW k \in 0 .. job.len - 1, k < job.written + Chunk
        PROVE  memory'[job.address + k] = job.data[k]
    <3>1. job.address + k \in Addresses
      BY <2>1, <2>4, JobFits, EepromAssumption DEF Addresses
    <3>2. (job.address + k) - job.address = k
      BY <2>4
    <3>3. CASE k < job.written
      <4>1. ~(CurrentAddr <= job.address + k)
        BY <2>4, <3>3 DEF CurrentAddr
      <4> QED  BY <2>5, <2>6, <3>1, <3>3, <4>1 DEF WrittenIsThere
    <3>4. CASE ~(k < job.written)
      <4>1. CurrentAddr <= job.address + k /\ job.address + k < CurrentAddr + Chunk
        BY <2>4, <2>6, <3>4 DEF CurrentAddr
      <4> QED  BY <2>5, <3>1, <3>2, <4>1
    <3> QED  BY <3>3, <3>4
  <2> QED  BY <2>2, <2>3, <2>6 DEF WrittenIsThere
<1>6. CASE HighPass
  <2>1. CASE timer["high"] + 1 >= HighEvery
    BY <1>6, <2>1, NewRecordIsCurrent DEF HighPass, Partitions
  <2>2. CASE ~(timer["high"] + 1 >= HighEvery)
    <3>1. job' = NoJob /\ pc' = "long"
      BY <1>6, <2>2 DEF HighPass, JobIsCurrent
    <3> QED  BY <3>1, NoJobIsCurrent
  <2> QED  BY <2>1, <2>2
<1>7. CASE LongPass
  <2>1. CASE timer["long"] >= LongEvery
    BY <1>7, <2>1, NewRecordIsCurrent DEF LongPass, Partitions
  <2>2. CASE ~(timer["long"] >= LongEvery)
    <3>1. job' = NoJob /\ pc' = "loop"
      BY <1>7, <2>2 DEF LongPass, JobIsCurrent
    <3> QED  BY <3>1, NoJobIsCurrent
  <2> QED  BY <2>1, <2>2
<1>8. ASSUME NEW p \in Partitions, Committed(p)
      PROVE  JobIsCurrent' /\ WrittenIsThere'
  BY <1>8, NoJobIsCurrent DEF Committed
<1>9. CASE UNCHANGED vars
  BY <1>9 DEF vars, JobIsCurrent, WrittenIsThere, Base, Start, RecordByte, WritePoint
<1> QED
  BY <1>1, <1>2, <1>3, <1>4, <1>5, <1>6, <1>7, <1>8, <1>9, <1>10
  DEF Next, Program, PollForever, BoundReached
-----------------------------------------------------------------------------
(* The records in the slots. *)

\* A snapshot is newer than every record stored before it, and the slot it goes to
\* has given up its record.
LEMMA OlderStep ==
    ASSUME TypeInv, JobIsCurrent, StoredIsOlder, [Next]_vars
    PROVE  StoredIsOlder'
<1>0. /\ taken \in Nat
      /\ \A p \in Partitions : index[p] \in Slots(p) /\ stored[p] \in [Slots(p) -> Nat]
      /\ DOMAIN stored = Partitions
  BY LoggerAssumption DEF TypeInv, PartitionsOK
<1>1. ASSUME UNCHANGED <<stored, taken, index>>,
             pc' = pc \/ pc' \notin {"highWrite", "longWrite"}
      PROVE  StoredIsOlder'
  BY <1>1 DEF StoredIsOlder, WritePoint, Slots
<1>2. ASSUME UNCHANGED <<stored, taken>>, pc' \notin {"highWrite", "longWrite"}
      PROVE  StoredIsOlder'
  BY <1>2 DEF StoredIsOlder, WritePoint, Slots
<1>3. ASSUME NEW p \in Partitions, WriteRecord(p), UNCHANGED index
      PROVE  StoredIsOlder'
  <2>1. /\ taken' = taken + 1 /\ stored' = [stored EXCEPT ![p][index[p]] = 0]
        /\ pc' = WritePoint(p)
    BY <1>3 DEF WriteRecord, WritePoint
  <2>2. \A q \in Partitions : pc' = WritePoint(q) => q = p
    BY <2>1 DEF Partitions, WritePoint
  <2>3. \A q \in Partitions : \A i \in Slots(q) : stored'[q][i] < taken + 1
    BY <1>0, <2>1 DEF StoredIsOlder
  <2>4. stored'[p][index[p]] = 0
    BY <1>0, <2>1
  <2>5. \A q \in Partitions : \A i \in Slots(q) : stored'[q][i] <= taken + 1
    BY <1>0, <2>1 DEF StoredIsOlder
  <2> QED  BY <1>3, <2>1, <2>2, <2>3, <2>4, <2>5 DEF StoredIsOlder, Slots, WritePoint
<1>4. ASSUME NEW p \in Partitions, Committed(p)
      PROVE  StoredIsOlder'
  <2>1. pc = WritePoint(p) /\ taken' = taken /\ pc' \notin {"highWrite", "longWrite"}
    BY <1>4 DEF Committed, WritePoint
  <2>2. job.data[0][1] = taken
    BY <2>1, LoggerAssumption DEF JobIsCurrent, RecordByte
  <2>3. stored' = IF job.cut THEN stored ELSE [stored EXCEPT ![p][index[p]] = taken]
    BY <1>4, <2>2 DEF Committed
  <2>4. \A q \in Partitions : \A i \in Slots(q) : stored'[q][i] <= taken
    BY <1>0, <2>3 DEF StoredIsOlder
  <2> QED  BY <2>1, <2>4 DEF StoredIsOlder, Slots, WritePoint
<1>5. CASE EEPROM_Init_Read \/ EEPROM_Init_Written \/ EEPROM_Init_Verify
             \/ EEPROM_Init_Restored \/ EEPROM_Init_ReadError \/ EEPROM_Write_Bytes
             \/ EEPROM_Write_Error \/ EEPROM_Write_Cut \/ EEPROM_Write_Hangs
  BY <1>1, <1>5
  DEF EEPROM_Init_Read, EEPROM_Init_Written, EEPROM_Init_Verify, EEPROM_Init_Restored,
      EEPROM_Init_ReadError, EEPROM_Write_Bytes, EEPROM_Write_Error, EEPROM_Write_Cut,
      EEPROM_Write_Hangs, logVars
<1>6. CASE HighPass
  BY <1>1, <1>3, <1>6 DEF HighPass, Partitions
<1>7. CASE LongPass
  BY <1>1, <1>3, <1>7 DEF LongPass, Partitions
<1>8. CASE Reset
  BY <1>2, <1>8 DEF Reset
<1>9. CASE UNCHANGED vars
  BY <1>1, <1>9 DEF vars
<1> QED
  BY <1>4, <1>5, <1>6, <1>7, <1>8, <1>9 DEF Next, Program, PollForever, BoundReached

\* StoredIsIntact slot by slot.
CellIntact(p, i, k) ==
    \/ memory[Base(p, i) + k] = RecordByte(stored[p][i], k)
    \/ Base(p, i) + k = 0 /\ byte0 # "log" /\ memory[Base(p, i) + k] \in Tokens
SlotIntact(p, i) ==
    stored[p][i] # 0 => \A k \in 0 .. LOG_RECORD_SIZE - 1 : CellIntact(p, i, k)

\* StoredIsIntact, slot by slot.
LEMMA IntactBySlot ==
    /\ StoredIsIntact <=> \A p \in Partitions : \A i \in Slots(p) : SlotIntact(p, i)
    /\ StoredIsIntact' <=> \A p \in Partitions : \A i \in Slots(p) : SlotIntact(p, i)'
BY DEF StoredIsIntact, SlotIntact, CellIntact, Base, Slots, Start, RecordByte

\* A slot whose record and whose bytes stay keeps its record intact, as long as
\* byte 0 does not become the log's.
LEMMA SlotKept ==
    ASSUME NEW p \in Partitions, NEW i \in Slots(p), SlotIntact(p, i),
           stored'[p][i] = stored[p][i] \/ stored'[p][i] = 0,
           \A k \in 0 .. LOG_RECORD_SIZE - 1 : memory'[Base(p, i) + k] = memory[Base(p, i) + k],
           \/ byte0' = "log" => byte0 = "log"
           \/ p # "high" \/ i # 0
    PROVE  SlotIntact(p, i)'
<1>1. Base(p, i) \in Nat
  BY SlotInDevice
<1>2. ASSUME p # "high" \/ i # 0, NEW k \in 0 .. LOG_RECORD_SIZE - 1
      PROVE  Base(p, i) + k # 0
  <2>1. Base(p, i) >= LOG_RECORD_SIZE
    BY <1>2, ByteZero
  <2> QED  BY <1>1, <2>1, LoggerAssumption
<1> QED
  BY <1>2 DEF SlotIntact, CellIntact, Base, Start, RecordByte

\* No burst, whole, torn or cut, damages a record that is stored: a record's burst stays
\* in its own slot, which holds none, and the self-test only touches byte 0.
LEMMA BurstKeepsRecords ==
    ASSUME IInv, pc \in WritePoints, job.written < job.len, NEW n \in 0 .. Chunk,
           memory' = Burst(n), stored' = stored, byte0' = "log" => byte0 = "log"
    PROVE  StoredIsIntact'
<1>1. TypeOK /\ TypeInv /\ JobIsCurrent /\ LOG_RECORD_SIZE \in Nat
  BY TypeInvImplies, LoggerAssumption DEF IInv
<1>2. /\ CurrentAddr \in Nat /\ job.written \in Nat /\ job.len \in Nat /\ job.address \in Nat
      /\ n \in 0 .. job.len - job.written
      /\ \A a \in Addresses :
           memory'[a] = IF CurrentAddr <= a /\ a < CurrentAddr + n
                        THEN job.data[a - job.address] ELSE memory[a]
  BY <1>1, ChunkOfJob, BurstOfJob
<1>3. \A a \in Addresses :
         ~(job.address <= a /\ a < job.address + job.len) => memory'[a] = memory[a]
  BY <1>2, EepromAssumption DEF CurrentAddr, Addresses
<1>4. SUFFICES ASSUME NEW p \in Partitions, NEW i \in Slots(p)
               PROVE  SlotIntact(p, i)'
  BY IntactBySlot
<1>5. /\ SlotIntact(p, i)
      /\ \A k \in 0 .. LOG_RECORD_SIZE - 1 : Base(p, i) + k \in Addresses
      /\ Base(p, i) \in Nat
  BY <1>1, SlotInDevice, IntactBySlot, EepromAssumption DEF IInv, Addresses
<1>6. CASE pc \in {"probeWrite", "probeRestore"}
  <2>1. job.address = 0 /\ job.len = 1 /\ byte0 # "log"
    BY <1>6 DEF IInv, JobIsCurrent, OriginalIsKept, ProbePoints
  <2>2. CASE p = "high" /\ i = 0
    <3>1. ASSUME NEW k \in 0 .. LOG_RECORD_SIZE - 1, stored[p][i] # 0
          PROVE  CellIntact(p, i, k)'
      <4>1. Base(p, i) = 0 /\ Base(p, i) + k = k
        BY <2>2, ByteZero
      <4>2. CASE memory'[k] = memory[k]
        BY <1>5, <2>1, <3>1, <4>1, <4>2 DEF SlotIntact, CellIntact, Base, Start, RecordByte
      <4>3. CASE memory'[k] # memory[k]
        <5>1. k = 0 /\ memory'[k] = job.data[0]
          BY <1>2, <1>5, <2>1, <4>1, <4>3 DEF CurrentAddr
        <5>2. CASE pc = "probeWrite"
          <6>1. job.data[0] \in Tokens
            BY <5>2 DEF IInv, JobIsCurrent
          <6> QED  BY <2>1, <4>1, <5>1, <6>1 DEF CellIntact, Base, Start, Tokens, TokenAA, Token55
        <5>3. CASE pc = "probeRestore"
          <6>1. job.data[0] = original
            BY <5>3 DEF IInv, JobIsCurrent
          <6>2. original = RecordByte(stored["high"][0], 0) \/ original \in Tokens
            BY <2>2, <3>1, <5>3 DEF IInv, OriginalIsKept, ProbePoints
          <6> QED
            BY <2>1, <2>2, <4>1, <5>1, <6>1, <6>2
            DEF CellIntact, Base, Start, RecordByte, Tokens, TokenAA, Token55
        <5> QED  BY <1>6, <5>2, <5>3
      <4> QED  BY <4>2, <4>3
    <3> QED  BY <3>1 DEF SlotIntact
  <2>3. CASE p # "high" \/ i # 0
    <3>1. \A k \in 0 .. LOG_RECORD_SIZE - 1 : Base(p, i) + k >= 1
      BY <1>1, <1>5, <2>3, ByteZero, LoggerAssumption
    <3>2. \A k \in 0 .. LOG_RECORD_SIZE - 1 : memory'[Base(p, i) + k] = memory[Base(p, i) + k]
      BY <1>3, <1>5, <2>1, <3>1
    <3> QED  BY <1>5, <2>3, <3>2, SlotKept
  <2> QED  BY <2>2, <2>3
<1>7. ASSUME NEW q \in Partitions, pc = WritePoint(q)
      PROVE  SlotIntact(p, i)'
  <2>1. /\ job.address = Base(q, index[q]) /\ job.len = LOG_RECORD_SIZE
        /\ stored[q][index[q]] = 0 /\ index[q] \in Slots(q)
    BY <1>7 DEF IInv, JobIsCurrent, StoredIsOlder, TypeInv, PartitionsOK
  <2>2. CASE p = q /\ i = index[q]
    BY <2>1, <2>2 DEF SlotIntact
  <2>3. CASE p # q \/ i # index[q]
    <3>1. \/ Base(p, i) + LOG_RECORD_SIZE <= Base(q, index[q])
          \/ Base(q, index[q]) + LOG_RECORD_SIZE <= Base(p, i)
      BY <2>1, <2>3, SlotsApart
    <3>2. \A k \in 0 .. LOG_RECORD_SIZE - 1 :
             ~(job.address <= Base(p, i) + k /\ Base(p, i) + k < job.address + job.len)
      BY <1>1, <1>2, <1>5, <2>1, <3>1
    <3>3. \A k \in 0 .. LOG_RECORD_SIZE - 1 : memory'[Base(p, i) + k] = memory[Base(p, i) + k]
      BY <1>3, <1>5, <3>2
    <3> QED  BY <1>5, <3>3, SlotKept
  <2> QED  BY <2>2, <2>3
<1> QED
  BY <1>6, <1>7 DEF WritePoints, WritePoint, Partitions

\* Nothing the program, the device or a reset does damages a record that is stored,
\* and the self-test knows what to put back.
LEMMA IntactStep ==
    ASSUME IInv, [Next]_vars
    PROVE  OriginalIsKept' /\ StoredIsIntact'
<1>0. /\ TypeInv /\ TypeOK /\ JobIsCurrent /\ WrittenIsThere /\ OriginalIsKept
      /\ byte0 \in {"log", "test", "token"} /\ pc \in Points
      /\ \A p \in Partitions : \A i \in Slots(p) : SlotIntact(p, i)
  BY TypeInvImplies, IntactBySlot DEF IInv, TypeInv
<1>1. ASSUME UNCHANGED memory, UNCHANGED stored, byte0' = "log" => byte0 = "log"
      PROVE  StoredIsIntact'
  BY <1>0, <1>1, SlotKept, IntactBySlot
<1>2. ASSUME pc' \notin ProbePoints, byte0' # "test"
      PROVE  OriginalIsKept'
  BY <1>2 DEF OriginalIsKept, ProbePoints
<1>3. ASSUME pc \in ProbePoints, pc' \in ProbePoints,
             UNCHANGED <<original, byte0, stored>>
      PROVE  OriginalIsKept'
  BY <1>0, <1>3 DEF OriginalIsKept, ProbePoints, RecordByte, Tokens, TokenAA, Token55
<1>4. SelfTestAbandoned => byte0' # "test" /\ (byte0' = "log" => byte0 = "log")
  BY DEF SelfTestAbandoned
<1>5. CASE EEPROM_Init_Read
  <2>1. /\ byte0 # "test" /\ original' = memory[0] /\ pc' = "probeWrite"
        /\ byte0' = IF byte0 = "log" THEN "test" ELSE byte0
        /\ UNCHANGED <<memory, stored>>
    BY <1>0, <1>5 DEF EEPROM_Init_Read, OriginalIsKept, ProbePoints, logVars
  <2>2. stored["high"][0] # 0 =>
          \/ memory[0] = RecordByte(stored["high"][0], 0)
          \/ byte0 # "log" /\ memory[0] \in Tokens
    <3>1. SlotIntact("high", 0) /\ Base("high", 0) = 0
      BY <1>0, ByteZero
    <3>2. 0 \in 0 .. LOG_RECORD_SIZE - 1 /\ Base("high", 0) + 0 = 0
      BY <3>1, LoggerAssumption
    <3> QED  BY <3>1, <3>2 DEF SlotIntact, CellIntact
  <2>3. OriginalIsKept'
    BY <1>0, <2>1, <2>2 DEF OriginalIsKept, ProbePoints, RecordByte, Tokens, TokenAA, Token55
  <2> QED  BY <1>1, <2>1, <2>3
<1>6. CASE EEPROM_Init_Written
  BY <1>0, <1>1, <1>3, <1>6 DEF EEPROM_Init_Written, logVars, ProbePoints
<1>7. CASE EEPROM_Init_Verify
  <2>1. CASE memory[0] = job.data[0]
    BY <1>0, <1>1, <1>3, <1>7, <2>1 DEF EEPROM_Init_Verify, logVars, ProbePoints
  <2>2. CASE memory[0] # job.data[0]
    BY <1>0, <1>1, <1>2, <1>4, <1>7, <2>2 DEF EEPROM_Init_Verify, logVars, ProbePoints
  <2> QED  BY <2>1, <2>2
<1>8. CASE EEPROM_Init_Restored
  <2>1. /\ pc = "probeRestore" /\ pc' = "loop" /\ UNCHANGED <<memory, stored>>
        /\ byte0' = IF byte0 = "test" THEN "log" ELSE byte0
        /\ job.written = job.len
    BY <1>8 DEF EEPROM_Init_Restored, logVars
  <2>2. memory[0] = original /\ byte0 # "log"
    BY <1>0, <2>1 DEF JobIsCurrent, WrittenIsThere, ProbePoints, OriginalIsKept
  <2>3. ASSUME NEW p \in Partitions, NEW i \in Slots(p)
        PROVE  SlotIntact(p, i)'
    <3>1. SlotIntact(p, i)
      BY <1>0
    <3>2. CASE byte0' = "log" /\ p = "high" /\ i = 0
      <4>1. byte0 = "test" /\ Base(p, i) = 0
        BY <2>1, <2>2, <3>2, ByteZero
      <4>2. stored[p][i] # 0 => memory[0] = RecordByte(stored[p][i], 0)
        BY <1>0, <2>1, <2>2, <3>2, <4>1 DEF OriginalIsKept, ProbePoints
      <4>3. ASSUME NEW k \in 0 .. LOG_RECORD_SIZE - 1, stored[p][i] # 0
            PROVE  memory[Base(p, i) + k] = RecordByte(stored[p][i], k)
        <5>1. Base(p, i) + k = k
          BY <4>1
        <5> QED  BY <3>1, <4>2, <4>3, <5>1 DEF SlotIntact, CellIntact
      <4> QED  BY <2>1, <4>3 DEF SlotIntact, CellIntact, Base, Start, RecordByte
    <3>3. CASE ~(byte0' = "log" /\ p = "high" /\ i = 0)
      <4>1. (byte0' = "log" => byte0 = "log") \/ p # "high" \/ i # 0
        BY <3>3
      <4> QED  BY <2>1, <3>1, <4>1, SlotKept
    <3> QED  BY <3>2, <3>3
  <2>4. OriginalIsKept'
    BY <1>0, <1>2, <2>1 DEF ProbePoints
  <2> QED  BY <2>3, <2>4, IntactBySlot
<1>9. CASE EEPROM_Init_ReadError
  BY <1>0, <1>1, <1>2, <1>4, <1>9 DEF EEPROM_Init_ReadError, logVars, ProbePoints
<1>10. CASE EEPROM_Write_Bytes
  <2>1. /\ pc \in WritePoints /\ job.written < job.len /\ memory' = Burst(Chunk)
        /\ UNCHANGED <<pc, original, byte0, stored>>
    BY <1>10 DEF EEPROM_Write_Bytes, logVars
  <2>2. Chunk \in 0 .. Chunk
    BY <1>0, <2>1, ChunkOfJob
  <2>3. StoredIsIntact'
    BY <2>1, <2>2, BurstKeepsRecords
  <2>4. OriginalIsKept'
    BY <1>0, <2>1 DEF OriginalIsKept, ProbePoints, RecordByte, Tokens, TokenAA, Token55
  <2> QED  BY <2>3, <2>4
<1>11. CASE EEPROM_Write_Error
  <2>1. /\ pc \in WritePoints /\ job.written < job.len /\ SelfTestAbandoned
        /\ UNCHANGED stored /\ pc' \notin ProbePoints
        /\ \E n \in 0 .. Chunk : memory' = Burst(n)
    BY <1>11 DEF EEPROM_Write_Error, logVars, ProbePoints
  <2>2. StoredIsIntact'
    BY <1>4, <2>1, BurstKeepsRecords
  <2> QED  BY <1>2, <1>4, <2>1, <2>2
<1>18. CASE EEPROM_Write_Cut
  <2>1. /\ pc \in {"highWrite", "longWrite"} /\ job.written < job.len
        /\ UNCHANGED <<pc, original, byte0, stored>>
    BY <1>18 DEF EEPROM_Write_Cut, Cut, logVars
  <2>2. PICK n \in 0 .. Chunk - 1 : memory' = Burst(n)
    BY <1>18 DEF EEPROM_Write_Cut
  <2>3. n \in 0 .. Chunk /\ pc \in WritePoints
    BY <1>0, <2>1, <2>2, ChunkOfJob DEF WritePoints
  <2>4. StoredIsIntact'
    BY <2>1, <2>2, <2>3, BurstKeepsRecords
  <2>5. OriginalIsKept'
    BY <1>0, <2>1 DEF OriginalIsKept, ProbePoints
  <2> QED  BY <2>4, <2>5
<1>19. CASE EEPROM_Write_Hangs
  <2>1. /\ pc \in {"highWrite", "longWrite"} /\ pc \in WritePoints /\ job.written < job.len
        /\ pc' = "hung" /\ UNCHANGED <<byte0, stored>>
        /\ \E n \in 0 .. Chunk : memory' = Burst(n)
    BY <1>19 DEF EEPROM_Write_Hangs, Cut, logVars, WritePoints
  <2>2. StoredIsIntact'
    BY <2>1, BurstKeepsRecords
  <2>3. OriginalIsKept'
    BY <1>0, <1>2, <2>1 DEF OriginalIsKept, ProbePoints
  <2> QED  BY <2>2, <2>3
<1>12. ASSUME NEW p \in Partitions, WriteRecord(p),
              UNCHANGED <<memory, original, index, byte0, resets>>, pc \notin ProbePoints
       PROVE  OriginalIsKept' /\ StoredIsIntact'
  <2>1. \A q \in Partitions : \A i \in Slots(q) :
           stored'[q][i] = stored[q][i] \/ stored'[q][i] = 0
    BY <1>0, <1>12 DEF WriteRecord, TypeInv, PartitionsOK
  <2>2. StoredIsIntact'
    BY <1>0, <1>12, <2>1, SlotKept, IntactBySlot
  <2>3. OriginalIsKept'
    BY <1>0, <1>2, <1>12 DEF WriteRecord, ProbePoints, OriginalIsKept
  <2> QED  BY <2>2, <2>3
<1>13. CASE HighPass
  <2>1. pc = "loop"
    BY <1>13 DEF HighPass
  <2>2. CASE timer["high"] + 1 >= HighEvery
    BY <1>12, <1>13, <2>1, <2>2 DEF HighPass, Partitions, ProbePoints
  <2>3. CASE ~(timer["high"] + 1 >= HighEvery)
    BY <1>0, <1>1, <1>2, <1>13, <2>1, <2>3 DEF HighPass, ProbePoints, OriginalIsKept
  <2> QED  BY <2>2, <2>3
<1>14. CASE LongPass
  <2>1. pc = "long"
    BY <1>14 DEF LongPass
  <2>2. CASE timer["long"] >= LongEvery
    BY <1>12, <1>14, <2>1, <2>2 DEF LongPass, Partitions, ProbePoints
  <2>3. CASE ~(timer["long"] >= LongEvery)
    BY <1>0, <1>1, <1>2, <1>14, <2>1, <2>3 DEF LongPass, ProbePoints, OriginalIsKept
  <2> QED  BY <2>2, <2>3
<1>20. ASSUME NEW q \in Partitions, Committed(q), job.cut
       PROVE  OriginalIsKept' /\ StoredIsIntact'
  <2>1. pc = WritePoint(q) /\ pc' \notin ProbePoints /\ UNCHANGED <<memory, stored, byte0>>
    BY <1>20 DEF Committed, WritePoint, ProbePoints
  <2>2. OriginalIsKept'
    BY <1>0, <1>2, <2>1 DEF OriginalIsKept, ProbePoints, WritePoint
  <2> QED  BY <1>1, <2>1, <2>2
<1>15. ASSUME NEW q \in Partitions, Committed(q), ~job.cut
       PROVE  OriginalIsKept' /\ StoredIsIntact'
  <2>1. /\ pc = WritePoint(q) /\ pc' \notin ProbePoints /\ UNCHANGED memory
        /\ job.written = job.len
        /\ byte0' = IF q = "high" /\ index[q] = 0 THEN "log" ELSE byte0
    BY <1>15 DEF Committed, WritePoint, ProbePoints
  <2>2. /\ job.address = Base(q, index[q]) /\ job.len = LOG_RECORD_SIZE
        /\ \A k \in 0 .. LOG_RECORD_SIZE - 1 : job.data[k] = RecordByte(taken, k)
    BY <1>0, <2>1 DEF JobIsCurrent
  <2>3. stored' = [stored EXCEPT ![q][index[q]] = taken]
    <3>1. job.data[0] = <<taken, 0>>
      BY <2>2, LoggerAssumption DEF RecordByte
    <3>2. job.data[0][1] = taken
      BY <3>1
    <3> QED  BY <1>15, <3>2 DEF Committed
  <2>4. /\ index[q] \in Slots(q)
        /\ \A p \in Partitions : \A i \in Slots(p) :
             stored'[p][i] = IF p = q /\ i = index[q] THEN taken ELSE stored[p][i]
    BY <1>0, <2>3 DEF TypeInv, PartitionsOK
  <2>5. ASSUME NEW p \in Partitions, NEW i \in Slots(p)
        PROVE  SlotIntact(p, i)'
    <3>1. CASE p = q /\ i = index[q]
      <4>1. \A k \in 0 .. LOG_RECORD_SIZE - 1 : memory[Base(p, i) + k] = RecordByte(taken, k)
        BY <1>0, <1>15, <2>1, <2>2, <3>1, LoggerAssumption DEF WrittenIsThere
      <4> QED  BY <2>1, <2>4, <3>1, <4>1 DEF SlotIntact, CellIntact, Base, Start, RecordByte
    <3>2. CASE ~(p = q /\ i = index[q])
      <4>1. (byte0' = "log" => byte0 = "log") \/ p # "high" \/ i # 0
        BY <2>1, <3>2
      <4> QED  BY <1>0, <2>1, <2>4, <3>2, <4>1, SlotKept
    <3> QED  BY <3>1, <3>2
  <2>6. OriginalIsKept'
    BY <1>0, <1>2, <2>1 DEF OriginalIsKept, ProbePoints, WritePoint
  <2> QED  BY <2>5, <2>6, IntactBySlot
<1>16. CASE Reset
  <2>1. UNCHANGED stored /\ SelfTestAbandoned /\ pc' = "probeRead"
    BY <1>16 DEF Reset
  <2>2. CASE pc \in WritePoints /\ job.written < job.len
    <3>1. \E n \in 0 .. Chunk : memory' = Burst(n)
      BY <1>16, <2>2 DEF Reset
    <3> QED  BY <1>2, <1>4, <2>1, <2>2, <3>1, BurstKeepsRecords DEF ProbePoints
  <2>3. CASE ~(pc \in WritePoints /\ job.written < job.len)
    BY <1>1, <1>2, <1>4, <1>16, <2>1, <2>3 DEF Reset, ProbePoints
  <2> QED  BY <2>2, <2>3
<1>17. CASE UNCHANGED vars
  <2>1. OriginalIsKept'
    BY <1>0, <1>17 DEF vars, OriginalIsKept, ProbePoints, RecordByte, Tokens, TokenAA, Token55
  <2> QED  BY <1>1, <1>17, <2>1 DEF vars
<1> QED
  BY <1>5, <1>6, <1>7, <1>8, <1>9, <1>10, <1>11, <1>13, <1>14, <1>15, <1>16, <1>17, <1>18,
     <1>19, <1>20
  DEF Next, Program, PollForever, BoundReached
-----------------------------------------------------------------------------
(* The theorems. *)

\* The invariant holds when Data_Logger_service starts on a blank device.
LEMMA InvInit == Init => IInv
<1> SUFFICES ASSUME Init PROVE IInv
  OBVIOUS
<1>1. TypeInv
  BY TypeInit
<1>2. \A p \in Partitions : \A i \in Slots(p) : stored[p][i] = 0
  BY DEF Init
<1>3. JobIsCurrent /\ WrittenIsThere
  BY DEF Init, JobIsCurrent, WrittenIsThere, NoJob, ProbePoints, WritePoint
<1>4. StoredIsOlder
  BY <1>2 DEF Init, StoredIsOlder, WritePoint
<1>5. OriginalIsKept
  BY DEF Init, OriginalIsKept, ProbePoints
<1>6. StoredIsIntact
  BY <1>2 DEF StoredIsIntact
<1> QED  BY <1>1, <1>3, <1>4, <1>5, <1>6 DEF IInv

\* Every step keeps the invariant.
LEMMA InvStep == IInv /\ [Next]_vars => IInv'
BY TypeStep, JobStep, OlderStep, IntactStep DEF IInv

\* The invariant holds of every reachable state.
LEMMA InvHolds == Spec => []IInv
BY InvInit, InvStep, PTL DEF Spec

\* Device, indices, timers and the write in progress keep their ranges in every
\* reachable state, for every size of record, page, partition and device: a ring
\* index of Data_Logger_Task never leaves its partition.
THEOREM TypeCorrect == Spec => []TypeOK
<1>1. IInv => TypeOK
  BY TypeInvImplies DEF IInv
<1> QED  BY <1>1, InvHolds, PTL

\* A record that EEPROM_Write_Record reported written, in bursts the analog task did
\* not cut into, stays in the device byte for byte until its slot is written again,
\* whatever other bursts fail, tear or are cut into and however often the board resets.
THEOREM StoredRecordsSurvive == Spec => []StoredIsIntact
<1>1. IInv => StoredIsIntact
  BY DEF IInv
<1> QED  BY <1>1, InvHolds, PTL

\* A slot in the words of WritesStayInSlot.
LEMMA InSlotByBase ==
    ASSUME NEW p \in Partitions, NEW i \in Slots(p), NEW a \in Addresses,
           Base(p, i) <= a, a < Base(p, i) + LOG_RECORD_SIZE
    PROVE  InSlot(a, p, i)
<1> DEFINE S == LOG_RECORD_SIZE
<1>1. i \in Nat /\ S \in Nat
  BY LoggerAssumption DEF Slots
<1> HIDE DEF S
<1>2. (i + 1) * S = i * S + S /\ i * S \in Nat
  BY <1>1
<1>3. Start(p) \in Nat /\ a \in Int
  BY LoggerAssumption, EepromAssumption DEF Start, Addresses
<1> QED  BY <1>1, <1>2, <1>3 DEF InSlot, Base, S

\* A burst, whole, torn or cut, changes only bytes of the write in progress.
LEMMA BurstInSlot ==
    ASSUME IInv, pc \in WritePoints, job.written < job.len, NEW n \in 0 .. Chunk,
           memory' = Burst(n), NEW a \in Addresses, memory'[a] # memory[a]
    PROVE  \/ pc \in {"probeWrite", "probeRestore"} /\ a = 0
           \/ pc = "highWrite" /\ InSlot(a, "high", index["high"])
           \/ pc = "longWrite" /\ InSlot(a, "long", index["long"])
<1>1. TypeOK /\ TypeInv /\ JobIsCurrent
  BY TypeInvImplies DEF IInv
<1>2. /\ CurrentAddr \in Nat /\ job.written \in Nat /\ job.len \in Nat /\ job.address \in Nat
      /\ n \in 0 .. job.len - job.written
      /\ memory'[a] = IF CurrentAddr <= a /\ a < CurrentAddr + n
                      THEN job.data[a - job.address] ELSE memory[a]
  BY <1>1, ChunkOfJob, BurstOfJob
<1>3. a \in Int /\ job.address <= a /\ a < job.address + job.len
  BY <1>2, EepromAssumption DEF CurrentAddr, Addresses
<1>4. CASE pc \in {"probeWrite", "probeRestore"}
  BY <1>1, <1>3, <1>4 DEF JobIsCurrent, ProbePoints
<1>5. ASSUME NEW p \in Partitions, pc = WritePoint(p)
      PROVE  InSlot(a, p, index[p])
  BY <1>1, <1>3, <1>5, InSlotByBase DEF JobIsCurrent, TypeInv, PartitionsOK
<1> QED
  BY <1>4, <1>5 DEF WritePoints, WritePoint, Partitions

\* No burst of EEPROM_Write_Bytes ever lands outside the slot being written, or
\* outside byte 0 during the self-test, for every page size: neither a roll-over at
\* a page's end nor a wrong index can damage a neighbour.
THEOREM WritesConfined == Spec => WritesStayInSlot
<1> DEFINE Confined ==
      \A a \in Addresses : memory'[a] # memory[a] =>
          \/ pc \in {"probeWrite", "probeRestore"} /\ a = 0
          \/ pc = "highWrite" /\ InSlot(a, "high", index["high"])
          \/ pc = "longWrite" /\ InSlot(a, "long", index["long"])
<1>1. ASSUME IInv, [Next]_vars
      PROVE  [Confined]_vars
  <2>1. CASE EEPROM_Write_Bytes
    <3>1. Chunk \in 0 .. Chunk
      BY <1>1, <2>1, ChunkOfJob, TypeInvImplies DEF EEPROM_Write_Bytes, IInv
    <3> QED  BY <1>1, <2>1, <3>1, BurstInSlot DEF EEPROM_Write_Bytes
  <2>2. CASE EEPROM_Write_Error
    BY <1>1, <2>2, BurstInSlot DEF EEPROM_Write_Error
  <2>6. CASE EEPROM_Write_Cut
    <3>1. PICK n \in 0 .. Chunk - 1 : memory' = Burst(n)
      BY <2>6 DEF EEPROM_Write_Cut
    <3>2. n \in 0 .. Chunk /\ pc \in WritePoints /\ job.written < job.len
      BY <1>1, <2>6, <3>1, ChunkOfJob, TypeInvImplies DEF EEPROM_Write_Cut, Cut, IInv, WritePoints
    <3> QED  BY <1>1, <3>1, <3>2, BurstInSlot
  <2>7. CASE EEPROM_Write_Hangs
    BY <1>1, <2>7, BurstInSlot DEF EEPROM_Write_Hangs, Cut, WritePoints
  <2>3. CASE Reset
    BY <1>1, <2>3, BurstInSlot DEF Reset
  <2>4. CASE UNCHANGED memory
    BY <2>4
  <2>5. CASE UNCHANGED vars
    BY <2>5 DEF vars
  <2> QED
    BY <1>1, <2>1, <2>2, <2>3, <2>4, <2>5, <2>6, <2>7
    DEF Next, Program, PollForever, EEPROM_Init_Read, EEPROM_Init_Written, EEPROM_Init_Verify,
        EEPROM_Init_Restored, EEPROM_Init_ReadError, HighPass, LongPass, Committed, BoundReached
<1>2. Spec => [][Confined]_vars
  BY <1>1, InvHolds, PTL DEF Spec
<1> QED  BY <1>2 DEF WritesStayInSlot
-----------------------------------------------------------------------------
(* The partitions as windows of the latest records. *)

\* A partition has as many slots as its capacity, and at least one.
LEMMA CapacityType ==
    ASSUME NEW p \in Partitions
    PROVE  /\ Capacity[p] \in Nat \ {0}
           /\ IsFiniteSet(Slots(p)) /\ Cardinality(Slots(p)) = Capacity[p]
<1>1. Capacity[p] \in Nat \ {0}
  BY LoggerAssumption DEF Capacity, Partitions
<1>2. /\ IsFiniteSet(0 .. Capacity[p] - 1)
      /\ Cardinality(0 .. Capacity[p] - 1)
           = IF 0 > Capacity[p] - 1 THEN 0 ELSE (Capacity[p] - 1) - 0 + 1
  <2>1. 0 \in Int /\ Capacity[p] - 1 \in Int
    BY <1>1
  <2> HIDE DEF Capacity
  <2> QED  BY <2>1, FS_Interval
<1>3. (IF 0 > Capacity[p] - 1 THEN 0 ELSE (Capacity[p] - 1) - 0 + 1) = Capacity[p]
  BY <1>1
<1> QED  BY <1>1, <1>2, <1>3 DEF Slots

\* A partition with an empty slot holds fewer records than it has slots.
LEMMA RoomForOne ==
    ASSUME NEW p \in Partitions, NEW i \in Slots(p), stored[p][i] = 0
    PROVE  Cardinality(Held(p)) < Capacity[p]
<1> DEFINE S == Slots(p) \ {i}
           T == {stored[p][j] : j \in S}
           f == [j \in S |-> stored[p][j]]
<1>1. IsFiniteSet(S) /\ Cardinality(S) = Capacity[p] - 1 /\ Capacity[p] \in Nat
  BY CapacityType, FS_RemoveElement
<1>2. f \in Surjection(S, T)
  BY DEF Surjection
<1>3. IsFiniteSet(T) /\ Cardinality(T) <= Cardinality(S)
  BY <1>1, <1>2, FS_Surjection
<1>4. Held(p) \subseteq T
  BY DEF Held
<1>5. Cardinality(Held(p)) <= Cardinality(T) /\ IsFiniteSet(Held(p))
  BY <1>3, <1>4, FS_Subset
<1>6. Cardinality(Held(p)) \in Nat /\ Cardinality(T) \in Nat
  BY <1>3, <1>5, FS_CardinalityType
<1> HIDE DEF T, S
<1> QED  BY <1>1, <1>3, <1>5, <1>6

\* A partition whose slots are all filled, with different records, is full.
LEMMA FullWindow ==
    ASSUME NEW p \in Partitions, \A i \in Slots(p) : stored[p][i] # 0,
           \A i, j \in Slots(p) : stored[p][i] = stored[p][j] => i = j
    PROVE  Cardinality(Held(p)) = Capacity[p]
<1> DEFINE f == [i \in Slots(p) |-> stored[p][i]]
<1>1. f \in Surjection(Slots(p), Held(p))
  BY DEF Surjection, Held
<1>2. f \in Injection(Slots(p), Held(p))
  BY DEF Injection, IsInjective, Held
<1>3. IsFiniteSet(Slots(p)) /\ Cardinality(Slots(p)) = Capacity[p]
  BY CapacityType
<1> HIDE DEF f
<1>4. Cardinality(Held(p)) = Cardinality(Slots(p)) <=> f \in Injection(Slots(p), Held(p))
  BY <1>1, <1>3, FS_Surjection
<1> QED  BY <1>2, <1>3, <1>4

\* The index moves on by one slot, or from the last slot to the first.
LEMMA IndexMoves ==
    ASSUME TypeInv, NEW q \in Partitions
    PROVE  /\ index[q] \in Nat /\ index[q] < Capacity[q] /\ Capacity[q] \in Nat
           /\ \/ index[q] = Capacity[q] - 1 /\ NextIndex(q) = 0
              \/ index[q] < Capacity[q] - 1 /\ NextIndex(q) = index[q] + 1
<1>1. Capacity[q] \in Nat \ {0} /\ index[q] \in 0 .. Capacity[q] - 1
  BY CapacityType DEF TypeInv, PartitionsOK, Slots
<1> QED  BY <1>1 DEF NextIndex

\* What EEPROM_Write_Record's success leaves in the slots.
LEMMA CommittedStored ==
    ASSUME IInv, NEW q \in Partitions, Committed(q)
    PROVE  /\ taken \in Nat \ {0}
           /\ DOMAIN stored' = Partitions
           /\ \A p \in Partitions : \A i \in Slots(p) :
                /\ stored[p][i] \in Nat /\ stored[p][i] < taken
                /\ stored'[p][i] = IF p = q /\ i = index[q] /\ ~job.cut
                                   THEN taken ELSE stored[p][i]
           /\ lost' = (lost \/ job.cut)
           /\ index[q] \in Slots(q) /\ stored[q][index[q]] = 0
           /\ \A p \in Partitions : index'[p] = IF p = q THEN NextIndex(q) ELSE index[p]
<1>1. pc = WritePoint(q) /\ pc \in {"highWrite", "longWrite"}
  BY DEF Committed, WritePoint
<1>2. taken # 0 /\ job.data[0] = <<taken, 0>>
  BY <1>1, LoggerAssumption DEF IInv, JobIsCurrent, RecordByte
<1>3. job.data[0][1] = taken
  BY <1>2
<1>4. /\ stored' = IF job.cut THEN stored ELSE [stored EXCEPT ![q][index[q]] = taken]
      /\ index' = [index EXCEPT ![q] = NextIndex(q)]
  BY <1>3 DEF Committed
<1>10. lost' = (lost \/ job.cut)
  BY DEF Committed, IInv, TypeInv, JobOK
<1>5. /\ DOMAIN stored = Partitions /\ DOMAIN index = Partitions
      /\ \A p \in Partitions : index[p] \in Slots(p) /\ stored[p] \in [Slots(p) -> Nat]
      /\ taken \in Nat
  BY LoggerAssumption DEF IInv, TypeInv, PartitionsOK
<1>6. \A p \in Partitions : \A i \in Slots(p) : stored[p][i] \in Nat /\ stored[p][i] < taken
  BY <1>1, <1>5 DEF IInv, StoredIsOlder
<1>7. stored[q][index[q]] = 0
  BY <1>1 DEF IInv, StoredIsOlder
<1>8. \A p \in Partitions : \A i \in Slots(p) :
         stored'[p][i] = IF p = q /\ i = index[q] /\ ~job.cut THEN taken ELSE stored[p][i]
  BY <1>4, <1>5
<1>9. \A p \in Partitions : index'[p] = IF p = q THEN NextIndex(q) ELSE index[p]
  BY <1>4, <1>5
<1> QED  BY <1>2, <1>4, <1>5, <1>6, <1>7, <1>8, <1>9, <1>10

\* Until the board resets, a partition is a ring in the order of its records.
LEMMA RingStep ==
    ASSUME IInv, RingInv, [Next]_vars
    PROVE  RingInv'
<1>0. /\ DOMAIN stored = Partitions
      /\ \A p \in Partitions : index[p] \in Slots(p) /\ stored[p] \in [Slots(p) -> Nat]
      /\ TypeInv
  BY LoggerAssumption DEF IInv, TypeInv, PartitionsOK
<1>1. ASSUME UNCHANGED <<stored, index, resets, lost>>
      PROVE  RingInv'
  BY <1>1 DEF RingInv, HeldOnce, Ordered, Before, Filled, Slots
<1>2. ASSUME NEW p \in Partitions, WriteRecord(p), UNCHANGED <<index, resets, lost>>
      PROVE  RingInv'
  <2>1. \A q \in Partitions : \A i \in Slots(q) :
           stored'[q][i] = IF q = p /\ i = index[p] THEN 0 ELSE stored[q][i]
    BY <1>0, <1>2 DEF WriteRecord
  <2>2. HeldOnce'
    BY <2>1 DEF RingInv, HeldOnce, Slots
  <2>3. ASSUME resets = 0, NEW q \in Partitions
        PROVE  Ordered(q)' /\ (~lost => Filled(q)')
    <3>1. Ordered(q) /\ (~lost => Filled(q)) /\ index'[q] = index[q]
      BY <1>2, <2>3 DEF RingInv
    <3>2. index[p] \in Int /\ \A i \in Slots(q) : i \in Int
      BY <1>0 DEF Slots
    <3>3. Ordered(q)'
      BY <2>1, <3>1 DEF Ordered, Before, Slots
    <3>4. ~lost => Filled(q)'
      BY <2>1, <3>1, <3>2 DEF Filled, Slots
    <3> QED  BY <3>3, <3>4
  <2> QED  BY <1>2, <2>2, <2>3 DEF RingInv
<1>3. ASSUME NEW q \in Partitions, Committed(q)
      PROVE  RingInv'
  <2>0. resets' = resets
    BY <1>3 DEF Committed
  <2>1. /\ taken \in Nat \ {0}
        /\ \A p \in Partitions : \A i \in Slots(p) :
             /\ stored[p][i] \in Nat /\ stored[p][i] < taken
             /\ stored'[p][i] = IF p = q /\ i = index[q] /\ ~job.cut
                                THEN taken ELSE stored[p][i]
        /\ lost' = (lost \/ job.cut) /\ stored[q][index[q]] = 0
        /\ \A p \in Partitions : index'[p] = IF p = q THEN NextIndex(q) ELSE index[p]
    BY <1>3, CommittedStored
  <2>2. HeldOnce'
    BY <2>1 DEF RingInv, HeldOnce, Slots
  <2>3. ASSUME resets = 0, NEW p \in Partitions, p # q
        PROVE  Ordered(p)' /\ (~lost' => Filled(p)')
    <3>1. Ordered(p) /\ (~lost' => Filled(p)) /\ index'[p] = index[p]
      BY <2>1, <2>3 DEF RingInv
    <3>2. \A i \in Slots(p) : stored'[p][i] = stored[p][i]
      BY <2>1, <2>3
    <3> QED  BY <3>1, <3>2 DEF Ordered, Before, Filled, Slots
  <2>4. ASSUME resets = 0
        PROVE  Ordered(q)' /\ (~lost' => Filled(q)')
    <3>1. Ordered(q) /\ (~lost' => Filled(q) /\ ~job.cut) /\ index'[q] = NextIndex(q)
      BY <2>1, <2>4 DEF RingInv
    <3>2. \A i \in Slots(q) : i \in Nat /\ i < Capacity[q]
      BY CapacityType DEF Slots
    <3>3. /\ index[q] \in Nat /\ index[q] < Capacity[q] /\ Capacity[q] \in Nat
          /\ \/ index[q] = Capacity[q] - 1 /\ NextIndex(q) = 0
             \/ index[q] < Capacity[q] - 1 /\ NextIndex(q) = index[q] + 1
      BY <1>0, IndexMoves
    <3>4. \A i \in Slots(q) :
             /\ stored[q][i] \in Nat /\ stored[q][i] < taken
             /\ stored'[q][i] = IF i = index[q] /\ ~job.cut THEN taken ELSE stored[q][i]
             /\ i = index[q] => stored[q][i] = 0
      BY <2>1
    <3>5. ASSUME NEW i \in Slots(q), NEW j \in Slots(q),
                 stored'[q][i] # 0, stored'[q][j] # 0, Before(q, i, j)'
          PROVE  stored'[q][i] < stored'[q][j]
      <4>1. i # index[q] /\ i # j
        BY <3>1, <3>2, <3>3, <3>5 DEF Before
      <4>2. CASE j = index[q]
        BY <3>4, <3>5, <4>1, <4>2
      <4>3. CASE j # index[q]
        <5>1. Before(q, i, j)
          BY <3>1, <3>2, <3>3, <3>5, <4>1, <4>3 DEF Before
        <5> QED  BY <3>1, <3>4, <3>5, <4>1, <4>3, <5>1 DEF Ordered
      <4> QED  BY <4>2, <4>3
    <3>6. Ordered(q)'
      BY <3>5 DEF Ordered, Slots
    <3>7. ASSUME ~lost' PROVE Filled(q)'
      <4>1. CASE index[q] = Capacity[q] - 1 /\ NextIndex(q) = 0
        <5>1. \A i \in Slots(q) : stored'[q][i] # 0
          BY <2>1, <3>1, <3>2, <3>3, <3>4, <3>7, <4>1 DEF Filled
        <5> QED  BY <3>1, <4>1, <5>1 DEF Filled, Slots
      <4>2. CASE index[q] < Capacity[q] - 1 /\ NextIndex(q) = index[q] + 1
        <5>1. \A i \in Slots(q) : i < index[q] + 1 => stored'[q][i] # 0
          BY <2>1, <3>1, <3>2, <3>3, <3>4, <3>7 DEF Filled
        <5>2. \/ \A i \in Slots(q) : i >= index[q] + 1 => stored'[q][i] = 0
              \/ \A i \in Slots(q) : i > index[q] + 1 => stored'[q][i] # 0
          BY <2>1, <3>1, <3>2, <3>3, <3>4, <3>7 DEF Filled
        <5> QED  BY <3>1, <4>2, <5>1, <5>2 DEF Filled, Slots
      <4> QED  BY <3>3, <4>1, <4>2
    <3> QED  BY <3>6, <3>7
  <2> QED  BY <2>0, <2>2, <2>3, <2>4 DEF RingInv
<1>4. CASE Reset
  <2>1. resets' # 0 /\ stored' = stored
    BY <1>0, <1>4, LoggerAssumption DEF Reset, TypeInv
  <2> QED  BY <2>1 DEF RingInv, HeldOnce, Slots
<1>5. CASE HighPass
  BY <1>1, <1>2, <1>5 DEF HighPass, Partitions
<1>6. CASE LongPass
  BY <1>1, <1>2, <1>6 DEF LongPass, Partitions
<1>7. CASE EEPROM_Init_Read \/ EEPROM_Init_Written \/ EEPROM_Init_Verify
             \/ EEPROM_Init_Restored \/ EEPROM_Init_ReadError \/ EEPROM_Write_Bytes
             \/ EEPROM_Write_Error \/ EEPROM_Write_Cut \/ EEPROM_Write_Hangs
  BY <1>1, <1>7
  DEF EEPROM_Init_Read, EEPROM_Init_Written, EEPROM_Init_Verify, EEPROM_Init_Restored,
      EEPROM_Init_ReadError, EEPROM_Write_Bytes, EEPROM_Write_Error, EEPROM_Write_Cut,
      EEPROM_Write_Hangs, logVars
<1>8. CASE UNCHANGED vars
  BY <1>1, <1>8 DEF vars
<1> QED
  BY <1>3, <1>4, <1>5, <1>6, <1>7, <1>8 DEF Next, Program, PollForever, BoundReached

\* At boot the rings are empty, and every step keeps them.
LEMMA RingHolds == Spec => []RingInv
<1>1. Init => RingInv
  <2> SUFFICES ASSUME Init PROVE RingInv
    OBVIOUS
  <2>1. \A p \in Partitions : index[p] = 0 /\ \A i \in Slots(p) : stored[p][i] = 0
    BY DEF Init
  <2>2. \A p \in Partitions : \A i \in Slots(p) : i \in Nat
    BY CapacityType DEF Slots
  <2> QED  BY <2>1, <2>2 DEF RingInv, HeldOnce, Ordered, Filled
<1> QED  BY <1>1, RingStep, InvHolds, PTL DEF Spec

\* A slot that gives up its record: until a reset the record is the oldest of its
\* partition, which is full unless a record was lost.
LEMMA GivesUpOldest ==
    ASSUME TypeInv, RingInv, resets = 0, NEW p \in Partitions, stored[p][index[p]] # 0
    PROVE  /\ ~lost => Cardinality(Held(p)) = Capacity[p]
           /\ \A r \in Held(p) : stored[p][index[p]] <= r
<1>1. /\ index[p] \in Slots(p)
      /\ \A i \in Slots(p) : i \in Int /\ stored[p][i] \in Int
  BY CapacityType, LoggerAssumption DEF TypeInv, PartitionsOK, Slots
<1>2. Ordered(p) /\ (~lost => Filled(p)) /\ HeldOnce
  BY DEF RingInv
<1>3. ~lost => \A i \in Slots(p) : stored[p][i] # 0
  BY <1>1, <1>2 DEF Filled
<1>4. ~lost => Cardinality(Held(p)) = Capacity[p]
  BY <1>2, <1>3, FullWindow DEF HeldOnce
<1>5. ASSUME NEW j \in Slots(p), stored[p][j] # 0
      PROVE  stored[p][index[p]] <= stored[p][j]
  <2>1. j # index[p] => Before(p, index[p], j)
    BY <1>1 DEF Before
  <2> QED  BY <1>1, <1>2, <1>5, <2>1 DEF Ordered
<1>6. \A r \in Held(p) : stored[p][index[p]] <= r
  BY <1>5 DEF Held
<1> QED  BY <1>4, <1>6

\* The abstract specification counts as this module does.
LEMMA SameCardinality == ASSUME NEW S PROVE Window!Cardinality(S) = Cardinality(S)
BY DEF Window!Cardinality, Cardinality

\* Every step of the logger is a step of LogWindow or leaves the window as it is.
LEMMA WindowStep ==
    ASSUME IInv, RingInv, [Next]_vars
    PROVE  [Window!WindowNext]_<<[p \in Partitions |-> Held(p)], <<resets = 0, ~lost>>>>
<1> DEFINE W == [p \in Partitions |-> Held(p)]
<1> SUFFICES [Window!WindowNext]_<<W, <<resets = 0, ~lost>>>>
  OBVIOUS
<1>0. /\ DOMAIN stored = Partitions
      /\ \A p \in Partitions : index[p] \in Slots(p) /\ stored[p] \in [Slots(p) -> 0 .. MaxRecords]
      /\ TypeInv
  BY DEF IInv, TypeInv, PartitionsOK
<1>1. ASSUME UNCHANGED <<stored, resets, lost>>
      PROVE  UNCHANGED <<W, <<resets = 0, ~lost>>>>
  BY <1>1 DEF Held, Slots
<1>2. ASSUME NEW p \in Partitions, WriteRecord(p), UNCHANGED <<index, resets, lost>>
      PROVE  [Window!WindowNext]_<<W, <<resets = 0, ~lost>>>>
  <2>1. \A q \in Partitions : \A i \in Slots(q) :
           stored'[q][i] = IF q = p /\ i = index[p] THEN 0 ELSE stored[q][i]
    BY <1>0, <1>2 DEF WriteRecord
  <2>2. CASE stored[p][index[p]] = 0
    <3>1. \A q \in Partitions : Held(q)' = Held(q)
      BY <2>1, <2>2 DEF Held, Slots
    <3> QED  BY <1>2, <3>1
  <2>3. CASE stored[p][index[p]] # 0
    <3> DEFINE r == stored[p][index[p]]
    <3>1. r \in Held(p)
      BY <1>0, <2>3 DEF Held
    <3>2. \A q \in Partitions : q # p => Held(q)' = Held(q)
      BY <2>1 DEF Held, Slots
    <3>3. Held(p)' = Held(p) \ {r}
      <4>1. \A i \in Slots(p) : stored[p][i] = r <=> i = index[p]
        BY <1>0, <2>3 DEF RingInv, HeldOnce
      <4> QED  BY <1>0, <2>1, <2>3, <4>1 DEF Held, Slots
    <3>4. W' = [W EXCEPT ![p] = @ \ {r}]
      BY <3>2, <3>3
    <3>5. resets = 0 => /\ ~lost => Cardinality(Held(p)) = Capacity[p]
                        /\ \A s \in Held(p) : r <= s
      BY <1>0, <2>3, GivesUpOldest
    <3>6. Window!Evict(p)
      <4>1. W[p] = Held(p) /\ (resets = 0)' = (resets = 0) /\ (~lost)' = ~lost
        BY <1>2
      <4> HIDE DEF r, W
      <4> QED  BY <3>1, <3>4, <3>5, <4>1, SameCardinality DEF Window!Evict, Window!flags, W
    <3> QED  BY <3>6 DEF Window!WindowNext
  <2> QED  BY <2>2, <2>3
<1>9. ASSUME NEW q \in Partitions, Committed(q), job.cut
      PROVE  Window!WindowNext
  <2>1. lost' /\ UNCHANGED <<stored, resets>>
    BY <1>9 DEF Committed
  <2>2. W' = W
    BY <2>1 DEF Held, Slots
  <2> QED  BY <2>1, <2>2 DEF Window!WindowNext, Window!Lose
<1>3. ASSUME NEW q \in Partitions, Committed(q), ~job.cut
      PROVE  Window!WindowNext
  <2>1. /\ taken \in Nat \ {0}
        /\ \A p \in Partitions : \A i \in Slots(p) :
             /\ stored[p][i] \in Nat /\ stored[p][i] < taken
             /\ stored'[p][i] = IF p = q /\ i = index[q] /\ ~job.cut
                                THEN taken ELSE stored[p][i]
        /\ lost' = (lost \/ job.cut)
        /\ index[q] \in Slots(q) /\ stored[q][index[q]] = 0
    BY <1>3, CommittedStored
  <2>2. taken \in Records
    BY <1>0, <2>1, LoggerAssumption DEF TypeInv, Records
  <2>3. \A p \in Partitions : p # q => Held(p)' = Held(p)
    BY <2>1 DEF Held, Slots
  <2>4. Held(q)' = Held(q) \cup {taken}
    BY <1>3, <2>1 DEF Held, Slots
  <2>5. W' = [W EXCEPT ![q] = @ \cup {taken}]
    BY <2>3, <2>4
  <2>6. \A r \in Held(q) : r < taken
    BY <2>1 DEF Held
  <2>7. Cardinality(Held(q)) < Capacity[q]
    BY <2>1, RoomForOne
  <2>8. resets' = resets
    BY <1>3 DEF Committed
  <2>9. Window!Add(q)
    <3>1. W[q] = Held(q) /\ (resets = 0)' = (resets = 0) /\ (~lost)' = ~lost
      BY <1>3, <2>1, <2>8
    <3> QED  BY <2>2, <2>5, <2>6, <2>7, <3>1, SameCardinality DEF Window!Add, Window!flags
  <2> QED  BY <2>9 DEF Window!WindowNext
<1>4. CASE Reset
  <2>1. resets' # 0 /\ stored' = stored /\ lost' = lost
    BY <1>0, <1>4, LoggerAssumption DEF Reset, TypeInv
  <2>2. W' = W
    BY <2>1 DEF Held, Slots
  <2> QED  BY <2>1, <2>2 DEF Window!WindowNext, Window!Restart
<1> HIDE DEF W
<1>5. CASE HighPass
  BY <1>1, <1>2, <1>5 DEF HighPass, Partitions
<1>6. CASE LongPass
  BY <1>1, <1>2, <1>6 DEF LongPass, Partitions
<1>7. CASE EEPROM_Init_Read \/ EEPROM_Init_Written \/ EEPROM_Init_Verify
             \/ EEPROM_Init_Restored \/ EEPROM_Init_ReadError \/ EEPROM_Write_Bytes
             \/ EEPROM_Write_Error \/ EEPROM_Write_Cut \/ EEPROM_Write_Hangs
  BY <1>1, <1>7
  DEF EEPROM_Init_Read, EEPROM_Init_Written, EEPROM_Init_Verify, EEPROM_Init_Restored,
      EEPROM_Init_ReadError, EEPROM_Write_Bytes, EEPROM_Write_Error, EEPROM_Write_Cut,
      EEPROM_Write_Hangs, logVars
<1>8. CASE UNCHANGED vars
  BY <1>1, <1>8 DEF vars
<1> QED
  BY <1>3, <1>4, <1>5, <1>6, <1>7, <1>8, <1>9 DEF Next, Program, PollForever, BoundReached

\* Data_Logger_Task implements LogWindow, for every size of the partitions and every
\* number of failed writes: until a reset only a full partition gives up a record,
\* its oldest, and what comes in is newer than all that a partition holds; a record
\* lost to a burst that was cut into costs only its own place.
THEOREM LoggerImplementsWindow == Spec => ImplementsLogWindow
<1>1. Init => Window!WindowInit
  <2> SUFFICES ASSUME Init PROVE Window!WindowInit
    OBVIOUS
  <2>1. \A p \in Partitions : Held(p) = {}
    BY DEF Init, Held
  <2>2. resets = 0 /\ ~lost
    BY DEF Init
  <2> QED  BY <2>1, <2>2 DEF Window!WindowInit
<1>2. Spec => Window!WindowSpec
  BY <1>1, WindowStep, RingHolds, InvHolds, PTL DEF Spec, Window!WindowSpec, Window!flags
<1> QED  BY <1>2 DEF ImplementsLogWindow
=============================================================================
