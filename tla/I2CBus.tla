------------------------------- MODULE I2CBus -------------------------------
(***************************************************************************)
(* The LPI2C controller and the two tasks that share it without a lock.     *)
(*                                                                         *)
(* The data logger writes bursts to the EEPROM; the analog task, of higher  *)
(* priority, writes and reads the BMP280 and reads the DS3231.  Each calls  *)
(* LPI2C_MasterTransferBlocking, which polls the controller: commands go    *)
(* into a transmit FIFO, the controller carries them out one by one, and    *)
(* flags tell of a STOP, of a missing acknowledge (NDF) and of data without *)
(* a START (FEF).  The analog task may wake at any point of the logger's    *)
(* transfer and then runs to completion.                                    *)
(*                                                                         *)
(* The controller and the devices are external: an error comes with an      *)
(* automatic STOP and halts the controller until the flag is cleared, and   *)
(* a STOP on a bus that is already free is reported as a STOP or as a FIFO  *)
(* error.  The EEPROM stores what it was sent when a STOP ends the burst,   *)
(* and drops it when a repeated START does.                                 *)
(***************************************************************************)
EXTENDS Naturals, Sequences, SequencesExt

CONSTANTS
    FifoSize,     \* FSL_FEATURE_LPI2C_FIFO_SIZEn; in one place two STOPs would not fit
    BurstBytes,   \* data bytes of a page burst
    ReadBytes     \* bytes of a register read

ASSUME BusAssumption ==
    FifoSize \in Nat \ {0, 1} /\ BurstBytes \in Nat /\ ReadBytes \in Nat \ {0}

Tasks == {"logger", "analog"}
Devices == {"eeprom", "bmp280", "ds3231"}

VARIABLES
    pc,          \* where each task is in LPI2C_MasterTransferBlocking
    todo,        \* commands the task has still to push
    expect,      \* bytes it has still to receive
    result,      \* "success" or "error"
    target,      \* the device it addresses
    fifo,        \* transmit FIFO
    rx,          \* receive FIFO: the device each byte comes from, and the read
    error,       \* NDF or FEF is set
    stopped,     \* SDF is set
    bus,         \* the device that is addressed and the direction, or Free
    pending,     \* bytes of the burst the EEPROM has received
    stored,      \* history: data bytes of this burst that the EEPROM has stored
    read,        \* history: number of the analog task's transfer, modulo 2
    overlapped   \* history: the analog task woke inside this burst

taskVars == <<pc, todo, expect, result, target>>
hwVars == <<fifo, rx, error, stopped, bus, pending, stored>>
vars == <<taskVars, hwVars, read, overlapped>>

Free == [dev |-> "none", dir |-> "none"]

\* Commands of the transmit FIFO.  Byte 0 of a write is the register or cell address.
StartCmd(d, dir) == [op |-> "start", dev |-> d, arg |-> dir]
DataCmd(d, k) == [op |-> "data", dev |-> d, arg |-> k]
RxDataCmd(d, n, id) == [op |-> "rx", dev |-> d, arg |-> n, of |-> id]
StopCmd == [op |-> "stop", dev |-> "none", arg |-> 0]

-----------------------------------------------------------------------------
(* What a transfer puts into the FIFO before its STOP. *)

\* Mutant: the last byte of the buffer is not sent.
WriteCommands_Short(d, n) ==
    <<StartCmd(d, "write"), DataCmd(d, 0)>> \o [k \in 1 .. n - 1 |-> DataCmd(d, k)]

WriteCommands(d, n) ==
    <<StartCmd(d, "write"), DataCmd(d, 0)>> \o [k \in 1 .. n |-> DataCmd(d, k)]

\* The direction changes with a repeated START.
ReadCommands(d, n) ==
    <<StartCmd(d, "write"), DataCmd(d, 0), StartCmd(d, "read"), RxDataCmd(d, n, 1 - read)>>

\* Transfers of each task: page bursts, and ctrl_meas, raw data and time registers.
Transfers(t) ==
    IF t = "logger"
    THEN {[dev |-> "eeprom", commands |-> WriteCommands("eeprom", BurstBytes), bytes |-> 0]}
    ELSE {[dev |-> "bmp280", commands |-> WriteCommands("bmp280", 1), bytes |-> 0]}
           \cup {[dev |-> d, commands |-> ReadCommands(d, ReadBytes), bytes |-> ReadBytes]
                   : d \in {"bmp280", "ds3231"}}

TypeOK ==
    /\ pc \in [Tasks -> {"idle", "poll", "push", "receive", "stopPoll", "stopPush",
                         "stopAfterError", "stopWait"}]
    /\ expect \in [Tasks -> 0 .. ReadBytes]
    /\ result \in [Tasks -> {"success", "error"}]
    /\ target \in [Tasks -> Devices]
    /\ Len(fifo) <= FifoSize /\ Len(rx) <= FifoSize
    /\ error \in BOOLEAN /\ stopped \in BOOLEAN
    /\ bus \in {Free} \cup [dev : Devices, dir : {"write", "read"}]
    /\ pending \in Seq(0 .. BurstBytes) /\ stored \in Seq(1 .. BurstBytes)
    /\ read \in {0, 1} /\ overlapped \in BOOLEAN

Init ==
    /\ pc = [t \in Tasks |-> "idle"]
    /\ todo = [t \in Tasks |-> <<>>]
    /\ expect = [t \in Tasks |-> 0]
    /\ result = [t \in Tasks |-> "success"]
    /\ target = [t \in Tasks |-> IF t = "logger" THEN "eeprom" ELSE "bmp280"]
    /\ fifo = <<>> /\ rx = <<>>
    /\ error = FALSE /\ stopped = FALSE
    /\ bus = Free
    /\ pending = <<>> /\ stored = <<>>
    /\ read = 0 /\ overlapped = FALSE

-----------------------------------------------------------------------------
(* LPI2C_MasterTransferBlocking, one step for each poll and each push. *)

\* The analog task has the processor whenever it wants it.
Runs(t) == t = "logger" => pc["analog"] = "idle"

At(t, point) == Runs(t) /\ pc[t] = point

Goto(t, point) == pc' = [pc EXCEPT ![t] = point]

\* LPI2C_MasterCheckAndClearError found an error: the flag and both FIFOs are
\* cleared.  The stop flag is left as it is.
ClearError ==
    /\ error' = FALSE
    /\ fifo' = <<>> /\ rx' = <<>>
    /\ UNCHANGED <<stopped, bus, pending, stored>>

Fail(t) == result' = [result EXCEPT ![t] = "error"]

\* The transfer starts with all flags cleared.
Begin(t, x) ==
    /\ At(t, "idle")
    /\ error' = FALSE /\ stopped' = FALSE
    /\ Goto(t, "poll")
    /\ todo' = [todo EXCEPT ![t] = x.commands]
    /\ expect' = [expect EXCEPT ![t] = x.bytes]
    /\ target' = [target EXCEPT ![t] = x.dev]
    /\ result' = [result EXCEPT ![t] = "success"]
    /\ IF t = "logger"
       THEN stored' = <<>> /\ overlapped' = FALSE /\ read' = read
       ELSE /\ overlapped' = (overlapped \/ pc["logger"] # "idle")
            /\ read' = 1 - read
            /\ stored' = stored
    /\ UNCHANGED <<fifo, rx, bus, pending>>

\* LPI2C_CheckForBusyBus: somebody else drives the bus, nothing is sent.
BeginBusy(t) ==
    /\ At(t, "idle") /\ bus = Free
    /\ Fail(t)
    /\ UNCHANGED <<pc, todo, expect, target, hwVars, read, overlapped>>

\* Mutant: the FIFO takes one command more than it has room for.
TxReady_OneMore == Len(fifo) <= FifoSize

TxReady == Len(fifo) < FifoSize

\* Mutant: LPI2C_MasterWaitForTxReady waits for room whatever went wrong.
WaitForTxReady_NoErrorCheck(t, point, afterError) ==
    /\ TxReady
    /\ Goto(t, point)
    /\ UNCHANGED <<result, hwVars>>

\* LPI2C_MasterWaitForTxReady: an error ends the wait, otherwise there is room.
WaitForTxReady(t, point, afterError) ==
    \/ /\ error
       /\ ClearError
       /\ Fail(t)
       /\ Goto(t, afterError)
    \/ /\ ~error /\ TxReady
       /\ Goto(t, point)
       /\ UNCHANGED <<result, hwVars>>

Poll(t) ==
    /\ At(t, "poll")
    /\ WaitForTxReady(t, "push", "stopPoll")
    /\ UNCHANGED <<todo, expect, target, read, overlapped>>

PushCmd(command) ==
    /\ fifo' = Append(fifo, command)
    /\ UNCHANGED <<rx, error, stopped, bus, pending, stored>>

Push(t) ==
    /\ At(t, "push")
    /\ PushCmd(Head(todo[t]))
    /\ todo' = [todo EXCEPT ![t] = Tail(@)]
    /\ Goto(t, CASE Len(todo[t]) > 1 -> "poll"
                 [] Len(todo[t]) = 1 /\ expect[t] > 0 -> "receive"
                 [] OTHER -> "stopPoll")
    /\ UNCHANGED <<expect, result, target, read, overlapped>>

\* Mutant: the loop ends a byte early.
LastByte_Early(t) == expect[t] <= 2

LastByte(t) == expect[t] = 1

\* LPI2C_MasterReceive takes a byte, or finds an error.
Receive(t) ==
    /\ At(t, "receive")
    /\ \/ /\ error
          /\ ClearError
          /\ Fail(t)
          /\ Goto(t, "stopPoll")
          /\ UNCHANGED expect
       \/ /\ ~error /\ rx # <<>>
          /\ rx' = Tail(rx)
          /\ expect' = [expect EXCEPT ![t] = @ - 1]
          /\ Goto(t, IF LastByte(t) THEN "stopPoll" ELSE "receive")
          /\ UNCHANGED <<result, fifo, error, stopped, bus, pending, stored>>
    /\ UNCHANGED <<todo, target, read, overlapped>>

\* LPI2C_MasterStop waits for room first, and pushes its STOP in any case.
StopPoll(t) ==
    /\ At(t, "stopPoll")
    /\ WaitForTxReady(t, "stopPush", "stopAfterError")
    /\ UNCHANGED <<todo, expect, target, read, overlapped>>

\* Mutant: no STOP is sent when one has been seen already.
StopPush_Lazy(t) ==
    /\ At(t, "stopPush") \/ At(t, "stopAfterError")
    /\ IF stopped THEN UNCHANGED hwVars ELSE PushCmd(StopCmd)
    /\ Goto(t, IF pc[t] = "stopPush" THEN "stopWait" ELSE "idle")
    /\ UNCHANGED <<todo, expect, result, target, read, overlapped>>

\* After an error of its own LPI2C_MasterStop does not wait for the STOP.
StopPush(t) ==
    /\ At(t, "stopPush") \/ At(t, "stopAfterError")
    /\ PushCmd(StopCmd)
    /\ Goto(t, IF pc[t] = "stopPush" THEN "stopWait" ELSE "idle")
    /\ UNCHANGED <<todo, expect, result, target, read, overlapped>>

\* Mutant: the wait for the STOP does not look at the error flags.
StopWait_NoErrorCheck(t) ==
    /\ At(t, "stopWait")
    /\ stopped /\ fifo = <<>>
    /\ stopped' = FALSE
    /\ Goto(t, "idle")
    /\ UNCHANGED <<todo, expect, result, target, read, overlapped,
                   fifo, rx, error, bus, pending, stored>>

\* The STOP was seen and the FIFO is empty, or there is an error, after which the
\* STOP is pushed once more.
StopWait(t) ==
    /\ At(t, "stopWait")
    /\ error \/ (stopped /\ fifo = <<>>)
    /\ stopped' = (stopped /\ fifo # <<>>)
    /\ fifo' = IF error THEN <<StopCmd>> ELSE fifo
    /\ rx' = IF error THEN <<>> ELSE rx
    /\ result' = [result EXCEPT ![t] = IF error THEN "error" ELSE @]
    /\ error' = FALSE
    /\ Goto(t, "idle")
    /\ UNCHANGED <<todo, expect, target, bus, pending, stored, read, overlapped>>

LPI2C_MasterTransferBlocking(t) ==
    Poll(t) \/ Push(t) \/ Receive(t) \/ StopPoll(t) \/ StopPush(t) \/ StopWait(t)

\* A poll that finds nothing new is repeated, without limit: I2C_RETRY_TIMES is 0.
PollAgain(t) ==
    /\ Runs(t) /\ pc[t] \in {"poll", "receive", "stopPoll", "stopWait"}
    /\ UNCHANGED vars

-----------------------------------------------------------------------------
(* The controller carries out the command at the head of its FIFO. *)

\* A STOP makes the EEPROM store the data bytes of its burst.
Store ==
    /\ stored' = IF pending = <<>> THEN stored ELSE Tail(pending)
    /\ pending' = <<>>

\* The bus is released: by a STOP, or by an error with its automatic STOP.
ReleaseBus(isError) ==
    /\ bus' = Free
    /\ Store
    /\ error' = isError
    /\ stopped' = TRUE

\* Data or a receive without the matching START, or a STOP on a free bus.
FifoError ==
    IF bus = Free
    THEN error' = TRUE /\ UNCHANGED <<stopped, bus, pending, stored>>
    ELSE ReleaseBus(TRUE)

\* A device acknowledges a START or a byte, or does not.
Acknowledged(command) ==
    /\ UNCHANGED <<error, stopped, stored>>
    /\ IF command.op = "start"
       THEN /\ bus' = [dev |-> command.dev, dir |-> command.arg]
            /\ pending' = <<>>
       ELSE /\ pending' = IF bus.dev = "eeprom" THEN Append(pending, command.arg) ELSE pending
            /\ UNCHANGED bus

Controller ==
    /\ fifo # <<>> /\ ~error
    /\ LET command == Head(fifo)
       IN \/ /\ command.op = "start" \/ (command.op = "data" /\ bus.dir = "write")
             /\ Acknowledged(command) \/ ReleaseBus(TRUE)
             /\ fifo' = Tail(fifo) /\ rx' = rx
          \/ /\ command.op = "rx" /\ bus.dir = "read" /\ Len(rx) < FifoSize
             /\ rx' = Append(rx, <<bus.dev, command.of>>)
             /\ fifo' = IF command.arg = 1 THEN Tail(fifo)
                        ELSE <<[command EXCEPT !.arg = @ - 1]>> \o Tail(fifo)
             /\ UNCHANGED <<error, stopped, bus, pending, stored>>
          \/ /\ \/ command.op = "data" /\ bus.dir # "write"
                \/ command.op = "rx" /\ bus.dir # "read"
             /\ FifoError
             /\ fifo' = Tail(fifo) /\ rx' = rx
          \/ /\ command.op = "stop"
             /\ ReleaseBus(FALSE) \/ (bus = Free /\ FifoError)
             /\ fifo' = Tail(fifo) /\ rx' = rx
    /\ UNCHANGED <<taskVars, read, overlapped>>

Next ==
    \/ \E t \in Tasks :
         \/ \E x \in Transfers(t) : Begin(t, x)
         \/ BeginBusy(t)
         \/ LPI2C_MasterTransferBlocking(t)
         \/ PollAgain(t)
    \/ Controller

Spec == Init /\ [][Next]_vars

\* The controller runs on its own clock, and a task that has the processor goes on.
FairSpec ==
    /\ Spec
    /\ WF_vars(Controller)
    /\ \A t \in Tasks : WF_vars(LPI2C_MasterTransferBlocking(t))

-----------------------------------------------------------------------------
(* Properties. *)

\* No device receives a byte or is read on behalf of a transfer that addressed
\* another one: however the analog task cuts into a burst, what the logger sends
\* afterwards meets a free bus and ends in a FIFO error, because every path of
\* LPI2C_MasterTransferBlocking pushes its own STOP.
NoForeignByte ==
    (fifo # <<>> /\ ~error /\ bus # Free /\ Head(fifo).op \in {"data", "rx"}) =>
        Head(fifo).dev = bus.dev

\* The analog task takes only bytes of its own device and of this very read, never
\* one that an earlier transfer left in the receive FIFO.
ReadsAreOwn ==
    pc["analog"] = "receive" => \A k \in DOMAIN rx : rx[k] = <<target["analog"], read>>

\* A burst that is reported written and that the analog task did not cut into is in
\* the EEPROM, all its bytes in order; and what the EEPROM stores is a beginning of
\* the burst in every case.  DataLogger rests on both: its bursts nobody cut into
\* store all their bytes, and its EEPROM_Write_Cut stores a beginning of them.
SuccessIsStored ==
    /\ IsPrefix(stored, [k \in 1 .. BurstBytes |-> k])
    /\ (pc["logger"] = "stopWait" /\ ~error /\ stopped /\ fifo = <<>>
          /\ result["logger"] = "success" /\ ~overlapped) => Len(stored) = BurstBytes

\* Every transfer of the analog task returns, in the middle of a burst too, as long
\* as the devices and the controller answer: the polls have no other limit.
AnalogReturns == pc["analog"] # "idle" ~> pc["analog"] = "idle"

\* So does a burst of the data logger, unless the analog task cut into it and took
\* the stop flag it waits for.
BurstReturns == pc["logger"] # "idle" ~> (pc["logger"] = "idle" \/ overlapped)
=============================================================================
