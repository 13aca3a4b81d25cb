----------------------------- MODULE I2CBus_proof -----------------------------
(***************************************************************************)
(* What holds of the shared bus for every size of the transfers and of the *)
(* FIFO (two places and more), proved from one inductive invariant.         *)
(*                                                                         *)
(* The FIFO is read as a chain: each command finds the bus as the command   *)
(* ahead of it leaves it, and the first one finds it as the controller has   *)
(* just left it.  A command fits when it continues the transfer to its own  *)
(* device or comes behind a STOP, where it ends in a FIFO error.  A task    *)
(* pushes only commands that fit, and a step of the controller replaces a   *)
(* link by one that fits as well (Leaves): so no byte goes to a device that *)
(* its transfer did not address, however the analog task cuts in, and the   *)
(* STOP that ends a burst nobody disturbed comes behind its last byte.      *)
(***************************************************************************)
EXTENDS I2CBus, SequenceTheorems, TLAPS

-----------------------------------------------------------------------------
(* The inductive invariant. *)

\* The commands the driver pushes.  Only the analog task reads, never the EEPROM.
DataCmds == {DataCmd("eeprom", k) : k \in 0 .. BurstBytes}
              \cup {DataCmd(d, k) : d \in {"bmp280", "ds3231"}, k \in {0, 1}}
RxCmds == {RxDataCmd(d, n, id) : d \in {"bmp280", "ds3231"}, n \in 1 .. ReadBytes, id \in {0, 1}}
StartCmds == {StartCmd(d, dir) : d \in Devices, dir \in {"write", "read"}}
Commands == DataCmds \cup RxCmds \cup StartCmds \cup {StopCmd}

TypeInv ==
    /\ TypeOK
    /\ fifo \in Seq(Commands) /\ rx \in Seq(Devices \X {0, 1})
    /\ todo \in [Tasks -> Seq(Commands \ {StopCmd})]

\* What the bus has seen last, as a command: a STOP, a START, or a byte for the
\* EEPROM.
Executed ==
    CASE bus = Free -> StopCmd
      [] bus # Free /\ pending = <<>> -> StartCmd(bus.dev, bus.dir)
      [] OTHER -> DataCmd(bus.dev, Len(pending) - 1)

\* The command ahead of place k of the FIFO, and ahead of the next one pushed.
Prev(k) == IF k = 1 THEN Executed ELSE fifo[k - 1]
Newest == Prev(Len(fifo) + 1)

\* Command c may come behind a: a byte continues the transfer to its device, those
\* for the EEPROM one by one; or it follows a STOP and ends in a FIFO error.
Continues(a, c) ==
    /\ a.dev = c.dev
    /\ c.dev = "eeprom" => c.arg = IF a.op = "start" THEN 0 ELSE a.arg + 1

Fits(a, c) == c.op \in {"data", "rx"} => a.op = "stop" \/ Continues(a, c)

Sending(t) == pc[t] \in {"poll", "push"}

ChainInv == \A k \in 1 .. Len(fifo) : Fits(Prev(k), fifo[k])

\* The commands a task has still to push are those of one transfer.
TaskTodo(t) ==
    /\ Sending(t) => todo[t] # <<>>
    /\ \A k \in 1 .. Len(todo[t]) : todo[t][k].dev = target[t]
    /\ \A k \in 1 .. Len(todo[t]) - 1 : Fits(todo[t][k], todo[t][k + 1])
    /\ Sending(t) /\ Runs(t) => Fits(Newest, Head(todo[t]))

\* The data logger pushes a whole burst, and receives nothing.
LastByteOfBurst == DataCmd("eeprom", BurstBytes)

LoggerTodo ==
    /\ expect["logger"] = 0 /\ pc["logger"] # "receive"
    /\ \A k \in 1 .. Len(todo["logger"]) : todo["logger"][k].op # "rx"
    /\ todo["logger"] # <<>> => Last(todo["logger"]) = LastByteOfBurst

TodoInv == (\A t \in Tasks : TaskTodo(t)) /\ LoggerTodo

\* The bus is free after an error; the EEPROM has the bytes since its START.
BusInv ==
    /\ error => bus = Free
    /\ bus.dev # "eeprom" => pending = <<>>
    /\ \A k \in 1 .. Len(pending) : pending[k] = k - 1
    /\ Len(stored) <= BurstBytes /\ \A k \in 1 .. Len(stored) : stored[k] = k

\* A task that has found room still has it, unless it was interrupted, and after an
\* interruption there is at most the STOP of the other transfer.  Between transfers
\* the FIFO holds nothing but STOPs.
RoomInv ==
    /\ \A t \in Tasks : Runs(t) /\ pc[t] \in {"push", "stopPush", "stopAfterError"} =>
         Len(fifo) < FifoSize
    /\ pc["analog"] = "stopAfterError" => fifo = <<>>
    /\ pc["analog"] = "stopWait" => Newest.op = "stop"
    /\ pc["analog"] = "idle" /\ pc["logger"] \in {"idle", "stopAfterError"} =>
         \A k \in 1 .. Len(fifo) : fifo[k].op = "stop"

\* Bytes the receive command in the FIFO has still to fetch.
Owed == IF fifo # <<>> /\ Last(fifo).op = "rx" THEN Last(fifo).arg ELSE 0

\* Nothing is being received.
NoRead == rx = <<>> /\ \A k \in 1 .. Len(fifo) : fifo[k].op # "rx"

\* A read whose receive command has been pushed.
Reading ==
    /\ expect["analog"] > 0
    /\ error \/ Len(rx) + Owed = expect["analog"]
    /\ \A k \in 1 .. Len(fifo) : fifo[k].op = "rx" =>
         k = Len(fifo) /\ fifo[k].dev = target["analog"] /\ fifo[k].of = read
    /\ \A k \in 1 .. Len(rx) : rx[k] = <<target["analog"], read>>

\* A transfer that has still to push its receive command, if it is a read.
ToRead ==
    \A k \in 1 .. Len(todo["analog"]) :
      /\ todo["analog"][k].op = "rx" => /\ todo["analog"][k].of = read
                                       /\ todo["analog"][k].arg = expect["analog"]
      /\ todo["analog"][k].op = "rx" <=> expect["analog"] > 0 /\ k = Len(todo["analog"])

\* What is received, and what will be, belongs to the read of the analog task.
ReadInv ==
    /\ pc["analog"] # "receive" => NoRead
    /\ pc["analog"] = "receive" => Reading
    /\ Sending("analog") => ToRead

\* A burst in which nothing has failed and nobody has cut.
Undisturbed ==
    pc["logger"] # "idle" /\ ~overlapped /\ ~error /\ result["logger"] = "success"

\* No byte of it meets a free bus, and the STOP comes behind the last one.
Streaming ==
    /\ \A k \in 1 .. Len(fifo) : fifo[k].op = "data" => Prev(k).op # "stop"
    /\ Sending("logger") /\ Head(todo["logger"]).op = "data" => Newest.op # "stop"
    /\ pc["logger"] \in {"stopPoll", "stopPush"} => Newest = LastByteOfBurst
    /\ pc["logger"] = "stopWait" =>
         \/ fifo = <<>> /\ Len(stored) = BurstBytes
         \/ fifo # <<>> /\ Last(fifo) = StopCmd /\ Prev(Len(fifo)) = LastByteOfBurst

BurstInv ==
    /\ pc["logger"] # "idle" /\ ~overlapped => pc["analog"] = "idle"
    /\ pc["logger"] = "stopAfterError" => result["logger"] = "error"
    /\ Undisturbed => Streaming

BusAllInv == TypeInv /\ ChainInv /\ TodoInv /\ BusInv /\ RoomInv /\ ReadInv /\ BurstInv
-----------------------------------------------------------------------------
(* Commands. *)

\* What a command of each kind is made of.
LEMMA CommandKinds ==
    ASSUME NEW c \in Commands
    PROVE  /\ c.op \in {"data", "rx", "start", "stop"}
           /\ c.op = "stop" => c = StopCmd
           /\ c.op = "start" => /\ c.dev \in Devices /\ c.arg \in {"write", "read"}
                                /\ c = StartCmd(c.dev, c.arg)
           /\ c.op = "data" => /\ c.dev \in Devices /\ c.arg \in Nat
                               /\ c.dev = "eeprom" => c.arg \in 0 .. BurstBytes
                               /\ c = DataCmd(c.dev, c.arg)
           /\ c.op = "rx" => /\ c.dev \in Devices \ {"eeprom"} /\ c.arg \in 1 .. ReadBytes
                             /\ c.of \in {0, 1} /\ c = RxDataCmd(c.dev, c.arg, c.of)
<1>0. BurstBytes \in Nat /\ ReadBytes \in Nat
  BY BusAssumption
<1>1. CASE c = StopCmd
  BY <1>1 DEF StopCmd
<1>2. ASSUME NEW d \in Devices, NEW dir \in {"write", "read"}, c = StartCmd(d, dir)
      PROVE  c.op = "start" /\ c.dev = d /\ c.arg = dir
  BY <1>2 DEF StartCmd
<1>3. ASSUME NEW d, NEW k, c = DataCmd(d, k)
      PROVE  c.op = "data" /\ c.dev = d /\ c.arg = k
  BY <1>3 DEF DataCmd
<1>4. ASSUME NEW d, NEW n, NEW id, c = RxDataCmd(d, n, id)
      PROVE  c.op = "rx" /\ c.dev = d /\ c.arg = n /\ c.of = id
  BY <1>4 DEF RxDataCmd
<1>5. CASE c \in StartCmds
  BY <1>2, <1>5 DEF StartCmds
<1>6. CASE c \in DataCmds
  BY <1>0, <1>3, <1>6 DEF DataCmds, Devices
<1>7. CASE c \in RxCmds
  BY <1>0, <1>4, <1>7 DEF RxCmds, Devices
<1> QED  BY <1>1, <1>5, <1>6, <1>7 DEF Commands

\* The commands of each kind.
LEMMA CommandIn ==
    /\ StopCmd \in Commands /\ StopCmd.op = "stop" /\ StopCmd.dev = "none"
    /\ \A d \in Devices, dir \in {"write", "read"} :
         /\ StartCmd(d, dir) \in Commands /\ StartCmd(d, dir).op = "start"
         /\ StartCmd(d, dir).dev = d /\ StartCmd(d, dir).arg = dir
    /\ \A k \in 0 .. BurstBytes : DataCmd("eeprom", k) \in Commands
    /\ \A d \in {"bmp280", "ds3231"}, k \in {0, 1} : DataCmd(d, k) \in Commands
    /\ \A d \in {"bmp280", "ds3231"}, n \in 1 .. ReadBytes, id \in {0, 1} :
         /\ RxDataCmd(d, n, id) \in Commands /\ RxDataCmd(d, n, id).op = "rx"
         /\ RxDataCmd(d, n, id).dev = d /\ RxDataCmd(d, n, id).arg = n
         /\ RxDataCmd(d, n, id).of = id
    /\ \A d, k : DataCmd(d, k).op = "data" /\ DataCmd(d, k).dev = d /\ DataCmd(d, k).arg = k
<1>1. /\ StopCmd \in Commands /\ StopCmd.op = "stop" /\ StopCmd.dev = "none"
  BY DEF StopCmd, Commands
<1>2. \A d \in Devices, dir \in {"write", "read"} :
        /\ StartCmd(d, dir) \in Commands /\ StartCmd(d, dir).op = "start"
        /\ StartCmd(d, dir).dev = d /\ StartCmd(d, dir).arg = dir
  BY DEF StartCmd, Commands, StartCmds
<1>3. \A k \in 0 .. BurstBytes : DataCmd("eeprom", k) \in Commands
  BY DEF Commands, DataCmds
<1>4. \A d \in {"bmp280", "ds3231"}, k \in {0, 1} : DataCmd(d, k) \in Commands
  BY DEF Commands, DataCmds
<1>5. \A d \in {"bmp280", "ds3231"}, n \in 1 .. ReadBytes, id \in {0, 1} :
        RxDataCmd(d, n, id) \in Commands
  BY DEF Commands, RxCmds
<1>6. \A d, n, id : /\ RxDataCmd(d, n, id).op = "rx" /\ RxDataCmd(d, n, id).dev = d
                    /\ RxDataCmd(d, n, id).arg = n /\ RxDataCmd(d, n, id).of = id
  BY DEF RxDataCmd
<1>7. \A d, k : DataCmd(d, k).op = "data" /\ DataCmd(d, k).dev = d /\ DataCmd(d, k).arg = k
  BY DEF DataCmd
<1> QED  BY <1>1, <1>2, <1>3, <1>4, <1>5, <1>6, <1>7

\* Anything may follow a STOP, and a START may follow anything.
LEMMA FitsStop ==
    ASSUME NEW a, NEW c, a.op = "stop" \/ c.op \notin {"data", "rx"}
    PROVE  Fits(a, c)
BY DEF Fits

\* The bus is as the command c left it, in the respects that matter to the next.
Like(a, c) == a.op # "stop" /\ a.dev = c.dev /\ (c.dev = "eeprom" => a = c)

\* What fits behind a command fits behind the state it leaves.
LEMMA FitsLike ==
    ASSUME NEW a, NEW c, NEW n, Fits(c, n), c.op # "stop", Like(a, c)
    PROVE  Fits(a, n)
BY DEF Fits, Like, Continues
-----------------------------------------------------------------------------
(* The FIFO. *)

\* The ends of a sequence.
LEMMA SeqEnds ==
    ASSUME NEW S, NEW s \in Seq(S)
    PROVE  /\ Len(s) \in Nat /\ (s = <<>> <=> Len(s) = 0)
           /\ s # <<>> => Head(s) = s[1] /\ Last(s) = s[Len(s)]
<1>1. s # <<>> => Len(s) \in Nat \ {0}
  BY EmptySeq
<1>2. Len(<<>>) = 0
  BY EmptySeq
<1> QED  BY <1>1, <1>2, LenProperties DEF Last

\* The places of the FIFO.
LEMMA Places ==
    ASSUME TypeInv
    PROVE  /\ Len(fifo) \in Nat /\ (fifo = <<>> <=> Len(fifo) = 0)
           /\ \A k \in 1 .. Len(fifo) : fifo[k] \in Commands
           /\ Newest = IF fifo = <<>> THEN Executed ELSE fifo[Len(fifo)]
           /\ fifo # <<>> => Last(fifo) = fifo[Len(fifo)] /\ Head(fifo) = fifo[1]
<1>1. fifo \in Seq(Commands)
  BY DEF TypeInv
<1>2. Len(fifo) \in Nat /\ (fifo = <<>> => Len(fifo) = 0) /\ (fifo # <<>> => Len(fifo) # 0)
  <2>1. fifo # <<>> => Len(fifo) \in Nat \ {0}
    BY <1>1, EmptySeq
  <2>2. Len(<<>>) = 0
    BY EmptySeq
  <2> QED  BY <1>1, <2>1, <2>2, LenProperties
<1>3. \A k \in 1 .. Len(fifo) : fifo[k] \in Commands
  BY <1>1, ElementOfSeq
<1>4. Newest = IF fifo = <<>> THEN Executed ELSE fifo[Len(fifo)]
  <2> DEFINE n == Len(fifo)
  <2>1. n \in Nat /\ (fifo = <<>> <=> n = 0)
    BY <1>2
  <2> HIDE DEF n
  <2>2. (n + 1 = 1 <=> fifo = <<>>) /\ n + 1 - 1 = n
    BY <2>1
  <2>3. Newest = IF n + 1 = 1 THEN Executed ELSE fifo[n + 1 - 1]
    BY DEF Newest, Prev, n
  <2> QED  BY <2>2, <2>3 DEF n
<1>5. fifo # <<>> => Last(fifo) = fifo[Len(fifo)] /\ Head(fifo) = fifo[1]
  BY <1>1 DEF Last
<1> QED  BY <1>2, <1>3, <1>4, <1>5

\* The newest command after a step.
LEMMA NewestNext ==
    ASSUME NEW n \in Nat, Len(fifo') = n
    PROVE  Newest' = IF n = 0 THEN Executed' ELSE fifo'[n]
<1>1. (n + 1 = 1 <=> n = 0) /\ n + 1 - 1 = n
  OBVIOUS
<1>2. Newest' = IF n + 1 = 1 THEN Executed' ELSE fifo'[n + 1 - 1]
  BY DEF Newest, Prev
<1> QED  BY <1>1, <1>2

\* A command put ahead of others.
LEMMA ConsSeq ==
    ASSUME NEW S, NEW d \in S, NEW s \in Seq(S)
    PROVE  /\ <<d>> \o s \in Seq(S) /\ Len(<<d>> \o s) = Len(s) + 1
           /\ (<<d>> \o s)[1] = d
           /\ \A k \in 2 .. Len(s) + 1 : (<<d>> \o s)[k] = s[k - 1]
<1> DEFINE h == <<d>>
<1>1. h \in Seq(S) /\ Len(h) = 1 /\ h[1] = d
  OBVIOUS
<1>2. Len(s) \in Nat
  BY LenProperties
<1> HIDE DEF h
<1>3. /\ h \o s \in Seq(S) /\ Len(h \o s) = Len(h) + Len(s)
      /\ \A k \in 1 .. Len(h) + Len(s) :
           (h \o s)[k] = IF k <= Len(h) THEN h[k] ELSE s[k - Len(h)]
  BY <1>1, ConcatProperties
<1> DEFINE n == Len(s)
           f == h \o s
<1>4. n \in Nat /\ \A k \in 1 .. 1 + n : f[k] = IF k <= 1 THEN h[k] ELSE s[k - 1]
  BY <1>1, <1>2, <1>3
<1>5. Len(f) = 1 + n
  BY <1>1, <1>3
<1> HIDE DEF n, f
<1>6. f[1] = d /\ (\A k \in 2 .. n + 1 : f[k] = s[k - 1]) /\ Len(f) = n + 1
  BY <1>1, <1>4, <1>5
<1> QED  BY <1>3, <1>6 DEF n, f, h

\* A command is pushed.
LEMMA PushFifo ==
    ASSUME TypeInv, NEW c \in Commands, fifo' = Append(fifo, c), UNCHANGED <<bus, pending>>
    PROVE  /\ fifo' \in Seq(Commands) /\ fifo' # <<>>
           /\ Len(fifo') = Len(fifo) + 1 /\ fifo'[Len(fifo) + 1] = c
           /\ \A k \in 1 .. Len(fifo) : fifo'[k] = fifo[k]
           /\ \A k \in 1 .. Len(fifo) + 1 : Prev(k)' = Prev(k)
           /\ Newest' = c /\ Last(fifo') = c
<1> DEFINE n == Len(fifo)
<1>1. fifo \in Seq(Commands) /\ n \in Nat
  BY Places DEF TypeInv
<1>2. /\ fifo' \in Seq(Commands) /\ Len(fifo') = n + 1 /\ fifo'[n + 1] = c
      /\ \A k \in 1 .. n : fifo'[k] = fifo[k]
  BY <1>1, AppendProperties
<1>3. fifo' # <<>>
  BY <1>1, <1>2, EmptySeq
<1>4. Executed' = Executed
  BY DEF Executed, Free, StopCmd, StartCmd, DataCmd
<1> HIDE DEF n
<1>5. ASSUME NEW k \in 1 .. n + 1
      PROVE  Prev(k)' = Prev(k)
  <2>1. CASE k = 1
    BY <1>4, <2>1 DEF Prev
  <2>2. CASE k # 1
    <3>1. k - 1 \in 1 .. n
      BY <1>1, <2>2
    <3> QED  BY <1>2, <2>2, <3>1 DEF Prev
  <2> QED  BY <2>1, <2>2
<1>6. Newest' = c
  <2>1. n + 1 + 1 # 1 /\ n + 1 + 1 - 1 = n + 1
    BY <1>1
  <2>2. Newest' = IF n + 1 + 1 = 1 THEN Executed' ELSE fifo'[n + 1 + 1 - 1]
    BY <1>2 DEF Newest, Prev
  <2> QED  BY <1>2, <2>1, <2>2
<1> QED  BY <1>2, <1>3, <1>5, <1>6 DEF n, Last

\* The FIFO is emptied.
LEMMA EmptyFifo ==
    ASSUME fifo' = <<>>
    PROVE  ChainInv' /\ Newest' = Executed' /\ Len(fifo') = 0
<1>1. Len(fifo') = 0
  BY EmptySeq
<1>2. Newest' = Executed'
  BY <1>1 DEF Newest, Prev
<1> QED  BY <1>1, <1>2 DEF ChainInv

\* The FIFO holds one STOP.
LEMMA OnlyStop ==
    ASSUME fifo' = <<StopCmd>>
    PROVE  /\ ChainInv' /\ Newest' = StopCmd /\ Len(fifo') = 1
           /\ fifo' \in Seq(Commands) /\ fifo'[1] = StopCmd
<1>1. Len(fifo') = 1 /\ fifo'[1] = StopCmd /\ StopCmd.op = "stop" /\ fifo' \in Seq(Commands)
  BY CommandIn
<1>2. Newest' = StopCmd
  BY <1>1 DEF Newest, Prev
<1>3. \A k \in 1 .. Len(fifo') : fifo'[k].op = "stop"
  BY <1>1
<1> QED  BY <1>1, <1>2, <1>3 DEF ChainInv, Fits

\* A command that fits is pushed.
LEMMA PushKeepsChain ==
    ASSUME TypeInv, ChainInv, NEW c \in Commands, Fits(Newest, c), fifo' = Append(fifo, c),
           UNCHANGED <<bus, pending>>
    PROVE  ChainInv'
<1>1. ASSUME NEW k \in 1 .. Len(fifo) + 1
      PROVE  Fits(Prev(k)', fifo'[k])
  <2>1. CASE k = Len(fifo) + 1
    <3>1. Prev(k) = Newest /\ fifo'[k] = c /\ Prev(k)' = Prev(k)
      BY <2>1, PushFifo DEF Newest
    <3> QED  BY <3>1
  <2>2. CASE k # Len(fifo) + 1
    <3>1. k \in 1 .. Len(fifo)
      BY <2>2, Places
    <3>2. Fits(Prev(k), fifo[k]) /\ fifo'[k] = fifo[k] /\ Prev(k)' = Prev(k)
      BY <3>1, PushFifo DEF ChainInv
    <3> QED  BY <3>2
  <2> QED  BY <2>1, <2>2
<1> QED  BY <1>1, PushFifo DEF ChainInv
-----------------------------------------------------------------------------
(* The controller. *)

\* What the bus has seen last, by the state of the bus.
LEMMA ExecutedKinds ==
    ASSUME TypeInv
    PROVE  /\ bus = Free => Executed = StopCmd
           /\ bus # Free => /\ Executed.op # "stop" /\ Executed.dev = bus.dev
                            /\ bus.dev \in Devices /\ bus.dir \in {"write", "read"}
                            /\ pending = <<>> => Executed = StartCmd(bus.dev, bus.dir)
                            /\ pending # <<>> => /\ Executed = DataCmd(bus.dev, Len(pending) - 1)
                                                /\ Executed.arg = Len(pending) - 1
<1>1. bus # Free => bus.dev \in Devices /\ bus.dir \in {"write", "read"}
  BY DEF TypeInv, TypeOK
<1>2. bus = Free => Executed = StopCmd
  BY DEF Executed
<1>3. bus # Free /\ pending = <<>> => Executed = StartCmd(bus.dev, bus.dir)
  BY DEF Executed
<1>4. bus # Free /\ pending # <<>> => Executed = DataCmd(bus.dev, Len(pending) - 1)
  BY DEF Executed
<1> QED  BY <1>1, <1>2, <1>3, <1>4, CommandIn

\* The command at the head belongs to the transfer the bus is in, or the bus is free.
LEMMA HeadFits ==
    ASSUME TypeInv, ChainInv, fifo # <<>>, bus # Free, fifo[1].op \in {"data", "rx"}
    PROVE  /\ fifo[1].dev = bus.dev
           /\ fifo[1].dev = "eeprom" => fifo[1].op = "data" /\ fifo[1].arg = Len(pending)
<1>1. 1 \in 1 .. Len(fifo) /\ fifo[1] \in Commands
  BY Places
<1>2. Fits(Executed, fifo[1])
  BY <1>1 DEF ChainInv, Prev
<1>3. Continues(Executed, fifo[1])
  BY <1>2, ExecutedKinds DEF Fits
<1>4. fifo[1].dev = bus.dev
  BY <1>3, ExecutedKinds DEF Continues
<1>5. ASSUME fifo[1].dev = "eeprom"
      PROVE  fifo[1].op = "data" /\ fifo[1].arg = Len(pending)
  <2>1. fifo[1].op = "data" /\ bus.dev \in Devices /\ bus.dir \in {"write", "read"}
    BY <1>1, <1>5, CommandKinds, ExecutedKinds
  <2>2. CASE pending = <<>>
    <3>1. Executed.op = "start" /\ Len(pending) = 0
      BY <2>1, <2>2, ExecutedKinds, CommandIn
    <3> QED  BY <1>3, <1>5, <2>1, <3>1 DEF Continues
  <2>3. CASE pending # <<>>
    <3>1. Executed.op = "data" /\ Executed.arg = Len(pending) - 1 /\ Len(pending) \in Nat
      BY <2>3, ExecutedKinds, CommandIn DEF TypeInv, TypeOK
    <3>2. fifo[1].arg = Executed.arg + 1
      BY <1>3, <1>5, <3>1 DEF Continues
    <3> QED  BY <2>1, <3>1, <3>2
  <2> QED  BY <2>2, <2>3
<1> QED  BY <1>4, <1>5

\* The outcomes of a command.
StartAcked ==
    /\ fifo[1].op = "start" /\ fifo' = Tail(fifo) /\ UNCHANGED <<rx, error, stopped, stored>>
    /\ bus' = [dev |-> fifo[1].dev, dir |-> fifo[1].arg] /\ pending' = <<>>

ByteAcked ==
    /\ fifo[1].op = "data" /\ bus # Free
    /\ fifo' = Tail(fifo) /\ UNCHANGED <<rx, error, stopped, stored, bus>>
    /\ pending' = IF bus.dev = "eeprom" THEN Append(pending, fifo[1].arg) ELSE pending

Released ==
    /\ fifo' = Tail(fifo) /\ rx' = rx /\ bus' = Free /\ Store
    /\ error' \in BOOLEAN /\ stopped' = TRUE
    /\ ~error' => fifo[1].op = "stop"

FoundFree ==
    /\ fifo' = Tail(fifo) /\ bus = Free /\ error' = TRUE
    /\ UNCHANGED <<rx, stopped, bus, pending, stored>>

ByteReceived ==
    /\ fifo[1].op = "rx" /\ bus # Free /\ UNCHANGED <<error, stopped, bus, pending, stored>>
    /\ Len(rx) < FifoSize /\ rx' = Append(rx, <<bus.dev, fifo[1].of>>)
    /\ fifo' = IF fifo[1].arg = 1 THEN Tail(fifo)
               ELSE <<[fifo[1] EXCEPT !.arg = @ - 1]>> \o Tail(fifo)

\* A step of the controller has one of them.
LEMMA Outcomes ==
    ASSUME TypeInv, Controller
    PROVE  /\ fifo # <<>> /\ ~error /\ UNCHANGED <<taskVars, read, overlapped>>
           /\ StartAcked \/ ByteAcked \/ Released \/ FoundFree \/ ByteReceived
<1>1. fifo # <<>> /\ ~error /\ UNCHANGED <<taskVars, read, overlapped>>
  BY DEF Controller
<1>2. Head(fifo) = fifo[1] /\ fifo[1] \in Commands
  BY <1>1, Places
<1>3. bus = Free => bus.dir = "none"
  BY DEF Free
<1> DEFINE c == fifo[1]
<1>4. CASE /\ c.op = "start" \/ (c.op = "data" /\ bus.dir = "write")
           /\ Acknowledged(c) /\ fifo' = Tail(fifo) /\ rx' = rx
  BY <1>1, <1>3, <1>4, <1>2, CommandKinds DEF Acknowledged, StartAcked, ByteAcked
<1>5. CASE ReleaseBus(TRUE) /\ fifo' = Tail(fifo) /\ rx' = rx
  BY <1>1, <1>5 DEF ReleaseBus, Released
<1>6. CASE /\ c.op = "rx" /\ bus.dir = "read" /\ Len(rx) < FifoSize
           /\ rx' = Append(rx, <<bus.dev, c.of>>)
           /\ fifo' = IF c.arg = 1 THEN Tail(fifo) ELSE <<[c EXCEPT !.arg = @ - 1]>> \o Tail(fifo)
           /\ UNCHANGED <<error, stopped, bus, pending, stored>>
  BY <1>1, <1>3, <1>6 DEF ByteReceived
<1>7. CASE FifoError /\ fifo' = Tail(fifo) /\ rx' = rx
  BY <1>1, <1>7 DEF FifoError, ReleaseBus, Released, FoundFree
<1>8. CASE c.op = "stop" /\ ReleaseBus(FALSE) /\ fifo' = Tail(fifo) /\ rx' = rx
  BY <1>1, <1>8 DEF ReleaseBus, Released
<1> QED  BY <1>1, <1>2, <1>4, <1>5, <1>6, <1>7, <1>8 DEF Controller

\* The head is taken off the FIFO.
Popped == fifo' = Tail(fifo)

\* The next command is then the head, and what was ahead of a command still is.
LEMMA PopFifo ==
    ASSUME TypeInv, fifo # <<>>, Popped
    PROVE  /\ fifo' \in Seq(Commands) /\ Len(fifo') = Len(fifo) - 1 /\ Len(fifo) \in Nat \ {0}
           /\ \A k \in 1 .. Len(fifo) - 1 : fifo'[k] = fifo[k + 1] /\ k + 1 \in 1 .. Len(fifo)
           /\ \A k \in 2 .. Len(fifo) : Prev(k)' = Prev(k + 1)
           /\ Newest' = IF Len(fifo) = 1 THEN Executed' ELSE Newest
           /\ fifo' # <<>> => Len(fifo) > 1 /\ Last(fifo') = Last(fifo)
           /\ fifo' = <<>> => Len(fifo) = 1
<1> DEFINE n == Len(fifo)
<1>1. fifo \in Seq(Commands) /\ n \in Nat \ {0}
  <2>1. fifo \in Seq(Commands)
    BY DEF TypeInv
  <2> QED  BY <2>1, EmptySeq
<1>2. /\ fifo' \in Seq(Commands) /\ Len(fifo') = n - 1
      /\ \A k \in 1 .. Len(fifo') : fifo'[k] = fifo[k + 1]
  BY <1>1, HeadTailProperties DEF Popped
<1>3. fifo' # <<>> => Len(fifo') \in Nat \ {0}
  BY <1>2, EmptySeq
<1>4. fifo' = <<>> => Len(fifo') = 0
  BY EmptySeq
<1> HIDE DEF n
<1>5. \A k \in 1 .. n - 1 : fifo'[k] = fifo[k + 1] /\ k + 1 \in 1 .. n
  BY <1>1, <1>2
<1>6. ASSUME NEW k \in 2 .. n
      PROVE  Prev(k)' = Prev(k + 1)
  <2>1. k - 1 \in 1 .. n - 1 /\ k # 1 /\ k + 1 # 1 /\ k - 1 + 1 = k /\ k + 1 - 1 = k
    BY <1>1
  <2> QED  BY <1>5, <2>1 DEF Prev
<1>7. Newest' = IF n = 1 THEN Executed' ELSE Newest
  <2>1. Newest' = IF n - 1 = 0 THEN Executed' ELSE fifo'[n - 1]
    <3>1. n - 1 \in Nat
      BY <1>1
    <3> QED  BY <1>2, <3>1, NewestNext
  <2>2. Newest = fifo[n]
    BY Places DEF n
  <2>3. n # 1 => fifo'[n - 1] = fifo[n]
    <3>1. n # 1 => n - 1 \in 1 .. n - 1 /\ n - 1 + 1 = n
      BY <1>1
    <3> QED  BY <1>5, <3>1
  <2>4. n - 1 = 0 <=> n = 1
    BY <1>1
  <2> QED  BY <2>1, <2>2, <2>3, <2>4
<1>8. fifo' # <<>> => n > 1 /\ Last(fifo') = Last(fifo)
  <2>1. ASSUME fifo' # <<>>
        PROVE  n > 1 /\ n - 1 \in 1 .. n - 1 /\ n - 1 + 1 = n
    BY <1>1, <1>2, <1>3, <2>1
  <2> QED  BY <1>2, <1>5, <2>1 DEF Last, n
<1>9. fifo' = <<>> => n = 1
  BY <1>1, <1>2, <1>4
<1> QED  BY <1>1, <1>2, <1>5, <1>6, <1>7, <1>8, <1>9 DEF n

\* A receive command has a byte less to fetch.
Shortened == /\ fifo[1].op = "rx" /\ fifo[1].arg # 1
             /\ fifo' = <<[fifo[1] EXCEPT !.arg = @ - 1]>> \o Tail(fifo)

\* Only the head changes, and it stays the receive command it was.
LEMMA ShortenFifo ==
    ASSUME TypeInv, fifo # <<>>, Shortened
    PROVE  /\ fifo' \in Seq(Commands) /\ fifo' # <<>> /\ Len(fifo') = Len(fifo)
           /\ fifo'[1] = RxDataCmd(fifo[1].dev, fifo[1].arg - 1, fifo[1].of)
           /\ Like(fifo'[1], fifo[1]) /\ fifo'[1] \in Commands /\ fifo'[1].op = "rx"
           /\ \A k \in 2 .. Len(fifo) : fifo'[k] = fifo[k]
           /\ \A k \in 3 .. Len(fifo) + 1 : Prev(k)' = Prev(k)
           /\ Prev(2)' = fifo'[1]
           /\ Newest' = IF Len(fifo) = 1 THEN fifo'[1] ELSE Newest
           /\ Len(fifo) > 1 => Last(fifo') = Last(fifo)
           /\ Len(fifo) \in Nat \ {0}
<1> DEFINE n == Len(fifo)
           c == fifo[1]
           d == [c EXCEPT !.arg = @ - 1]
           s == Tail(fifo)
<1>1. fifo \in Seq(Commands) /\ n \in Nat \ {0}
  <2>1. fifo \in Seq(Commands)
    BY DEF TypeInv
  <2> QED  BY <2>1, EmptySeq
<1>2. /\ s \in Seq(Commands) /\ Len(s) = n - 1
      /\ \A k \in 1 .. n - 1 : s[k] = fifo[k + 1]
  BY <1>1, HeadTailProperties
<1>3. /\ c \in Commands /\ c.dev \in Devices \ {"eeprom"} /\ c.arg \in 1 .. ReadBytes
      /\ c.of \in {0, 1} /\ c = RxDataCmd(c.dev, c.arg, c.of) /\ c.arg # 1
  BY <1>1, Places, CommandKinds DEF Shortened
<1>4. d = RxDataCmd(c.dev, c.arg - 1, c.of)
  BY <1>3 DEF RxDataCmd
<1>5. c.arg - 1 \in 1 .. ReadBytes
  BY <1>3, BusAssumption
<1>6. d \in Commands /\ d.op = "rx" /\ d.dev = c.dev
  BY <1>3, <1>4, <1>5, CommandIn DEF Devices
<1>7. Like(d, c)
  BY <1>3, <1>6 DEF Like
<1> HIDE DEF d, s, c
<1>8. fifo' = <<d>> \o s
  BY DEF Shortened, d, s, c
<1> HIDE DEF n
<1>10. /\ fifo' \in Seq(Commands) /\ Len(fifo') = n /\ fifo'[1] = d
       /\ \A k \in 2 .. n : fifo'[k] = fifo[k]
  <2>1. Len(s) + 1 = n
    BY <1>1, <1>2
  <2>2. /\ fifo' \in Seq(Commands) /\ Len(fifo') = n /\ fifo'[1] = d
        /\ \A k \in 2 .. n : fifo'[k] = s[k - 1]
    BY <1>2, <1>6, <1>8, <2>1, ConsSeq
  <2>3. \A k \in 2 .. n : k - 1 \in 1 .. n - 1 /\ k - 1 + 1 = k
    BY <1>1
  <2> QED  BY <1>2, <2>2, <2>3
<1>11. fifo' # <<>>
  BY <1>1, <1>10, EmptySeq
<1>12. ASSUME NEW k \in 3 .. n + 1
       PROVE  Prev(k)' = Prev(k)
  <2>1. k - 1 \in 2 .. n /\ k # 1
    BY <1>1
  <2> QED  BY <1>10, <2>1 DEF Prev
<1>13. Prev(2)' = fifo'[1]
  BY DEF Prev
<1>14. Newest' = IF n = 1 THEN fifo'[1] ELSE Newest
  <2>1. Newest' = IF n = 0 THEN Executed' ELSE fifo'[n]
    BY <1>1, <1>10, NewestNext
  <2>2. Newest = fifo[n]
    BY Places DEF n
  <2>3. n # 1 => n \in 2 .. n
    BY <1>1
  <2> QED  BY <1>1, <1>10, <2>1, <2>2, <2>3
<1>15. n > 1 => Last(fifo') = Last(fifo)
  <2>1. n > 1 => n \in 2 .. n
    BY <1>1
  <2> QED  BY <1>10, <2>1 DEF Last, n
<1> QED
  BY <1>1, <1>4, <1>6, <1>7, <1>10, <1>11, <1>12, <1>13, <1>14, <1>15 DEF n, c

\* What the bus has seen last after a step of the controller.
LEMMA Carried ==
    ASSUME TypeInv, ChainInv, BusInv, Controller
    PROVE  /\ error' => Executed' = StopCmd
           /\ fifo[1].op = "stop" => Executed' = StopCmd
           /\ fifo[1].op # "stop" => error' \/ Like(Executed', fifo[1])
           /\ Popped \/ (Shortened /\ Executed' = Executed)
<1> DEFINE c == fifo[1]
<1>0. /\ fifo # <<>> /\ ~error /\ c \in Commands
      /\ StartAcked \/ ByteAcked \/ Released \/ FoundFree \/ ByteReceived
  <2>1. fifo # <<>> /\ ~error /\ (StartAcked \/ ByteAcked \/ Released \/ FoundFree \/ ByteReceived)
    BY Outcomes
  <2>2. 1 \in 1 .. Len(fifo)
    BY <2>1, Places
  <2> QED  BY <2>1, <2>2, Places
<1>1. CASE StartAcked
  <2>1. c.op = "start" /\ c.dev \in Devices /\ c.arg \in {"write", "read"} /\ c = StartCmd(c.dev, c.arg)
    BY <1>0, <1>1, CommandKinds DEF StartAcked
  <2>2. bus'.dev = c.dev /\ bus'.dir = c.arg /\ bus' # Free /\ pending' = <<>>
    BY <1>1, <2>1 DEF StartAcked, Free
  <2>3. Executed' = c
    BY <2>1, <2>2 DEF Executed, StartCmd, Free
  <2>4. ~error' /\ Popped
    BY <1>0, <1>1 DEF StartAcked, Popped
  <2> QED  BY <2>1, <2>3, <2>4 DEF Like
<1>2. CASE ByteAcked
  <2>1. /\ c.op = "data" /\ c = DataCmd(c.dev, c.arg) /\ c.arg \in Nat
        /\ bus # Free /\ bus' = bus /\ c.dev = bus.dev
        /\ c.dev = "eeprom" => c.arg = Len(pending)
    BY <1>0, <1>2, CommandKinds, HeadFits DEF ByteAcked
  <2>2. ASSUME c.dev = "eeprom"
        PROVE  Executed' = c
    <3>1. pending' = Append(pending, c.arg) /\ pending \in Seq(0 .. BurstBytes)
          /\ c.arg \in 0 .. BurstBytes
      BY <1>0, <1>2, <2>1, <2>2, CommandKinds DEF ByteAcked, TypeInv, TypeOK
    <3>2. Len(pending') = c.arg + 1 /\ pending' \in Seq(0 .. BurstBytes)
      BY <2>1, <2>2, <3>1, AppendProperties
    <3>3. pending' # <<>>
      BY <2>1, <3>2, EmptySeq
    <3>4. Len(pending') - 1 = c.arg
      BY <2>1, <3>2
    <3> QED  BY <2>1, <3>3, <3>4 DEF Executed, DataCmd, Free
  <2>3. ASSUME c.dev # "eeprom"
        PROVE  Executed' = StartCmd(bus.dev, bus.dir)
    <3>1. pending' = <<>>
      BY <1>2, <2>1, <2>3 DEF ByteAcked, BusInv
    <3> QED  BY <2>1, <3>1 DEF Executed, StartCmd, Free
  <2>4. bus.dev \in Devices /\ bus.dir \in {"write", "read"}
    BY <2>1, ExecutedKinds
  <2>5. Like(Executed', c)
    BY <2>1, <2>2, <2>3, <2>4, CommandIn DEF Like
  <2>6. ~error' /\ Popped
    BY <1>0, <1>2 DEF ByteAcked, Popped
  <2> QED  BY <2>1, <2>5, <2>6
<1>3. CASE Released
  <2>1. Executed' = StopCmd /\ Popped /\ (~error' => c.op = "stop")
    BY <1>3 DEF Released, Executed, Free, StopCmd, Popped
  <2> QED  BY <2>1
<1>4. CASE FoundFree
  <2>1. Executed' = StopCmd /\ Popped /\ error'
    BY <1>4 DEF FoundFree, Executed, Free, StopCmd, Popped
  <2> QED  BY <2>1
<1>5. CASE ByteReceived
  <2>1. c.op = "rx" /\ bus # Free /\ c.dev = bus.dev /\ c.dev # "eeprom"
    BY <1>0, <1>5, CommandKinds, HeadFits DEF ByteReceived
  <2>2. Executed' = Executed
    BY <1>5 DEF ByteReceived, Executed, Free, StopCmd, StartCmd, DataCmd
  <2>3. Like(Executed', c)
    BY <2>1, <2>2, ExecutedKinds DEF Like
  <2>4. ~error' /\ (Popped \/ Shortened)
    BY <1>0, <1>5 DEF ByteReceived, Popped, Shortened
  <2> QED  BY <2>1, <2>2, <2>3, <2>4
<1> QED  BY <1>0, <1>1, <1>2, <1>3, <1>4, <1>5

\* The command a is what the controller makes of c when it carries out the head.
Leaves(a, c) ==
    \/ a = c
    \/ c.op # "stop" /\ Like(a, c)
    \/ a = StopCmd /\ (error' \/ c.op = "stop")

\* What fitted behind the one fits behind the other.
LEMMA FitsLeaves ==
    ASSUME NEW a, NEW c, NEW n, Leaves(a, c), Fits(c, n)
    PROVE  Fits(a, n)
<1>1. CASE a = c
  BY <1>1
<1>2. CASE c.op # "stop" /\ Like(a, c)
  BY <1>2, FitsLike
<1>3. CASE a = StopCmd
  BY <1>3, CommandIn, FitsStop
<1> QED  BY <1>1, <1>2, <1>3 DEF Leaves

\* The next command finds what the newest one was, or left.
LEMMA ControllerNewest ==
    ASSUME TypeInv, ChainInv, BusInv, Controller
    PROVE  Leaves(Newest', Newest)
<1>1. fifo # <<>> /\ Len(fifo) \in Nat \ {0}
  BY Outcomes, Places
<1>2. Newest = fifo[Len(fifo)]
  BY <1>1, Places
<1>3. CASE Popped
  <2>1. CASE Len(fifo) = 1
    <3>1. Newest' = Executed' /\ Newest = fifo[1]
      BY <1>1, <1>2, <1>3, <2>1, PopFifo
    <3> QED  BY <3>1, Carried DEF Leaves
  <2>2. CASE Len(fifo) # 1
    <3>1. Newest' = Newest
      BY <1>1, <1>3, <2>2, PopFifo
    <3> QED  BY <3>1 DEF Leaves
  <2> QED  BY <2>1, <2>2
<1>4. CASE Shortened
  <2>1. CASE Len(fifo) = 1
    <3>1. Newest' = fifo'[1] /\ Newest = fifo[1] /\ Like(fifo'[1], fifo[1])
      BY <1>1, <1>2, <1>4, <2>1, ShortenFifo
    <3>2. fifo[1].op # "stop"
      BY <1>4 DEF Shortened
    <3> QED  BY <3>1, <3>2 DEF Leaves
  <2>2. CASE Len(fifo) # 1
    <3>1. Newest' = Newest
      BY <1>1, <1>4, <2>2, ShortenFifo
    <3> QED  BY <3>1 DEF Leaves
  <2> QED  BY <2>1, <2>2
<1> QED  BY <1>3, <1>4, Carried

\* Where a command of the FIFO was before the step of the controller.
LEMMA ControllerPlaces ==
    ASSUME TypeInv, ChainInv, BusInv, Controller, NEW k \in 1 .. Len(fifo')
    PROVE  \E j \in 1 .. Len(fifo) :
             /\ k = Len(fifo') <=> j = Len(fifo)
             /\ Leaves(Prev(k)', Prev(j))
             /\ \/ fifo'[k] = fifo[j]
                \/ /\ fifo[j].op = "rx"
                   /\ fifo'[k] = RxDataCmd(fifo[j].dev, fifo[j].arg - 1, fifo[j].of)
<1>1. fifo # <<>> /\ Len(fifo) \in Nat \ {0}
  BY Outcomes, Places
<1>2. Prev(2) = fifo[1]
  BY DEF Prev
<1>3. CASE Popped
  <2>1. /\ Len(fifo') = Len(fifo) - 1 /\ k \in 1 .. Len(fifo) - 1
        /\ k + 1 \in 1 .. Len(fifo) /\ fifo'[k] = fifo[k + 1]
    BY <1>1, <1>3, PopFifo
  <2>2. Leaves(Prev(k)', Prev(k + 1))
    <3>1. CASE k = 1
      <4>1. Prev(k)' = Executed' /\ Prev(k + 1) = fifo[1]
        BY <1>2, <3>1 DEF Prev
      <4> QED  BY <4>1, Carried DEF Leaves
    <3>2. CASE k # 1
      <4>1. k \in 2 .. Len(fifo)
        BY <1>1, <2>1, <3>2
      <4>2. Prev(k)' = Prev(k + 1)
        BY <1>1, <1>3, <4>1, PopFifo
      <4> QED  BY <4>2 DEF Leaves
    <3> QED  BY <3>1, <3>2
  <2>3. k = Len(fifo') <=> k + 1 = Len(fifo)
    BY <1>1, <2>1
  <2> QED  BY <2>1, <2>2, <2>3
<1>4. CASE Shortened /\ Executed' = Executed
  <2>1. Len(fifo') = Len(fifo) /\ k \in 1 .. Len(fifo)
    BY <1>1, <1>4, ShortenFifo
  <2>2. Leaves(Prev(k)', Prev(k))
    <3>1. CASE k = 1
      <4>1. Prev(k)' = Executed' /\ Prev(k) = Executed
        BY <3>1 DEF Prev
      <4> QED  BY <1>4, <4>1 DEF Leaves
    <3>2. CASE k = 2
      <4>1. Prev(k)' = fifo'[1] /\ Prev(k) = fifo[1] /\ Like(fifo'[1], fifo[1])
        BY <1>1, <1>2, <1>4, <3>2, ShortenFifo
      <4> QED  BY <1>4, <4>1 DEF Leaves, Shortened
    <3>3. CASE k # 1 /\ k # 2
      <4>1. k \in 3 .. Len(fifo) + 1
        BY <1>1, <2>1, <3>3
      <4>2. Prev(k)' = Prev(k)
        BY <1>1, <1>4, <4>1, ShortenFifo
      <4> QED  BY <4>2 DEF Leaves
    <3> QED  BY <3>1, <3>2, <3>3
  <2>3. \/ fifo'[k] = fifo[k]
        \/ fifo[k].op = "rx" /\ fifo'[k] = RxDataCmd(fifo[k].dev, fifo[k].arg - 1, fifo[k].of)
    <3>1. CASE k = 1
      BY <1>1, <1>4, <3>1, ShortenFifo DEF Shortened
    <3>2. CASE k # 1
      <4>1. k \in 2 .. Len(fifo)
        BY <1>1, <2>1, <3>2
      <4> QED  BY <1>1, <1>4, <4>1, ShortenFifo
    <3> QED  BY <3>1, <3>2
  <2> QED  BY <2>1, <2>2, <2>3
<1> QED  BY <1>3, <1>4, Carried

\* Every step of the controller leaves a chain.
LEMMA ControllerChain ==
    ASSUME TypeInv, ChainInv, BusInv, Controller
    PROVE  ChainInv'
<1>1. ASSUME NEW k \in 1 .. Len(fifo')
      PROVE  Fits(Prev(k)', fifo'[k])
  <2>1. PICK j \in 1 .. Len(fifo) :
          /\ Leaves(Prev(k)', Prev(j))
          /\ \/ fifo'[k] = fifo[j]
             \/ /\ fifo[j].op = "rx"
                /\ fifo'[k] = RxDataCmd(fifo[j].dev, fifo[j].arg - 1, fifo[j].of)
    BY ControllerPlaces
  <2>2. Fits(Prev(j), fifo[j]) /\ fifo[j] \in Commands
    BY Places DEF ChainInv
  <2>3. Fits(Prev(k)', fifo[j])
    BY <2>1, <2>2, FitsLeaves
  <2>4. CASE fifo'[k] = fifo[j]
    BY <2>3, <2>4
  <2>5. CASE fifo[j].op = "rx" /\ fifo'[k] = RxDataCmd(fifo[j].dev, fifo[j].arg - 1, fifo[j].of)
    <3>1. fifo'[k].dev = fifo[j].dev /\ fifo[j].dev # "eeprom"
      BY <2>2, <2>5, CommandKinds DEF RxDataCmd
    <3> QED  BY <2>3, <2>5, <3>1 DEF Fits, Continues
  <2> QED  BY <2>1, <2>4, <2>5
<1> QED  BY <1>1 DEF ChainInv
-----------------------------------------------------------------------------
(* The transfers. *)

\* A register or page write: a START, the address, and the bytes in order.
LEMMA WriteShape ==
    ASSUME NEW d \in Devices, NEW n \in Nat,
           (d = "eeprom" /\ n = BurstBytes) \/ (d = "bmp280" /\ n = 1)
    PROVE  /\ WriteCommands(d, n) \in Seq(Commands \ {StopCmd})
           /\ Len(WriteCommands(d, n)) = n + 2
           /\ WriteCommands(d, n)[1] = StartCmd(d, "write")
           /\ \A k \in 2 .. n + 2 : WriteCommands(d, n)[k] = DataCmd(d, k - 2)
<1> DEFINE S == Commands \ {StopCmd}
           h == <<StartCmd(d, "write"), DataCmd(d, 0)>>
           f == [k \in 1 .. n |-> DataCmd(d, k)]
<1>1. StartCmd(d, "write") \in S
  BY CommandIn
<1>2. \A k \in 0 .. n : DataCmd(d, k) \in S
  <2>1. \A k \in 0 .. n : DataCmd(d, k) \in Commands
    BY CommandIn
  <2> QED  BY <2>1, CommandIn
<1>3. h \in Seq(S) /\ Len(h) = 2 /\ h[1] = StartCmd(d, "write") /\ h[2] = DataCmd(d, 0)
  <2> DEFINE a == StartCmd(d, "write")
             b == DataCmd(d, 0)
  <2>1. a \in S /\ b \in S
    BY <1>1, <1>2
  <2> HIDE DEF a, b, S
  <2>2. <<a, b>> \in Seq(S) /\ Len(<<a, b>>) = 2 /\ <<a, b>>[1] = a /\ <<a, b>>[2] = b
    BY <2>1
  <2> QED  BY <2>2 DEF a, b
<1>4. f \in Seq(S) /\ Len(f) = n /\ \A k \in 1 .. n : f[k] = DataCmd(d, k)
  <2>1. \A k \in 1 .. n : DataCmd(d, k) \in S
    BY <1>2
  <2> HIDE DEF S
  <2>2. f \in [1 .. n -> S]
    BY <2>1
  <2> QED  BY <2>2, SeqDef, LenProperties
<1> HIDE DEF S, h, f
<1> DEFINE w == h \o f
<1>5. /\ w \in Seq(S) /\ Len(w) = Len(h) + Len(f)
      /\ \A k \in 1 .. Len(h) + Len(f) : w[k] = IF k <= Len(h) THEN h[k] ELSE f[k - Len(h)]
  BY <1>3, <1>4, ConcatProperties
<1> HIDE DEF w
<1>6. \A k \in 1 .. 2 + n : w[k] = IF k <= 2 THEN h[k] ELSE f[k - 2]
  BY <1>3, <1>4, <1>5
<1>7. w[1] = StartCmd(d, "write")
  BY <1>3, <1>6
<1>8. \A k \in 2 .. n + 2 : w[k] = DataCmd(d, k - 2)
  BY <1>3, <1>4, <1>6
<1>9. Len(w) = n + 2 /\ w \in Seq(S)
  BY <1>3, <1>4, <1>5
<1>10. w = WriteCommands(d, n)
  BY DEF w, h, f, WriteCommands
<1> QED  BY <1>7, <1>8, <1>9, <1>10 DEF S

\* A register read: the register address, a repeated START, and one receive command.
LEMMA ReadShape ==
    ASSUME read \in {0, 1}, NEW d \in {"bmp280", "ds3231"}
    PROVE  /\ ReadCommands(d, ReadBytes) \in Seq(Commands \ {StopCmd})
           /\ Len(ReadCommands(d, ReadBytes)) = 4
           /\ ReadCommands(d, ReadBytes)[1] = StartCmd(d, "write")
           /\ ReadCommands(d, ReadBytes)[2] = DataCmd(d, 0)
           /\ ReadCommands(d, ReadBytes)[3] = StartCmd(d, "read")
           /\ ReadCommands(d, ReadBytes)[4] = RxDataCmd(d, ReadBytes, 1 - read)
<1> DEFINE S == Commands \ {StopCmd}
           a == StartCmd(d, "write")
           b == DataCmd(d, 0)
           e == StartCmd(d, "read")
           g == RxDataCmd(d, ReadBytes, 1 - read)
<1>1. a \in S /\ e \in S
  BY CommandIn DEF Devices
<1>2. b \in S
  <2>1. 0 \in {0, 1}
    OBVIOUS
  <2>2. b \in Commands /\ b.op = "data"
    BY <2>1, CommandIn
  <2> QED  BY <2>2, CommandIn
<1>3. g \in S
  <2>1. ReadBytes \in 1 .. ReadBytes /\ 1 - read \in {0, 1}
    BY BusAssumption
  <2>2. g \in Commands /\ g.op = "rx"
    BY <2>1, CommandIn
  <2> QED  BY <2>2, CommandIn
<1> HIDE DEF S, a, b, e, g
<1>4. <<a, b, e, g>> \in Seq(S) /\ Len(<<a, b, e, g>>) = 4 /\ <<a, b, e, g>>[1] = a
      /\ <<a, b, e, g>>[2] = b /\ <<a, b, e, g>>[3] = e /\ <<a, b, e, g>>[4] = g
  BY <1>1, <1>2, <1>3
<1>5. ReadCommands(d, ReadBytes) = <<a, b, e, g>>
  BY DEF ReadCommands, a, b, e, g
<1> QED  BY <1>4, <1>5 DEF S, a, b, e, g

\* A transfer addresses one device, from a START to its last byte.
Shape(t, x) ==
    LET w == x.commands
        n == Len(x.commands)
    IN  /\ x.dev \in Devices /\ x.bytes \in 0 .. ReadBytes
        /\ w \in Seq(Commands \ {StopCmd}) /\ n > 1 /\ w[1].op = "start"
        /\ \A k \in 1 .. n : w[k].dev = x.dev
        /\ \A k \in 1 .. n - 1 : Fits(w[k], w[k + 1])
        /\ t = "logger" => /\ x.bytes = 0 /\ w[n] = LastByteOfBurst
                           /\ \A k \in 1 .. n : w[k].op # "rx"
        /\ t = "analog" => \A k \in 1 .. n :
             /\ w[k].op = "rx" => w[k].of = 1 - read /\ w[k].arg = x.bytes
             /\ w[k].op = "rx" <=> x.bytes > 0 /\ k = n

\* Every write has it.
LEMMA WriteHasShape ==
    ASSUME NEW t \in Tasks, NEW x, NEW d \in Devices, NEW n \in Nat,
           x.dev = d, x.commands = WriteCommands(d, n), x.bytes = 0,
           (t = "logger" /\ d = "eeprom" /\ n = BurstBytes)
             \/ (t = "analog" /\ d = "bmp280" /\ n = 1)
    PROVE  Shape(t, x)
<1>0. BurstBytes \in Nat /\ ReadBytes \in Nat \ {0}
  BY BusAssumption
<1> DEFINE w == x.commands
<1>1. /\ w \in Seq(Commands \ {StopCmd}) /\ Len(w) = n + 2 /\ w[1] = StartCmd(d, "write")
      /\ \A k \in 2 .. n + 2 : w[k] = DataCmd(d, k - 2)
  BY WriteShape
<1>2. w[1].op = "start" /\ w[1].dev = d
  BY <1>1, CommandIn
<1>3. \A k \in 2 .. n + 2 : w[k].op = "data" /\ w[k].dev = d /\ w[k].arg = k - 2
  BY <1>1, CommandIn
<1> HIDE DEF w
<1>4. \A k \in 1 .. n + 2 : w[k].dev = d /\ w[k].op # "rx"
  <2>1. \A k \in 1 .. n + 2 : k = 1 \/ k \in 2 .. n + 2
    OBVIOUS
  <2> QED  BY <1>2, <1>3, <2>1
<1>5. ASSUME NEW k \in 1 .. n + 1
      PROVE  Fits(w[k], w[k + 1])
  <2>1. k + 1 \in 2 .. n + 2 /\ k \in 1 .. n + 2
    OBVIOUS
  <2>2. w[k + 1].op = "data" /\ w[k + 1].dev = d /\ w[k + 1].arg = k - 1
    <3>1. k + 1 - 2 = k - 1
      OBVIOUS
    <3> QED  BY <1>3, <2>1, <3>1
  <2>3. CASE k = 1
    BY <1>2, <2>2, <2>3 DEF Fits, Continues
  <2>4. CASE k # 1
    <3>1. k \in 2 .. n + 2
      BY <2>4
    <3>2. w[k].op = "data" /\ w[k].dev = d /\ w[k].arg = k - 2
      BY <1>3, <3>1
    <3>3. k - 2 + 1 = k - 1
      OBVIOUS
    <3> QED  BY <2>2, <3>2, <3>3 DEF Fits, Continues
  <2> QED  BY <2>3, <2>4
<1>6. w[n + 2] = DataCmd(d, n)
  <2>1. n + 2 \in 2 .. n + 2 /\ n + 2 - 2 = n
    OBVIOUS
  <2> QED  BY <1>1, <2>1 DEF w
<1>7. n + 2 > 1 /\ n + 2 - 1 = n + 1 /\ 0 \in 0 .. ReadBytes /\ ~(0 > 0)
  BY <1>0
<1> QED
  BY <1>1, <1>2, <1>4, <1>5, <1>6, <1>7 DEF Shape, w, LastByteOfBurst

\* Every read has it.
LEMMA ReadHasShape ==
    ASSUME read \in {0, 1}, NEW x, NEW d \in {"bmp280", "ds3231"}, x.dev = d,
           x.commands = ReadCommands(d, ReadBytes), x.bytes = ReadBytes
    PROVE  Shape("analog", x)
<1>0. ReadBytes \in Nat \ {0} /\ d \in Devices /\ d # "eeprom"
  BY BusAssumption DEF Devices
<1> DEFINE w == x.commands
<1>1. w \in Seq(Commands \ {StopCmd}) /\ Len(w) = 4
  BY ReadShape
<1>2. w[1].op = "start" /\ w[1].dev = d
  BY <1>0, ReadShape, CommandIn
<1>3. w[2].op = "data" /\ w[2].dev = d
  BY ReadShape, CommandIn
<1>4. w[3].op = "start" /\ w[3].dev = d
  BY <1>0, ReadShape, CommandIn
<1>5. w[4].op = "rx" /\ w[4].dev = d /\ w[4].arg = ReadBytes /\ w[4].of = 1 - read
  BY ReadShape DEF RxDataCmd
<1> HIDE DEF w
<1>6. \A k \in 1 .. 4 : k = 1 \/ k = 2 \/ k = 3 \/ k = 4
  OBVIOUS
<1>7. \A k \in 1 .. 4 - 1 : Fits(w[k], w[k + 1])
  <2>1. Fits(w[1], w[2]) /\ Fits(w[2], w[3]) /\ Fits(w[3], w[4])
    BY <1>0, <1>2, <1>3, <1>4, <1>5 DEF Fits, Continues
  <2>2. \A k \in 1 .. 4 - 1 : k = 1 \/ k = 2 \/ k = 3
    OBVIOUS
  <2> QED  BY <2>1, <2>2
<1>8. \A k \in 1 .. 4 :
        /\ w[k].dev = d
        /\ w[k].op = "rx" => w[k].of = 1 - read /\ w[k].arg = ReadBytes
        /\ w[k].op = "rx" <=> ReadBytes > 0 /\ k = 4
  BY <1>0, <1>2, <1>3, <1>4, <1>5, <1>6
<1>9. ReadBytes \in 0 .. ReadBytes
  BY <1>0
<1> QED
  BY <1>0, <1>1, <1>2, <1>7, <1>8, <1>9 DEF Shape, w

\* So every transfer of a task has it.
LEMMA TransferShape ==
    ASSUME read \in {0, 1}, NEW t \in Tasks, NEW x \in Transfers(t)
    PROVE  Shape(t, x)
<1>0. BurstBytes \in Nat
  BY BusAssumption
<1>1. CASE t = "logger"
  <2>1. /\ x.dev = "eeprom" /\ x.commands = WriteCommands("eeprom", BurstBytes) /\ x.bytes = 0
        /\ "eeprom" \in Devices
    BY <1>1 DEF Transfers, Devices
  <2> QED  BY <1>0, <1>1, <2>1, WriteHasShape
<1>2. CASE t # "logger"
  <2>1. t = "analog" /\ "bmp280" \in Devices
    BY <1>2 DEF Tasks, Devices
  <2>2. CASE x = [dev |-> "bmp280", commands |-> WriteCommands("bmp280", 1), bytes |-> 0]
    <3>1. x.dev = "bmp280" /\ x.commands = WriteCommands("bmp280", 1) /\ x.bytes = 0
      BY <2>2
    <3> QED  BY <2>1, <3>1, WriteHasShape
  <2>3. ASSUME NEW d \in {"bmp280", "ds3231"},
               x = [dev |-> d, commands |-> ReadCommands(d, ReadBytes), bytes |-> ReadBytes]
        PROVE  Shape(t, x)
    <3>1. x.dev = d /\ x.commands = ReadCommands(d, ReadBytes) /\ x.bytes = ReadBytes
      BY <2>3
    <3> QED  BY <2>1, <3>1, ReadHasShape
  <2> QED  BY <1>2, <2>2, <2>3 DEF Transfers
<1> QED  BY <1>1, <1>2

-----------------------------------------------------------------------------
(* Every step keeps the types. *)

\* The places of LPI2C_MasterTransferBlocking.
Points == {"idle", "poll", "push", "receive", "stopPoll", "stopPush", "stopAfterError",
           "stopWait"}

\* The controller keeps its registers and both FIFOs in their types.
LEMMA ControllerType ==
    ASSUME TypeInv, ChainInv, BusInv, Controller
    PROVE  TypeInv'
<1>0. /\ fifo # <<>> /\ ~error /\ UNCHANGED <<taskVars, read, overlapped>>
      /\ StartAcked \/ ByteAcked \/ Released \/ FoundFree \/ ByteReceived
  BY Outcomes
<1>1. fifo' \in Seq(Commands) /\ Len(fifo') <= FifoSize
  <2>1. Len(fifo) <= FifoSize /\ Len(fifo) \in Nat /\ FifoSize \in Nat
    BY Places, BusAssumption DEF TypeInv, TypeOK
  <2>2. CASE Popped
    BY <1>0, <2>1, <2>2, PopFifo
  <2>3. CASE Shortened
    BY <1>0, <2>1, <2>3, ShortenFifo
  <2> QED  BY <2>2, <2>3, Carried
<1>2. fifo[1] \in Commands
  <2>1. 1 \in 1 .. Len(fifo)
    BY <1>0, Places
  <2> QED  BY <2>1, Places
<1>3. rx' \in Seq(Devices \X {0, 1}) /\ Len(rx') <= FifoSize
  <2>1. CASE ByteReceived
    <3>1. <<bus.dev, fifo[1].of>> \in Devices \X {0, 1}
      BY <1>2, <2>1, CommandKinds, ExecutedKinds DEF ByteReceived
    <3>2. rx \in Seq(Devices \X {0, 1}) /\ Len(rx) < FifoSize /\ FifoSize \in Nat
      BY <2>1, BusAssumption DEF TypeInv, ByteReceived
    <3> DEFINE S == Devices \X {0, 1}
               y == <<bus.dev, fifo[1].of>>
    <3>3. y \in S /\ rx \in Seq(S) /\ rx' = Append(rx, y)
      BY <2>1, <3>1, <3>2 DEF ByteReceived
    <3> HIDE DEF S, y
    <3>4. rx' \in Seq(S) /\ Len(rx') = Len(rx) + 1 /\ Len(rx) \in Nat
      BY <3>3, AppendProperties, LenProperties
    <3> QED  BY <3>2, <3>4 DEF S
  <2>2. CASE ~ByteReceived
    <3>1. rx' = rx
      BY <1>0, <2>2 DEF StartAcked, ByteAcked, Released, FoundFree
    <3> QED  BY <3>1 DEF TypeInv, TypeOK
  <2> QED  BY <2>1, <2>2
<1>4. error' \in BOOLEAN /\ stopped' \in BOOLEAN
  BY <1>0 DEF StartAcked, ByteAcked, Released, FoundFree, ByteReceived, TypeInv, TypeOK
<1>5. bus' \in {Free} \cup [dev : Devices, dir : {"write", "read"}]
  <2>1. CASE StartAcked
    <3>1. fifo[1].dev \in Devices /\ fifo[1].arg \in {"write", "read"}
      BY <1>2, <2>1, CommandKinds DEF StartAcked
    <3> QED  BY <2>1, <3>1 DEF StartAcked
  <2>2. CASE ~StartAcked
    <3>1. bus' = bus \/ bus' = Free
      BY <1>0, <2>2 DEF ByteAcked, Released, FoundFree, ByteReceived
    <3> QED  BY <3>1 DEF TypeInv, TypeOK, Free
  <2> QED  BY <2>1, <2>2
<1>6. pending \in Seq(0 .. BurstBytes) /\ stored \in Seq(1 .. BurstBytes)
  BY DEF TypeInv, TypeOK
<1>7. pending' \in Seq(0 .. BurstBytes)
  <2>1. CASE ByteAcked /\ bus.dev = "eeprom"
    <3>1. fifo[1].arg \in 0 .. BurstBytes
      BY <1>0, <1>2, <2>1, CommandKinds, HeadFits DEF ByteAcked
    <3>2. pending' = Append(pending, fifo[1].arg)
      BY <2>1 DEF ByteAcked
    <3> QED  BY <1>6, <3>1, <3>2, AppendProperties
  <2>2. CASE ~(ByteAcked /\ bus.dev = "eeprom")
    <3>1. pending' = pending \/ pending' = <<>>
      BY <1>0, <2>2 DEF StartAcked, ByteAcked, Released, Store, FoundFree, ByteReceived
    <3> QED  BY <1>6, <3>1, EmptySeq
  <2> QED  BY <2>1, <2>2
<1>8. stored' \in Seq(1 .. BurstBytes)
  <2>1. CASE Released /\ pending # <<>>
    <3>1. stored' = Tail(pending)
      BY <2>1 DEF Released, Store
    <3>2. /\ Tail(pending) \in Seq(0 .. BurstBytes) /\ Len(Tail(pending)) = Len(pending) - 1
          /\ \A k \in 1 .. Len(Tail(pending)) : Tail(pending)[k] = pending[k + 1]
      BY <1>6, <2>1, HeadTailProperties
    <3>3. Len(pending) \in Nat /\ \A k \in 1 .. Len(pending) : pending[k] \in 0 .. BurstBytes
      BY <1>6, ElementOfSeq, LenProperties
    <3>4. ASSUME NEW k \in 1 .. Len(Tail(pending))
          PROVE  Tail(pending)[k] \in 1 .. BurstBytes
      <4>1. k + 1 \in 1 .. Len(pending) /\ k + 1 - 1 = k /\ k >= 1
        BY <3>2, <3>3
      <4>2. Tail(pending)[k] = pending[k + 1] /\ pending[k + 1] = k + 1 - 1
        BY <3>2, <4>1 DEF BusInv
      <4> QED  BY <3>3, <4>1, <4>2
    <3> DEFINE s == Tail(pending)
    <3> HIDE DEF s
    <3>5. s \in Seq(0 .. BurstBytes) /\ \A k \in 1 .. Len(s) : s[k] \in 1 .. BurstBytes
      BY <3>2, <3>4 DEF s
    <3>6. s \in [1 .. Len(s) -> 1 .. BurstBytes] /\ Len(s) \in Nat
      BY <3>5, LenProperties
    <3>7. s \in Seq(1 .. BurstBytes)
      BY <3>6, SeqDef
    <3> QED  BY <3>1, <3>7 DEF s
  <2>2. CASE ~(Released /\ pending # <<>>)
    <3>1. stored' = stored
      BY <1>0, <2>2 DEF StartAcked, ByteAcked, Released, Store, FoundFree, ByteReceived
    <3> QED  BY <1>6, <3>1
  <2> QED  BY <2>1, <2>2
<1> QED
  BY <1>0, <1>1, <1>3, <1>4, <1>5, <1>7, <1>8 DEF TypeInv, TypeOK, taskVars

\* What a task still has to push, and its next command.
LEMMA NextCommand ==
    ASSUME TypeInv, TodoInv, NEW t \in Tasks, Sending(t)
    PROVE  /\ todo[t] \in Seq(Commands \ {StopCmd}) /\ Len(todo[t]) \in Nat \ {0}
           /\ Head(todo[t]) = todo[t][1] /\ Head(todo[t]) \in Commands
           /\ Head(todo[t]).op # "stop"
           /\ Tail(todo[t]) \in Seq(Commands \ {StopCmd})
           /\ Len(Tail(todo[t])) = Len(todo[t]) - 1
           /\ \A k \in 1 .. Len(todo[t]) - 1 :
                /\ Tail(todo[t])[k] = todo[t][k + 1]
                /\ k + 1 \in 1 .. Len(todo[t]) /\ k \in 1 .. Len(todo[t])
<1> DEFINE w == todo[t]
           S == Commands \ {StopCmd}
<1>1. w \in Seq(S) /\ w # <<>>
  BY DEF TypeInv, TodoInv, TaskTodo
<1>2. \A c \in S : c \in Commands /\ c.op # "stop"
  BY CommandKinds
<1> HIDE DEF w, S
<1>3. /\ Len(w) \in Nat \ {0} /\ Head(w) = w[1] /\ Head(w) \in S
      /\ Tail(w) \in Seq(S) /\ Len(Tail(w)) = Len(w) - 1
      /\ \A k \in 1 .. Len(Tail(w)) : Tail(w)[k] = w[k + 1]
  BY <1>1, EmptySeq, HeadTailProperties
<1>4. \A k \in 1 .. Len(w) - 1 : k + 1 \in 1 .. Len(w) /\ k \in 1 .. Len(w)
  BY <1>3
<1> QED  BY <1>1, <1>2, <1>3, <1>4 DEF w, S

\* A task and the controller's registers, in its own step.
LEMMA TaskType ==
    ASSUME BusAllInv, NEW t \in Tasks, LPI2C_MasterTransferBlocking(t)
    PROVE  TypeInv'
<1>0. /\ TypeInv /\ ChainInv /\ TodoInv /\ BusInv /\ RoomInv /\ ReadInv /\ BurstInv /\ TypeOK
      /\ FifoSize \in Nat \ {0, 1} /\ ReadBytes \in Nat \ {0}
  BY BusAssumption DEF BusAllInv, TypeInv
<1>1. /\ <<>> \in Seq(Commands) /\ Len(<<>>) = 0 /\ <<>> \in Seq(Devices \X {0, 1})
      /\ <<StopCmd>> \in Seq(Commands) /\ Len(<<StopCmd>>) = 1 /\ 0 <= FifoSize /\ 1 <= FifoSize
  BY <1>0, EmptySeq, CommandIn
<1>2. ASSUME NEW p \in Points, Goto(t, p)
      PROVE  pc' \in [Tasks -> Points]
  BY <1>0, <1>2 DEF Goto, TypeOK, Points
<1>3. ASSUME Fail(t)
      PROVE  result' \in [Tasks -> {"success", "error"}]
  BY <1>0, <1>3 DEF Fail, TypeOK
<1>4. ASSUME NEW p \in Points, NEW q \in Points, WaitForTxReady(t, p, q),
             UNCHANGED <<todo, expect, target, read, overlapped>>
      PROVE  TypeInv'
  <2>1. CASE ClearError /\ Fail(t) /\ Goto(t, q)
    BY <1>0, <1>1, <1>2, <1>3, <1>4, <2>1 DEF ClearError, TypeInv, TypeOK, Points
  <2>2. CASE Goto(t, p) /\ UNCHANGED <<result, hwVars>>
    BY <1>0, <1>2, <1>4, <2>2 DEF hwVars, TypeInv, TypeOK, Points
  <2> QED  BY <1>4, <2>1, <2>2 DEF WaitForTxReady
<1>5. CASE Poll(t)
  BY <1>4, <1>5 DEF Poll, Points
<1>6. CASE StopPoll(t)
  BY <1>4, <1>6 DEF StopPoll, Points
<1>7. ASSUME NEW c \in Commands, PushCmd(c), Len(fifo) < FifoSize
      PROVE  fifo' \in Seq(Commands) /\ Len(fifo') <= FifoSize
  <2>1. Len(fifo') = Len(fifo) + 1 /\ Len(fifo) \in Nat /\ fifo' \in Seq(Commands)
    BY <1>0, <1>7, PushFifo, Places DEF PushCmd
  <2> QED  BY <1>0, <1>7, <2>1
<1>8. CASE Push(t)
  <2>1. Runs(t) /\ pc[t] = "push" /\ Sending(t) /\ Len(fifo) < FifoSize
    BY <1>0, <1>8 DEF Push, At, Sending, RoomInv
  <2>2. Head(todo[t]) \in Commands /\ Tail(todo[t]) \in Seq(Commands \ {StopCmd})
    BY <1>0, <2>1, NextCommand
  <2>3. fifo' \in Seq(Commands) /\ Len(fifo') <= FifoSize
    BY <1>7, <1>8, <2>1, <2>2 DEF Push
  <2>4. pc' \in [Tasks -> Points]
    BY <1>2, <1>8 DEF Push, Points
  <2>5. todo' \in [Tasks -> Seq(Commands \ {StopCmd})]
    BY <1>0, <1>8, <2>2 DEF Push, TypeInv
  <2> QED  BY <1>0, <1>8, <2>3, <2>4, <2>5 DEF Push, PushCmd, TypeInv, TypeOK, Points
<1>9. CASE Receive(t)
  <2>1. CASE ClearError /\ Fail(t) /\ Goto(t, "stopPoll") /\ UNCHANGED expect
    <3>1. pc' \in [Tasks -> Points]
      BY <1>2, <2>1 DEF Points
    <3> QED  BY <1>0, <1>1, <1>3, <1>9, <2>1, <3>1 DEF Receive, ClearError, TypeInv, TypeOK, Points
  <2>2. CASE /\ ~error /\ rx # <<>> /\ rx' = Tail(rx) /\ expect' = [expect EXCEPT ![t] = @ - 1]
             /\ Goto(t, IF LastByte(t) THEN "stopPoll" ELSE "receive")
             /\ UNCHANGED <<result, fifo, error, stopped, bus, pending, stored>>
    <3>1. t = "analog" /\ pc["analog"] = "receive" /\ expect["analog"] > 0
      BY <1>0, <1>9 DEF Receive, At, TodoInv, LoggerTodo, ReadInv, Reading, Tasks
    <3>2. expect[t] - 1 \in 0 .. ReadBytes
      BY <1>0, <3>1 DEF TypeOK
    <3>3. expect' \in [Tasks -> 0 .. ReadBytes]
      BY <1>0, <2>2, <3>2 DEF TypeOK
    <3>4. rx \in Seq(Devices \X {0, 1}) /\ Len(rx) <= FifoSize
      BY <1>0 DEF TypeInv, TypeOK
    <3>5. Tail(rx) \in Seq(Devices \X {0, 1}) /\ Len(Tail(rx)) <= FifoSize
      <4> DEFINE S == Devices \X {0, 1}
      <4> HIDE DEF S
      <4>1. rx \in Seq(S) /\ rx # <<>>
        BY <2>2, <3>4 DEF S
      <4>2. Tail(rx) \in Seq(S) /\ Len(Tail(rx)) = Len(rx) - 1 /\ Len(rx) \in Nat
        BY <4>1, HeadTailProperties, LenProperties
      <4> QED  BY <1>0, <3>4, <4>2 DEF S
    <3>6. pc' \in [Tasks -> Points]
      BY <1>2, <2>2 DEF Points
    <3> QED  BY <1>0, <1>9, <2>2, <3>3, <3>5, <3>6 DEF Receive, TypeInv, TypeOK, Points
  <2> QED  BY <1>9, <2>1, <2>2 DEF Receive
<1>10. CASE StopPush(t)
  <2>1. Len(fifo) < FifoSize /\ StopCmd \in Commands
    BY <1>0, <1>10, CommandIn DEF StopPush, At, RoomInv
  <2>2. fifo' \in Seq(Commands) /\ Len(fifo') <= FifoSize
    BY <1>7, <1>10, <2>1 DEF StopPush
  <2>3. pc' \in [Tasks -> Points]
    BY <1>2, <1>10 DEF StopPush, Points
  <2> QED  BY <1>0, <1>10, <2>2, <2>3 DEF StopPush, PushCmd, TypeInv, TypeOK, Points
<1>11. CASE StopWait(t)
  <2>1. pc' \in [Tasks -> Points]
    BY <1>2, <1>11 DEF StopWait, Points
  <2>2. result' \in [Tasks -> {"success", "error"}]
    BY <1>0, <1>11 DEF StopWait, TypeOK
  <2>3. /\ fifo' \in Seq(Commands) /\ Len(fifo') <= FifoSize
        /\ rx' \in Seq(Devices \X {0, 1}) /\ Len(rx') <= FifoSize
    BY <1>0, <1>1, <1>11 DEF StopWait, TypeInv, TypeOK
  <2>4. error' \in BOOLEAN /\ stopped' \in BOOLEAN
    BY <1>11 DEF StopWait
  <2> QED  BY <1>0, <1>11, <2>1, <2>2, <2>3, <2>4 DEF StopWait, TypeInv, TypeOK, Points
<1> QED
  BY <1>5, <1>6, <1>8, <1>9, <1>10, <1>11 DEF LPI2C_MasterTransferBlocking

-----------------------------------------------------------------------------
(* The moves of a transfer. *)

\* A wait ends with an error: both FIFOs are cleared.
Failed(t) ==
    /\ error /\ pc[t] \in {"poll", "receive", "stopPoll"}
    /\ error' = FALSE /\ fifo' = <<>> /\ rx' = <<>> /\ stopped' = stopped
    /\ result' = [result EXCEPT ![t] = "error"]
    /\ pc' = [pc EXCEPT ![t] = IF pc[t] = "stopPoll" THEN "stopAfterError" ELSE "stopPoll"]
    /\ UNCHANGED <<todo, expect>>

\* There is room for the next command.
Ready(t) ==
    /\ ~error /\ pc[t] \in {"poll", "stopPoll"} /\ Len(fifo) < FifoSize
    /\ pc' = [pc EXCEPT ![t] = IF pc[t] = "poll" THEN "push" ELSE "stopPush"]
    /\ UNCHANGED <<fifo, rx, error, stopped, todo, expect, result>>

\* A byte is taken from the receive FIFO.
TakeByte(t) ==
    /\ ~error /\ pc[t] = "receive" /\ rx # <<>> /\ rx' = Tail(rx)
    /\ expect' = [expect EXCEPT ![t] = @ - 1]
    /\ pc' = [pc EXCEPT ![t] = IF expect[t] = 1 THEN "stopPoll" ELSE "receive"]
    /\ UNCHANGED <<fifo, error, stopped, todo, result>>

\* A command is put into the FIFO.
Pushed(t) ==
    /\ pc[t] = "push" /\ fifo' = Append(fifo, Head(todo[t]))
    /\ todo' = [todo EXCEPT ![t] = Tail(@)]
    /\ pc' = [pc EXCEPT ![t] = CASE Len(todo[t]) > 1 -> "poll"
                                 [] Len(todo[t]) = 1 /\ expect[t] > 0 -> "receive"
                                 [] OTHER -> "stopPoll"]
    /\ UNCHANGED <<rx, error, stopped, expect, result>>

\* The STOP is put into the FIFO.
StopPushed(t) ==
    /\ pc[t] \in {"stopPush", "stopAfterError"} /\ fifo' = Append(fifo, StopCmd)
    /\ pc' = [pc EXCEPT ![t] = IF pc[t] = "stopPush" THEN "stopWait" ELSE "idle"]
    /\ UNCHANGED <<rx, error, stopped, todo, expect, result>>

\* The transfer ends.
Ended(t) ==
    /\ pc[t] = "stopWait" /\ pc' = [pc EXCEPT ![t] = "idle"]
    /\ error \/ (stopped /\ fifo = <<>>)
    /\ error' = FALSE
    /\ fifo' = (IF error THEN <<StopCmd>> ELSE fifo) /\ rx' = (IF error THEN <<>> ELSE rx)
    /\ result' = [result EXCEPT ![t] = IF error THEN "error" ELSE @]
    /\ UNCHANGED <<todo, expect>>

Move(t) ==
    /\ Runs(t) /\ UNCHANGED <<bus, pending, stored, target, read, overlapped>>
    /\ Failed(t) \/ Ready(t) \/ TakeByte(t) \/ Pushed(t) \/ StopPushed(t) \/ Ended(t)

\* Each step of LPI2C_MasterTransferBlocking is one of these moves.
LEMMA Moves ==
    ASSUME NEW t \in Tasks, LPI2C_MasterTransferBlocking(t)
    PROVE  Move(t)
<1>1. CASE Poll(t)
  BY <1>1 DEF Poll, At, WaitForTxReady, ClearError, Fail, Goto, TxReady, hwVars, Move, Failed, Ready
<1>2. CASE StopPoll(t)
  BY <1>2 DEF StopPoll, At, WaitForTxReady, ClearError, Fail, Goto, TxReady, hwVars, Move, Failed,
              Ready
<1>3. CASE Receive(t)
  <2>1. CASE /\ ~error /\ rx # <<>> /\ rx' = Tail(rx) /\ expect' = [expect EXCEPT ![t] = @ - 1]
             /\ Goto(t, IF LastByte(t) THEN "stopPoll" ELSE "receive")
             /\ UNCHANGED <<result, fifo, error, stopped, bus, pending, stored>>
    BY <1>3, <2>1 DEF Receive, At, Goto, LastByte, Move, TakeByte
  <2>2. CASE error /\ ClearError /\ Fail(t) /\ Goto(t, "stopPoll") /\ UNCHANGED expect
    BY <1>3, <2>2 DEF Receive, At, ClearError, Fail, Goto, Move, Failed
  <2> QED  BY <1>3, <2>1, <2>2 DEF Receive
<1>4. CASE Push(t)
  BY <1>4 DEF Push, PushCmd, At, Goto, Move, Pushed
<1>5. CASE StopPush(t)
  BY <1>5 DEF StopPush, PushCmd, At, Goto, Move, StopPushed
<1>6. CASE StopWait(t)
  BY <1>6 DEF StopWait, At, Goto, Move, Ended
<1> QED
  BY <1>1, <1>2, <1>3, <1>4, <1>5, <1>6 DEF LPI2C_MasterTransferBlocking

\* The FIFO and the bus stay as they are.
LEMMA SameFifo ==
    ASSUME UNCHANGED <<fifo, bus, pending>>
    PROVE  /\ Newest' = Newest /\ Executed' = Executed
           /\ \A k \in 1 .. Len(fifo) : Prev(k)' = Prev(k)
           /\ ChainInv => ChainInv'
<1>1. Executed' = Executed
  BY DEF Executed, Free, StopCmd, StartCmd, DataCmd
<1>2. Newest' = Newest
  BY <1>1 DEF Newest, Prev
<1>3. \A k \in 1 .. Len(fifo) : Prev(k)' = Prev(k)
  BY <1>1 DEF Prev
<1> QED  BY <1>1, <1>2, <1>3 DEF ChainInv

\* The newest command after a move.
LEMMA MoveNewest ==
    ASSUME TypeInv, TodoInv, NEW t \in Tasks, Move(t)
    PROVE  /\ Failed(t) => Newest' = Executed' /\ Executed' = Executed
           /\ Ready(t) \/ TakeByte(t) => Newest' = Newest
           /\ Pushed(t) => Newest' = Head(todo[t])
           /\ StopPushed(t) => Newest' = StopCmd
           /\ Ended(t) => Newest' = IF error THEN StopCmd ELSE Newest
<1>1. CASE Failed(t)
  <2>1. Executed' = Executed
    BY DEF Move, Executed, Free, StopCmd, StartCmd, DataCmd
  <2> QED  BY <1>1, <2>1, EmptyFifo DEF Failed, Ready, TakeByte, Pushed, StopPushed, Ended
<1>2. CASE Ready(t) \/ TakeByte(t)
  BY <1>2, SameFifo DEF Move, Failed, Ready, TakeByte, Pushed, StopPushed, Ended
<1>3. CASE Pushed(t)
  <2>1. Head(todo[t]) \in Commands
    BY <1>3, NextCommand DEF Pushed, Sending
  <2>2. Newest' = Head(todo[t])
    BY <1>3, <2>1, PushFifo DEF Pushed, Move
  <2> QED  BY <1>3, <2>2 DEF Failed, Ready, TakeByte, Pushed, StopPushed, Ended
<1>4. CASE StopPushed(t)
  <2>1. Newest' = StopCmd
    BY <1>4, PushFifo, CommandIn DEF StopPushed, Move
  <2> QED  BY <1>4, <2>1 DEF Failed, Ready, TakeByte, Pushed, StopPushed, Ended
<1>5. CASE Ended(t)
  <2>1. CASE error
    BY <1>5, <2>1, OnlyStop DEF Failed, Ready, TakeByte, Pushed, StopPushed, Ended
  <2>2. CASE ~error
    BY <1>5, <2>2, SameFifo DEF Move, Failed, Ready, TakeByte, Pushed, StopPushed, Ended
  <2> QED  BY <2>1, <2>2
<1> QED  BY <1>1, <1>2, <1>3, <1>4, <1>5 DEF Move

\* Every move leaves a chain.
LEMMA MoveChain ==
    ASSUME BusAllInv, NEW t \in Tasks, Move(t)
    PROVE  ChainInv'
<1>0. TypeInv /\ ChainInv /\ TodoInv
  BY DEF BusAllInv
<1>1. CASE Failed(t)
  BY <1>1, EmptyFifo DEF Failed
<1>2. CASE Ready(t) \/ TakeByte(t)
  BY <1>0, <1>2, SameFifo DEF Move, Ready, TakeByte
<1>3. CASE Pushed(t)
  <2>1. Sending(t) /\ Runs(t)
    BY <1>3 DEF Pushed, Sending, Move
  <2>2. Head(todo[t]) \in Commands /\ Fits(Newest, Head(todo[t]))
    BY <1>0, <2>1, NextCommand DEF TodoInv, TaskTodo
  <2> QED  BY <1>0, <1>3, <2>2, PushKeepsChain DEF Pushed, Move
<1>4. CASE StopPushed(t)
  <2>1. StopCmd \in Commands /\ Fits(Newest, StopCmd)
    BY CommandIn DEF Fits
  <2> QED  BY <1>0, <1>4, <2>1, PushKeepsChain DEF StopPushed, Move
<1>5. CASE Ended(t)
  <2>1. CASE error
    BY <1>5, <2>1, OnlyStop DEF Ended
  <2>2. CASE ~error
    BY <1>0, <1>5, <2>2, SameFifo DEF Move, Ended
  <2> QED  BY <2>1, <2>2
<1> QED  BY <1>1, <1>2, <1>3, <1>4, <1>5 DEF Move

\* The task that does not move is interrupted, or gets the processor back.
LEMMA OtherTask ==
    ASSUME TypeInv, NEW t \in Tasks, NEW u \in Tasks, u # t, Runs(t), NEW p,
           pc' = [pc EXCEPT ![t] = p], Runs(u)'
    PROVE  /\ pc'[u] = pc[u] /\ pc'[t] = p
           /\ pc[u] = "idle" \/ (t = "analog" /\ u = "logger" /\ p = "idle")
BY DEF Runs, Tasks, TypeInv, TypeOK

\* Its commands still fit.
LEMMA OtherTodo ==
    ASSUME TypeInv, TodoInv, NEW t \in Tasks, NEW u \in Tasks, u # t, Runs(t), NEW p,
           pc' = [pc EXCEPT ![t] = p], todo'[u] = todo[u], target'[u] = target[u],
           (t = "analog" /\ p = "idle") => Newest'.op = "stop"
    PROVE  TaskTodo(u)'
<1>1. TaskTodo(u)
  BY DEF TodoInv
<1>2. pc'[u] = pc[u]
  BY DEF TypeInv, TypeOK
<1>3. Sending(u)' = Sending(u)
  BY <1>2 DEF Sending
<1>4. ASSUME Sending(u)', Runs(u)'
      PROVE  Newest'.op = "stop"
  <2>1. pc[u] = "idle" \/ (t = "analog" /\ u = "logger" /\ p = "idle")
    BY <1>4, OtherTask
  <2>2. pc[u] # "idle"
    BY <1>3, <1>4 DEF Sending
  <2> QED  BY <2>1, <2>2
<1> QED  BY <1>1, <1>3, <1>4 DEF TaskTodo, Fits

-----------------------------------------------------------------------------
(* Every step keeps the commands a task has still to push. *)

\* A command is taken from those a task has to push.
LEMMA PushedTodo ==
    ASSUME TypeInv, TodoInv, NEW t \in Tasks, Move(t), Pushed(t)
    PROVE  TaskTodo(t)' /\ LoggerTodo'
<1> DEFINE w == todo[t]
           v == Tail(todo[t])
           n == Len(todo[t])
<1>1. Sending(t) /\ TaskTodo(t) /\ LoggerTodo
  BY DEF Pushed, Sending, TodoInv
<1>2. /\ n \in Nat \ {0} /\ Len(v) = n - 1 /\ v \in Seq(Commands \ {StopCmd})
      /\ \A k \in 1 .. n - 1 : v[k] = w[k + 1] /\ k + 1 \in 1 .. n
      /\ Head(w) = w[1]
  BY <1>1, NextCommand
<1>3. todo'[t] = v /\ target'[t] = target[t] /\ Newest' = w[1]
  BY <1>2, MoveNewest DEF Pushed, Move, TypeInv
<1>4. v # <<>> => n > 1 /\ Head(v) = v[1]
  <2> HIDE DEF v, w, n
  <2>1. Len(v) \in Nat /\ (v = <<>> <=> Len(v) = 0) /\ (v # <<>> => Head(v) = v[1])
    BY <1>2, SeqEnds
  <2> QED  BY <1>2, <2>1
<1>5. v = <<>> => n = 1
  <2> HIDE DEF v, w, n
  <2>1. v = <<>> => Len(v) = 0
    BY <1>2, SeqEnds
  <2> QED  BY <1>2, <2>1
<1>6. /\ \A k \in 1 .. n : w[k].dev = target[t]
      /\ \A k \in 1 .. n - 1 : Fits(w[k], w[k + 1])
  BY <1>1 DEF TaskTodo
<1> HIDE DEF v, w, n
<1>7. \A k \in 1 .. Len(v) : v[k].dev = target[t]
  BY <1>2, <1>6
<1>8. ASSUME NEW k \in 1 .. Len(v) - 1
      PROVE  Fits(v[k], v[k + 1])
  <2>1. k \in 1 .. n - 1 /\ k + 1 \in 1 .. n - 1
    BY <1>2
  <2> QED  BY <1>2, <1>6, <2>1
<1>9. v # <<>> => Fits(w[1], Head(v))
  <2>1. v # <<>> => 1 \in 1 .. n - 1 /\ 1 + 1 = 2
    BY <1>2, <1>4
  <2> QED  BY <1>2, <1>4, <1>6, <2>1
<1>10. Sending(t)' => v # <<>>
  <2>1. n = 1 => ~(n > 1)
    OBVIOUS
  <2>2. Sending(t)' => n > 1
    <3>1. pc'[t] = CASE n > 1 -> "poll" [] n = 1 /\ expect[t] > 0 -> "receive" [] OTHER -> "stopPoll"
      BY DEF Pushed, TypeInv, TypeOK, n
    <3> QED  BY <3>1 DEF Sending
  <2> QED  BY <1>5, <2>1, <2>2
<1>11. TaskTodo(t)'
  BY <1>3, <1>7, <1>8, <1>9, <1>10 DEF TaskTodo
<1>12. LoggerTodo'
  <2>1. CASE t = "logger"
    <3>1. /\ expect["logger"] = 0 /\ \A k \in 1 .. n : w[k].op # "rx"
          /\ w # <<>> => Last(w) = LastByteOfBurst
      BY <1>1, <2>1 DEF LoggerTodo, w, n
    <3>2. expect' = expect /\ pc'["logger"] # "receive"
      <4>1. pc'["logger"] = CASE n > 1 -> "poll" [] n = 1 /\ expect["logger"] > 0 -> "receive"
                              [] OTHER -> "stopPoll"
        BY <2>1 DEF Pushed, TypeInv, TypeOK, n
      <4>2. ~(expect["logger"] > 0)
        BY <3>1
      <4> QED  BY <4>1, <4>2 DEF Pushed
    <3>3. \A k \in 1 .. Len(v) : v[k].op # "rx"
      BY <1>2, <3>1
    <3>4. v # <<>> => Last(v) = LastByteOfBurst
      <4>1. v # <<>> => n - 1 \in 1 .. n - 1 /\ n - 1 + 1 = n
        BY <1>2, <1>4
      <4>2. w # <<>>
        BY <1>1 DEF TaskTodo, w
      <4>3. v # <<>> => Last(v) = v[n - 1] /\ v[n - 1] = w[n] /\ Last(w) = w[n]
        BY <1>2, <4>1 DEF Last, n, w
      <4> QED  BY <3>1, <4>2, <4>3
    <3>5. todo'["logger"] = v
      BY <1>3, <2>1
    <3> QED  BY <3>1, <3>2, <3>3, <3>4, <3>5 DEF LoggerTodo
  <2>2. CASE t # "logger"
    <3>1. todo'["logger"] = todo["logger"] /\ expect' = expect /\ pc'["logger"] = pc["logger"]
      BY <2>2 DEF Pushed, TypeInv, TypeOK, Tasks
    <3> QED  BY <1>1, <3>1 DEF LoggerTodo
  <2> QED  BY <2>1, <2>2
<1> QED  BY <1>11, <1>12

\* The moves of a transfer.
LEMMA MoveTodo ==
    ASSUME BusAllInv, NEW t \in Tasks, Move(t)
    PROVE  TodoInv'
<1>0. TypeInv /\ TodoInv /\ RoomInv /\ LoggerTodo /\ \A u \in Tasks : TaskTodo(u)
  BY DEF BusAllInv, TodoInv
<1>1. /\ Runs(t)
      /\ \A u \in Tasks \ {t} : todo'[u] = todo[u] /\ target'[u] = target[u]
  BY <1>0 DEF Move, Failed, Ready, TakeByte, Pushed, StopPushed, Ended, TypeInv
<1>2. PICK p : pc' = [pc EXCEPT ![t] = p]
  BY DEF Move, Failed, Ready, TakeByte, Pushed, StopPushed, Ended
<1>3. t = "analog" /\ p = "idle" => Newest'.op = "stop"
  <2>1. ASSUME t = "analog", p = "idle"
        PROVE  Newest'.op = "stop"
    <3>1. pc'[t] = "idle" /\ pc[t] \in Points
      BY <1>0, <1>2, <2>1 DEF TypeInv, TypeOK, Points
    <3>2. (StopPushed(t) /\ pc[t] = "stopAfterError") \/ Ended(t)
      <4>1. ~Failed(t)
        BY <1>0, <3>1 DEF Failed, TypeInv, TypeOK
      <4>2. ~Ready(t)
        BY <1>0, <3>1 DEF Ready, TypeInv, TypeOK
      <4>3. ~TakeByte(t)
        BY <1>0, <3>1 DEF TakeByte, TypeInv, TypeOK
      <4>4. ~Pushed(t)
        BY <1>0, <3>1 DEF Pushed, TypeInv, TypeOK
      <4>5. StopPushed(t) => pc[t] = "stopAfterError"
        BY <1>0, <3>1 DEF StopPushed, TypeInv, TypeOK
      <4> QED  BY <4>1, <4>2, <4>3, <4>4, <4>5 DEF Move
    <3>3. CASE StopPushed(t)
      BY <1>0, <3>3, MoveNewest, CommandIn
    <3>4. CASE Ended(t)
      <4>1. Newest.op = "stop"
        BY <1>0, <2>1, <3>4 DEF Ended, RoomInv
      <4> QED  BY <1>0, <3>4, <4>1, MoveNewest, CommandIn
    <3> QED  BY <3>2, <3>3, <3>4
  <2> QED  BY <2>1
<1>4. ASSUME NEW u \in Tasks, u # t
      PROVE  TaskTodo(u)'
  BY <1>0, <1>1, <1>2, <1>3, <1>4, OtherTodo
<1>5. CASE Pushed(t)
  BY <1>0, <1>4, <1>5, PushedTodo DEF TodoInv
<1>6. CASE ~Pushed(t)
  <2>1. todo' = todo /\ target' = target
    BY <1>6 DEF Move, Failed, Ready, TakeByte, Pushed, StopPushed, Ended
  <2>2. TaskTodo(t)'
    <3>1. CASE Ready(t) /\ pc[t] = "poll"
      <4>1. Sending(t) /\ Runs(t) /\ Newest' = Newest
        BY <1>0, <1>1, <3>1, MoveNewest DEF Sending
      <4> QED  BY <1>0, <2>1, <4>1 DEF TaskTodo
    <3>2. CASE ~(Ready(t) /\ pc[t] = "poll")
      <4>1. ~Sending(t)'
        BY <1>0, <1>6, <3>2 DEF Move, Failed, Ready, TakeByte, StopPushed, Ended, Sending, TypeInv,
                               TypeOK
      <4> QED  BY <1>0, <2>1, <4>1 DEF TaskTodo
    <3> QED  BY <3>1, <3>2
  <2>3. LoggerTodo'
    <3>1. expect'["logger"] = 0
      <4>1. CASE TakeByte(t)
        <5>1. t # "logger"
          BY <1>0, <4>1 DEF TakeByte, LoggerTodo
        <5> QED  BY <1>0, <4>1, <5>1 DEF TakeByte, LoggerTodo, TypeInv, TypeOK
      <4>2. CASE ~TakeByte(t)
        BY <1>0, <1>6, <4>2 DEF Move, Failed, Ready, StopPushed, Ended, LoggerTodo
      <4> QED  BY <4>1, <4>2
    <3>2. pc'["logger"] # "receive"
      <4>1. CASE t = "logger"
        BY <1>0, <1>6, <4>1 DEF Move, Failed, Ready, TakeByte, StopPushed, Ended, LoggerTodo, TypeInv,
                               TypeOK
      <4>2. CASE t # "logger"
        <5>1. pc'["logger"] = pc["logger"]
          BY <1>0, <1>2, <4>2 DEF TypeInv, TypeOK, Tasks
        <5> QED  BY <1>0, <5>1 DEF LoggerTodo
      <4> QED  BY <4>1, <4>2
    <3> QED  BY <1>0, <2>1, <3>1, <3>2 DEF LoggerTodo
  <2> QED  BY <1>4, <2>2, <2>3 DEF TodoInv
<1> QED  BY <1>5, <1>6

\* A transfer begins.
LEMMA BeginTodo ==
    ASSUME BusAllInv, NEW t \in Tasks, NEW x \in Transfers(t), Begin(t, x)
    PROVE  TypeInv' /\ ChainInv' /\ TodoInv' /\ BusInv'
<1>0. /\ TypeInv /\ ChainInv /\ TodoInv /\ BusInv /\ TypeOK
      /\ LoggerTodo /\ \A u \in Tasks : TaskTodo(u)
  BY DEF BusAllInv, TypeInv, TodoInv
<1>1. Shape(t, x)
  BY <1>0, TransferShape DEF TypeOK
<1> DEFINE w == x.commands
           n == Len(x.commands)
<1>2. /\ x.dev \in Devices /\ x.bytes \in 0 .. ReadBytes
      /\ w \in Seq(Commands \ {StopCmd}) /\ n > 1 /\ w[1].op = "start"
      /\ \A k \in 1 .. n : w[k].dev = x.dev
      /\ \A k \in 1 .. n - 1 : Fits(w[k], w[k + 1])
      /\ t = "logger" => /\ x.bytes = 0 /\ w[n] = LastByteOfBurst
                         /\ \A k \in 1 .. n : w[k].op # "rx"
  BY <1>1 DEF Shape
<1>3. /\ pc' = [pc EXCEPT ![t] = "poll"] /\ pc[t] = "idle" /\ Runs(t)
      /\ todo' = [todo EXCEPT ![t] = w] /\ expect' = [expect EXCEPT ![t] = x.bytes]
      /\ target' = [target EXCEPT ![t] = x.dev] /\ result' = [result EXCEPT ![t] = "success"]
      /\ error' = FALSE /\ stopped' = FALSE /\ UNCHANGED <<fifo, rx, bus, pending>>
      /\ stored' = stored \/ stored' = <<>>
      /\ read' \in {0, 1} /\ overlapped' \in BOOLEAN
  <2>1. read \in {0, 1} /\ overlapped \in BOOLEAN
    BY <1>0 DEF TypeOK
  <2>2. read' \in {0, 1}
    BY <2>1 DEF Begin
  <2>3. overlapped' \in BOOLEAN
    BY <2>1 DEF Begin
  <2> QED  BY <2>2, <2>3 DEF Begin, At, Goto
<1> HIDE DEF w, n
<1>4. w # <<>> /\ Head(w) = w[1] /\ Last(w) = w[n]
  <2>1. Len(w) = n
    BY DEF w, n
  <2>2. Len(w) \in Nat /\ (w = <<>> <=> Len(w) = 0)
        /\ (w # <<>> => Head(w) = w[1] /\ Last(w) = w[Len(w)])
    BY <1>2, SeqEnds
  <2> QED  BY <1>2, <2>1, <2>2
<1>5. stored' \in Seq(1 .. BurstBytes)
  <2>1. stored \in Seq(1 .. BurstBytes) /\ <<>> \in Seq(1 .. BurstBytes)
    BY <1>0, EmptySeq DEF TypeOK
  <2> QED  BY <1>3, <2>1
<1>6. TypeInv'
  <2>1. pc' \in [Tasks -> Points] /\ result' \in [Tasks -> {"success", "error"}]
    BY <1>0, <1>3 DEF TypeOK, Points
  <2>2. expect' \in [Tasks -> 0 .. ReadBytes] /\ target' \in [Tasks -> Devices]
    BY <1>0, <1>2, <1>3 DEF TypeOK
  <2>3. todo' \in [Tasks -> Seq(Commands \ {StopCmd})]
    BY <1>0, <1>2, <1>3 DEF TypeInv
  <2> QED  BY <1>0, <1>3, <1>5, <2>1, <2>2, <2>3 DEF TypeInv, TypeOK, Points
<1>7. ChainInv' /\ Newest' = Newest
  BY <1>0, <1>3, SameFifo
<1>8. ASSUME NEW u \in Tasks
      PROVE  TaskTodo(u)'
  <2>1. CASE u = t
    <3>1. todo'[t] = w /\ target'[t] = x.dev /\ Len(w) = n
      BY <1>0, <1>3 DEF TypeInv, TypeOK, w, n
    <3>2. Fits(Newest', Head(w))
      BY <1>2, <1>4 DEF Fits
    <3> QED  BY <1>2, <1>4, <2>1, <3>1, <3>2 DEF TaskTodo
  <2>2. CASE u # t
    <3>1. todo'[u] = todo[u] /\ target'[u] = target[u]
      BY <1>0, <1>3, <2>2 DEF TypeInv, TypeOK
    <3>2. "poll" # "idle"
      OBVIOUS
    <3> QED  BY <1>0, <1>3, <2>2, <3>1, <3>2, OtherTodo
  <2> QED  BY <2>1, <2>2
<1>9. LoggerTodo'
  <2>1. CASE t = "logger"
    <3>1. /\ todo'["logger"] = w /\ expect'["logger"] = 0 /\ pc'["logger"] = "poll" /\ Len(w) = n
      BY <1>0, <1>2, <1>3, <2>1 DEF TypeInv, TypeOK, w, n
    <3> QED  BY <1>2, <1>4, <2>1, <3>1 DEF LoggerTodo
  <2>2. CASE t # "logger"
    <3>1. /\ todo'["logger"] = todo["logger"] /\ expect'["logger"] = expect["logger"]
          /\ pc'["logger"] = pc["logger"]
      BY <1>0, <1>3, <2>2 DEF TypeInv, TypeOK, Tasks
    <3> QED  BY <1>0, <3>1 DEF LoggerTodo
  <2> QED  BY <2>1, <2>2
<1>10. BusInv'
  <2>1. Len(stored') <= BurstBytes /\ \A k \in 1 .. Len(stored') : stored'[k] = k
    <3>1. CASE stored' = <<>>
      BY <3>1, BusAssumption, EmptySeq
    <3>2. CASE stored' = stored
      BY <1>0, <3>2 DEF BusInv
    <3> QED  BY <1>3, <3>1, <3>2
  <2> QED  BY <1>0, <1>3, <2>1 DEF BusInv
<1> QED  BY <1>6, <1>7, <1>8, <1>9, <1>10 DEF TodoInv

\* The controller takes no command from a task.
LEMMA ControllerTodo ==
    ASSUME BusAllInv, Controller
    PROVE  TodoInv'
<1>0. /\ TypeInv /\ ChainInv /\ TodoInv /\ BusInv /\ LoggerTodo /\ \A u \in Tasks : TaskTodo(u)
      /\ UNCHANGED taskVars
  BY Outcomes DEF BusAllInv, TodoInv
<1>1. Leaves(Newest', Newest)
  BY <1>0, ControllerNewest
<1>2. ASSUME NEW t \in Tasks
      PROVE  TaskTodo(t)'
  <2>1. Sending(t)' = Sending(t) /\ Runs(t)' = Runs(t) /\ todo' = todo /\ target' = target
    BY <1>0 DEF Sending, Runs, taskVars
  <2>2. Sending(t) /\ Runs(t) => Fits(Newest, Head(todo[t]))
    BY <1>0 DEF TaskTodo
  <2>3. Sending(t) /\ Runs(t) => Fits(Newest', Head(todo[t]))
    BY <1>1, <2>2, FitsLeaves
  <2> QED  BY <1>0, <2>1, <2>3 DEF TaskTodo
<1>3. LoggerTodo'
  BY <1>0 DEF LoggerTodo, taskVars
<1> QED  BY <1>2, <1>3 DEF TodoInv
-----------------------------------------------------------------------------
(* What the EEPROM has received and stored. *)

\* The controller frees the bus after an error, and the EEPROM stores what came in order.
LEMMA ControllerBus ==
    ASSUME BusAllInv, Controller
    PROVE  BusInv'
<1>0. /\ TypeInv /\ ChainInv /\ BusInv /\ fifo # <<>> /\ ~error /\ BurstBytes \in Nat
      /\ StartAcked \/ ByteAcked \/ Released \/ FoundFree \/ ByteReceived
  BY Outcomes, BusAssumption DEF BusAllInv
<1>1. /\ pending \in Seq(0 .. BurstBytes) /\ Len(pending) \in Nat
      /\ \A k \in 1 .. Len(pending) : pending[k] = k - 1 /\ pending[k] \in 0 .. BurstBytes
      /\ stored \in Seq(1 .. BurstBytes) /\ Len(stored) <= BurstBytes
      /\ \A k \in 1 .. Len(stored) : stored[k] = k
      /\ bus.dev # "eeprom" => pending = <<>>
  BY <1>0, LenProperties, ElementOfSeq DEF BusInv, TypeInv, TypeOK
<1>2. fifo[1] \in Commands
  <2>1. 1 \in 1 .. Len(fifo)
    BY <1>0, Places
  <2> QED  BY <1>0, <2>1, Places
<1>3. Len(<<>>) = 0
  BY EmptySeq
<1>4. CASE StartAcked
  BY <1>0, <1>1, <1>3, <1>4 DEF StartAcked, BusInv
<1>5. CASE ByteAcked
  <2>1. ASSUME bus.dev = "eeprom"
        PROVE  \A k \in 1 .. Len(pending') : pending'[k] = k - 1
    <3>1. fifo[1].arg = Len(pending) /\ fifo[1].arg \in 0 .. BurstBytes
      BY <1>0, <1>2, <1>5, <2>1, HeadFits, CommandKinds DEF ByteAcked
    <3>2. pending' = Append(pending, Len(pending))
      BY <1>5, <2>1, <3>1 DEF ByteAcked
    <3>3. /\ Len(pending') = Len(pending) + 1 /\ pending'[Len(pending) + 1] = Len(pending)
          /\ \A k \in 1 .. Len(pending) : pending'[k] = pending[k]
      BY <1>1, <3>1, <3>2, AppendProperties
    <3> DEFINE n == Len(pending)
    <3> HIDE DEF n
    <3>4. n \in Nat /\ \A k \in 1 .. n : pending'[k] = k - 1
      BY <1>1, <3>3 DEF n
    <3>5. ASSUME NEW k \in 1 .. n + 1
          PROVE  pending'[k] = k - 1
      <4>1. k = n + 1 \/ k \in 1 .. n
        BY <3>4
      <4>2. n + 1 - 1 = n
        BY <3>4
      <4> QED  BY <3>3, <3>4, <4>1, <4>2 DEF n
    <3> QED  BY <3>3, <3>5 DEF n
  <2>2. ASSUME bus.dev # "eeprom"
        PROVE  pending' = <<>>
    BY <1>1, <1>5, <2>2 DEF ByteAcked
  <2>3. \A k \in 1 .. Len(pending') : pending'[k] = k - 1
    BY <1>3, <2>1, <2>2
  <2> QED  BY <1>0, <1>1, <1>5, <2>2, <2>3 DEF ByteAcked, BusInv
<1>6. CASE Released
  <2>1. Len(stored') <= BurstBytes /\ \A k \in 1 .. Len(stored') : stored'[k] = k
    <3>1. CASE pending = <<>>
      <4>1. stored' = stored
        BY <1>6, <3>1 DEF Released, Store
      <4> QED  BY <1>1, <4>1
    <3>2. CASE pending # <<>>
      <4> DEFINE s == Tail(pending)
                 n == Len(pending)
      <4>1. s \in Seq(0 .. BurstBytes) /\ Len(s) = n - 1 /\ \A k \in 1 .. Len(s) : s[k] = pending[k + 1]
        BY <1>1, <3>2, HeadTailProperties
      <4>2. stored' = s
        BY <1>6, <3>2 DEF Released, Store
      <4>3. n \in Nat \ {0} /\ \A k \in 1 .. n : pending[k] = k - 1 /\ pending[k] <= BurstBytes
        BY <1>1, <3>2, SeqEnds
      <4> HIDE DEF s, n
      <4>4. n \in 1 .. n /\ pending[n] = n - 1 /\ pending[n] <= BurstBytes
        BY <4>3
      <4>5. ASSUME NEW k \in 1 .. n - 1
            PROVE  s[k] = k
        <5>1. k + 1 \in 1 .. n /\ k + 1 - 1 = k
          BY <4>3
        <5> QED  BY <4>1, <4>3, <5>1
      <4> QED  BY <4>1, <4>2, <4>4, <4>5
    <3> QED  BY <3>1, <3>2
  <2>2. pending' = <<>> /\ bus' = Free
    BY <1>6 DEF Released, Store
  <2> QED  BY <1>3, <2>1, <2>2 DEF BusInv
<1>7. CASE FoundFree \/ ByteReceived
  BY <1>0, <1>7 DEF FoundFree, ByteReceived, BusInv
<1> QED  BY <1>0, <1>4, <1>5, <1>6, <1>7

\* A task's moves leave the bus to the controller.
LEMMA MoveBus ==
    ASSUME BusAllInv, NEW t \in Tasks, Move(t)
    PROVE  BusInv'
<1>1. BusInv
  BY DEF BusAllInv
<1>2. UNCHANGED <<bus, pending, stored>> /\ (error' = FALSE \/ error' = error)
  BY DEF Move, Failed, Ready, TakeByte, Pushed, StopPushed, Ended
<1> QED  BY <1>1, <1>2 DEF BusInv

-----------------------------------------------------------------------------
(* There is room for every command that is pushed. *)

\* What a transfer leaves in the FIFO when it ends.
LEMMA EndLeavesStop ==
    ASSUME TypeInv, RoomInv, NEW t \in Tasks, Move(t), pc'[t] = "idle",
           t = "analog" \/ Ended(t)
    PROVE  Len(fifo') < FifoSize /\ \A k \in 1 .. Len(fifo') : fifo'[k].op = "stop"
<1>1. FifoSize \in Nat \ {0, 1} /\ Len(<<>>) = 0
  BY BusAssumption, EmptySeq
<1>2. (StopPushed(t) /\ pc[t] = "stopAfterError") \/ Ended(t)
  BY DEF Move, Failed, Ready, TakeByte, Pushed, StopPushed, TypeInv, TypeOK
<1>3. fifo' = <<StopCmd>> \/ fifo' = <<>>
  <2>1. CASE Ended(t)
    BY <2>1 DEF Ended
  <2>2. CASE StopPushed(t) /\ pc[t] = "stopAfterError" /\ t = "analog"
    <3>1. fifo = <<>> /\ fifo' = Append(fifo, StopCmd)
      BY <2>2 DEF RoomInv, StopPushed
    <3> QED  BY <3>1
  <2> QED  BY <1>2, <2>1, <2>2
<1>4. CASE fifo' = <<StopCmd>>
  <2>1. Len(fifo') = 1 /\ fifo'[1].op = "stop"
    BY <1>4, CommandIn
  <2> QED  BY <1>1, <2>1
<1>5. CASE fifo' = <<>>
  BY <1>1, <1>5
<1> QED  BY <1>3, <1>4, <1>5

\* A task waits for room, and finds it again after an interruption.
LEMMA MoveRoom ==
    ASSUME BusAllInv, NEW t \in Tasks, Move(t)
    PROVE  RoomInv'
<1>0. /\ TypeInv /\ TodoInv /\ RoomInv /\ Runs(t)
      /\ FifoSize \in Nat \ {0, 1} /\ Len(<<>>) = 0
  BY BusAssumption, EmptySeq DEF BusAllInv, Move
<1>1. PICK p : pc' = [pc EXCEPT ![t] = p]
  BY DEF Move, Failed, Ready, TakeByte, Pushed, StopPushed, Ended
<1>2. pc'[t] = p /\ pc[t] # "idle" /\ \A u \in Tasks \ {t} : pc'[u] = pc[u]
  <2>1. pc[t] # "idle"
    BY DEF Move, Failed, Ready, TakeByte, Pushed, StopPushed, Ended
  <2> QED  BY <1>0, <1>1, <2>1 DEF TypeInv, TypeOK
<1>3. t = "logger" => pc["analog"] = "idle" /\ pc'["analog"] = "idle"
  BY <1>0, <1>2 DEF Runs, Tasks
<1>4. ASSUME NEW u \in Tasks, Runs(u)', pc'[u] \in {"push", "stopPush", "stopAfterError"}
      PROVE  Len(fifo') < FifoSize
  <2>1. CASE u = t
    <3>1. CASE Failed(t)
      BY <1>0, <3>1 DEF Failed
    <3>2. CASE ~Failed(t)
      <4>1. Ready(t)
        BY <1>0, <1>4, <2>1, <3>2 DEF Move, TakeByte, Pushed, StopPushed, Ended, TypeInv, TypeOK
      <4> QED  BY <4>1 DEF Ready
    <3> QED  BY <3>1, <3>2
  <2>2. CASE u # t
    <3>1. pc'[u] = pc[u] /\ pc[u] # "idle"
      BY <1>2, <1>4, <2>2
    <3>2. t = "analog" /\ p = "idle"
      BY <1>0, <1>2, <1>4, <2>2, <3>1 DEF Runs, Tasks
    <3> QED  BY <1>0, <1>2, <3>2, EndLeavesStop
  <2> QED  BY <2>1, <2>2
<1>5. ASSUME pc'["analog"] = "stopAfterError"
      PROVE  fifo' = <<>>
  <2>1. t = "analog" /\ Failed(t)
    BY <1>0, <1>3, <1>5 DEF Move, Failed, Ready, TakeByte, Pushed, StopPushed, Ended, TypeInv, TypeOK,
                         Tasks
  <2> QED  BY <2>1 DEF Failed
<1>6. ASSUME pc'["analog"] = "stopWait"
      PROVE  Newest'.op = "stop"
  <2>1. t = "analog" /\ StopPushed(t)
    BY <1>0, <1>3, <1>6 DEF Move, Failed, Ready, TakeByte, Pushed, StopPushed, Ended, TypeInv, TypeOK,
                         Tasks
  <2> QED  BY <1>0, <2>1, MoveNewest, CommandIn
<1>7. ASSUME pc'["analog"] = "idle", pc'["logger"] \in {"idle", "stopAfterError"}
      PROVE  \A k \in 1 .. Len(fifo') : fifo'[k].op = "stop"
  <2>1. CASE t = "analog" \/ Ended(t)
    <3>1. pc'[t] = "idle"
      BY <1>0, <1>7, <2>1 DEF Ended, TypeInv, TypeOK
    <3> QED  BY <1>0, <2>1, <3>1, EndLeavesStop
  <2>2. CASE t = "logger" /\ ~Ended(t)
    <3>1. Failed(t) \/ (StopPushed(t) /\ pc["logger"] = "stopAfterError")
      BY <1>0, <1>7, <2>2 DEF Move, Failed, Ready, TakeByte, Pushed, StopPushed, TypeInv, TypeOK, Tasks
    <3>2. CASE Failed(t)
      BY <1>0, <3>2 DEF Failed
    <3>3. CASE StopPushed(t) /\ pc["logger"] = "stopAfterError"
      <4>1. \A k \in 1 .. Len(fifo) : fifo[k].op = "stop"
        BY <1>0, <1>3, <2>2, <3>3 DEF RoomInv
      <4>2. /\ Len(fifo') = Len(fifo) + 1 /\ fifo'[Len(fifo) + 1] = StopCmd /\ Len(fifo) \in Nat
            /\ \A k \in 1 .. Len(fifo) : fifo'[k] = fifo[k]
        BY <1>0, <3>3, PushFifo, Places, CommandIn DEF StopPushed, Move
      <4>3. \A k \in 1 .. Len(fifo') : k = Len(fifo) + 1 \/ k \in 1 .. Len(fifo)
        BY <4>2
      <4> QED  BY <4>1, <4>2, <4>3, CommandIn
    <3> QED  BY <3>1, <3>2, <3>3
  <2> QED  BY <2>1, <2>2 DEF Tasks
<1> QED  BY <1>4, <1>5, <1>6, <1>7 DEF RoomInv

\* The controller only makes room.
LEMMA ControllerRoom ==
    ASSUME BusAllInv, Controller
    PROVE  RoomInv'
<1>0. /\ TypeInv /\ ChainInv /\ BusInv /\ RoomInv /\ fifo # <<>> /\ ~error /\ pc' = pc
      /\ FifoSize \in Nat
  BY Outcomes, BusAssumption DEF BusAllInv, taskVars
<1>1. Len(fifo') <= Len(fifo) /\ Len(fifo') \in Nat /\ Len(fifo) \in Nat
  <2>1. CASE Popped
    BY <1>0, <2>1, PopFifo
  <2>2. CASE Shortened
    BY <1>0, <2>2, ShortenFifo
  <2> QED  BY <1>0, <2>1, <2>2, Carried
<1>2. \A u \in Tasks : Runs(u)' = Runs(u)
  BY <1>0 DEF Runs
<1>3. \A u \in Tasks : Runs(u)' /\ pc'[u] \in {"push", "stopPush", "stopAfterError"} =>
        Len(fifo') < FifoSize
  <2>1. Len(fifo) < FifoSize => Len(fifo') < FifoSize
    BY <1>0, <1>1
  <2> QED  BY <1>0, <1>2, <2>1 DEF RoomInv
<1>4. pc'["analog"] # "stopAfterError"
  BY <1>0 DEF RoomInv
<1>5. Newest.op = "stop" => Newest'.op = "stop"
  <2>1. Leaves(Newest', Newest)
    BY <1>0, ControllerNewest
  <2> QED  BY <2>1, CommandIn DEF Leaves
<1>6. ASSUME \A k \in 1 .. Len(fifo) : fifo[k].op = "stop"
      PROVE  \A k \in 1 .. Len(fifo') : fifo'[k].op = "stop"
  <2>1. ASSUME NEW k \in 1 .. Len(fifo')
        PROVE  fifo'[k].op = "stop"
    <3>1. PICK j \in 1 .. Len(fifo) : fifo'[k] = fifo[j] \/ fifo[j].op = "rx"
      BY <1>0, ControllerPlaces
    <3> QED  BY <1>6, <3>1
  <2> QED  BY <2>1
<1> QED  BY <1>0, <1>3, <1>4, <1>5, <1>6 DEF RoomInv

\* A transfer begins behind the STOP of another at most.
LEMMA BeginRoom ==
    ASSUME BusAllInv, NEW t \in Tasks, NEW x \in Transfers(t), Begin(t, x)
    PROVE  RoomInv'
<1>0. TypeInv /\ RoomInv
  BY DEF BusAllInv
<1>1. /\ pc' = [pc EXCEPT ![t] = "poll"] /\ pc[t] = "idle" /\ Runs(t)
      /\ UNCHANGED <<fifo, bus, pending>>
  BY DEF Begin, At, Goto
<1>2. /\ pc'[t] = "poll" /\ \A u \in Tasks \ {t} : pc'[u] = pc[u]
      /\ t = "logger" => pc'["analog"] = "idle"
  BY <1>0, <1>1 DEF TypeInv, TypeOK, Runs, Tasks
<1>3. \A u \in Tasks : Runs(u)' => pc'[u] \notin {"push", "stopPush", "stopAfterError"}
  BY <1>1, <1>2 DEF Runs, Tasks
<1>4. pc'["analog"] \in {"idle", "poll"}
  BY <1>2 DEF Tasks
<1>5. ~(pc'["analog"] = "idle" /\ pc'["logger"] \in {"idle", "stopAfterError"})
  BY <1>2 DEF Tasks
<1> QED  BY <1>3, <1>4, <1>5 DEF RoomInv

-----------------------------------------------------------------------------
(* What is received belongs to the read of the analog task. *)

\* A command that receives nothing is pushed while nothing is received.
LEMMA PushNoRead ==
    ASSUME TypeInv, NoRead, NEW c \in Commands, c.op # "rx", fifo' = Append(fifo, c),
           UNCHANGED <<rx, bus, pending>>
    PROVE  NoRead'
<1>1. /\ Len(fifo') = Len(fifo) + 1 /\ fifo'[Len(fifo) + 1] = c /\ Len(fifo) \in Nat
      /\ \A k \in 1 .. Len(fifo) : fifo'[k] = fifo[k]
  BY PushFifo, Places
<1>2. \A k \in 1 .. Len(fifo) + 1 : k = Len(fifo) + 1 \/ k \in 1 .. Len(fifo)
  BY <1>1
<1> QED  BY <1>1, <1>2 DEF NoRead

\* The data logger receives nothing.
LEMMA LoggerRead ==
    ASSUME BusAllInv, TypeInv', Move("logger")
    PROVE  ReadInv'
<1>0. /\ TypeInv /\ LoggerTodo /\ TodoInv /\ "logger" \in Tasks /\ TypeOK
      /\ pc["analog"] = "idle" /\ NoRead
  <2>1. TypeInv /\ LoggerTodo /\ TodoInv /\ ReadInv /\ "logger" \in Tasks /\ TypeOK
    BY DEF BusAllInv, Tasks, TypeInv, TodoInv
  <2>2. pc["analog"] = "idle"
    BY DEF Move, Runs
  <2> QED  BY <2>1, <2>2 DEF ReadInv
<1>1. pc'["analog"] = "idle"
  BY <1>0 DEF Move, Failed, Ready, TakeByte, Pushed, StopPushed, Ended, TypeOK, Tasks
<1>2. NoRead'
  <2>1. CASE Failed("logger")
    BY <2>1, EmptySeq DEF Failed, NoRead
  <2>2. CASE Ready("logger")
    BY <1>0, <2>2 DEF Ready, NoRead
  <2>3. CASE TakeByte("logger")
    BY <1>0, <2>3 DEF TakeByte, LoggerTodo
  <2>4. CASE Pushed("logger")
    <3> DEFINE c == Head(todo["logger"])
    <3>1. Sending("logger")
      BY <2>4 DEF Pushed, Sending
    <3>2. c \in Commands /\ c = todo["logger"][1] /\ Len(todo["logger"]) \in Nat \ {0}
      BY <1>0, <3>1, NextCommand
    <3>3. 1 \in 1 .. Len(todo["logger"])
      BY <3>2
    <3>4. c.op # "rx"
      BY <1>0, <3>2, <3>3 DEF LoggerTodo
    <3> QED  BY <1>0, <2>4, <3>2, <3>4, PushNoRead DEF Pushed, Move
  <2>5. CASE StopPushed("logger")
    BY <1>0, <2>5, PushNoRead, CommandIn DEF StopPushed, Move
  <2>6. CASE Ended("logger")
    <3>1. CASE error
      <4>1. fifo' = <<StopCmd>> /\ rx' = <<>>
        BY <2>6, <3>1 DEF Ended
      <4>2. Len(fifo') = 1 /\ fifo'[1] = StopCmd
        BY <4>1
      <4> QED  BY <4>1, <4>2, CommandIn DEF NoRead
    <3>2. CASE ~error
      BY <1>0, <2>6, <3>2 DEF Ended, NoRead
    <3> QED  BY <3>1, <3>2
  <2> QED  BY <2>1, <2>2, <2>3, <2>4, <2>5, <2>6 DEF Move
<1> QED  BY <1>1, <1>2 DEF Sending, ReadInv

\* The analog task takes a byte of its read.
LEMMA TakeByteRead ==
    ASSUME TypeInv, Reading, pc["analog"] = "receive", TakeByte("analog"),
           UNCHANGED <<bus, pending, target, read>>
    PROVE  /\ pc'["analog"] = "receive" => Reading'
           /\ pc'["analog"] # "receive" => NoRead'
           /\ pc'["analog"] \in {"receive", "stopPoll"}
<1> DEFINE S == Devices \X {0, 1}
           n == Len(rx)
<1>1. /\ rx \in Seq(S) /\ rx # <<>> /\ rx' = Tail(rx) /\ ~error /\ error' = error /\ fifo' = fifo
      /\ expect["analog"] \in Nat
      /\ expect'["analog"] = expect["analog"] - 1
      /\ pc'["analog"] = IF expect["analog"] = 1 THEN "stopPoll" ELSE "receive"
  BY BusAssumption DEF TypeInv, TypeOK, TakeByte, Tasks
<1> HIDE DEF S
<1>2. /\ n \in Nat \ {0} /\ rx' \in Seq(S) /\ Len(rx') = n - 1
      /\ \A k \in 1 .. n - 1 : rx'[k] = rx[k + 1]
  BY <1>1, HeadTailProperties, EmptySeq
<1>3. /\ n + Owed = expect["analog"] /\ expect["analog"] > 0
      /\ \A k \in 1 .. Len(fifo) : fifo[k].op = "rx" =>
           k = Len(fifo) /\ fifo[k].dev = target["analog"] /\ fifo[k].of = read
      /\ \A k \in 1 .. n : rx[k] = <<target["analog"], read>>
  BY <1>1 DEF Reading
<1>4. Owed' = Owed
  BY <1>1 DEF Owed
<1>5. /\ Len(fifo) \in Nat /\ \A k \in 1 .. Len(fifo) : fifo[k] \in Commands
      /\ fifo # <<>> => Last(fifo) = fifo[Len(fifo)] /\ Len(fifo) \in 1 .. Len(fifo)
  <2>1. Len(fifo) \in Nat /\ (fifo = <<>> <=> Len(fifo) = 0)
    BY Places
  <2>2. fifo # <<>> => Len(fifo) \in 1 .. Len(fifo)
    BY <2>1
  <2> QED  BY <2>1, <2>2, Places
<1>6. Owed \in Nat /\ (Owed = 0 => \A k \in 1 .. Len(fifo) : fifo[k].op # "rx")
  <2>1. ASSUME fifo # <<>>, Last(fifo).op = "rx"
        PROVE  Owed \in Nat \ {0}
    <3>1. Last(fifo) \in Commands
      BY <1>5, <2>1
    <3>2. Owed = Last(fifo).arg /\ Last(fifo).arg \in 1 .. ReadBytes
      BY <2>1, <3>1, CommandKinds DEF Owed
    <3> QED  BY <3>2, BusAssumption
  <2>2. ASSUME ~(fifo # <<>> /\ Last(fifo).op = "rx")
        PROVE  Owed = 0 /\ \A k \in 1 .. Len(fifo) : fifo[k].op # "rx"
    <3>1. Owed = 0
      BY <2>2 DEF Owed
    <3>2. ASSUME NEW k \in 1 .. Len(fifo), fifo[k].op = "rx"
          PROVE  FALSE
      <4>1. k = Len(fifo) /\ fifo # <<>>
        BY <1>3, <3>2, EmptySeq
      <4> QED  BY <1>5, <2>2, <3>2, <4>1
    <3> QED  BY <3>1, <3>2
  <2> QED  BY <2>1, <2>2
<1> DEFINE o == Owed
           x == expect["analog"]
<1> HIDE DEF n, o, x
<1>7. o \in Nat /\ x \in Nat /\ n \in Nat \ {0} /\ n + o = x
  BY <1>1, <1>2, <1>3, <1>6 DEF n, o, x
<1>8. x = 1 => n = 1 /\ o = 0
  BY <1>7
<1>9. n - 1 + o = x - 1 /\ (x # 1 => x - 1 > 0)
  BY <1>7
<1>10. n = 1 => rx' = <<>>
  <2>1. n = 1 => Len(rx') = 0
    BY <1>2
  <2> QED  BY <1>2, <2>1, SeqEnds
<1>11. \A k \in 1 .. n - 1 : rx'[k] = <<target["analog"], read>>
  <2>1. \A k \in 1 .. n - 1 : k + 1 \in 1 .. n
    BY <1>7
  <2> QED  BY <1>2, <1>3, <2>1 DEF n
<1>12. x = 1 => NoRead'
  BY <1>1, <1>6, <1>8, <1>10 DEF NoRead, o
<1>13. x # 1 => Reading'
  <2>1. x # 1 => expect'["analog"] > 0
    BY <1>1, <1>9 DEF x
  <2>2. Len(rx') + Owed' = expect'["analog"]
    BY <1>1, <1>2, <1>4, <1>9 DEF x, o, n
  <2> QED  BY <1>1, <1>2, <1>3, <1>11, <2>1, <2>2 DEF Reading, n
<1> QED  BY <1>1, <1>12, <1>13 DEF x

\* The analog task pushes the next command of its transfer.
LEMMA PushedRead ==
    ASSUME BusAllInv, TypeInv', Move("analog"), Pushed("analog"), NoRead, ToRead
    PROVE  ReadInv'
<1> DEFINE t == "analog"
           w == todo["analog"]
           c == Head(todo["analog"])
           n == Len(todo["analog"])
           v == Tail(todo["analog"])
<1>0. /\ TypeInv /\ TodoInv /\ "analog" \in Tasks /\ TypeOK /\ Sending("analog")
      /\ TaskTodo("analog")
  BY DEF BusAllInv, Tasks, TypeInv, Pushed, Sending, TodoInv
<1>1. /\ n \in Nat \ {0} /\ c = w[1] /\ c \in Commands
      /\ Len(v) = n - 1 /\ \A k \in 1 .. n - 1 : v[k] = w[k + 1] /\ k + 1 \in 1 .. n
  BY <1>0, NextCommand
<1>2. /\ \A k \in 1 .. n : w[k].dev = target["analog"]
      /\ \A k \in 1 .. n : w[k].op = "rx" => w[k].of = read /\ w[k].arg = expect["analog"]
      /\ \A k \in 1 .. n : w[k].op = "rx" <=> expect["analog"] > 0 /\ k = n
  BY <1>0 DEF TaskTodo, ToRead
<1>3. /\ fifo' = Append(fifo, c) /\ todo'["analog"] = v
      /\ UNCHANGED <<rx, error, expect, target, read, bus, pending>>
      /\ pc'["analog"] = CASE n > 1 -> "poll" [] n = 1 /\ expect["analog"] > 0 -> "receive"
                           [] OTHER -> "stopPoll"
  BY <1>0 DEF Pushed, Move, TypeInv, TypeOK
<1>4. expect["analog"] \in Nat
  BY <1>0, BusAssumption DEF TypeOK
<1> HIDE DEF w, c, n, v
<1>5. /\ c.dev = target["analog"]
      /\ c.op = "rx" => c.of = read /\ c.arg = expect["analog"]
      /\ c.op = "rx" <=> expect["analog"] > 0 /\ n = 1
  <2>1. 1 \in 1 .. n
    BY <1>1
  <2> QED  BY <1>1, <1>2, <2>1
<1>6. CASE n > 1
  <2>1. pc'["analog"] = "poll" /\ n # 1
    BY <1>1, <1>3, <1>6
  <2>2. NoRead'
    BY <1>0, <1>1, <1>3, <1>5, <2>1, PushNoRead
  <2>3. ToRead'
    <3>1. ASSUME NEW k \in 1 .. Len(v)
          PROVE  /\ v[k].op = "rx" => v[k].of = read /\ v[k].arg = expect["analog"]
                 /\ v[k].op = "rx" <=> expect["analog"] > 0 /\ k = Len(v)
      <4>1. k \in 1 .. n - 1 /\ k + 1 \in 1 .. n /\ v[k] = w[k + 1] /\ (k = Len(v) <=> k + 1 = n)
        BY <1>1
      <4> QED  BY <1>2, <4>1
    <3> QED  BY <1>3, <3>1 DEF ToRead
  <2> QED  BY <2>1, <2>2, <2>3 DEF ReadInv
<1>7. CASE n = 1 /\ expect["analog"] > 0
  <2>1. pc'["analog"] = "receive"
    <3>1. ~(n > 1)
      BY <1>7
    <3> QED  BY <1>3, <1>7, <3>1
  <2>2. /\ fifo' \in Seq(Commands) /\ fifo' # <<>> /\ Last(fifo') = c /\ Len(fifo) \in Nat
        /\ Len(fifo') = Len(fifo) + 1 /\ fifo'[Len(fifo) + 1] = c
        /\ \A k \in 1 .. Len(fifo) : fifo'[k] = fifo[k]
    BY <1>0, <1>1, <1>3, PushFifo, Places
  <2>3. rx' = <<>> /\ Len(rx') = 0 /\ \A k \in 1 .. Len(fifo) : fifo[k].op # "rx"
    BY <1>3, EmptySeq DEF NoRead
  <2>4. Owed' = expect["analog"]
    BY <1>5, <1>7, <2>2 DEF Owed
  <2>5. Len(rx') + Owed' = expect'["analog"] /\ expect'["analog"] > 0
    BY <1>3, <1>4, <1>7, <2>3, <2>4
  <2>6. ASSUME NEW k \in 1 .. Len(fifo'), fifo'[k].op = "rx"
        PROVE  k = Len(fifo') /\ fifo'[k].dev = target["analog"] /\ fifo'[k].of = read
    <3>1. k = Len(fifo) + 1 \/ k \in 1 .. Len(fifo)
      BY <2>2
    <3>2. k = Len(fifo) + 1
      BY <2>2, <2>3, <2>6, <3>1
    <3> QED  BY <1>5, <1>7, <2>2, <3>2
  <2>7. Reading'
    BY <1>3, <2>3, <2>5, <2>6 DEF Reading
  <2> QED  BY <2>1, <2>7 DEF Sending, ReadInv
<1>8. CASE n = 1 /\ ~(expect["analog"] > 0)
  <2>1. pc'["analog"] = "stopPoll"
    <3>1. ~(n > 1)
      BY <1>8
    <3> QED  BY <1>3, <1>8, <3>1
  <2>2. NoRead'
    BY <1>0, <1>1, <1>3, <1>5, <1>8, PushNoRead
  <2> QED  BY <2>1, <2>2 DEF Sending, ReadInv
<1>9. n > 1 \/ n = 1
  BY <1>1
<1> QED  BY <1>6, <1>7, <1>8, <1>9

\* The moves of the analog task.
LEMMA AnalogRead ==
    ASSUME BusAllInv, TypeInv', Move("analog")
    PROVE  ReadInv'
<1>0. /\ TypeInv /\ "analog" \in Tasks /\ TypeOK /\ UNCHANGED <<bus, pending, target, read>>
      /\ pc["analog"] # "receive" => NoRead
      /\ pc["analog"] = "receive" => Reading
      /\ Sending("analog") => ToRead
  <2>1. TypeInv /\ ReadInv /\ "analog" \in Tasks /\ TypeOK
    BY DEF BusAllInv, Tasks, TypeInv
  <2> QED  BY <2>1 DEF Move, ReadInv
<1>1. CASE Failed("analog")
  <2>1. pc'["analog"] \in {"stopPoll", "stopAfterError"}
    BY <1>0, <1>1 DEF Failed, TypeOK
  <2>2. NoRead'
    BY <1>1, EmptySeq DEF Failed, NoRead
  <2> QED  BY <2>1, <2>2 DEF Sending, ReadInv
<1>2. CASE Ready("analog")
  <2>1. /\ pc'["analog"] # "receive" /\ pc["analog"] # "receive"
        /\ Sending("analog")' => Sending("analog")
    BY <1>0, <1>2 DEF Ready, TypeOK, Sending
  <2>2. NoRead'
    BY <1>0, <1>2, <2>1 DEF Ready, NoRead
  <2>3. Sending("analog")' => ToRead'
    BY <1>0, <1>2, <2>1 DEF Ready, ToRead
  <2> QED  BY <2>1, <2>2, <2>3 DEF ReadInv
<1>3. CASE TakeByte("analog")
  <2>1. pc["analog"] = "receive"
    BY <1>3 DEF TakeByte
  <2>2. /\ pc'["analog"] = "receive" => Reading'
        /\ pc'["analog"] # "receive" => NoRead'
        /\ pc'["analog"] \in {"receive", "stopPoll"}
    BY <1>0, <1>3, <2>1, TakeByteRead
  <2>3. ~Sending("analog")'
    BY <2>2 DEF Sending
  <2> QED  BY <2>2, <2>3 DEF ReadInv
<1>4. CASE Pushed("analog")
  <2>1. pc["analog"] # "receive" /\ Sending("analog")
    BY <1>4 DEF Pushed, Sending
  <2> QED  BY <1>0, <1>4, <2>1, PushedRead
<1>5. CASE StopPushed("analog")
  <2>1. pc["analog"] # "receive" /\ pc'["analog"] \in {"stopWait", "idle"}
    BY <1>0, <1>5 DEF StopPushed, TypeOK
  <2>2. NoRead'
    BY <1>0, <1>5, <2>1, PushNoRead, CommandIn DEF StopPushed
  <2> QED  BY <2>1, <2>2 DEF Sending, ReadInv
<1>6. CASE Ended("analog")
  <2>1. pc["analog"] # "receive" /\ pc'["analog"] = "idle"
    BY <1>0, <1>6 DEF Ended, TypeOK
  <2>2. NoRead'
    <3>1. CASE error
      <4>1. fifo' = <<StopCmd>> /\ rx' = <<>>
        BY <1>6, <3>1 DEF Ended
      <4>2. Len(fifo') = 1 /\ fifo'[1] = StopCmd
        BY <4>1
      <4> QED  BY <4>1, <4>2, CommandIn DEF NoRead
    <3>2. CASE ~error
      BY <1>0, <1>6, <2>1, <3>2 DEF Ended, NoRead
    <3> QED  BY <3>1, <3>2
  <2> QED  BY <2>1, <2>2 DEF Sending, ReadInv
<1> QED  BY <1>1, <1>2, <1>3, <1>4, <1>5, <1>6 DEF Move

\* The controller fetches bytes for the read of the analog task only.
LEMMA ControllerRead ==
    ASSUME BusAllInv, TypeInv', Controller
    PROVE  ReadInv'
<1>0. /\ TypeInv /\ ChainInv /\ BusInv /\ fifo # <<>> /\ ~error
      /\ UNCHANGED <<taskVars, read, overlapped>>
      /\ StartAcked \/ ByteAcked \/ Released \/ FoundFree \/ ByteReceived
      /\ pc["analog"] # "receive" => NoRead
      /\ pc["analog"] = "receive" => Reading
      /\ Sending("analog") => ToRead
  <2>1. TypeInv /\ ChainInv /\ BusInv /\ ReadInv
    BY DEF BusAllInv
  <2> QED  BY <2>1, Outcomes DEF ReadInv
<1>1. UNCHANGED <<pc, todo, expect, target, read>>
  BY <1>0 DEF taskVars
<1>2. /\ Len(fifo) \in Nat \ {0} /\ 1 \in 1 .. Len(fifo) /\ Len(fifo) \in 1 .. Len(fifo)
      /\ fifo[1] \in Commands /\ Last(fifo) = fifo[Len(fifo)]
  <2>1. Len(fifo) \in Nat \ {0}
    BY <1>0, Places
  <2>2. 1 \in 1 .. Len(fifo) /\ Len(fifo) \in 1 .. Len(fifo)
    BY <2>1
  <2> QED  BY <1>0, <2>1, <2>2, Places
<1>3. Sending("analog")' => ToRead'
  <2>1. Sending("analog")' = Sending("analog") /\ (ToRead => ToRead')
    BY <1>1 DEF Sending, ToRead
  <2> QED  BY <1>0, <2>1
<1>4. ASSUME pc["analog"] # "receive"
      PROVE  NoRead'
  <2>1. NoRead /\ fifo[1].op # "rx"
    BY <1>0, <1>2, <1>4 DEF NoRead
  <2>2. rx' = rx
    BY <1>0, <2>1 DEF StartAcked, ByteAcked, Released, FoundFree, ByteReceived
  <2>3. ASSUME NEW k \in 1 .. Len(fifo')
        PROVE  fifo'[k].op # "rx"
    <3>1. PICK j \in 1 .. Len(fifo) : fifo'[k] = fifo[j] \/ fifo[j].op = "rx"
      BY <1>0, ControllerPlaces
    <3> QED  BY <2>1, <3>1 DEF NoRead
  <2> QED  BY <2>1, <2>2, <2>3 DEF NoRead
<1>5. ASSUME pc["analog"] = "receive"
      PROVE  Reading'
  <2>0. /\ Reading /\ expect["analog"] > 0 /\ Len(rx) + Owed = expect["analog"]
        /\ \A k \in 1 .. Len(fifo) : fifo[k].op = "rx" =>
             k = Len(fifo) /\ fifo[k].dev = target["analog"] /\ fifo[k].of = read
        /\ \A k \in 1 .. Len(rx) : rx[k] = <<target["analog"], read>>
    BY <1>0, <1>5 DEF Reading
  <2>1. ASSUME NEW k \in 1 .. Len(fifo'), fifo'[k].op = "rx"
        PROVE  k = Len(fifo') /\ fifo'[k].dev = target["analog"] /\ fifo'[k].of = read
    <3>1. PICK j \in 1 .. Len(fifo) :
            /\ k = Len(fifo') <=> j = Len(fifo)
            /\ \/ fifo'[k] = fifo[j]
               \/ /\ fifo[j].op = "rx"
                  /\ fifo'[k] = RxDataCmd(fifo[j].dev, fifo[j].arg - 1, fifo[j].of)
      BY <1>0, ControllerPlaces
    <3>2. fifo[j].op = "rx" /\ fifo'[k].dev = fifo[j].dev /\ fifo'[k].of = fifo[j].of
      BY <2>1, <3>1 DEF RxDataCmd
    <3> QED  BY <2>0, <3>1, <3>2
  <2>2. CASE ByteReceived
    <3> DEFINE S == Devices \X {0, 1}
               y == <<bus.dev, fifo[1].of>>
               c == fifo[1]
               n == Len(rx)
    <3>1. /\ c.op = "rx" /\ 1 = Len(fifo) /\ c.dev = target["analog"] /\ c.of = read
          /\ bus # Free
      BY <1>2, <2>0, <2>2 DEF ByteReceived
    <3>2. bus.dev = c.dev
      BY <1>0, <3>1, HeadFits
    <3>3. y = <<target["analog"], read>> /\ bus.dev \in Devices /\ c.of \in {0, 1}
          /\ c.arg \in 1 .. ReadBytes
      BY <1>0, <1>2, <3>1, <3>2, CommandKinds, ExecutedKinds
    <3>4. y \in S
      BY <3>3
    <3>5. rx \in Seq(S) /\ rx' = Append(rx, y)
      BY <1>0, <2>2 DEF ByteReceived, TypeInv
    <3>6. Owed = c.arg
      BY <1>0, <1>2, <3>1 DEF Owed
    <3>7. Owed' = c.arg - 1
      <4>1. CASE c.arg = 1
        <5>1. fifo' = Tail(fifo)
          BY <2>2, <4>1 DEF ByteReceived
        <5>2. Len(fifo') = 1 - 1
          BY <1>0, <3>1, <5>1, PopFifo DEF Popped
        <5>3. fifo' = <<>>
          <6>1. fifo' \in Seq(Commands) /\ Len(fifo') = 0
            BY <5>2 DEF TypeInv
          <6> QED  BY <6>1, SeqEnds
        <5> QED  BY <4>1, <5>3 DEF Owed
      <4>2. CASE c.arg # 1
        <5>1. Shortened
          BY <2>2, <4>2 DEF ByteReceived, Shortened
        <5>2. /\ fifo' # <<>> /\ Len(fifo') = 1
              /\ fifo'[1] = RxDataCmd(c.dev, c.arg - 1, c.of)
          BY <1>0, <3>1, <5>1, ShortenFifo
        <5>3. Last(fifo') = fifo'[1]
          BY <5>2 DEF Last
        <5> QED  BY <5>2, <5>3 DEF Owed, RxDataCmd
      <4> QED  BY <4>1, <4>2
    <3> HIDE DEF S, y
    <3>8. /\ Len(rx') = Len(rx) + 1 /\ rx'[Len(rx) + 1] = y /\ Len(rx) \in Nat
          /\ \A k \in 1 .. Len(rx) : rx'[k] = rx[k]
      BY <3>4, <3>5, AppendProperties, LenProperties
    <3>9. n \in Nat /\ c.arg \in Nat /\ n + c.arg = expect["analog"]
      BY <2>0, <3>3, <3>6, <3>8, BusAssumption
    <3> HIDE DEF n, c
    <3>10. n + 1 + (c.arg - 1) = expect["analog"]
      BY <3>9
    <3>11. Len(rx') + Owed' = expect["analog"]
      <4>1. Len(rx') = n + 1 /\ Owed' = c.arg - 1
        BY <3>7, <3>8 DEF n, c
      <4> QED  BY <3>10, <4>1
    <3>12. \A k \in 1 .. n + 1 : k = n + 1 \/ k \in 1 .. n
      BY <3>9
    <3>13. \A k \in 1 .. Len(rx') : rx'[k] = <<target["analog"], read>>
      BY <2>0, <3>3, <3>8, <3>12 DEF n, y, c
    <3> QED  BY <1>1, <2>0, <2>1, <3>11, <3>13 DEF Reading
  <2>3. CASE ~ByteReceived
    <3>1. rx' = rx /\ Popped /\ (~error' => fifo[1].op # "rx")
      BY <1>0, <2>3 DEF StartAcked, ByteAcked, Released, FoundFree, Popped
    <3>2. ASSUME ~error'
          PROVE  Owed' = Owed
      <4>1. fifo' # <<>> => Last(fifo') = Last(fifo)
        BY <1>0, <3>1, PopFifo
      <4>2. fifo' = <<>> => Len(fifo) = 1
        BY <1>0, <3>1, PopFifo
      <4>3. fifo' = <<>> => Last(fifo).op # "rx"
        BY <1>2, <3>1, <3>2, <4>2
      <4> QED  BY <1>0, <4>1, <4>3 DEF Owed
    <3> QED  BY <1>1, <2>0, <2>1, <3>1, <3>2 DEF Reading
  <2> QED  BY <2>2, <2>3
<1> QED  BY <1>1, <1>3, <1>4, <1>5 DEF ReadInv

\* A transfer begins with nothing being received.
LEMMA BeginRead ==
    ASSUME BusAllInv, TypeInv', NEW t \in Tasks, NEW x \in Transfers(t), Begin(t, x)
    PROVE  ReadInv'
<1>0. /\ TypeInv /\ TypeOK /\ ReadInv
  BY DEF BusAllInv, TypeInv
<1>1. /\ pc' = [pc EXCEPT ![t] = "poll"] /\ pc[t] = "idle" /\ Runs(t) /\ UNCHANGED <<fifo, rx>>
      /\ todo' = [todo EXCEPT ![t] = x.commands] /\ expect' = [expect EXCEPT ![t] = x.bytes]
  BY DEF Begin, At, Goto
<1>2. pc["analog"] = "idle" /\ pc'["analog"] # "receive"
  BY <1>0, <1>1 DEF Runs, Tasks, TypeOK
<1>3. NoRead
  BY <1>0, <1>2 DEF ReadInv
<1>4. NoRead'
  BY <1>1, <1>3 DEF NoRead
<1>5. Sending("analog")' => ToRead'
  <2>1. CASE t = "logger"
    BY <1>0, <1>1, <1>2, <2>1 DEF Sending, TypeOK, Tasks
  <2>2. CASE t = "analog"
    <3>1. Shape("analog", x) /\ read' = 1 - read
      BY <1>0, <2>2, TransferShape DEF TypeOK, Begin
    <3>2. todo'["analog"] = x.commands /\ expect'["analog"] = x.bytes
      BY <1>0, <1>1, <2>2 DEF TypeInv, TypeOK, Tasks
    <3> QED  BY <3>1, <3>2 DEF Shape, ToRead
  <2> QED  BY <2>1, <2>2 DEF Tasks
<1> QED  BY <1>2, <1>4, <1>5 DEF ReadInv

-----------------------------------------------------------------------------
(* An undisturbed burst. *)

\* The analog task has cut into the burst, or there is none.
LEMMA AnalogBurst ==
    ASSUME BusAllInv, Move("analog")
    PROVE  BurstInv'
<1>0. TypeOK /\ BurstInv /\ pc["analog"] # "idle"
  BY DEF BusAllInv, TypeInv, Move, Failed, Ready, TakeByte, Pushed, StopPushed, Ended
<1>1. pc["logger"] = "idle" \/ overlapped
  BY <1>0 DEF TypeOK, BurstInv
<1>2. pc'["logger"] = pc["logger"] /\ result'["logger"] = result["logger"] /\ overlapped' = overlapped
  BY <1>0 DEF Move, Failed, Ready, TakeByte, Pushed, StopPushed, Ended, TypeOK, Tasks
<1>3. ~Undisturbed'
  BY <1>1, <1>2 DEF Undisturbed
<1> QED  BY <1>0, <1>1, <1>2, <1>3 DEF BurstInv

\* Every byte of the burst is pushed behind one that the bus has taken or will take.
LEMMA PushedStreams ==
    ASSUME BusAllInv, Move("logger"), Pushed("logger"), Streaming
    PROVE  Streaming'
<1> DEFINE w == todo["logger"]
           c == Head(todo["logger"])
           n == Len(todo["logger"])
<1>0. /\ TypeInv /\ TodoInv /\ LoggerTodo /\ "logger" \in Tasks /\ TypeOK /\ Sending("logger")
  BY DEF BusAllInv, Tasks, TypeInv, Pushed, Sending, TodoInv
<1>1. /\ n \in Nat \ {0} /\ c = w[1] /\ c \in Commands /\ c.op # "stop" /\ w # <<>>
  <2>1. w # <<>>
    BY <1>0 DEF TodoInv, TaskTodo
  <2> QED  BY <1>0, <2>1, NextCommand
<1>2. /\ Len(fifo') = Len(fifo) + 1 /\ fifo'[Len(fifo) + 1] = c /\ Len(fifo) \in Nat
      /\ \A k \in 1 .. Len(fifo) : fifo'[k] = fifo[k]
      /\ \A k \in 1 .. Len(fifo) + 1 : Prev(k)' = Prev(k)
      /\ Newest' = c
  BY <1>0, <1>1, PushFifo, Places DEF Pushed, Move
<1>3. ASSUME NEW k \in 1 .. Len(fifo'), fifo'[k].op = "data"
      PROVE  Prev(k)'.op # "stop"
  <2>1. CASE k \in 1 .. Len(fifo)
    <3>1. k \in 1 .. Len(fifo) + 1
      BY <1>2
    <3> QED  BY <1>2, <1>3, <2>1, <3>1 DEF Streaming
  <2>2. CASE k = Len(fifo) + 1
    <3>1. Prev(k)' = Newest
      BY <1>2, <2>2 DEF Newest
    <3> QED  BY <1>0, <1>2, <1>3, <2>2, <3>1 DEF Streaming
  <2> QED  BY <1>2, <2>1, <2>2
<1>4. pc'["logger"] = CASE n > 1 -> "poll" [] n = 1 /\ expect["logger"] > 0 -> "receive"
                        [] OTHER -> "stopPoll"
  BY <1>0 DEF Pushed, TypeOK
<1> HIDE DEF n, c, w
<1>5. pc'["logger"] \in {"stopPoll", "stopPush"} => Newest' = LastByteOfBurst
  <2>1. ASSUME pc'["logger"] \in {"stopPoll", "stopPush"}
        PROVE  n = 1
    <3>1. ~(n > 1)
      BY <1>4, <2>1
    <3> QED  BY <1>1, <3>1
  <2>2. n = 1 => c = LastByteOfBurst
    BY <1>0, <1>1 DEF LoggerTodo, Last, w, n
  <2> QED  BY <1>2, <2>1, <2>2
<1>6. pc'["logger"] # "stopWait"
  BY <1>4
<1> QED  BY <1>1, <1>2, <1>3, <1>5, <1>6 DEF Streaming

\* The data logger goes on with its burst, or fails.
LEMMA LoggerBurst ==
    ASSUME BusAllInv, Move("logger")
    PROVE  BurstInv'
<1>0. /\ TypeInv /\ TypeOK /\ TodoInv /\ LoggerTodo /\ BurstInv /\ pc["analog"] = "idle"
      /\ overlapped' = overlapped /\ "logger" \in Tasks
  BY DEF BusAllInv, TypeInv, Move, Runs, Tasks, TodoInv
<1>1. pc'["analog"] = "idle"
  BY <1>0 DEF Move, Failed, Ready, TakeByte, Pushed, StopPushed, Ended, TypeOK, Tasks
<1>2. pc'["logger"] = "stopAfterError" => result'["logger"] = "error"
  <2>1. pc'["logger"] = "stopAfterError" => Failed("logger")
    BY <1>0 DEF Move, Ready, TakeByte, Pushed, StopPushed, Ended, TypeOK
  <2> QED  BY <1>0, <2>1 DEF Failed, TypeOK
<1>3. ASSUME Undisturbed'
      PROVE  Streaming'
  <2>1. CASE Failed("logger")
    BY <1>0, <1>3, <2>1 DEF Failed, Undisturbed, TypeOK
  <2>2. CASE TakeByte("logger")
    BY <1>0, <2>2 DEF TakeByte, LoggerTodo
  <2>3. CASE Ended("logger")
    BY <1>0, <1>3, <2>3 DEF Ended, Undisturbed, TypeOK
  <2>4. CASE Ready("logger")
    <3>1. Undisturbed
      BY <1>0, <1>3, <2>4 DEF Ready, Undisturbed
    <3>2. Streaming
      BY <1>0, <3>1 DEF BurstInv
    <3>3. /\ Newest' = Newest /\ fifo' = fifo /\ todo' = todo
          /\ \A k \in 1 .. Len(fifo) : Prev(k)' = Prev(k)
      BY <2>4, SameFifo DEF Ready, Move
    <3>4. /\ pc["logger"] = "poll" => pc'["logger"] = "push"
          /\ pc["logger"] # "poll" => pc["logger"] = "stopPoll" /\ pc'["logger"] = "stopPush"
      BY <1>0, <2>4 DEF Ready, TypeOK
    <3> QED  BY <3>2, <3>3, <3>4 DEF Streaming, Sending
  <2>5. CASE Pushed("logger")
    <3>1. Undisturbed
      BY <1>0, <1>3, <2>5 DEF Pushed, Undisturbed
    <3>2. Streaming
      BY <1>0, <3>1 DEF BurstInv
    <3> QED  BY <2>5, <3>2, PushedStreams
  <2>6. CASE StopPushed("logger")
    <3>1. pc["logger"] = "stopPush" /\ pc'["logger"] = "stopWait"
      BY <1>0, <1>3, <2>6 DEF StopPushed, Undisturbed, TypeOK
    <3>2. Undisturbed
      BY <1>0, <1>3, <2>6, <3>1 DEF StopPushed, Undisturbed
    <3>3. Streaming
      BY <1>0, <3>2 DEF BurstInv
    <3>4. /\ Len(fifo') = Len(fifo) + 1 /\ fifo'[Len(fifo) + 1] = StopCmd /\ Len(fifo) \in Nat
          /\ \A k \in 1 .. Len(fifo) : fifo'[k] = fifo[k]
          /\ \A k \in 1 .. Len(fifo) + 1 : Prev(k)' = Prev(k)
          /\ fifo' # <<>> /\ Last(fifo') = StopCmd
      BY <1>0, <2>6, PushFifo, Places, CommandIn DEF StopPushed, Move
    <3>5. ASSUME NEW k \in 1 .. Len(fifo'), fifo'[k].op = "data"
          PROVE  Prev(k)'.op # "stop"
      <4>1. k \in 1 .. Len(fifo) + 1 /\ (k = Len(fifo) + 1 \/ k \in 1 .. Len(fifo))
        BY <3>4
      <4>2. k # Len(fifo) + 1
        BY <3>4, <3>5, CommandIn
      <4> QED  BY <3>3, <3>4, <3>5, <4>1, <4>2 DEF Streaming
    <3>6. Prev(Len(fifo))' = LastByteOfBurst
      <4>1. PICK n \in Nat : n = Len(fifo) /\ Len(fifo') = n + 1
        BY <3>4
      <4>2. n + 1 \in 1 .. n + 1
        BY <4>1
      <4>3. Prev(n + 1)' = Prev(n + 1) /\ Prev(n + 1) = Newest
        BY <3>4, <4>1, <4>2 DEF Newest
      <4>4. Newest = LastByteOfBurst
        BY <3>1, <3>3 DEF Streaming
      <4>5. Prev(Len(fifo))' = Prev(n + 1)'
        BY <4>1 DEF Prev
      <4> QED  BY <4>3, <4>4, <4>5
    <3> QED  BY <3>1, <3>4, <3>5, <3>6 DEF Streaming, Sending
  <2> QED  BY <2>1, <2>2, <2>3, <2>4, <2>5, <2>6 DEF Move
<1> QED  BY <1>1, <1>2, <1>3 DEF BurstInv

\* What is left of the last byte of the burst, when nothing failed, is that byte.
LEMMA LeavesLastByte ==
    ASSUME NEW a, Leaves(a, LastByteOfBurst), ~error'
    PROVE  a = LastByteOfBurst
<1>1. LastByteOfBurst.op = "data" /\ LastByteOfBurst.dev = "eeprom"
  BY CommandIn DEF LastByteOfBurst
<1> QED  BY <1>1 DEF Leaves, Like

\* The STOP behind the last byte of the burst makes the EEPROM store it.
LEMMA StopStores ==
    ASSUME TypeInv, Controller, ~error', fifo[1] = StopCmd, Executed = LastByteOfBurst
    PROVE  Len(stored') = BurstBytes
<1>0. /\ fifo # <<>> /\ ~error
      /\ StartAcked \/ ByteAcked \/ Released \/ FoundFree \/ ByteReceived
      /\ fifo[1].op = "stop" /\ LastByteOfBurst.op = "data" /\ LastByteOfBurst.arg = BurstBytes
      /\ BurstBytes \in Nat
  BY Outcomes, CommandIn, BusAssumption DEF LastByteOfBurst
<1>1. bus # Free /\ pending # <<>> /\ Len(pending) - 1 = BurstBytes
  <2>1. bus # Free
    BY <1>0, ExecutedKinds, CommandIn
  <2>2. pending # <<>>
    <3>1. bus.dev \in Devices /\ bus.dir \in {"write", "read"}
      BY <2>1, ExecutedKinds
    <3>2. StartCmd(bus.dev, bus.dir).op = "start"
      BY <3>1, CommandIn
    <3> QED  BY <1>0, <2>1, <3>2, ExecutedKinds
  <2> QED  BY <1>0, <2>1, <2>2, ExecutedKinds
<1>2. Released
  BY <1>0, <1>1 DEF StartAcked, ByteAcked, FoundFree, ByteReceived
<1>3. stored' = Tail(pending)
  BY <1>1, <1>2 DEF Released, Store
<1>4. Len(Tail(pending)) = Len(pending) - 1
  <2> DEFINE S == 0 .. BurstBytes
  <2>1. pending \in Seq(S)
    BY DEF TypeInv, TypeOK
  <2> HIDE DEF S
  <2> QED  BY <1>1, <2>1, HeadTailProperties
<1> QED  BY <1>1, <1>3, <1>4

\* The controller carries out an undisturbed burst byte by byte, and its STOP.
LEMMA ControllerBurst ==
    ASSUME BusAllInv, Controller
    PROVE  BurstInv'
<1>0. /\ TypeInv /\ ChainInv /\ BusInv /\ BurstInv /\ fifo # <<>> /\ ~error
      /\ UNCHANGED <<taskVars, read, overlapped>>
  BY Outcomes DEF BusAllInv
<1>1. UNCHANGED <<pc, todo, result, overlapped>>
  BY <1>0 DEF taskVars
<1>2. ASSUME Undisturbed'
      PROVE  Streaming'
  <2>1. Streaming /\ ~error'
    <3>1. Undisturbed /\ ~error'
      BY <1>0, <1>1, <1>2 DEF Undisturbed
    <3> QED  BY <1>0, <3>1 DEF BurstInv
  <2>2. ASSUME NEW a, NEW c, Leaves(a, c), c.op # "stop"
        PROVE  a.op # "stop"
    BY <2>1, <2>2 DEF Leaves, Like
  <2>3. Leaves(Newest', Newest)
    BY <1>0, ControllerNewest
  <2>4. ASSUME NEW k \in 1 .. Len(fifo'), fifo'[k].op = "data"
        PROVE  Prev(k)'.op # "stop"
    <3>1. PICK j \in 1 .. Len(fifo) :
            /\ Leaves(Prev(k)', Prev(j))
            /\ \/ fifo'[k] = fifo[j]
               \/ fifo'[k] = RxDataCmd(fifo[j].dev, fifo[j].arg - 1, fifo[j].of)
      BY <1>0, ControllerPlaces
    <3>2. fifo'[k] = fifo[j]
      BY <2>4, <3>1 DEF RxDataCmd
    <3>3. Prev(j).op # "stop"
      BY <2>1, <2>4, <3>2 DEF Streaming
    <3> QED  BY <2>2, <3>1, <3>3
  <2>5. Sending("logger")' /\ Head(todo'["logger"]).op = "data" => Newest'.op # "stop"
    <3>1. Sending("logger") /\ Head(todo["logger"]).op = "data" => Newest.op # "stop"
      BY <2>1 DEF Streaming
    <3> QED  BY <1>1, <2>2, <2>3, <3>1 DEF Sending
  <2>6. pc'["logger"] \in {"stopPoll", "stopPush"} => Newest' = LastByteOfBurst
    <3>1. pc["logger"] \in {"stopPoll", "stopPush"} => Newest = LastByteOfBurst
      BY <2>1 DEF Streaming
    <3> QED  BY <1>1, <2>1, <2>3, <3>1, LeavesLastByte
  <2>7. ASSUME pc'["logger"] = "stopWait"
        PROVE  \/ fifo' = <<>> /\ Len(stored') = BurstBytes
               \/ fifo' # <<>> /\ Last(fifo') = StopCmd /\ Prev(Len(fifo))' = LastByteOfBurst
    <3>1. Last(fifo) = StopCmd /\ Prev(Len(fifo)) = LastByteOfBurst
      BY <1>0, <1>1, <2>1, <2>7 DEF Streaming
    <3>2. Len(fifo) \in Nat \ {0} /\ Last(fifo) = fifo[Len(fifo)]
      BY <1>0, Places
    <3>3. CASE Len(fifo) = 1
      <4>1. fifo[1] = StopCmd /\ Executed = LastByteOfBurst
        BY <3>1, <3>2, <3>3 DEF Prev
      <4>2. Popped
        BY <1>0, <4>1, Carried, CommandIn DEF Shortened
      <4>3. fifo' = <<>>
        BY <1>0, <3>3, <4>2, PopFifo
      <4> QED  BY <1>0, <2>1, <4>1, <4>3, StopStores
    <3>4. CASE Len(fifo) # 1
      <4>1. fifo' # <<>> /\ Last(fifo') = Last(fifo) /\ fifo' \in Seq(Commands)
        <5>1. CASE Popped
          BY <1>0, <3>4, <5>1, PopFifo
        <5>2. CASE Shortened
          <6>1. \A n \in Nat \ {0} : n # 1 => n > 1
            OBVIOUS
          <6>2. Len(fifo) > 1
            BY <3>2, <3>4, <6>1
          <6> QED  BY <1>0, <5>2, <6>2, ShortenFifo
        <5> QED  BY <1>0, <5>1, <5>2, Carried
      <4>2. PICK m \in Nat : m = Len(fifo') /\ m \in 1 .. Len(fifo')
        <5>1. Len(fifo') \in Nat \ {0}
          BY <4>1, EmptySeq
        <5> QED  BY <5>1
      <4>3. PICK j \in 1 .. Len(fifo) :
              (m = Len(fifo') <=> j = Len(fifo)) /\ Leaves(Prev(m)', Prev(j))
        BY <1>0, <4>2, ControllerPlaces
      <4>4. Leaves(Prev(m)', LastByteOfBurst)
        BY <3>1, <4>2, <4>3
      <4>5. Prev(m)' = LastByteOfBurst
        BY <2>1, <4>4, LeavesLastByte
      <4>6. Prev(Len(fifo))' = Prev(m)'
        BY <4>2 DEF Prev
      <4> QED  BY <3>1, <4>1, <4>5, <4>6
    <3> QED  BY <3>3, <3>4
  <2> QED  BY <2>4, <2>5, <2>6, <2>7 DEF Streaming
<1> QED  BY <1>0, <1>1, <1>2 DEF BurstInv

\* A burst begins undisturbed, and the analog task disturbs it.
LEMMA BeginBurst ==
    ASSUME BusAllInv, NEW t \in Tasks, NEW x \in Transfers(t), Begin(t, x)
    PROVE  BurstInv'
<1>0. TypeInv /\ TypeOK /\ RoomInv /\ BurstInv
  BY DEF BusAllInv, TypeInv
<1>1. /\ pc' = [pc EXCEPT ![t] = "poll"] /\ pc[t] = "idle" /\ Runs(t) /\ fifo' = fifo
      /\ todo' = [todo EXCEPT ![t] = x.commands] /\ result' = [result EXCEPT ![t] = "success"]
  BY DEF Begin, At, Goto
<1>2. CASE t = "logger"
  <2>1. /\ pc["analog"] = "idle" /\ pc'["analog"] = "idle" /\ pc'["logger"] = "poll"
        /\ todo'["logger"] = x.commands
    BY <1>0, <1>1, <1>2 DEF Runs, TypeInv, TypeOK, Tasks
  <2>2. \A k \in 1 .. Len(fifo) : fifo[k].op = "stop"
    BY <1>0, <1>1, <1>2, <2>1 DEF RoomInv
  <2>3. Head(todo'["logger"]).op # "data"
    <3>1. Shape(t, x)
      BY <1>0, TransferShape DEF TypeOK
    <3> DEFINE w == x.commands
    <3>2. w \in Seq(Commands \ {StopCmd}) /\ Len(w) > 1 /\ w[1].op = "start"
      BY <3>1 DEF Shape
    <3> HIDE DEF w
    <3>3. w # <<>> /\ Head(w) = w[1]
      <4>1. (w = <<>> <=> Len(w) = 0) /\ (w # <<>> => Head(w) = w[1])
        BY <3>2, SeqEnds
      <4> QED  BY <3>2, <4>1
    <3> QED  BY <2>1, <3>2, <3>3 DEF w
  <2>4. Streaming'
    BY <1>1, <2>1, <2>2, <2>3 DEF Streaming
  <2> QED  BY <2>1, <2>4 DEF BurstInv
<1>3. CASE t = "analog"
  <2>1. pc'["logger"] = pc["logger"] /\ result'["logger"] = result["logger"]
    BY <1>0, <1>1, <1>3 DEF TypeOK, Tasks
  <2>2. pc'["logger"] = "idle" \/ overlapped'
    BY <1>3, <2>1 DEF Begin
  <2>3. ~Undisturbed'
    BY <2>2 DEF Undisturbed
  <2> QED  BY <1>0, <2>1, <2>2, <2>3 DEF BurstInv
<1> QED  BY <1>2, <1>3 DEF Tasks
-----------------------------------------------------------------------------
(* The theorems. *)

\* Nothing changes but the result of a task that has nothing under way.
LEMMA IdleSteps ==
    ASSUME BusAllInv, UNCHANGED vars \/ \E t \in Tasks : BeginBusy(t)
    PROVE  BusAllInv'
<1>0. TypeInv /\ ChainInv /\ TodoInv /\ BusInv /\ RoomInv /\ ReadInv /\ BurstInv
  BY DEF BusAllInv
<1>1. /\ UNCHANGED <<pc, todo, expect, target, fifo, rx, error, stopped, bus, pending, stored, read,
                     overlapped>>
      /\ result' \in [Tasks -> {"success", "error"}]
      /\ pc["logger"] # "idle" => result'["logger"] = result["logger"]
  <2>1. result \in [Tasks -> {"success", "error"}]
    BY <1>0 DEF TypeInv, TypeOK
  <2>2. CASE UNCHANGED vars
    BY <2>1, <2>2 DEF vars, taskVars, hwVars
  <2>3. ASSUME NEW t \in Tasks, BeginBusy(t)
        PROVE  /\ UNCHANGED <<pc, todo, expect, target, fifo, rx, error, stopped, bus, pending,
                               stored, read, overlapped>>
               /\ result' \in [Tasks -> {"success", "error"}]
               /\ pc["logger"] # "idle" => result'["logger"] = result["logger"]
    BY <2>1, <2>3 DEF BeginBusy, At, Fail, hwVars, Tasks
  <2> QED  BY <2>2, <2>3
<1>2. Newest' = Newest /\ Executed' = Executed /\ \A k \in 1 .. Len(fifo) : Prev(k)' = Prev(k)
  BY <1>1, SameFifo
<1>3. TypeInv'
  BY <1>0, <1>1 DEF TypeInv, TypeOK
<1>4. ChainInv' /\ BusInv'
  BY <1>0, <1>1, <1>2 DEF ChainInv, BusInv
<1>5. TodoInv'
  BY <1>0, <1>1, <1>2 DEF TodoInv, TaskTodo, LoggerTodo, Sending, Runs
<1>6. RoomInv'
  BY <1>0, <1>1, <1>2 DEF RoomInv, Runs
<1>7. ReadInv'
  BY <1>0, <1>1 DEF ReadInv, NoRead, Reading, ToRead, Owed, Sending
<1>8. BurstInv'
  <2>1. Streaming => Streaming'
    BY <1>1, <1>2 DEF Streaming, Sending, Prev
  <2>2. Undisturbed' => Undisturbed
    BY <1>1 DEF Undisturbed
  <2>3. pc["logger"] = "stopAfterError" => result'["logger"] = result["logger"]
    BY <1>1
  <2> QED  BY <1>0, <1>1, <2>1, <2>2, <2>3 DEF BurstInv
<1> QED  BY <1>3, <1>4, <1>5, <1>6, <1>7, <1>8 DEF BusAllInv

\* Every step keeps the invariant.
LEMMA BusStep ==
    ASSUME BusAllInv, [Next]_vars
    PROVE  BusAllInv'
<1>1. ASSUME NEW t \in Tasks, NEW x \in Transfers(t), Begin(t, x)
      PROVE  BusAllInv'
  BY <1>1, BeginTodo, BeginRoom, BeginRead, BeginBurst DEF BusAllInv
<1>2. ASSUME NEW t \in Tasks, LPI2C_MasterTransferBlocking(t)
      PROVE  BusAllInv'
  <2>1. Move(t)
    BY <1>2, Moves
  <2>2. TypeInv'
    BY <1>2, TaskType
  <2>3. ReadInv' /\ BurstInv'
    <3>1. CASE t = "logger"
      BY <2>1, <2>2, <3>1, LoggerRead, LoggerBurst
    <3>2. CASE t = "analog"
      BY <2>1, <2>2, <3>2, AnalogRead, AnalogBurst
    <3> QED  BY <3>1, <3>2 DEF Tasks
  <2> QED  BY <2>1, <2>2, <2>3, MoveChain, MoveTodo, MoveBus, MoveRoom DEF BusAllInv
<1>3. CASE Controller
  <2>1. TypeInv' /\ ChainInv'
    BY <1>3, ControllerType, ControllerChain DEF BusAllInv
  <2> QED
    BY <1>3, <2>1, ControllerTodo, ControllerBus, ControllerRoom, ControllerRead, ControllerBurst
       DEF BusAllInv
<1>4. CASE UNCHANGED vars \/ \E t \in Tasks : BeginBusy(t)
  BY <1>4, IdleSteps
<1>5. ASSUME NEW t \in Tasks, PollAgain(t)
      PROVE  BusAllInv'
  BY <1>5, IdleSteps DEF PollAgain
<1> QED  BY <1>1, <1>2, <1>3, <1>4, <1>5 DEF Next

\* The program starts in the invariant.
LEMMA BusInit ==
    ASSUME Init
    PROVE  BusAllInv
<1>0. /\ FifoSize \in Nat \ {0, 1} /\ ReadBytes \in Nat \ {0} /\ BurstBytes \in Nat
      /\ Len(<<>>) = 0 /\ \A S : <<>> \in Seq(S)
  BY BusAssumption, EmptySeq
<1>1. /\ pc["logger"] = "idle" /\ pc["analog"] = "idle" /\ \A t \in Tasks : pc[t] = "idle"
      /\ \A t \in Tasks : todo[t] = <<>> /\ expect["logger"] = 0
      /\ fifo = <<>> /\ rx = <<>> /\ ~error /\ bus = Free /\ pending = <<>> /\ stored = <<>>
      /\ Len(fifo) = 0 /\ Len(rx) = 0 /\ Len(pending) = 0 /\ Len(stored) = 0
  BY <1>0 DEF Init, Tasks
<1>2. TypeInv
  <2>1. expect \in [Tasks -> 0 .. ReadBytes] /\ target \in [Tasks -> Devices]
    BY <1>0 DEF Init, Devices
  <2>2. todo \in [Tasks -> Seq(Commands \ {StopCmd})]
    BY <1>0 DEF Init
  <2>3. fifo \in Seq(Commands) /\ rx \in Seq(Devices \X {0, 1})
    BY <1>0, <1>1
  <2>4. /\ pc \in [Tasks -> Points] /\ result \in [Tasks -> {"success", "error"}]
        /\ error \in BOOLEAN /\ stopped \in BOOLEAN /\ read \in {0, 1} /\ overlapped \in BOOLEAN
    BY DEF Init, Points
  <2>5. pending \in Seq(0 .. BurstBytes) /\ stored \in Seq(1 .. BurstBytes)
    BY <1>0, <1>1
  <2>6. Len(fifo) <= FifoSize /\ Len(rx) <= FifoSize
    BY <1>0, <1>1
  <2> QED  BY <1>1, <2>1, <2>2, <2>3, <2>4, <2>5, <2>6 DEF TypeInv, TypeOK, Points
<1>3. ChainInv /\ RoomInv
  <2>1. \A k \in 1 .. Len(fifo) : FALSE
    BY <1>1
  <2> QED  BY <1>1, <2>1 DEF ChainInv, RoomInv
<1>4. TodoInv
  <2>1. ASSUME NEW t \in Tasks
        PROVE  TaskTodo(t)
    <3>1. ~Sending(t) /\ Len(todo[t]) = 0
      BY <1>0, <1>1 DEF Sending
    <3>2. (\A k \in 1 .. Len(todo[t]) : FALSE) /\ (\A k \in 1 .. Len(todo[t]) - 1 : FALSE)
      BY <3>1
    <3> QED  BY <3>1, <3>2 DEF TaskTodo
  <2>2. LoggerTodo
    <3>1. todo["logger"] = <<>> /\ Len(todo["logger"]) = 0
      BY <1>0, <1>1 DEF Tasks
    <3>2. \A k \in 1 .. Len(todo["logger"]) : FALSE
      BY <3>1
    <3> QED  BY <1>1, <3>1, <3>2 DEF LoggerTodo, Tasks
  <2> QED  BY <2>1, <2>2 DEF TodoInv
<1>5. BusInv
  <2>1. (\A k \in 1 .. Len(pending) : FALSE) /\ (\A k \in 1 .. Len(stored) : FALSE)
    BY <1>1
  <2> QED  BY <1>0, <1>1, <2>1 DEF BusInv
<1>6. ReadInv
  <2>1. \A k \in 1 .. Len(fifo) : FALSE
    BY <1>1
  <2> QED  BY <1>1, <1>2, <2>1 DEF NoRead, Sending, ReadInv
<1>7. BurstInv
  BY <1>1 DEF Undisturbed, BurstInv
<1> QED  BY <1>2, <1>3, <1>4, <1>5, <1>6, <1>7 DEF BusAllInv

\* Nothing but the steps of the two tasks and the controller changes the state.
LEMMA BusInvariant == Spec => []BusAllInv
<1>1. Init => BusAllInv
  BY BusInit
<1>2. BusAllInv /\ [Next]_vars => BusAllInv'
  BY BusStep
<1> QED  BY <1>1, <1>2, PTL DEF Spec

\* The FIFOs never overflow, the tasks and the controller keep their types, for every
\* size of the FIFO from two on and of the transfers.
THEOREM TypeCorrect == Spec => []TypeOK
<1>1. BusAllInv => TypeOK
  BY DEF BusAllInv, TypeInv
<1> QED  BY <1>1, BusInvariant, PTL

\* No device receives a byte, or is read, for a transfer that addressed another one,
\* wherever the analog task cuts into a burst of the data logger.
THEOREM NoByteGoesAstray == Spec => []NoForeignByte
<1>1. ASSUME BusAllInv
      PROVE  NoForeignByte
  <2>1. ASSUME fifo # <<>>, bus # Free, Head(fifo).op \in {"data", "rx"}
        PROVE  Head(fifo).dev = bus.dev
    <3>1. TypeInv /\ ChainInv
      BY <1>1 DEF BusAllInv
    <3>2. Head(fifo) = fifo[1]
      BY <2>1, <3>1, Places
    <3> QED  BY <2>1, <3>1, <3>2, HeadFits
  <2> QED  BY <2>1 DEF NoForeignByte
<1> QED  BY <1>1, BusInvariant, PTL

\* The analog task takes only bytes of its own device and of the read under way.
THEOREM ReadsTheirOwn == Spec => []ReadsAreOwn
<1>1. ASSUME BusAllInv
      PROVE  ReadsAreOwn
  <2> DEFINE S == Devices \X {0, 1}
  <2>1. rx \in Seq(S) /\ ReadInv
    BY <1>1 DEF BusAllInv, TypeInv
  <2> HIDE DEF S
  <2>2. DOMAIN rx = 1 .. Len(rx)
    BY <2>1, LenProperties
  <2> QED  BY <2>1, <2>2 DEF ReadInv, Reading, ReadsAreOwn
<1> QED  BY <1>1, BusInvariant, PTL

\* A burst that is reported written, and that the analog task did not cut into, is in
\* the EEPROM from its first byte to its last.
THEOREM BurstIsStored == Spec => []SuccessIsStored
<1>1. ASSUME BusAllInv
      PROVE  SuccessIsStored
  <2> DEFINE b == [k \in 1 .. BurstBytes |-> k]
  <2>0. /\ stored \in Seq(1 .. BurstBytes) /\ BurstBytes \in Nat /\ Len(stored) <= BurstBytes
        /\ \A k \in 1 .. Len(stored) : stored[k] = k
        /\ BurstInv
    BY <1>1, BusAssumption DEF BusAllInv, TypeInv, TypeOK, BusInv
  <2>1. IsPrefix(stored, b)
    <3>1. b \in [1 .. BurstBytes -> Nat]
      BY <2>0
    <3>2. b \in Seq(Nat) /\ Len(b) = BurstBytes
      <4> HIDE DEF b
      <4> QED  BY <2>0, <3>1, SeqDef, LenProperties
    <3>3. \A k \in 1 .. BurstBytes : b[k] = k
      OBVIOUS
    <3> QED  BY <2>0, <3>2, <3>3 DEF IsPrefix
  <2>2. ASSUME pc["logger"] = "stopWait", ~error, fifo = <<>>, result["logger"] = "success",
               ~overlapped
        PROVE  Len(stored) = BurstBytes
    <3>1. Undisturbed
      BY <2>2 DEF Undisturbed
    <3> QED  BY <2>0, <2>2, <3>1 DEF Streaming, BurstInv
  <2> QED  BY <2>1, <2>2 DEF SuccessIsStored
<1> QED  BY <1>1, BusInvariant, PTL
=============================================================================
