---------------------------- MODULE BootUpgrade ----------------------------
(***************************************************************************)
(* libbootupg3: the boot loader's shell, which a host drives over a serial *)
(* line to read the flash, to load an image into memory piece by piece and *)
(* to burn it (Packet.c, lib_ash.c, lib_ashcmd.c).                         *)
(*                                                                         *)
(* The device runs one loop and handles one packet at a time.  The line    *)
(* keeps order and may lose a packet or spoil its data; a spoilt head is   *)
(* as good as a loss.  The host is external: it sends one command of its   *)
(* script, repeats it until an answer comes, and feeds or asks for data    *)
(* packet by packet.  Power may fail at any time, also while a sector is   *)
(* being copied.  A data packet carries one block, and addresses count     *)
(* blocks.                                                                 *)
(***************************************************************************)
EXTENDS Integers, Sequences, SequencesExt, FiniteSets

CONSTANTS
  Scripts,    \* what the host may set out to do: sequences of commands
  SectorLen,  \* blocks in a flash sector
  NSectors,   \* flash_sectors_val
  Offset,     \* contents that are chunk headers -> CHUNK_OFFSET
  KeyHeads,   \* those of the CI+ key's chunk
  HostSees,   \* the host starts over when the device loses power
  LineLen,    \* bound: packets on the line, each way
  MaxFaults,  \* bound: packets lost or spoilt, copies and decompressions that fail
  MaxAborts,  \* bound: times the host starts over of its own
  MaxCrashes  \* bound: power failures

ASSUME BootAssumption ==
  /\ SectorLen \in Nat \ {0} /\ NSectors \in Nat \ {0} /\ HostSees \in BOOLEAN
  /\ LineLen \in Nat \ {0} /\ MaxFaults \in Nat /\ MaxAborts \in Nat /\ MaxCrashes \in Nat

ASSUME ChunkAssumption == Offset \in [DOMAIN Offset -> Nat] /\ KeyHeads \subseteq DOMAIN Offset

FlashEnd == SectorLen * NSectors
Blocks == 0 .. SectorLen * NSectors - 1
NoAddr == -1                \* start_addr = 0xFFFFFFFF
Null   == <<-3>>            \* image_free before the first address command
Blank  == -1                \* an erased block
Garbage == -2               \* what memory holds after power was lost

Old(b) == b                 \* a block before the upgrade
New(i, n) == 100 * i + n    \* packet n of the script's command i
Moved(b) == 1000 + b        \* the first block of a chunk, with its new offset
Unset == [i \in 1 .. FlashEnd |-> Garbage]

\* Mutant: the start address is taken as it is.
Unaligned(b) == b

SectorStart(b) == (b \div SectorLen) * SectorLen
SectorEnd(b)   == SectorStart(b + SectorLen - 1)

VARIABLES
  toDev, toHost,            \* the line
  pc,                       \* the loop the device is in
  index,                    \* g_packet_index
  last_status, last_error,  \* g_last_status, g_last_error
  start,                    \* start_addr
  image,                    \* the image buffer up to image_free
  memory,                   \* the image buffer as it is burnt while image_free is null
  part,                     \* what cmd_transfer copied behind image_free
  count,                    \* cmd_transfer's len; cmd_dump's packets still to advance
  num,                      \* cmd_dump's nPacketNum; the block cmd_burn is at
  cmd,                      \* the command being run
  flash,                    \* block -> content
  script, at,               \* the host's commands and the one it is at
  hidx, phase, got,         \* its packet index, what it waits for, packets acknowledged or read
  faults, aborts, crashes,
  bad                       \* history: sectors whose copy failed

device == <<pc, index, last_status, last_error, start, image, part, count, num, cmd, memory, flash, bad>>
host   == <<script, at, hidx, phase, got>>
bounds == <<faults, aborts, crashes>>
vars   == <<toDev, toHost, device, host, bounds>>
------------------------------------------------------------------------------
(* Packets. *)

Command(i, k) == [type |-> "command", index |-> i, num |-> k]
Block(i, n)   == [type |-> "data", index |-> i, num |-> n]
Request(i, n) == [type |-> "request", index |-> i, num |-> n]
Cancel(i)     == [type |-> "cancel", index |-> i, num |-> 0]
Spoilt        == [type |-> "spoilt", index |-> 0, num |-> 0]

Status(i, s, n) == [type |-> "status", index |-> i, val |-> s, num |-> n]
Data(i, n, v)   == [type |-> "data", index |-> i, val |-> v, num |-> n]

\* Errors below RETRY_CODE_MAX: the command may be retried.
CanRetry == {"success", "abort", "decompress"}

Send(m) == toHost' = Append(toHost, m)
SendStatus(s, n) == Send(Status(index', s, n))

\* A packet that packet_receive returns; comtest resets the index on the way.
Receive(m) ==
  /\ toDev # <<>> /\ Len(toHost) < LineLen
  /\ m = Head(toDev) /\ toDev' = Tail(toDev)
  /\ UNCHANGED <<script, at, hidx, phase, got, faults, aborts, crashes>>

IsComtest(m) == m.type = "command" /\ script[m.num].op = "comtest"
IndexAfter(m) == IF IsComtest(m) THEN 0 ELSE index

\* A packet of the command being run.
Same(m) == m.index = IndexAfter(m) /\ m.index # 0

Returns(e) ==
  /\ last_error' = e
  /\ last_status' = IF e = "success" THEN "executed" ELSE "error"
Running ==
  /\ last_error' = "success" /\ last_status' = "running"
------------------------------------------------------------------------------
(* The shell: lib_ash_process_new. *)

Fresh(m) == m.index # IndexAfter(m) \/ IndexAfter(m) = 0

Refuse(e) ==
  /\ Returns(e) /\ SendStatus("error", e)
  /\ UNCHANGED <<pc, start, image, part, count, num, flash, memory, bad>>

Comtest(c) ==
  /\ c.op = "comtest" /\ Returns("success") /\ Send(Data(0, 0, "echo"))
  /\ UNCHANGED <<pc, start, image, part, count, num, flash, memory, bad>>

Version(c) ==
  /\ c.op = "version" /\ Returns("success") /\ Send(Data(index', 0, "version"))
  /\ UNCHANGED <<pc, start, image, part, count, num, flash, memory, bad>>

Chunk(c) ==
  /\ c.op = "chunk" /\ Returns("success") /\ Send(Data(index', 0, "chunks"))
  /\ start' = NoAddr
  /\ UNCHANGED <<pc, image, part, count, num, flash, memory, bad>>

FlashSeq(from, len) == [i \in 1 .. len |-> flash[from + i - 1]]

Address(c) ==
  /\ c.op = "address"
  /\ UNCHANGED <<pc, part, count, num, flash, memory, bad>>
  /\ \/ /\ c.arg \notin Blocks
        /\ start' = c.arg /\ image' = <<>>
        /\ Returns("overflow") /\ SendStatus("error", "overflow")
     \/ /\ c.arg \in Blocks
        /\ start' = SectorStart(c.arg)
        /\ image' = FlashSeq(start', c.arg - start')
        /\ Returns("success") /\ SendStatus("ok", 0)

\* image_free moves on; a null one writes somewhere else in memory.
Extended(s) == IF image = Null THEN Null ELSE image \o s

Move(c) ==
  /\ c.op = "move"
  /\ \/ start = NoAddr /\ Refuse("noinit")
     \/ /\ start # NoAddr
        /\ image' = Extended([FlashSeq(c.arg, c.len) EXCEPT ![1] = Moved(@)])
        /\ Returns("success") /\ SendStatus("ok", 0)
        /\ UNCHANGED <<pc, start, part, count, num, flash, memory, bad>>

Transfer(c) ==
  /\ c.op \in {"transfer", "transferz"}
  /\ \/ start = NoAddr /\ Refuse("noinit")
     \/ /\ start # NoAddr
        /\ pc' = "transfer" /\ part' = <<>> /\ count' = c.len
        /\ Running /\ SendStatus("ok", 0)
        /\ UNCHANGED <<start, image, num, flash, memory, bad>>

\* The blocks of the key's chunk in a copy of the flash: headers are gone through from
\* the first block on (sto_chunk_goto).
KeyOf(f) ==
  LET goto[b \in Blocks] ==
        CASE f[b] \in KeyHeads -> b .. b + Offset[f[b]] - 1
          [] f[b] \in DOMAIN Offset \ KeyHeads /\ Offset[f[b]] > 0 /\ b + Offset[f[b]] \in Blocks -> goto[b + Offset[f[b]]]
          [] OTHER -> {}
  IN Blocks \cap goto[0]

\* Mutant: the key is not kept.
NoKey(img) == img

\* Before it burns, the key is put where it is in a buffer that begins with the
\* flash's first block, wherever the image is to go.
WithKey(img) == [i \in 1 .. Len(img) |-> IF i - 1 \in KeyOf(flash) THEN flash[i - 1] ELSE img[i]]

Burn(c) ==
  /\ c.op = "burn"
  /\ \/ (start = NoAddr \/ image = <<>>) /\ Refuse("nothing")
     \/ /\ start # NoAddr /\ image # <<>>
        /\ pc' = "burn" /\ num' = start
        /\ IF image = Null THEN memory' = WithKey(memory) /\ UNCHANGED image
                           ELSE image' = WithKey(image) /\ UNCHANGED memory
        /\ Running /\ SendStatus("ok", 0)
        /\ UNCHANGED <<start, part, count, flash, bad>>

Dump(c) ==
  /\ c.op = "dump"
  /\ pc' = "dump" /\ num' = 0 /\ count' = c.len
  /\ Running /\ SendStatus("ok", 0)
  /\ UNCHANGED <<start, image, part, flash, memory, bad>>

Reboot(c) ==
  /\ c.op = "reboot"
  /\ pc' = "rebooted" /\ Returns("success") /\ SendStatus("ok", 0)
  /\ UNCHANGED <<start, image, part, count, num, flash, memory, bad>>

\* No handler: the index is that of the new command, the status still the last one's.
Unknown(c) ==
  /\ c.op = "unknown" /\ SendStatus("error", "unknown")
  /\ UNCHANGED <<pc, last_status, last_error, start, image, part, count, num, flash, memory, bad>>

Run(c) ==
  \/ Comtest(c) \/ Version(c) \/ Chunk(c) \/ Address(c) \/ Move(c) \/ Transfer(c)
  \/ Burn(c) \/ Dump(c) \/ Reboot(c) \/ Unknown(c)

NewCommand(m) ==
  /\ m.type = "command" /\ Fresh(m)
  /\ index' = m.index /\ cmd' = m.num
  /\ Run(script[m.num])

Retries == last_status # "executed" /\ last_error \in CanRetry

\* A command sent again: argc was reset and the line is not split again, so that a
\* command that can be retried is neither run nor answered.
Repeated(m) ==
  /\ m.type = "command" /\ ~Fresh(m)
  /\ UNCHANGED device
  /\ IF Retries THEN UNCHANGED toHost ELSE SendStatus(last_status, last_error)

NotACommand(m) ==
  /\ m.type # "command"
  /\ UNCHANGED device
  /\ SendStatus(last_status, last_error)

Shell == pc = "shell" /\ \E m \in Range(toDev) : Receive(m) /\ (NewCommand(m) \/ Repeated(m) \/ NotACommand(m))
------------------------------------------------------------------------------
(* The loop of cmd_transfer. *)

Answer(s, n) ==
  /\ UNCHANGED device
  /\ SendStatus(s, n)

\* Mutant: the loop ends with its own last packet only.
OvertakenNot(m) ==
  /\ ~Same(m) /\ m.type = "command"
  /\ UNCHANGED <<toHost, device>>

\* Another command ends the loop: it is lost, and the transfer "succeeds".
Overtaken(m) ==
  /\ ~Same(m) /\ m.type = "command"
  /\ index' = IndexAfter(m) /\ pc' = "shell" /\ Returns("success")
  /\ UNCHANGED <<toHost, start, image, part, count, num, cmd, flash, memory, bad>>

Ignored(m) ==
  /\ ~Same(m) /\ m.type # "command"
  /\ UNCHANGED <<toHost, device>>

Cancelled(m) ==
  /\ Same(m) /\ m.type = "cancel"
  /\ pc' = "shell" /\ Returns("abort")
  /\ UNCHANGED <<toHost, index, start, image, part, count, num, cmd, flash, memory, bad>>

Unpacks == IF script[cmd].op = "transferz" /\ faults < MaxFaults THEN BOOLEAN ELSE {TRUE}

\* Mutant: the packet stored last is stored again.
AnyOrder(m) == m.num >= Len(part)

InOrder(m) == m.num = Len(part) + 1

Store(m) ==
  /\ Same(m) /\ m.type = "data" /\ InOrder(m)
  /\ part' = Append(part, New(cmd, m.num))
  /\ UNCHANGED <<index, start, count, num, cmd, flash, memory, bad>>
  /\ SendStatus("ok", Len(part'))
  /\ \/ /\ Len(part') < count
        /\ UNCHANGED <<pc, image, last_status, last_error>>
     \/ /\ Len(part') = count /\ pc' = "shell"
        /\ \E fits \in Unpacks :
             /\ Returns(IF fits THEN "success" ELSE "decompress")
             /\ image' = IF fits THEN Extended(part') ELSE image

TransferLoop ==
  /\ pc = "transfer"
  /\ \E m \in Range(toDev) :
       /\ Receive(m)
       /\ \/ Overtaken(m) \/ Ignored(m) \/ Cancelled(m) \/ Store(m)
          \/ Same(m) /\ m.type = "command" /\ Answer(last_status, 0)
          \/ Same(m) /\ m.type = "request" /\ Answer("ok", Len(part))
          \/ Same(m) /\ m.type = "data" /\ ~InOrder(m) /\ Answer("ok", Len(part))
------------------------------------------------------------------------------
(* The loop of cmd_dump. *)

Serve(m) ==
  /\ Same(m) /\ m.type = "request"
  /\ Send(IF m.num = 0 THEN Data(index, 0, script[cmd].len)
                       ELSE Data(index, m.num, flash[script[cmd].arg + m.num - 1]))
  /\ num' = IF m.num = num + 1 THEN num + 1 ELSE num
  /\ UNCHANGED <<index, start, image, part, count, cmd, flash, memory, bad>>
  /\ IF num' = count THEN pc' = "shell" /\ Returns("success")
                     ELSE UNCHANGED <<pc, last_status, last_error>>

DumpLoop ==
  /\ pc = "dump"
  /\ \E m \in Range(toDev) :
       /\ Receive(m)
       /\ \/ Overtaken(m) \/ Ignored(m) \/ Cancelled(m) \/ Serve(m)
          \/ Same(m) /\ m.type = "command" /\ Answer(last_status, 0)
------------------------------------------------------------------------------
(* cmd_burn, a sector at a time. *)

\* With image_free null, the end wraps past the flash's and memory is burnt as it is.
Burnt == IF image = Null THEN memory ELSE image
\* Mutant: the last sector is not rounded up to.
BurnEndShort == IF image = Null THEN FlashEnd ELSE SectorStart(start + Len(image))

BurnEnd == IF image = Null THEN FlashEnd
           ELSE LET e == start + Len(image) IN IF e < FlashEnd THEN SectorEnd(e) ELSE FlashEnd

\* What a block is to hold; the rest of the last sector is read back from the flash.
Wanted(b) == IF b - start < Len(Burnt) THEN Burnt[b - start + 1] ELSE flash[b]
Sector(s) == s .. s + SectorLen - 1
Differs   == {b \in Sector(num) : flash[b] # Wanted(b)}
MustErase == \E b \in Differs : flash[b] # Blank

Quiet == UNCHANGED <<toDev, host, bounds>>

\* The last sector's tail is kept in memory from before the loop.
SectorData == [b \in Sector(num) |-> Wanted(b)]

BurnErase ==
  /\ pc = "burn" /\ num < BurnEnd /\ MustErase
  /\ flash' = [b \in Blocks |-> IF b \in Sector(num) THEN Blank ELSE flash[b]]
  /\ part' = [i \in 1 .. SectorLen |-> SectorData[num + i - 1]]
  /\ pc' = "copy"
  /\ UNCHANGED <<toHost, index, last_status, last_error, start, image, count, num, cmd, memory, bad>> /\ Quiet

BurnNoErase ==
  /\ pc = "burn" /\ num < BurnEnd /\ Differs # {} /\ ~MustErase
  /\ part' = [i \in 1 .. SectorLen |-> SectorData[num + i - 1]]
  /\ pc' = "copy"
  /\ UNCHANGED <<toHost, index, last_status, last_error, start, image, count, num, cmd, flash, memory, bad>> /\ Quiet

Copied(n) == [b \in Blocks |-> IF b \in num .. num + n - 1 THEN part[b - num + 1] ELSE flash[b]]

BurnCopy ==
  /\ pc = "copy" /\ Len(toHost) < LineLen
  /\ pc' = "poll"
  /\ \/ /\ flash' = Copied(SectorLen) /\ Send(Data(index, 0, "B"))
        /\ UNCHANGED <<faults, bad>>
     \/ /\ faults < MaxFaults /\ faults' = faults + 1
        /\ \E n \in 0 .. SectorLen - 1 : flash' = Copied(n)
        /\ bad' = bad \cup {num} /\ Send(Data(index, 0, "E"))
  /\ UNCHANGED <<toDev, index, last_status, last_error, start, image, part, count, num, cmd, memory, host, aborts, crashes>>

\* One look at the line after each sector; the packet found is dropped.
BurnPoll ==
  /\ pc = "poll"
  /\ pc' = "burn" /\ num' = num + SectorLen
  /\ UNCHANGED <<last_status, last_error, start, image, part, count, cmd, flash, memory, bad>>
  /\ \/ UNCHANGED <<toDev, toHost, index, host, bounds>>
     \/ \E m \in Range(toDev) :
          /\ Receive(m) /\ index' = IndexAfter(m)
          /\ IF m.type = "command" /\ m.index = index' THEN SendStatus(last_status, 0) ELSE UNCHANGED toHost

BurnSkip ==
  /\ pc = "burn" /\ num < BurnEnd /\ Differs = {}
  /\ num' = num + SectorLen
  /\ UNCHANGED <<toHost, pc, index, last_status, last_error, start, image, part, count, cmd, flash, memory, bad>> /\ Quiet

BurnFinish ==
  /\ pc = "burn" /\ num >= BurnEnd /\ Len(toHost) < LineLen
  /\ pc' = "shell" /\ Returns("success") /\ Send(Data(index, 0, "FINISH"))
  /\ UNCHANGED <<index, start, image, part, count, num, cmd, flash, memory, bad>> /\ Quiet

Device == Shell \/ TransferLoop \/ DumpLoop
            \/ BurnErase \/ BurnNoErase \/ BurnCopy \/ BurnPoll \/ BurnSkip \/ BurnFinish
------------------------------------------------------------------------------
(* The host. *)

Cmd == script[at]
Idle == UNCHANGED <<toHost, device, bounds>>

Current ==
  CASE phase \in {"ask", "wait"} -> Command(hidx, at)
    [] phase = "feed" -> Block(hidx, got + 1)
    [] phase = "read" -> Request(hidx, got)

HostSend ==
  /\ phase \in {"ask", "wait", "feed", "read"} /\ Len(toDev) < LineLen
  /\ toDev' = Append(toDev, Current)
  /\ UNCHANGED host /\ Idle

HostRequest ==
  /\ phase = "feed" /\ toDev = <<>>
  /\ toDev' = Append(toDev, Request(hidx, got))
  /\ UNCHANGED host /\ Idle

\* The next command, or this one again under a new index.
NextCommand ==
  /\ at' = at + 1 /\ hidx' = hidx + 1 /\ got' = 0
  /\ phase' = IF at = Len(script) THEN "done" ELSE "ask"
Again  == hidx' = hidx + 1 /\ phase' = "ask" /\ got' = 0 /\ UNCHANGED at
Waits(p, n) == phase' = p /\ got' = n /\ UNCHANGED <<at, hidx>>
Stays  == UNCHANGED <<at, hidx, phase, got>>
Fails  == phase' = "failed" /\ UNCHANGED <<at, hidx, got>>

Simple == Cmd.op \in {"address", "move", "unknown", "reboot"}
Loading == Cmd.op \in {"transfer", "transferz"}

HearStatus(m) ==
  /\ m.type = "status"
  /\ \/ Cmd.op = "comtest" /\ Stays
     \/ m.val = "error" /\ Cmd.op # "comtest" /\ Fails
     \/ m.val = "executed" /\ (Simple \/ Loading \/ Cmd.op = "burn") /\ NextCommand
     \/ m.val = "executed" /\ Cmd.op \in {"version", "chunk", "dump"} /\ Again
     \/ m.val = "ok" /\ Simple /\ NextCommand
     \/ m.val \in {"ok", "running"} /\ phase = "ask" /\ Loading /\ Waits("feed", 0)
     \/ m.val \in {"ok", "running"} /\ phase = "ask" /\ Cmd.op = "dump" /\ Waits("read", 0)
     \/ m.val \in {"ok", "running"} /\ phase = "ask" /\ Cmd.op = "burn" /\ Waits("wait", 0)
     \/ m.val = "ok" /\ phase = "feed" /\ m.num = got + 1 /\ Waits(IF m.num = Cmd.len THEN "wait" ELSE "feed", m.num)
     \/ m.val = "ok" /\ phase = "feed" /\ m.num # got + 1 /\ Stays
     \/ m.val = "ok" /\ phase \in {"read", "wait"} /\ Stays
     \/ m.val = "running" /\ phase # "ask" /\ Stays

HearData(m) ==
  /\ m.type = "data"
  /\ \/ Cmd.op = "comtest" /\ (IF m.val = "echo" THEN NextCommand ELSE Stays)
     \/ Cmd.op \in {"version", "chunk"} /\ NextCommand
     \/ Cmd.op = "dump" /\ phase = "read" /\ m.num = got /\ got < Cmd.len /\ Waits("read", got + 1)
     \/ Cmd.op = "dump" /\ phase = "read" /\ m.num = got /\ got = Cmd.len /\ NextCommand
     \/ Cmd.op = "dump" /\ (phase # "read" \/ m.num # got) /\ Stays
     \/ Cmd.op = "burn" /\ m.val = "FINISH" /\ NextCommand
     \/ Cmd.op = "burn" /\ m.val = "E" /\ Fails
     \/ Cmd.op = "burn" /\ m.val = "B" /\ Stays

HostReceive ==
  /\ toHost # <<>> /\ toHost' = Tail(toHost)
  /\ UNCHANGED <<toDev, device, script, bounds>>
  /\ LET m == Head(toHost) IN
       \/ (phase \in {"done", "failed"} \/ m.index # hidx) /\ Stays
       \/ phase \notin {"done", "failed"} /\ m.index = hidx /\ (HearStatus(m) \/ HearData(m))

Restart == at' = 1 /\ hidx' = 0 /\ phase' = "ask" /\ got' = 0 /\ UNCHANGED script

\* The host starts over, with or without telling the device.
HostAbort ==
  /\ phase \in {"ask", "wait", "feed", "read"} /\ at > 1 /\ aborts < MaxAborts
  /\ aborts' = aborts + 1 /\ Restart
  /\ toDev' \in {toDev} \cup (IF Len(toDev) < LineLen THEN {Append(toDev, Cancel(hidx))} ELSE {})
  /\ UNCHANGED <<toHost, device, faults, crashes>>

\* The host's retries run out: the device ignores it, or has gone.
HostGivesUp ==
  /\ phase \in {"ask", "wait"} /\ toHost = <<>>
  /\ pc = "rebooted" \/ (pc = "shell" /\ index = hidx /\ Retries)
  /\ phase' = IF pc = "rebooted" THEN "done" ELSE "failed"
  /\ UNCHANGED <<toDev, script, at, hidx, got>> /\ Idle
------------------------------------------------------------------------------
(* The line and the power. *)

LoseToDev ==
  /\ toDev # <<>> /\ faults < MaxFaults /\ faults' = faults + 1
  /\ toDev' \in {Tail(toDev), <<Spoilt>> \o Tail(toDev)}
  /\ UNCHANGED <<toHost, device, host, aborts, crashes>>

LoseToHost ==
  /\ toHost # <<>> /\ faults < MaxFaults /\ faults' = faults + 1
  /\ toHost' = Tail(toHost)
  /\ UNCHANGED <<toDev, device, host, aborts, crashes>>

PowerFail ==
  /\ pc # "rebooted" /\ crashes < MaxCrashes /\ crashes' = crashes + 1
  /\ pc' = "shell" /\ index' = 0 /\ last_status' = "ok" /\ last_error' = "success"
  /\ start' = 0 /\ image' = Null /\ part' = <<>> /\ count' = 0 /\ num' = 0 /\ cmd' = 1 /\ memory' = Unset
  /\ flash' \in IF pc = "copy" THEN {Copied(n) : n \in 0 .. SectorLen} ELSE {flash}
  /\ toDev' = <<>> /\ toHost' = <<>> /\ UNCHANGED <<bad, faults, aborts>>
  /\ IF HostSees /\ phase \notin {"done", "failed"} THEN Restart ELSE UNCHANGED host
------------------------------------------------------------------------------
Init ==
  /\ pc = "shell" /\ index = 0 /\ last_status = "ok" /\ last_error = "success"
  /\ start = 0 /\ image = Null /\ part = <<>> /\ count = 0 /\ num = 0 /\ cmd = 1 /\ memory = Unset
  /\ toDev = <<>> /\ toHost = <<>> /\ flash = [b \in Blocks |-> Old(b)] /\ bad = {}
  /\ script \in Scripts /\ at = 1 /\ hidx = 0 /\ phase = "ask" /\ got = 0
  /\ faults = 0 /\ aborts = 0 /\ crashes = 0

Next ==
  \/ Device \/ HostSend \/ HostRequest \/ HostReceive \/ HostAbort \/ HostGivesUp
  \/ LoseToDev \/ LoseToHost \/ PowerFail

\* The device's loop and the host keep running; the line and the power fail a
\* bounded number of times.
Fairness == WF_vars(Device) /\ WF_vars(HostSend) /\ WF_vars(HostReceive) /\ WF_vars(HostGivesUp)

Spec == Init /\ [][Next]_vars /\ Fairness
=============================================================================
