------------------------- MODULE BootUpgradeProofs -------------------------
(***************************************************************************)
(* Proofs about BootUpgrade, for sectors and scripts of any length and any *)
(* faults.                                                                 *)
(*                                                                         *)
(* What the device does when it burns does not depend on who drives it: the*)
(* sectors before num hold the image (Written), for what a sector is to    *)
(* hold is put together before it is erased (Copying), and the image stays *)
(* what it was until cmd_burn returns.                                     *)
(***************************************************************************)
EXTENDS MCBootUpgrade, TLAPS

\* Commands as the device can parse them; what is moved is in the flash.
WellFormed(s) ==
  /\ s \in Seq([op : STRING, arg : Nat, len : Nat]) /\ s # <<>>
  /\ \A i \in 1 .. Len(s) : s[i].op = "move" => s[i].len >= 1 /\ s[i].arg + s[i].len <= FlashEnd
ScriptsWellFormed == \A s \in Scripts : WellFormed(s)

\* What the host sends: a command is one of the script's.
HostPacket ==
  {m \in [type : {"command", "data", "request", "cancel", "spoilt"}, index : Nat, num : Nat] :
     m.type = "command" => m.num \in 1 .. Len(script)}

\* The line, each way.
Lines ==
  /\ toDev \in Seq(HostPacket) /\ Len(toDev) <= LineLen
  /\ toHost \in Seq(Range(toHost)) /\ Len(toHost) <= LineLen

\* The host's types; while it works it is at a command.
HostTypes ==
  /\ script \in Scripts
  /\ at \in 1 .. Len(script) + 1 /\ hidx \in Nat /\ got \in Nat
  /\ phase \in {"ask", "feed", "read", "wait", "done", "failed"}
  /\ phase \notin {"done", "failed"} => at <= Len(script)

\* The device's types.
DeviceTypes ==
  /\ pc \in {"shell", "transfer", "dump", "burn", "copy", "poll", "rebooted"}
  /\ index \in Nat /\ last_status \in {"ok", "error", "running", "executed"} /\ last_error \in Errors
  /\ start \in {NoAddr} \cup Nat /\ (start \in Blocks => start % SectorLen = 0)
  /\ (image = Null \/ image \in Seq(Values)) /\ part \in Seq(Values)
  /\ memory \in Seq(Values) /\ Len(memory) = FlashEnd
  /\ count \in Nat /\ num \in Nat /\ cmd \in 1 .. Len(script)
  /\ flash \in [Blocks -> Values] /\ bad \subseteq Blocks

Burning == pc \in {"burn", "copy", "poll"}

\* Until an address is set, memory is burnt from the flash's first block; the burn goes
\* from sector to sector.
Places ==
  /\ image = Null => start \in {0, NoAddr}
  /\ Burning => start \in Nat /\ start <= num /\ (num \in Blocks => num % SectorLen = 0)
  /\ pc \in {"copy", "poll"} => num \in Blocks

\* The sectors that are behind hold the image, or are reported.
Behind == IF pc = "poll" THEN num + SectorLen ELSE num
Holds(b) == flash[b] = Burnt[b - start + 1] \/ SectorStart(b) \in bad
Written ==
  Burning => \A b \in Blocks : start <= b /\ b < Behind /\ b - start < Len(Burnt) => Holds(b)

\* The sector to be copied.
Copying ==
  pc = "copy" => /\ Len(part) = SectorLen
                 /\ \A b \in Sector(num) : b - start < Len(Burnt) => part[b - num + 1] = Burnt[b - start + 1]

IInv == Lines /\ HostTypes /\ DeviceTypes /\ Places /\ Written /\ Copying

\* When cmd_burn reports FINISH, each block of the image that the flash has room for, the
\* key's chunk as it was copied into the image among them, is in its place, or the sector
\* was reported with E; whatever host drives the device, with any address, also when
\* memory is burnt because none was set.
BurnTold ==
  [][pc = "burn" /\ pc' = "shell" /\ last_status' = "executed"
       => \A i \in 1 .. Len(Burnt) : start + i - 1 \in Blocks => Holds(start + i - 1)]_vars
------------------------------------------------------------------------------
(* Sectors. *)

LEMMA Sectors ==
  ASSUME BootAssumption, NEW b \in Nat
  PROVE  /\ SectorStart(b) \in Nat /\ SectorStart(b) % SectorLen = 0
         /\ SectorStart(b) <= b /\ b < SectorStart(b) + SectorLen
  <1> DEFINE k == b \div SectorLen
  <1>1. k \in Nat /\ b = SectorLen * k + (b % SectorLen) /\ b % SectorLen \in 0 .. SectorLen - 1
    BY DEF BootAssumption
  <1>2. (k * SectorLen) % SectorLen = 0
    BY <1>1 DEF BootAssumption
  <1>3. SectorStart(b) = k * SectorLen
    BY DEF SectorStart
  <1> HIDE DEF k
  <1> QED
    BY <1>1, <1>2, <1>3 DEF BootAssumption

LEMMA InSector ==
  ASSUME BootAssumption, NEW n \in Nat, n % SectorLen = 0, NEW b \in n .. n + SectorLen - 1
  PROVE  SectorStart(b) = n
  <1> DEFINE k == n \div SectorLen
  <1>1. k \in Nat /\ n = k * SectorLen
    BY DEF BootAssumption
  <1> HIDE DEF k
  <1>2. PICK r \in 0 .. SectorLen - 1 : b = k * SectorLen + r
    <2>1. b - n \in 0 .. SectorLen - 1 /\ b = n + (b - n)
      BY DEF BootAssumption
    <2> QED
      BY <1>1, <2>1
  <1>3. (k * SectorLen + r) \div SectorLen = k
    BY <1>1 DEF BootAssumption
  <1> QED
    BY <1>1, <1>2, <1>3 DEF SectorStart

LEMMA Aligned ==
  ASSUME BootAssumption, NEW n \in Nat, n % SectorLen = 0
  PROVE  /\ (n + SectorLen) % SectorLen = 0
         /\ \A m \in Nat : m % SectorLen = 0 /\ n < m => n + SectorLen <= m
  <1> DEFINE k == n \div SectorLen
  <1>1. k \in Nat /\ n = k * SectorLen
    BY DEF BootAssumption
  <1> HIDE DEF k
  <1>2. ((k + 1) * SectorLen) % SectorLen = 0 /\ n + SectorLen = (k + 1) * SectorLen
    BY <1>1 DEF BootAssumption
  <1>3. ASSUME NEW m \in Nat, m % SectorLen = 0, n < m
        PROVE  n + SectorLen <= m
    <2> DEFINE j == m \div SectorLen
    <2>1. j \in Nat /\ m = j * SectorLen
      BY <1>3 DEF BootAssumption
    <2> HIDE DEF j
    <2>2. k < j
      BY <1>1, <1>3, <2>1 DEF BootAssumption
    <2>3. (k + 1) * SectorLen <= j * SectorLen
      BY <1>1, <2>1, <2>2 DEF BootAssumption
    <2> QED
      BY <1>1, <1>2, <2>1, <2>3
  <1> QED
    BY <1>2, <1>3

LEMMA EndAligned ==
  ASSUME BootAssumption
  PROVE  FlashEnd \in Nat /\ FlashEnd % SectorLen = 0 /\ Blocks = 0 .. FlashEnd - 1 /\ 0 \in Blocks
  BY DEF BootAssumption, FlashEnd, Blocks

------------------------------------------------------------------------------
(* The line. *)

LEMMA OwnRange ==
  ASSUME NEW S, NEW s \in Seq(S)
  PROVE  s \in Seq(Range(s))
  <1>1. DOMAIN s = 1 .. Len(s) /\ Len(s) \in Nat /\ s = [i \in 1 .. Len(s) |-> s[i]]
    OBVIOUS
  <1>2. \A i \in 1 .. Len(s) : s[i] \in Range(s)
    BY <1>1 DEF Range
  <1> DEFINE R == Range(s)
  <1>3. s \in [1 .. Len(s) -> R]
    BY <1>1, <1>2
  <1> HIDE DEF R
  <1>4. s \in Seq(R)
    BY <1>1, <1>3
  <1> QED
    BY <1>4 DEF R

LEMMA SentOne ==
  ASSUME NEW s, s \in Seq(Range(s)), NEW e
  PROVE  Append(s, e) \in Seq(Range(Append(s, e))) /\ Len(Append(s, e)) = Len(s) + 1
  <1> DEFINE R == Range(s)
  <1>1. s \in Seq(R)
    OBVIOUS
  <1> HIDE DEF R
  <1>2. Append(s, e) \in Seq(R \cup {e}) /\ Len(Append(s, e)) = Len(s) + 1
    BY <1>1
  <1> QED
    BY <1>2, OwnRange

LEMMA HeardOne ==
  ASSUME NEW s, s \in Seq(Range(s)), s # <<>>
  PROVE  Tail(s) \in Seq(Range(Tail(s))) /\ Len(Tail(s)) < Len(s)
  <1> DEFINE R == Range(s)
  <1>1. s \in Seq(R)
    OBVIOUS
  <1> HIDE DEF R
  <1>2. Tail(s) \in Seq(R) /\ Len(Tail(s)) < Len(s)
    BY <1>1
  <1>3. Tail(s) \in Seq(Range(Tail(s)))
    BY <1>2, OwnRange
  <1> QED
    BY <1>2, <1>3

\* The device says nothing, or one thing.
Says == toHost' = toHost \/ (Len(toHost) < LineLen /\ \E e : toHost' = Append(toHost, e))

LEMMA Answered ==
  ASSUME BootAssumption, Lines, Says
  PROVE  toHost' \in Seq(Range(toHost')) /\ Len(toHost') <= LineLen
  <1>1. toHost \in Seq(Range(toHost)) /\ Len(toHost) <= LineLen
    BY DEF Lines
  <1>2. CASE toHost' = toHost
    BY <1>1, <1>2
  <1>3. CASE Len(toHost) < LineLen /\ \E e : toHost' = Append(toHost, e)
    <2>1. PICK e : toHost' = Append(toHost, e)
      BY <1>3
    <2>2. Len(toHost) \in Nat
      BY <1>1
    <2> QED
      BY <1>1, <1>3, <2>1, <2>2, SentOne DEF BootAssumption
  <1> QED
    BY <1>2, <1>3 DEF Says

LEMMA LineHead ==
  ASSUME Lines, NEW m, Receive(m)
  PROVE  m \in HostPacket
  <1>1. toDev \in Seq(HostPacket) /\ toDev # <<>> /\ m = Head(toDev)
    BY DEF Lines, Receive
  <1> QED
    BY <1>1

\* One packet is taken from the line.
LEMMA Taken ==
  ASSUME BootAssumption, IInv, NEW m, Receive(m), Says
  PROVE  m \in HostPacket /\ Lines' /\ HostTypes'
  <1>1. toDev \in Seq(HostPacket) /\ Len(toDev) <= LineLen /\ toDev # <<>> /\ script' = script
    BY DEF IInv, Lines, Receive
  <1>2. HostPacket' = HostPacket
    BY <1>1 DEF HostPacket
  <1>3. m \in HostPacket /\ toDev' \in Seq(HostPacket) /\ Len(toDev') <= LineLen
    <2>1. m = Head(toDev) /\ toDev' = Tail(toDev)
      BY DEF Receive
    <2> QED
      BY <1>1, <2>1 DEF BootAssumption
  <1>4. toHost' \in Seq(Range(toHost')) /\ Len(toHost') <= LineLen
    BY Answered DEF IInv
  <1>5. HostTypes'
    BY DEF IInv, HostTypes, Receive
  <1> QED
    BY <1>2, <1>3, <1>4, <1>5 DEF Lines

\* A step of the device's own.
LEMMA OwnStep ==
  ASSUME BootAssumption, IInv, UNCHANGED <<toDev, host>>, Says
  PROVE  Lines' /\ HostTypes'
  <1>1. HostPacket' = HostPacket
    BY DEF HostPacket, host
  <1>2. toHost' \in Seq(Range(toHost')) /\ Len(toHost') <= LineLen
    BY Answered DEF IInv
  <1>3. HostTypes'
    BY DEF IInv, HostTypes, host
  <1> QED
    BY <1>1, <1>2, <1>3 DEF IInv, Lines

\* A step of the host or of the line.
LEMMA DeviceIdle ==
  ASSUME IInv, UNCHANGED device, script' = script
  PROVE  DeviceTypes' /\ Places' /\ Written' /\ Copying'
  <1>1. UNCHANGED <<pc, index, last_status, last_error, start, image, part, count, num, cmd, memory, flash, bad>>
    BY DEF device
  <1>2. Burnt' = Burnt /\ Behind' = Behind /\ Burning' = Burning
    BY <1>1 DEF Burnt, Behind, Burning
  <1>3. DeviceTypes'
    BY <1>1 DEF IInv, DeviceTypes
  <1>4. Places'
    BY <1>1, <1>2 DEF IInv, Places
  <1>5. Written'
    BY <1>1, <1>2 DEF IInv, Written, Holds
  <1>6. Copying'
    BY <1>1, <1>2 DEF IInv, Copying
  <1> QED
    BY <1>3, <1>4, <1>5, <1>6

------------------------------------------------------------------------------
(* The shell. *)

Commands == [op : STRING, arg : Nat, len : Nat]

LEMMA ScriptType ==
  ASSUME ScriptsWellFormed, script \in Scripts
  PROVE  /\ script \in Seq(Commands) /\ Len(script) \in Nat /\ Len(script) >= 1
         /\ \A i \in 1 .. Len(script) :
              /\ script[i] \in Commands
              /\ script[i].op = "move" => script[i].len >= 1 /\ script[i].arg + script[i].len <= FlashEnd
  <1>1. /\ script \in Seq(Commands) /\ script # <<>>
        /\ \A i \in 1 .. Len(script) :
             script[i].op = "move" => script[i].len >= 1 /\ script[i].arg + script[i].len <= FlashEnd
    BY DEF ScriptsWellFormed, WellFormed, Commands
  <1>2. Len(script) \in Nat /\ Len(script) >= 1 /\ \A i \in 1 .. Len(script) : script[i] \in Commands
    BY <1>1
  <1> QED
    BY <1>1, <1>2

LEMMA FlashRead ==
  ASSUME BootAssumption, DeviceTypes, NEW b \in Nat, NEW n \in Nat, b + n <= FlashEnd
  PROVE  FlashSeq(b, n) \in Seq(Values) /\ FlashSeq(b, n) \in [1 .. n -> Values]
  <1>1. \A i \in 1 .. n : b + i - 1 \in Blocks
    BY EndAligned
  <1>2. \A i \in 1 .. n : flash[b + i - 1] \in Values
    BY <1>1 DEF DeviceTypes
  <1>3. FlashSeq(b, n) \in [1 .. n -> Values]
    BY <1>2 DEF FlashSeq
  <1> QED
    BY <1>3

\* The image may grow, but a memory that no address was set for stays that.
LEMMA Grows ==
  ASSUME DeviceTypes, NEW s \in Seq(Values)
  PROVE  /\ Extended(s) = Null \/ Extended(s) \in Seq(Values)
         /\ Extended(s) = Null => image = Null
  <1>1. CASE image = Null
    BY <1>1 DEF Extended
  <1>2. CASE image # Null
    <2>1. image \in Seq(Values) /\ Extended(s) = image \o s
      BY <1>2 DEF DeviceTypes, Extended
    <2>2. Extended(s) \in Seq(Values)
      BY <2>1
    <2>3. Null \notin Seq(Values)
      <3>1. Null[1] = -3 /\ Len(Null) = 1
        BY DEF Null
      <3>2. -3 \notin Values
        BY DEF Values, Blank, Garbage
      <3> QED
        BY <3>1, <3>2
    <2> QED
      BY <2>2, <2>3
  <1> QED
    BY <1>1, <1>2

\* No image of the host's is null.
LEMMA NotNull == Null \notin Seq(Values)
  <1>1. Null[1] = -3 /\ Len(Null) = 1
    BY DEF Null
  <1>2. -3 \notin Values
    BY DEF Values, Blank, Garbage
  <1>3. ASSUME Null \in Seq(Values)
        PROVE  FALSE
    <2>1. Null[1] \in Values
      BY <1>1, <1>3
    <2> QED
      BY <1>1, <1>2, <2>1
  <1> QED
    BY <1>3

\* The key replaces blocks of the image.
LEMMA KeyKept ==
  ASSUME DeviceTypes, NEW img \in Seq(Values)
  PROVE  /\ WithKey(img) \in Seq(Values) /\ Len(WithKey(img)) = Len(img)
         /\ \A i \in 1 .. Len(img) : WithKey(img)[i] = IF i - 1 \in KeyOf(flash) THEN flash[i - 1] ELSE img[i]
  <1>1. KeyOf(flash) \subseteq Blocks
    BY DEF KeyOf
  <1>2. Len(img) \in Nat /\ \A i \in 1 .. Len(img) : img[i] \in Values
    OBVIOUS
  <1>3. \A i \in 1 .. Len(img) : (IF i - 1 \in KeyOf(flash) THEN flash[i - 1] ELSE img[i]) \in Values
    BY <1>1, <1>2 DEF DeviceTypes
  <1> QED
    BY <1>2, <1>3 DEF WithKey

\* What a command leaves.
LEMMA CommandRuns ==
  ASSUME BootAssumption, ScriptsWellFormed, IInv, pc = "shell", NEW m \in HostPacket, script' = script,
         Len(toHost) < LineLen, NewCommand(m)
  PROVE  Says /\ DeviceTypes' /\ Places' /\ Written' /\ Copying'
  <1> DEFINE c == script[m.num]
  <1>1. m.num \in 1 .. Len(script) /\ m.index \in Nat /\ index' = m.index /\ cmd' = m.num /\ Run(c)
    BY DEF HostPacket, NewCommand
  <1>2. /\ c \in Commands /\ c.arg \in Nat /\ c.len \in Nat
        /\ c.op = "move" => c.len >= 1 /\ c.arg + c.len <= FlashEnd
    BY <1>1, ScriptType DEF IInv, HostTypes, Commands
  <1>3. DeviceTypes /\ Places
    BY DEF IInv
  <1> HIDE DEF c
  <1> DEFINE Still == UNCHANGED <<start, image, part, count, num, flash, memory, bad>>
  <1>4. ASSUME Says, Still, pc' \in {"shell", "rebooted"}, last_status' \in {"ok", "error", "running", "executed"},
               last_error' \in Errors
        PROVE  Says /\ DeviceTypes' /\ Places' /\ Written' /\ Copying'
    <2>1. DeviceTypes'
      BY <1>1, <1>3, <1>4 DEF DeviceTypes
    <2>2. Places' /\ Written' /\ Copying'
      BY <1>3, <1>4 DEF Places, Written, Copying, Burning
    <2> QED
      BY <1>4, <2>1, <2>2
  <1>5. ASSUME NEW e, e \in Errors, Refuse(e)
        PROVE  Says /\ DeviceTypes' /\ Places' /\ Written' /\ Copying'
    BY <1>4, <1>5 DEF Refuse, Returns, SendStatus, Send, Says
  <1>6. CASE Comtest(c)
    BY <1>4, <1>6 DEF Comtest, Returns, Send, Says, Errors
  <1>7. CASE Version(c)
    BY <1>4, <1>7 DEF Version, Returns, Send, Says, Errors
  <1>8. CASE Reboot(c)
    BY <1>4, <1>8 DEF Reboot, Returns, SendStatus, Send, Says, Errors
  <1>9. CASE Unknown(c)
    BY <1>3, <1>4, <1>9 DEF Unknown, SendStatus, Send, Says, DeviceTypes
  <1>10. CASE Chunk(c)
    <2>1. DeviceTypes'
      <3>1. NoAddr \notin Blocks
        BY DEF NoAddr, Blocks
      <3> QED
        BY <1>1, <1>3, <1>10, <3>1 DEF DeviceTypes, Chunk, Returns, Errors
    <2>2. Places' /\ Written' /\ Copying'
      BY <1>3, <1>10 DEF Places, Written, Copying, Burning, Chunk
    <2> QED
      BY <1>10, <2>1, <2>2 DEF Says, Chunk, Send
  <1>11. CASE Address(c)
    <2>1. /\ UNCHANGED <<pc, part, count, num, flash, memory, bad>> /\ Says
          /\ last_status' \in {"ok", "error", "running", "executed"} /\ last_error' \in Errors
      BY <1>11 DEF Address, Returns, SendStatus, Send, Says, Errors
    <2>2. start' \in Nat /\ (start' \in Blocks => start' % SectorLen = 0) /\ image' \in Seq(Values)
      <3>1. CASE c.arg \notin Blocks /\ start' = c.arg /\ image' = <<>>
        BY <1>2, <3>1
      <3>2. CASE c.arg \in Blocks /\ start' = SectorStart(c.arg) /\ image' = FlashSeq(start', c.arg - start')
        <4>1. start' \in Nat /\ start' % SectorLen = 0 /\ start' <= c.arg
          BY <1>2, <3>2, Sectors
        <4>2. start' + (c.arg - start') <= FlashEnd /\ c.arg - start' \in Nat
          BY <1>2, <3>2, <4>1, EndAligned
        <4> QED
          BY <1>3, <3>2, <4>1, <4>2, FlashRead
      <3> QED
        BY <1>11, <3>1, <3>2 DEF Address
    <2>3. image' # Null
      <3>1. Null[1] = -3 /\ Len(Null) = 1
        BY DEF Null
      <3>2. -3 \notin Values
        BY DEF Values, Blank, Garbage
      <3> QED
        BY <2>2, <3>1, <3>2
    <2>4. DeviceTypes'
      BY <1>1, <1>3, <2>1, <2>2 DEF DeviceTypes
    <2>5. Places' /\ Written' /\ Copying'
      BY <2>1, <2>3 DEF Places, Written, Copying, Burning
    <2> QED
      BY <2>1, <2>4, <2>5
  <1>12. CASE Move(c)
    <2>1. CASE Refuse("noinit")
      BY <1>5, <2>1 DEF Errors
    <2>2. CASE start # NoAddr /\ image' = Extended([FlashSeq(c.arg, c.len) EXCEPT ![1] = Moved(@)])
               /\ Returns("success") /\ SendStatus("ok", 0)
               /\ UNCHANGED <<pc, start, part, count, num, flash, memory, bad>>
      <3> DEFINE s == [FlashSeq(c.arg, c.len) EXCEPT ![1] = Moved(@)]
      <3>1. FlashSeq(c.arg, c.len) \in [1 .. c.len -> Values] /\ c.len >= 1
        BY <1>2, <1>3, <1>12, FlashRead DEF Move
      <3>2. Moved(FlashSeq(c.arg, c.len)[1]) \in Values
        BY <1>2, <3>1 DEF Moved, Values, Blank, Garbage
      <3>3. s \in Seq(Values)
        BY <1>2, <3>1, <3>2
      <3>4. image' = Extended(s)
        BY <2>2
      <3> HIDE DEF s
      <3>5. (image' = Null \/ image' \in Seq(Values)) /\ (image' = Null => image = Null)
        BY <1>3, <3>3, <3>4, Grows
      <3>6. DeviceTypes'
        BY <1>1, <1>3, <2>2, <3>5 DEF DeviceTypes, Returns, Errors
      <3>7. Places' /\ Written' /\ Copying'
        BY <1>3, <2>2, <3>5 DEF Places, Written, Copying, Burning
      <3> QED
        BY <2>2, <3>6, <3>7 DEF Says, SendStatus, Send
    <2> QED
      BY <1>12, <2>1, <2>2 DEF Move
  <1>13. CASE Transfer(c)
    <2>1. CASE Refuse("noinit")
      BY <1>5, <2>1 DEF Errors
    <2>2. CASE pc' = "transfer" /\ part' = <<>> /\ count' = c.len
               /\ Running /\ SendStatus("ok", 0) /\ UNCHANGED <<start, image, num, flash, memory, bad>>
      <3>1. DeviceTypes'
        BY <1>1, <1>2, <1>3, <2>2 DEF DeviceTypes, Running, Errors
      <3>2. Places' /\ Written' /\ Copying'
        BY <1>3, <2>2 DEF Places, Written, Copying, Burning
      <3> QED
        BY <2>2, <3>1, <3>2 DEF Says, SendStatus, Send
    <2> QED
      BY <1>13, <2>1, <2>2 DEF Transfer
  <1>14. CASE Dump(c)
    <2>1. DeviceTypes'
      BY <1>1, <1>2, <1>3, <1>14 DEF DeviceTypes, Running, Errors, Dump
    <2>2. Places' /\ Written' /\ Copying'
      BY <1>3, <1>14 DEF Places, Written, Copying, Burning, Dump
    <2> QED
      BY <1>14, <2>1, <2>2 DEF Says, SendStatus, Send, Dump
  <1>15. CASE Burn(c)
    <2>1. CASE Refuse("nothing")
      BY <1>5, <2>1 DEF Errors
    <2>2. CASE start # NoAddr /\ pc' = "burn" /\ num' = start
               /\ (IF image = Null THEN memory' = WithKey(memory) /\ UNCHANGED image
                                   ELSE image' = WithKey(image) /\ UNCHANGED memory)
               /\ Running /\ SendStatus("ok", 0) /\ UNCHANGED <<start, part, count, flash, bad>>
      <3>1. start \in Nat
        BY <1>3, <2>2 DEF DeviceTypes
      <3>0. /\ image' = Null \/ image' \in Seq(Values)
            /\ image' = Null => image = Null
            /\ memory' \in Seq(Values) /\ Len(memory') = FlashEnd
        <4>1. CASE image = Null
          <5>1. memory' = WithKey(memory) /\ image' = image
            BY <2>2, <4>1
          <5>2. memory \in Seq(Values) /\ Len(memory) = FlashEnd
            BY <1>3 DEF DeviceTypes
          <5> QED
            BY <1>3, <4>1, <5>1, <5>2, KeyKept
        <4>2. CASE image # Null
          <5>1. image' = WithKey(image) /\ memory' = memory
            BY <2>2, <4>2
          <5>2. image \in Seq(Values) /\ memory \in Seq(Values) /\ Len(memory) = FlashEnd
            BY <1>3, <4>2 DEF DeviceTypes
          <5>3. image' \in Seq(Values)
            BY <1>3, <5>1, <5>2, KeyKept
          <5> QED
            BY <5>1, <5>2, <5>3, NotNull
        <4> QED
          BY <4>1, <4>2
      <3>2. DeviceTypes'
        BY <1>1, <1>3, <2>2, <3>0, <3>1 DEF DeviceTypes, Running, Errors
      <3>3. Places' /\ Copying'
        BY <1>3, <2>2, <3>0, <3>1 DEF Places, Copying, Burning, DeviceTypes
      <3>4. Written'
        <4>1. Behind' = start /\ start' = start
          BY <2>2 DEF Behind
        <4>2. \A b \in Blocks : ~(start <= b /\ b < start)
          BY <3>1 DEF Blocks
        <4> QED
          BY <4>1, <4>2 DEF Written
      <3> QED
        BY <2>2, <3>2, <3>3, <3>4 DEF Says, SendStatus, Send
    <2> QED
      BY <1>15, <2>1, <2>2 DEF Burn
  <1> QED
    BY <1>1, <1>6, <1>7, <1>8, <1>9, <1>10, <1>11, <1>12, <1>13, <1>14, <1>15 DEF Run

\* What the shell does with a packet.
LEMMA ShellStep ==
  ASSUME BootAssumption, ScriptsWellFormed, IInv, Shell
  PROVE  IInv'
  <1>1. PICK m \in Range(toDev) : Receive(m) /\ (NewCommand(m) \/ Repeated(m) \/ NotACommand(m))
    BY DEF Shell
  <1>2. script' = script /\ Len(toHost) < LineLen /\ pc = "shell"
    BY <1>1 DEF Receive, Shell
  <1>3. m \in HostPacket
    BY <1>1, LineHead DEF IInv
  <1>4. CASE NewCommand(m)
    BY <1>1, <1>2, <1>3, <1>4, CommandRuns, Taken DEF IInv
  <1>5. CASE Repeated(m) \/ NotACommand(m)
    <2>1. Says /\ UNCHANGED device
      BY <1>2, <1>5 DEF Repeated, NotACommand, SendStatus, Send, Says
    <2> QED
      BY <1>1, <1>2, <2>1, Taken, DeviceIdle DEF IInv
  <1> QED
    BY <1>1, <1>4, <1>5
------------------------------------------------------------------------------
(* The loops of cmd_transfer and cmd_dump. *)

\* A loop that does not burn.
LEMMA LoopKeeps ==
  ASSUME IInv, script' = script, ~Burning, pc' \in {"shell", "transfer", "dump"}, UNCHANGED <<start, cmd, memory, flash, bad>>,
         index' \in Nat, last_status' \in {"ok", "error", "running", "executed"}, last_error' \in Errors,
         image' = Null \/ image' \in Seq(Values), image' = Null => image = Null,
         part' \in Seq(Values), count' \in Nat, num' \in Nat
  PROVE  DeviceTypes' /\ Places' /\ Written' /\ Copying'
  <1>1. DeviceTypes'
    BY DEF IInv, DeviceTypes
  <1>2. Places' /\ Written' /\ Copying'
    BY DEF IInv, Places, Written, Copying, Burning
  <1> QED
    BY <1>1, <1>2

LEMMA LoopEnds ==
  ASSUME IInv, NEW m \in HostPacket, script' = script, pc \in {"transfer", "dump"},
         Overtaken(m) \/ Ignored(m) \/ Cancelled(m)
  PROVE  Says /\ DeviceTypes' /\ Places' /\ Written' /\ Copying'
  <1>1. IndexAfter(m) \in Nat /\ DeviceTypes /\ ~Burning
    BY DEF IInv, DeviceTypes, IndexAfter, Burning
  <1>2. CASE Overtaken(m)
    <2>1. /\ pc' = "shell" /\ index' \in Nat /\ last_status' = "executed" /\ last_error' = "success"
          /\ UNCHANGED <<toHost, start, image, part, count, num, cmd, memory, flash, bad>>
      BY <1>1, <1>2 DEF Overtaken, Returns
    <2> QED
      BY <1>1, <2>1, LoopKeeps DEF DeviceTypes, Says, Errors
  <1>3. CASE Ignored(m)
    BY <1>3, DeviceIdle DEF Ignored, Says
  <1>4. CASE Cancelled(m)
    <2>1. /\ pc' = "shell" /\ last_status' = "error" /\ last_error' = "abort"
          /\ UNCHANGED <<toHost, index, start, image, part, count, num, cmd, memory, flash, bad>>
      BY <1>4 DEF Cancelled, Returns
    <2> QED
      BY <1>1, <2>1, LoopKeeps DEF DeviceTypes, Says, Errors
  <1> QED
    BY <1>2, <1>3, <1>4

LEMMA Stored ==
  ASSUME IInv, NEW m \in HostPacket, script' = script, pc = "transfer", Len(toHost) < LineLen, Store(m)
  PROVE  Says /\ DeviceTypes' /\ Places' /\ Written' /\ Copying'
  <1>1. DeviceTypes /\ ~Burning
    BY DEF IInv, Burning
  <1>2. New(cmd, m.num) \in Values
    <2>1. cmd \in Nat /\ m.num \in Nat
      BY <1>1 DEF DeviceTypes, HostPacket
    <2> QED
      BY <2>1 DEF New, Values
  <1>3. /\ part' = Append(part, New(cmd, m.num)) /\ UNCHANGED <<index, start, count, num, cmd, memory, flash, bad>> /\ Says
    BY DEF Store, SendStatus, Send, Says
  <1>4. part' \in Seq(Values)
    BY <1>1, <1>2, <1>3 DEF DeviceTypes
  <1>5. CASE UNCHANGED <<pc, image, last_status, last_error>>
    BY <1>1, <1>3, <1>4, <1>5, LoopKeeps DEF DeviceTypes
  <1>6. CASE pc' = "shell" /\ \E fits \in Unpacks : /\ Returns(IF fits THEN "success" ELSE "decompress")
                                                    /\ image' = IF fits THEN Extended(part') ELSE image
    <2>1. PICK fits \in Unpacks : /\ Returns(IF fits THEN "success" ELSE "decompress")
                                  /\ image' = IF fits THEN Extended(part') ELSE image
      BY <1>6
    <2>2. last_status' \in {"ok", "error", "running", "executed"} /\ last_error' \in Errors
      BY <2>1 DEF Returns, Errors
    <2>3. /\ Extended(part') = Null \/ Extended(part') \in Seq(Values)
          /\ Extended(part') = Null => image = Null
      BY <1>1, <1>4, Grows
    <2>4. /\ image' = Null \/ image' \in Seq(Values)
          /\ image' = Null => image = Null
      BY <1>1, <2>1, <2>3 DEF DeviceTypes
    <2> QED
      BY <1>1, <1>3, <1>4, <1>6, <2>2, <2>4, LoopKeeps DEF DeviceTypes
  <1> QED
    BY <1>5, <1>6 DEF Store

LEMMA TransferStep ==
  ASSUME BootAssumption, IInv, TransferLoop
  PROVE  IInv'
  <1>1. PICK m \in Range(toDev) :
          /\ Receive(m)
          /\ \/ Overtaken(m) \/ Ignored(m) \/ Cancelled(m) \/ Store(m)
             \/ Same(m) /\ m.type = "command" /\ Answer(last_status, 0)
             \/ Same(m) /\ m.type = "request" /\ Answer("ok", Len(part))
             \/ Same(m) /\ m.type = "data" /\ ~InOrder(m) /\ Answer("ok", Len(part))
    BY DEF TransferLoop
  <1>2. script' = script /\ Len(toHost) < LineLen /\ pc = "transfer"
    BY <1>1 DEF Receive, TransferLoop
  <1>3. m \in HostPacket
    BY <1>1, LineHead DEF IInv
  <1>4. CASE Overtaken(m) \/ Ignored(m) \/ Cancelled(m)
    BY <1>1, <1>2, <1>3, <1>4, LoopEnds, Taken DEF IInv
  <1>5. CASE Store(m)
    BY <1>1, <1>2, <1>3, <1>5, Stored, Taken DEF IInv
  <1>6. CASE Answer(last_status, 0) \/ Answer("ok", Len(part))
    <2>1. Says /\ UNCHANGED device
      BY <1>2, <1>6 DEF Answer, SendStatus, Send, Says
    <2> QED
      BY <1>1, <1>2, <2>1, Taken, DeviceIdle DEF IInv
  <1> QED
    BY <1>1, <1>4, <1>5, <1>6

LEMMA DumpStep ==
  ASSUME BootAssumption, IInv, DumpLoop
  PROVE  IInv'
  <1>1. PICK m \in Range(toDev) :
          /\ Receive(m)
          /\ \/ Overtaken(m) \/ Ignored(m) \/ Cancelled(m) \/ Serve(m)
             \/ Same(m) /\ m.type = "command" /\ Answer(last_status, 0)
    BY DEF DumpLoop
  <1>2. script' = script /\ Len(toHost) < LineLen /\ pc = "dump"
    BY <1>1 DEF Receive, DumpLoop
  <1>3. m \in HostPacket
    BY <1>1, LineHead DEF IInv
  <1>4. CASE Overtaken(m) \/ Ignored(m) \/ Cancelled(m)
    BY <1>1, <1>2, <1>3, <1>4, LoopEnds, Taken DEF IInv
  <1>5. CASE Serve(m)
    <2>1. Says /\ UNCHANGED <<index, start, image, part, count, cmd, flash, memory, bad>>
      BY <1>2, <1>5 DEF Serve, Send, Says
    <2>2. DeviceTypes /\ ~Burning
      BY <1>2 DEF IInv, Burning
    <2>3. num' \in Nat
      BY <1>5, <2>2 DEF Serve, DeviceTypes
    <2>4. /\ pc' \in {"shell", "dump"} /\ last_error' \in Errors
          /\ last_status' \in {"ok", "error", "running", "executed"}
      BY <1>2, <1>5, <2>2 DEF Serve, DeviceTypes, Returns, Errors
    <2>5. DeviceTypes' /\ Places' /\ Written' /\ Copying'
      BY <1>2, <2>1, <2>2, <2>3, <2>4, LoopKeeps DEF DeviceTypes
    <2> QED
      BY <1>1, <2>1, <2>5, Taken DEF IInv
  <1>6. CASE Answer(last_status, 0)
    <2>1. Says /\ UNCHANGED device
      BY <1>2, <1>6 DEF Answer, SendStatus, Send, Says
    <2> QED
      BY <1>1, <1>2, <2>1, Taken, DeviceIdle DEF IInv
  <1> QED
    BY <1>1, <1>4, <1>5, <1>6
------------------------------------------------------------------------------
(* cmd_burn. *)

\* What is burnt, from the start on.
LEMMA BurntType ==
  ASSUME BootAssumption, DeviceTypes
  PROVE  /\ Burnt \in Seq(Values) /\ Len(Burnt) \in Nat
         /\ \A b \in Nat : start \in Nat /\ start <= b /\ b - start < Len(Burnt) =>
              b - start + 1 \in 1 .. Len(Burnt) /\ Burnt[b - start + 1] \in Values
  <1>1. Burnt \in Seq(Values)
    <2>1. CASE image = Null
      BY <2>1 DEF Burnt, DeviceTypes
    <2>2. CASE image # Null
      BY <2>2 DEF Burnt, DeviceTypes
    <2> QED
      BY <2>1, <2>2
  <1>2. Len(Burnt) \in Nat /\ \A i \in 1 .. Len(Burnt) : Burnt[i] \in Values
    BY <1>1
  <1>3. ASSUME NEW b \in Nat, start \in Nat, start <= b, b - start < Len(Burnt)
        PROVE  b - start + 1 \in 1 .. Len(Burnt)
    BY <1>2, <1>3
  <1> QED
    BY <1>1, <1>2, <1>3

\* The burn ends behind the image, or where the flash does.
LEMMA WhereItEnds ==
  ASSUME BootAssumption, DeviceTypes, image = Null => start \in {0, NoAddr}, start \in Nat
  PROVE  /\ BurnEnd \in Nat /\ BurnEnd <= FlashEnd
         /\ \A b \in Blocks : start <= b /\ b - start < Len(Burnt) => b < BurnEnd
  <1>0. FlashEnd \in Nat /\ FlashEnd % SectorLen = 0 /\ Blocks = 0 .. FlashEnd - 1
    BY EndAligned
  <1>1. CASE image = Null
    BY <1>0, <1>1 DEF BurnEnd
  <1>2. CASE image # Null
    <2> DEFINE e == start + Len(image)
    <2>1. e \in Nat /\ Burnt = image /\ Len(image) \in Nat
      BY <1>2 DEF DeviceTypes, Burnt
    <2>2. BurnEnd = IF e < FlashEnd THEN SectorEnd(e) ELSE FlashEnd
      BY <1>2 DEF BurnEnd
    <2>3. CASE e < FlashEnd
      <3> DEFINE s == SectorStart(e + SectorLen - 1)
      <3>1. e + SectorLen - 1 \in Nat /\ SectorLen \in Nat
        BY <2>1 DEF BootAssumption
      <3>2. s \in Nat /\ s % SectorLen = 0 /\ s <= e + SectorLen - 1 /\ e + SectorLen - 1 < s + SectorLen
        BY <3>1, Sectors
      <3>3. BurnEnd = s
        BY <2>2, <2>3 DEF SectorEnd
      <3>4. FlashEnd < s => FlashEnd + SectorLen <= s
        BY <1>0, <3>2, Aligned
      <3> HIDE DEF s
      <3>5. s <= FlashEnd /\ e <= s
        BY <1>0, <2>1, <2>3, <3>1, <3>2, <3>4
      <3>6. \A b \in Blocks : start <= b /\ b - start < Len(image) => b < s
        BY <1>0, <2>1, <3>2, <3>5
      <3> QED
        BY <2>1, <3>2, <3>3, <3>5, <3>6
    <2>4. CASE ~(e < FlashEnd)
      BY <1>0, <2>2, <2>4
    <2> QED
      BY <2>3, <2>4
  <1> QED
    BY <1>1, <1>2

\* A sector that is being burnt.
LEMMA AtSector ==
  ASSUME BootAssumption, IInv, Burning, num \in Blocks
  PROVE  /\ num \in Nat /\ num % SectorLen = 0 /\ start \in Nat /\ start <= num /\ SectorLen \in Nat /\ SectorLen >= 1
         /\ Sector(num) \subseteq Blocks /\ Sector(num) = num .. num + SectorLen - 1
         /\ \A b \in Sector(num) : SectorStart(b) = num
  <1>1. num \in Nat /\ num % SectorLen = 0 /\ start \in Nat /\ start <= num /\ SectorLen \in Nat /\ SectorLen >= 1
    BY DEF IInv, DeviceTypes, Places, BootAssumption
  <1>2. FlashEnd \in Nat /\ FlashEnd % SectorLen = 0 /\ Blocks = 0 .. FlashEnd - 1
    BY EndAligned
  <1>3. num + SectorLen <= FlashEnd
    <2>1. num < FlashEnd
      BY <1>2
    <2> QED
      BY <1>1, <1>2, <2>1, Aligned
  <1>4. Sector(num) = num .. num + SectorLen - 1
    BY DEF Sector
  <1>5. Sector(num) \subseteq Blocks
    BY <1>1, <1>2, <1>3, <1>4
  <1>6. \A b \in Sector(num) : SectorStart(b) = num
    BY <1>1, <1>4, InSector
  <1> QED
    BY <1>1, <1>4, <1>5, <1>6

LEMMA InFlash ==
  ASSUME BootAssumption, IInv, pc = "burn", num < BurnEnd
  PROVE  Burning /\ num \in Blocks
  <1>1. num \in Nat /\ start \in Nat /\ BurnEnd \in Nat /\ BurnEnd <= FlashEnd
    BY WhereItEnds DEF IInv, Places, Burning, DeviceTypes
  <1> QED
    BY <1>1, EndAligned DEF Burning

\* What a sector is to hold is the image where there is one.
LEMMA WantedType ==
  ASSUME BootAssumption, IInv, Burning, num \in Blocks
  PROVE  \A b \in Sector(num) : /\ Wanted(b) \in Values
                                /\ b - start < Len(Burnt) => Wanted(b) = Burnt[b - start + 1]
  <1> SUFFICES ASSUME NEW b \in Sector(num)
               PROVE  /\ Wanted(b) \in Values
                      /\ b - start < Len(Burnt) => Wanted(b) = Burnt[b - start + 1]
    OBVIOUS
  <1>1. b \in Nat /\ b \in Blocks /\ start \in Nat /\ start <= b
    BY AtSector
  <1>2. flash[b] \in Values
    BY <1>1 DEF IInv, DeviceTypes
  <1>3. b - start < Len(Burnt) => Burnt[b - start + 1] \in Values
    BY <1>1, BurntType DEF IInv
  <1> QED
    BY <1>2, <1>3 DEF Wanted

\* The sector is put together.
LEMMA PutTogether ==
  ASSUME BootAssumption, IInv, Burning, num \in Blocks, UNCHANGED <<start, image, memory, num>>,
         part' = [i \in 1 .. SectorLen |-> SectorData[num + i - 1]]
  PROVE  part' \in Seq(Values) /\ Copying'
  <1>1. /\ num \in Nat /\ start \in Nat /\ SectorLen \in Nat
        /\ Sector(num) \subseteq Blocks /\ Sector(num) = num .. num + SectorLen - 1
    BY AtSector
  <1>2. \A i \in 1 .. SectorLen : num + i - 1 \in Sector(num)
    BY <1>1
  <1>3. \A i \in 1 .. SectorLen : part'[i] = Wanted(num + i - 1)
    BY <1>2 DEF SectorData
  <1>4. \A i \in 1 .. SectorLen : part'[i] \in Values
    BY <1>2, <1>3, WantedType
  <1>5. part' \in Seq(Values) /\ Len(part') = SectorLen
    <2>1. DOMAIN part' = 1 .. SectorLen
      OBVIOUS
    <2> QED
      BY <1>1, <1>4
  <1>6. ASSUME NEW b \in Sector(num), b - start < Len(Burnt)
        PROVE  part'[b - num + 1] = Burnt[b - start + 1]
    <2>1. b - num + 1 \in 1 .. SectorLen /\ num + (b - num + 1) - 1 = b
      BY <1>1
    <2>2. part'[b - num + 1] = Wanted(b)
      BY <1>3, <2>1
    <2> QED
      BY <1>6, <2>2, WantedType
  <1>7. Burnt' = Burnt /\ Sector(num)' = Sector(num)
    BY DEF Burnt, Sector
  <1> QED
    BY <1>5, <1>6, <1>7 DEF Copying

\* A step in a sector that changes nothing behind it.
LEMMA BehindStays ==
  ASSUME BootAssumption, IInv, Burning, pc # "poll", num \in Blocks, UNCHANGED <<start, image, memory, num>>, pc' # "poll",
         bad' = bad, \A b \in Blocks : b \notin Sector(num) => flash'[b] = flash[b]
  PROVE  Written'
  <1>1. Behind = num /\ Behind' = num /\ Burnt' = Burnt
    BY DEF Behind, Burnt
  <1>2. ASSUME NEW b \in Blocks, start <= b, b < num, b - start < Len(Burnt)
        PROVE  Holds(b)'
    <2>1. Holds(b)
      BY <1>1, <1>2 DEF IInv, Written
    <2>2. b \notin Sector(num)
      BY <1>2, AtSector DEF Blocks
    <2> QED
      BY <1>1, <2>1, <2>2 DEF Holds
  <1> QED
    BY <1>1, <1>2 DEF Written

LEMMA EraseStep ==
  ASSUME BootAssumption, IInv, BurnErase \/ BurnNoErase
  PROVE  IInv'
  <1>1. /\ pc = "burn" /\ num < BurnEnd /\ pc' = "copy" /\ UNCHANGED <<toDev, host>>
        /\ part' = [i \in 1 .. SectorLen |-> SectorData[num + i - 1]]
        /\ UNCHANGED <<toHost, index, last_status, last_error, start, image, count, num, cmd, memory, bad>>
        /\ \/ flash' = [b \in Blocks |-> IF b \in Sector(num) THEN Blank ELSE flash[b]]
           \/ flash' = flash
    BY DEF BurnErase, BurnNoErase, Quiet
  <1>2. Burning /\ num \in Blocks
    BY <1>1, InFlash
  <1>3. part' \in Seq(Values) /\ Copying'
    BY <1>1, <1>2, PutTogether
  <1>4. flash' \in [Blocks -> Values] /\ \A b \in Blocks : b \notin Sector(num) => flash'[b] = flash[b]
    <2>1. flash \in [Blocks -> Values] /\ Blank \in Values
      BY DEF IInv, DeviceTypes, Values
    <2> QED
      BY <1>1, <2>1
  <1>5. Written'
    BY <1>1, <1>2, <1>4, BehindStays
  <1>6. script' = script /\ Says
    BY <1>1 DEF host, Says
  <1>7. DeviceTypes'
    BY <1>1, <1>3, <1>4, <1>6 DEF IInv, DeviceTypes
  <1>8. Places'
    BY <1>1, <1>2 DEF IInv, Places, Burning
  <1> QED
    BY <1>1, <1>3, <1>5, <1>6, <1>7, <1>8, OwnStep DEF IInv

\* A beginning of the sector is copied, or all of it.
LEMMA CopiedType ==
  ASSUME BootAssumption, IInv, pc = "copy", NEW n \in 0 .. SectorLen
  PROVE  /\ Copied(n) \in [Blocks -> Values]
         /\ \A b \in Blocks : b \notin Sector(num) => Copied(n)[b] = flash[b]
         /\ n = SectorLen => \A b \in Sector(num) : Copied(n)[b] = part[b - num + 1]
  <1>1. Burning /\ num \in Blocks
    BY DEF Burning, IInv, Places
  <1>2. /\ num \in Nat /\ SectorLen \in Nat
        /\ Sector(num) \subseteq Blocks /\ Sector(num) = num .. num + SectorLen - 1
    BY <1>1, AtSector
  <1>3. part \in Seq(Values) /\ Len(part) = SectorLen /\ flash \in [Blocks -> Values]
    BY DEF IInv, DeviceTypes, Copying
  <1>4. \A b \in num .. num + n - 1 : b - num + 1 \in 1 .. SectorLen /\ b \in Sector(num)
    BY <1>2
  <1>5. \A i \in 1 .. SectorLen : part[i] \in Values
    BY <1>3
  <1>6. \A b \in Blocks : (IF b \in num .. num + n - 1 THEN part[b - num + 1] ELSE flash[b]) \in Values
    BY <1>3, <1>4, <1>5
  <1>7. Copied(n) \in [Blocks -> Values]
    BY <1>6 DEF Copied
  <1>8. \A b \in Blocks : b \notin Sector(num) => Copied(n)[b] = flash[b]
    BY <1>4 DEF Copied
  <1>9. n = SectorLen => \A b \in Sector(num) : Copied(n)[b] = part[b - num + 1]
    BY <1>2 DEF Copied
  <1> QED
    BY <1>7, <1>8, <1>9

LEMMA CopyStep ==
  ASSUME BootAssumption, IInv, BurnCopy
  PROVE  IInv'
  <1>1. /\ pc = "copy" /\ pc' = "poll" /\ Len(toHost) < LineLen /\ UNCHANGED <<toDev, host>>
        /\ UNCHANGED <<index, last_status, last_error, start, image, memory, part, count, num, cmd>>
    BY DEF BurnCopy
  <1>2. Burning /\ num \in Blocks
    BY <1>1 DEF IInv, Places, Burning
  <1>3. /\ num \in Nat /\ start \in Nat /\ start <= num /\ SectorLen \in Nat /\ SectorLen >= 1
        /\ Sector(num) \subseteq Blocks /\ Sector(num) = num .. num + SectorLen - 1
        /\ \A b \in Sector(num) : SectorStart(b) = num
    BY <1>2, AtSector
  <1>4. PICK n \in 0 .. SectorLen : /\ flash' = Copied(n)
                                    /\ (n = SectorLen /\ bad' = bad) \/ bad' = bad \cup {num}
    <2>1. SectorLen \in 0 .. SectorLen /\ 0 .. SectorLen - 1 \subseteq 0 .. SectorLen
      BY <1>3
    <2>2. CASE flash' = Copied(SectorLen) /\ bad' = bad
      BY <2>1, <2>2
    <2>3. CASE (\E n \in 0 .. SectorLen - 1 : flash' = Copied(n)) /\ bad' = bad \cup {num}
      BY <2>1, <2>3
    <2> QED
      BY <2>2, <2>3 DEF BurnCopy
  <1>5. /\ flash' \in [Blocks -> Values]
        /\ \A b \in Blocks : b \notin Sector(num) => flash'[b] = flash[b]
        /\ n = SectorLen => \A b \in Sector(num) : flash'[b] = part[b - num + 1]
    BY <1>1, <1>4, CopiedType
  <1>6. Burnt' = Burnt /\ Behind = num /\ Behind' = num + SectorLen
    BY <1>1 DEF Burnt, Behind
  <1>7. ASSUME NEW b \in Blocks, start <= b, b < num + SectorLen, b - start < Len(Burnt)
        PROVE  Holds(b)'
    <2>1. CASE b < num
      <3>1. Holds(b)
        BY <1>2, <1>6, <1>7, <2>1 DEF IInv, Written
      <3>2. b \notin Sector(num)
        BY <1>3, <2>1 DEF Blocks
      <3> QED
        BY <1>1, <1>4, <1>5, <1>6, <3>1, <3>2 DEF Holds
    <2>2. CASE ~(b < num)
      <3>1. b \in Sector(num)
        BY <1>3, <1>7, <2>2 DEF Blocks
      <3>2. part[b - num + 1] = Burnt[b - start + 1]
        BY <1>1, <1>7, <3>1 DEF IInv, Copying
      <3>3. flash'[b] = Burnt[b - start + 1] \/ SectorStart(b) \in bad'
        BY <1>3, <1>4, <1>5, <3>1, <3>2
      <3> QED
        BY <1>1, <1>6, <3>3 DEF Holds
    <2> QED
      BY <2>1, <2>2
  <1>8. Written'
    BY <1>1, <1>6, <1>7 DEF Written
  <1>9. script' = script
    BY <1>1 DEF host
  <1>10. DeviceTypes'
    BY <1>1, <1>2, <1>4, <1>5, <1>9 DEF IInv, DeviceTypes
  <1>11. Places' /\ Copying'
    BY <1>1, <1>2 DEF IInv, Places, Burning, Copying
  <1>12. Says
    BY <1>1 DEF BurnCopy, Send, Says
  <1> QED
    BY <1>1, <1>8, <1>9, <1>10, <1>11, <1>12, OwnStep DEF IInv

\* On to the next sector.
LEMMA OnePast ==
  ASSUME BootAssumption, IInv, Burning, num \in Blocks, script' = script, index' \in Nat,
         pc' = "burn", num' = num + SectorLen,
         UNCHANGED <<last_status, last_error, start, image, part, count, cmd, flash, memory, bad>>,
         \A b \in Blocks : start <= b /\ b < num + SectorLen /\ b - start < Len(Burnt) => Holds(b)
  PROVE  DeviceTypes' /\ Places' /\ Written' /\ Copying'
  <1>1. num \in Nat /\ num % SectorLen = 0 /\ start \in Nat /\ start <= num /\ SectorLen \in Nat
    BY AtSector
  <1>2. (num + SectorLen) % SectorLen = 0
    BY <1>1, Aligned
  <1>3. DeviceTypes'
    BY <1>1 DEF IInv, DeviceTypes
  <1>4. Places' /\ Copying'
    BY <1>1, <1>2 DEF IInv, Places, Burning, Copying
  <1>5. Behind' = num + SectorLen /\ Burnt' = Burnt
    BY DEF Behind, Burnt
  <1>6. Written'
    BY <1>5 DEF Written, Holds
  <1> QED
    BY <1>3, <1>4, <1>6

LEMMA PollStep ==
  ASSUME BootAssumption, IInv, BurnPoll
  PROVE  IInv'
  <1>1. /\ pc = "poll" /\ pc' = "burn" /\ num' = num + SectorLen
        /\ UNCHANGED <<last_status, last_error, start, image, part, count, cmd, flash, memory, bad>>
    BY DEF BurnPoll
  <1>2. Burning /\ num \in Blocks
    BY <1>1 DEF IInv, Places, Burning
  <1>3. \A b \in Blocks : start <= b /\ b < num + SectorLen /\ b - start < Len(Burnt) => Holds(b)
    BY <1>1, <1>2 DEF IInv, Written, Behind
  <1>4. CASE UNCHANGED <<toDev, toHost, index, host, bounds>>
    <2>1. script' = script /\ index' \in Nat /\ Says
      BY <1>4 DEF host, IInv, DeviceTypes, Says
    <2> QED
      BY <1>1, <1>2, <1>3, <1>4, <2>1, OnePast, OwnStep DEF IInv
  <1>5. CASE \E m \in Range(toDev) :
               /\ Receive(m) /\ index' = IndexAfter(m)
               /\ IF m.type = "command" /\ m.index = index' THEN SendStatus(last_status, 0) ELSE UNCHANGED toHost
    <2>1. PICK m \in Range(toDev) :
               /\ Receive(m) /\ index' = IndexAfter(m)
               /\ IF m.type = "command" /\ m.index = index' THEN SendStatus(last_status, 0) ELSE UNCHANGED toHost
      BY <1>5
    <2>2. script' = script /\ Len(toHost) < LineLen
      BY <2>1 DEF Receive
    <2>3. index' \in Nat /\ Says
      BY <2>1, <2>2 DEF IndexAfter, IInv, DeviceTypes, SendStatus, Send, Says
    <2> QED
      BY <1>1, <1>2, <1>3, <2>1, <2>2, <2>3, OnePast, Taken DEF IInv
  <1> QED
    BY <1>4, <1>5 DEF BurnPoll

LEMMA SkipStep ==
  ASSUME BootAssumption, IInv, BurnSkip
  PROVE  IInv'
  <1>1. /\ pc = "burn" /\ num < BurnEnd /\ Differs = {} /\ num' = num + SectorLen /\ UNCHANGED <<toDev, host>>
        /\ UNCHANGED <<toHost, pc, index, last_status, last_error, start, image, part, count, cmd, flash, memory, bad>>
    BY DEF BurnSkip, Quiet
  <1>2. Burning /\ num \in Blocks
    BY <1>1, InFlash
  <1>3. ASSUME NEW b \in Blocks, start <= b, b < num + SectorLen, b - start < Len(Burnt)
        PROVE  Holds(b)
    <2>1. CASE b < num
      BY <1>1, <1>2, <1>3, <2>1 DEF IInv, Written, Behind
    <2>2. CASE ~(b < num)
      <3>1. b \in Sector(num)
        BY <1>2, <1>3, <2>2, AtSector DEF Blocks
      <3>2. flash[b] = Wanted(b)
        BY <1>1, <3>1 DEF Differs
      <3> QED
        BY <1>2, <1>3, <3>1, <3>2, WantedType DEF Holds
    <2> QED
      BY <2>1, <2>2
  <1>4. script' = script /\ Says /\ index' \in Nat
    BY <1>1 DEF host, Says, IInv, DeviceTypes
  <1> QED
    BY <1>1, <1>2, <1>3, <1>4, OnePast, OwnStep DEF IInv

LEMMA FinishStep ==
  ASSUME BootAssumption, IInv, BurnFinish
  PROVE  IInv'
  <1>1. /\ pc = "burn" /\ pc' = "shell" /\ Returns("success") /\ Len(toHost) < LineLen
        /\ Send(Data(index, 0, "FINISH")) /\ UNCHANGED <<toDev, host>>
        /\ UNCHANGED <<index, start, image, part, count, num, cmd, memory, flash, bad>>
    BY DEF BurnFinish, Quiet
  <1>2. script' = script /\ Says
    BY <1>1 DEF host, Send, Says
  <1>3. DeviceTypes'
    BY <1>1, <1>2 DEF IInv, DeviceTypes, Returns, Errors
  <1>4. Places' /\ Written' /\ Copying'
    BY <1>1 DEF IInv, Places, Written, Copying, Burning
  <1> QED
    BY <1>1, <1>2, <1>3, <1>4, OwnStep DEF IInv

------------------------------------------------------------------------------
(* The host, the line and the power. *)

\* The host puts a packet on the line, or none.
LEMMA PutOn ==
  ASSUME BootAssumption, IInv, UNCHANGED <<toHost, device>>, script' = script, HostTypes',
         toDev' = toDev \/ (Len(toDev) < LineLen /\ \E p \in HostPacket : toDev' = Append(toDev, p))
  PROVE  IInv'
  <1>1. HostPacket' = HostPacket
    BY DEF HostPacket
  <1>2. toDev' \in Seq(HostPacket) /\ Len(toDev') <= LineLen
    <2>1. toDev \in Seq(HostPacket) /\ Len(toDev) <= LineLen /\ Len(toDev) \in Nat
      BY DEF IInv, Lines
    <2>2. CASE toDev' = toDev
      BY <2>1, <2>2
    <2>3. CASE Len(toDev) < LineLen /\ \E p \in HostPacket : toDev' = Append(toDev, p)
      <3>1. PICK p \in HostPacket : toDev' = Append(toDev, p)
        BY <2>3
      <3> QED
        BY <2>1, <2>3, <3>1 DEF BootAssumption
    <2> QED
      BY <2>2, <2>3
  <1>3. Lines'
    BY <1>1, <1>2 DEF IInv, Lines
  <1> QED
    BY <1>3, DeviceIdle DEF IInv

LEMMA HostPackets ==
  ASSUME HostTypes
  PROVE  /\ phase \notin {"done", "failed"} => Current \in HostPacket
         /\ Request(hidx, got) \in HostPacket /\ Cancel(hidx) \in HostPacket /\ Spoilt \in HostPacket
  <1>1. hidx \in Nat /\ got \in Nat
    BY DEF HostTypes
  <1>2. Request(hidx, got) \in HostPacket /\ Cancel(hidx) \in HostPacket /\ Spoilt \in HostPacket
    BY <1>1 DEF HostPacket, Request, Cancel, Spoilt
  <1>3. Block(hidx, got + 1) \in HostPacket
    BY <1>1 DEF HostPacket, Block
  <1>4. phase \notin {"done", "failed"} => (at \in Nat /\ at \in 1 .. Len(script))
    BY DEF HostTypes
  <1>5. phase \notin {"done", "failed"} => Command(hidx, at) \in HostPacket
    BY <1>1, <1>4 DEF HostPacket, Command
  <1>6. CASE phase \in {"ask", "wait"}
    BY <1>2, <1>5, <1>6 DEF Current
  <1>7. CASE phase = "feed"
    BY <1>2, <1>3, <1>7 DEF Current
  <1>8. CASE phase = "read"
    BY <1>2, <1>8 DEF Current
  <1> QED
    BY <1>2, <1>6, <1>7, <1>8 DEF HostTypes

\* What the host hears takes it to the next command at most.
LEMMA HostHears ==
  ASSUME HostTypes, script' = script, NEW m,
         \/ (phase \in {"done", "failed"} \/ m.index # hidx) /\ Stays
         \/ phase \notin {"done", "failed"} /\ m.index = hidx /\ (HearStatus(m) \/ HearData(m))
  PROVE  HostTypes'
  <1>0. Len(script) \in Nat
    BY DEF HostTypes
  <1>1. CASE Stays
    BY <1>1 DEF Stays, HostTypes
  <1>2. CASE NextCommand /\ phase \notin {"done", "failed"}
    <2>1. at \in 1 .. Len(script) /\ at + 1 \in 1 .. Len(script) + 1 /\ (at # Len(script) => at + 1 <= Len(script))
      BY <1>2 DEF HostTypes
    <2>2. hidx + 1 \in Nat
      BY DEF HostTypes
    <2> QED
      BY <1>2, <2>1, <2>2 DEF NextCommand, HostTypes
  <1>3. CASE Again /\ phase \notin {"done", "failed"}
    BY <1>3 DEF Again, HostTypes
  <1>4. CASE Fails
    BY <1>4 DEF Fails, HostTypes
  <1>5. CASE phase \notin {"done", "failed"}
             /\ \E p \in {"feed", "read", "wait"}, n \in {0, got + 1} : Waits(p, n)
    BY <1>5 DEF Waits, HostTypes
  <1>6. ASSUME phase \notin {"done", "failed"}, HearStatus(m)
        PROVE  Stays \/ NextCommand \/ Again \/ Fails \/ \E p \in {"feed", "read", "wait"}, n \in {0, got + 1} : Waits(p, n)
    BY <1>6 DEF HearStatus
  <1>7. ASSUME phase \notin {"done", "failed"}, HearData(m)
        PROVE  Stays \/ NextCommand \/ Again \/ Fails \/ \E p \in {"feed", "read", "wait"}, n \in {0, got + 1} : Waits(p, n)
    BY <1>7 DEF HearData
  <1> QED
    BY <1>1, <1>2, <1>3, <1>4, <1>5, <1>6, <1>7

LEMMA HostStep ==
  ASSUME BootAssumption, ScriptsWellFormed, IInv,
         HostSend \/ HostRequest \/ HostReceive \/ HostAbort \/ HostGivesUp
  PROVE  IInv'
  <1>0. HostTypes /\ Len(script) \in Nat /\ Len(script) >= 1
    BY ScriptType DEF IInv, HostTypes
  <1>1. CASE HostSend
    <2>1. UNCHANGED <<toHost, device, host>> /\ Len(toDev) < LineLen /\ toDev' = Append(toDev, Current)
      BY <1>1 DEF HostSend, Idle
    <2>2. Current \in HostPacket
      BY <1>0, <1>1, HostPackets DEF HostSend
    <2>3. HostTypes' /\ script' = script
      BY <1>0, <2>1 DEF HostTypes, host
    <2> QED
      BY <2>1, <2>2, <2>3, PutOn
  <1>2. CASE HostRequest
    <2>1. UNCHANGED <<toHost, device, host>> /\ toDev = <<>> /\ toDev' = Append(toDev, Request(hidx, got))
      BY <1>2 DEF HostRequest, Idle
    <2>2. Request(hidx, got) \in HostPacket
      BY <1>0, HostPackets
    <2>3. HostTypes' /\ script' = script
      BY <1>0, <2>1 DEF HostTypes, host
    <2>4. Len(toDev) < LineLen
      BY <2>1 DEF BootAssumption
    <2> QED
      BY <2>1, <2>2, <2>3, <2>4, PutOn
  <1>3. CASE HostReceive
    <2>1. /\ toHost # <<>> /\ toHost' = Tail(toHost) /\ UNCHANGED <<toDev, device, script>>
      BY <1>3 DEF HostReceive
    <2>2. HostTypes'
      BY <1>0, <1>3, <2>1, HostHears DEF HostReceive
    <2>3. Lines'
      <3>1. HostPacket' = HostPacket
        BY <2>1 DEF HostPacket
      <3>2. toHost' \in Seq(Range(toHost')) /\ Len(toHost') < Len(toHost)
        BY <2>1, HeardOne DEF IInv, Lines
      <3>3. Len(toHost) \in Nat /\ Len(toHost) <= LineLen /\ Len(toHost') \in Nat
        BY <3>2 DEF IInv, Lines
      <3> QED
        BY <2>1, <3>1, <3>2, <3>3 DEF IInv, Lines, BootAssumption
    <2> QED
      BY <2>1, <2>2, <2>3, DeviceIdle DEF IInv
  <1>4. CASE HostAbort
    <2>1. /\ Restart /\ UNCHANGED <<toHost, device>>
          /\ toDev' = toDev \/ (Len(toDev) < LineLen /\ toDev' = Append(toDev, Cancel(hidx)))
      BY <1>4 DEF HostAbort
    <2>2. HostTypes' /\ script' = script
      BY <1>0, <2>1 DEF Restart, HostTypes
    <2> QED
      BY <1>0, <2>1, <2>2, HostPackets, PutOn
  <1>5. CASE HostGivesUp
    <2>1. UNCHANGED <<toDev, script, at, hidx, got, toHost, device>> /\ phase' \in {"done", "failed"}
      BY <1>5 DEF HostGivesUp, Idle
    <2>2. HostTypes'
      BY <1>0, <2>1 DEF HostTypes
    <2> QED
      BY <2>1, <2>2, PutOn
  <1> QED
    BY <1>1, <1>2, <1>3, <1>4, <1>5

LEMMA LossStep ==
  ASSUME BootAssumption, IInv, LoseToDev \/ LoseToHost
  PROVE  IInv'
  <1>1. UNCHANGED <<device, host>> /\ script' = script
    BY DEF LoseToDev, LoseToHost, host
  <1>2. HostTypes' /\ HostPacket' = HostPacket
    BY <1>1 DEF IInv, HostTypes, HostPacket, host
  <1>3. CASE LoseToDev
    <2>1. toDev # <<>> /\ toDev' \in {Tail(toDev), <<Spoilt>> \o Tail(toDev)} /\ toHost' = toHost
      BY <1>3 DEF LoseToDev
    <2>2. toDev \in Seq(HostPacket) /\ Len(toDev) <= LineLen /\ Spoilt \in HostPacket
      BY HostPackets DEF IInv, Lines
    <2>3. toDev' \in Seq(HostPacket) /\ Len(toDev') <= LineLen
      <3>1. <<Spoilt>> \in Seq(HostPacket) /\ Len(<<Spoilt>>) = 1
        BY <2>2
      <3>2. Tail(toDev) \in Seq(HostPacket) /\ Len(Tail(toDev)) + 1 = Len(toDev) /\ Len(Tail(toDev)) \in Nat
        BY <2>1, <2>2
      <3>3. Len(<<Spoilt>> \o Tail(toDev)) = Len(toDev) /\ <<Spoilt>> \o Tail(toDev) \in Seq(HostPacket)
        BY <3>1, <3>2
      <3>4. CASE toDev' = Tail(toDev)
        <4>1. Len(toDev') <= LineLen
          BY <2>2, <3>2, <3>4 DEF BootAssumption
        <4> QED
          BY <3>2, <3>4, <4>1
      <3>5. CASE toDev' = <<Spoilt>> \o Tail(toDev)
        BY <2>2, <3>3, <3>5
      <3> QED
        BY <2>1, <3>4, <3>5
    <2> QED
      BY <1>1, <1>2, <2>1, <2>3, DeviceIdle DEF IInv, Lines
  <1>4. CASE LoseToHost
    <2>1. toHost # <<>> /\ toHost' = Tail(toHost) /\ toDev' = toDev
      BY <1>4 DEF LoseToHost
    <2>2. toHost' \in Seq(Range(toHost')) /\ Len(toHost') < Len(toHost)
      BY <2>1, HeardOne DEF IInv, Lines
    <2>3. Len(toHost) \in Nat /\ Len(toHost) <= LineLen /\ Len(toHost') \in Nat
      BY <2>2 DEF IInv, Lines
    <2>4. Lines'
      BY <1>2, <2>1, <2>2, <2>3 DEF IInv, Lines, BootAssumption
    <2> QED
      BY <1>1, <1>2, <2>4, DeviceIdle DEF IInv
  <1> QED
    BY <1>3, <1>4

LEMMA UnsetType ==
  ASSUME BootAssumption
  PROVE  Unset \in Seq(Values) /\ Len(Unset) = FlashEnd
  <1>1. FlashEnd \in Nat /\ Garbage \in Values
    BY EndAligned DEF Values
  <1> QED
    BY <1>1 DEF Unset

LEMMA PowerStep ==
  ASSUME BootAssumption, ScriptsWellFormed, IInv, PowerFail
  PROVE  IInv'
  <1>0. HostTypes /\ Len(script) \in Nat /\ Len(script) >= 1
    BY ScriptType DEF IInv, HostTypes
  <1>1. /\ pc' = "shell" /\ index' = 0 /\ last_status' = "ok" /\ last_error' = "success"
        /\ start' = 0 /\ image' = Null /\ part' = <<>> /\ count' = 0 /\ num' = 0 /\ cmd' = 1 /\ memory' = Unset
        /\ toDev' = <<>> /\ toHost' = <<>> /\ bad' = bad
    BY DEF PowerFail
  <1>2. flash' \in [Blocks -> Values]
    <2>1. CASE pc = "copy"
      <3>1. PICK n \in 0 .. SectorLen : flash' = Copied(n)
        BY <2>1 DEF PowerFail
      <3> QED
        BY <2>1, <3>1, CopiedType
    <2>2. CASE pc # "copy"
      BY <2>2 DEF PowerFail, IInv, DeviceTypes
    <2> QED
      BY <2>1, <2>2
  <1>3. HostTypes' /\ script' = script
    <2>1. CASE Restart
      BY <1>0, <2>1 DEF Restart, HostTypes
    <2>2. CASE UNCHANGED host
      BY <1>0, <2>2 DEF host, HostTypes
    <2> QED
      BY <2>1, <2>2 DEF PowerFail
  <1>4. DeviceTypes'
    <2>1. 0 % SectorLen = 0
      BY DEF BootAssumption
    <2> QED
      BY <1>0, <1>1, <1>2, <1>3, <2>1, UnsetType DEF IInv, DeviceTypes, Errors
  <1>5. Places' /\ Written' /\ Copying'
    BY <1>1 DEF Places, Written, Copying, Burning
  <1>6. Lines'
    BY <1>1 DEF Lines, BootAssumption
  <1> QED
    BY <1>3, <1>4, <1>5, <1>6 DEF IInv
------------------------------------------------------------------------------
(* The invariant. *)

LEMMA InitHolds ==
  ASSUME BootAssumption, ScriptsWellFormed, Init
  PROVE  IInv
  <1>1. Len(script) \in Nat /\ Len(script) >= 1
    BY ScriptType DEF Init
  <1>2. Lines
    BY DEF Init, Lines, BootAssumption
  <1>3. HostTypes
    BY <1>1 DEF Init, HostTypes
  <1>4. DeviceTypes
    <2>1. 0 % SectorLen = 0
      BY DEF BootAssumption
    <2>2. flash \in [Blocks -> Values]
      BY DEF Init, Old, Blocks, Values
    <2> QED
      BY <1>1, <2>1, <2>2, UnsetType DEF Init, DeviceTypes, Errors
  <1>5. Places /\ Written /\ Copying
    BY DEF Init, Places, Written, Copying, Burning
  <1> QED
    BY <1>2, <1>3, <1>4, <1>5 DEF IInv

LEMMA NextHolds ==
  ASSUME BootAssumption, ScriptsWellFormed, IInv, [Next]_vars
  PROVE  IInv'
  <1>1. CASE Device
    BY <1>1, ShellStep, TransferStep, DumpStep, EraseStep, CopyStep, PollStep, SkipStep, FinishStep DEF Device
  <1>2. CASE HostSend \/ HostRequest \/ HostReceive \/ HostAbort \/ HostGivesUp
    BY <1>2, HostStep
  <1>3. CASE LoseToDev \/ LoseToHost
    BY <1>3, LossStep
  <1>4. CASE PowerFail
    BY <1>4, PowerStep
  <1>5. CASE UNCHANGED vars
    <2>1. UNCHANGED <<toDev, toHost, device, host>> /\ script' = script
      BY <1>5 DEF vars, host
    <2>2. HostTypes'
      BY <2>1 DEF IInv, HostTypes, host
    <2> QED
      BY <2>1, <2>2, PutOn
  <1> QED
    BY <1>1, <1>2, <1>3, <1>4, <1>5 DEF Next

LEMMA Invariant ==
  ASSUME BootAssumption, ScriptsWellFormed
  PROVE  Spec => []IInv
  <1>1. Init => IInv
    BY InitHolds
  <1>2. IInv /\ [Next]_vars => IInv'
    BY NextHolds
  <1> QED
    BY <1>1, <1>2, PTL DEF Spec

\* The device, the line and the host stay well-typed, whatever is lost and however often
\* power fails or the host starts over: no packet takes lib_ash's loops out of the flash.
THEOREM BootTypes ==
  ASSUME BootAssumption, ScriptsWellFormed
  PROVE  Spec => []TypeOK
  <1>1. IInv => TypeOK
    BY DEF IInv, TypeOK, Lines, HostTypes, DeviceTypes
  <1> QED
    BY <1>1, Invariant, PTL

\* cmd_burn says FINISH of nothing but what it has written or reported.
THEOREM BurnIsTold ==
  ASSUME BootAssumption, ScriptsWellFormed
  PROVE  Spec => BurnTold
  <1> DEFINE Told == pc = "burn" /\ pc' = "shell" /\ last_status' = "executed"
                       => \A i \in 1 .. Len(Burnt) : start + i - 1 \in Blocks => Holds(start + i - 1)
  <1>1. IInv /\ [Next]_vars => [Told]_vars
    <2> SUFFICES ASSUME IInv, Next, pc = "burn", pc' = "shell", last_status' = "executed",
                        NEW i \in 1 .. Len(Burnt), start + i - 1 \in Blocks
                 PROVE  Holds(start + i - 1)
      OBVIOUS
    <2>1. BurnFinish
      <3>1. ~PowerFail
        BY DEF PowerFail, IInv, Places
      <3> QED
        BY <3>1 DEF Next, Device, Shell, TransferLoop, DumpLoop, BurnErase, BurnNoErase, BurnCopy, BurnPoll, BurnSkip,
                    HostSend, HostRequest, HostReceive, HostAbort, HostGivesUp, Idle, LoseToDev, LoseToHost, device
    <2>2. num \in Nat /\ start \in Nat /\ num >= BurnEnd /\ Behind = num
      BY <2>1 DEF IInv, Places, DeviceTypes, Burning, BurnFinish, Behind
    <2>3. BurnEnd \in Nat /\ \A b \in Blocks : start <= b /\ b - start < Len(Burnt) => b < BurnEnd
      BY <2>2, WhereItEnds DEF IInv, Places
    <2>4. Len(Burnt) \in Nat
      BY BurntType DEF IInv
    <2>5. start <= start + i - 1 /\ (start + i - 1) - start < Len(Burnt) /\ start + i - 1 \in Nat
      BY <2>2, <2>4
    <2>6. start + i - 1 < Behind
      BY <2>2, <2>3, <2>5
    <2> QED
      BY <2>5, <2>6 DEF IInv, Written, Burning
  <1>2. Spec => [][Told]_vars
    BY <1>1, Invariant, PTL DEF Spec
  <1> QED
    BY <1>2 DEF BurnTold
=============================================================================
