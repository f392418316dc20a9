--------------------------- MODULE MCBootUpgrade ---------------------------
(***************************************************************************)
(* Instances and properties of BootUpgrade.                                *)
(***************************************************************************)
EXTENDS BootUpgrade

Cm(o, a, l) == [op |-> o, arg |-> a, len |-> l]
Sync == Cm("comtest", 0, 0)

\* An upgrade in two pieces, the second compressed, that leaves the key to the device;
\* one that moves a chunk to the key's place; a look at the flash; and what the shell
\* refuses.
Upgrade  == <<Sync, Cm("address", 1, 0), Cm("transfer", 0, 2), Cm("transferz", 0, 1), Cm("burn", 0, 0), Cm("reboot", 0, 0)>>
Shift    == <<Sync, Cm("chunk", 0, 0), Cm("address", 2, 0), Cm("move", 0, 2), Cm("transfer", 0, 1), Cm("burn", 0, 0)>>
Reading  == <<Sync, Cm("version", 0, 0), Cm("dump", 1, 2), Cm("unknown", 0, 0)>>
TooFar   == <<Sync, Cm("address", 99, 0)>>
NoStart  == <<Sync, Cm("chunk", 0, 0), Cm("transfer", 0, 1)>>
NoMove   == <<Sync, Cm("chunk", 0, 0), Cm("move", 0, 1)>>
NoBurn   == <<Sync, Cm("address", 2, 0), Cm("burn", 0, 0)>>
AllScripts == {Upgrade, Shift, Reading, TooFar, NoStart, NoMove, NoBurn}

\* The key is in block 3, behind one chunk.
Headers  == [h \in {Old(0), Old(3)} |-> IF h = Old(0) THEN 3 ELSE 1]
KeyThird == {Old(3)}

\* An upgrade of the flash from the second sector on, and a key in the first one.
Half     == <<Sync, Cm("address", 3, 0), Cm("transfer", 0, 2), Cm("burn", 0, 0)>>
HalfOnly == {Half}
KeyFirst == {Old(1)}
HeadersFirst == [h \in {Old(0), Old(1)} |-> 1]

Values == Nat \cup {Blank, Garbage}
Errors == {"success", "abort", "decompress", "overflow", "noinit", "nothing"}

\* Types of the device, the line and the host.
TypeOK ==
  /\ pc \in {"shell", "transfer", "dump", "burn", "copy", "poll", "rebooted"}
  /\ index \in Nat /\ last_status \in {"ok", "error", "running", "executed"} /\ last_error \in Errors
  /\ start \in {NoAddr} \cup Nat /\ (start \in Blocks => start % SectorLen = 0)
  /\ (image = Null \/ image \in Seq(Values)) /\ part \in Seq(Values)
  /\ memory \in Seq(Values) /\ Len(memory) = FlashEnd
  /\ count \in Nat /\ num \in Nat /\ cmd \in 1 .. Len(script)
  /\ flash \in [Blocks -> Values] /\ bad \subseteq Blocks
  /\ Len(toDev) <= LineLen /\ Len(toHost) <= LineLen
  /\ at \in 1 .. Len(script) + 1 /\ hidx \in Nat /\ got \in Nat
  /\ phase \in {"ask", "feed", "read", "wait", "done", "failed"}

------------------------------------------------------------------------------
(* What the host means the script to do. *)

Packets(s, i) == [n \in 1 .. s[i].len |-> New(i, n)]

Before(b) == [i \in 1 .. b - SectorStart(b) |-> Old(SectorStart(b) + i - 1)]
MovedChunk(c) == [i \in 1 .. c.len |-> IF i = 1 THEN Moved(Old(c.arg)) ELSE Old(c.arg + i - 1)]

\* The image after command k of script s, when it was img.
Piece(s, img, k) ==
  CASE s[k].op = "address" -> IF s[k].arg \in Blocks THEN Before(s[k].arg) ELSE <<>>
    [] s[k].op \in {"transfer", "transferz"} -> img \o Packets(s, k)
    [] s[k].op = "move" -> img \o MovedChunk(s[k])
    [] OTHER -> img

\* The images that the commands up to each build.
Builds(s) ==
  LET built[k \in 0 .. Len(s)] == IF k = 0 THEN <<>> ELSE Piece(s, built[k - 1], k)
  IN built
Built(i) == Builds(script)[i]

Address_(s) == CHOOSE i \in 1 .. Len(s) : s[i].op = "address"
BeginOf(s)  == IF \E i \in 1 .. Len(s) : s[i].op = "address" THEN s[Address_(s)].arg ELSE 0
FinalOf(s)  == Builds(s)[Len(s)]

Begin == BeginOf(script)
Final == FinalOf(script)
TargetOf(s, b) ==
  LET i == b - SectorStart(BeginOf(s)) + 1
  IN IF i \in 1 .. Len(FinalOf(s)) THEN FinalOf(s)[i] ELSE Old(b)
Target(b) == TargetOf(script, b)

\* Blocks of the key's chunk that a burn from the first block on puts back.
KeyPlace    == KeyOf([b \in Blocks |-> Old(b)])
Restored(b) == b \in KeyPlace /\ SectorStart(Begin) = 0

\* A block read back from a sector that lost power while erased, or that could not
\* be written, is blank.
Hurt == crashes > 0 \/ bad # {}

\* A burn is among the commands up to k.
BurnBy(k) == \E i \in 1 .. Len(script) : i <= k /\ script[i].op = "burn"

\* The image is the one wanted, or, when a burn may have begun, the one with the key.
Like(img, want) ==
  /\ Len(img) = Len(want)
  /\ \A i \in 1 .. Len(img) :
       \/ img[i] = want[i]
       \/ Hurt /\ img[i] = Blank
       \/ img[i] = Old(i - 1) /\ BurnBy(at) /\ Restored(i - 1)

\* Retries, repeated commands, lost answers and overtaken transfers neither skip a
\* piece of the image nor put one in twice: between two commands the device holds
\* what the host's commands before the current one build, or one command more.
ImageExact ==
  phase \notin {"done", "failed"} /\ at > 1 /\ (\E i \in 1 .. at - 1 : script[i].op = "address")
    => Like(image, Built(at - 1)) \/ Like(image, Built(at))

\* What a burn is to make of a block: what the host sent for it, or the key's as it is.
Meant(b) == IF Restored(b) THEN Old(b) ELSE Target(b)

\* The flash holds, whatever is lost and whenever power fails, what it held before,
\* what a burn is to make of it, or an erased block; in the key's place what the host
\* sent only if the key has been lost to a power failure or a bad sector.
FlashOurs == \A b \in Blocks : flash[b] \in {Old(b), Meant(b), Blank} \/ (Hurt /\ flash[b] = Target(b))

HasBurnt == \E i \in 1 .. at - 1 : script[i].op = "burn"

\* When the host has heard that the burn is over, the flash is the one it meant, with
\* the key that was there, sectors that could not be written aside. (A sector that lost
\* power while erased has lost the blocks the host does not send, and the key: then
\* what the host sent is in its place.)
BurnedWhole ==
  HasBurnt => \A b \in Blocks :
    \/ flash[b] = Meant(b)
    \/ SectorStart(b) \in bad
    \/ Hurt /\ flash[b] \in {Blank, Target(b)} /\ Meant(b) = Old(b)

\* The host is always answered, or left with a command that failed and may be
\* retried: its work ends, for it is told of success or failure.
HostEnds == <>(phase \in {"done", "failed"})
=============================================================================
