------------------------ MODULE BootSessionProofs ------------------------
(***************************************************************************)
(* What an upgrade over the serial line does to the image in memory and to *)
(* the flash: for scripts, sectors and lines of any length, any number of  *)
(* packets lost, spoilt or repeated, failed copies and power failures, and *)
(* a host that starts over once.                                           *)
(*                                                                         *)
(* ImageExact and BurnedWhole are not inductive: they speak of the device, *)
(* and the host goes on by answers that were sent long before.  The device *)
(* tells a new command from a repeated one by its index alone.  So the     *)
(* invariant says what indices may be on the line (PacketAt), in which     *)
(* order (LineAt), that an answer under the host's index is one to the     *)
(* command it is at (AnswerAt), and what the device has done of the script *)
(* given its own index and the host's (DeviceAt).  That holds while both   *)
(* are in one session (InSession).  A host that starts over counts from 0  *)
(* again, while commands of its first session are still on the line, with  *)
(* answers to them: they are in the former session until the device hears  *)
(* the comtest (Former), or has at least had its index reset (Loose), and  *)
(* the host listens to nothing before the echo (Heeded).  FlashFine and    *)
(* BurnFine say which blocks a burn can reach, and with what; Spared is    *)
(* where the key it keeps, or a blank, may stand for what the host sent.   *)
(***************************************************************************)
EXTENDS BootUpgradeProofs, WellFoundedInduction
------------------------------------------------------------------------------
(* Scripts. *)

Has(s, o, k) == \E i \in 1 .. k : s[i].op = o
Loads == {"transfer", "transferz"}

\* The blocks a burn of the script rewrites.
BurnZone(s) ==
  LET b == SectorStart(BeginOf(s)) IN b .. SectorEnd(b + Len(FinalOf(s))) - 1

\* The only comtest comes first.  The second command is no dump: its answers would be
\* under index 1, which a host that starts over uses again.
Opens(s) ==
  /\ \A i \in 1 .. Len(s) : s[i].op = "comtest" <=> i = 1
  /\ Len(s) >= 2 => s[2].op # "dump"

\* One address and one burn at most, the image built after the one and before the other.
BuildsOnce(s) ==
  /\ \A i, j \in 1 .. Len(s) : s[i].op = s[j].op /\ s[i].op \in {"address", "burn"} => i = j
  /\ \A i \in 1 .. Len(s) : s[i].op \in Loads \cup {"move", "burn"} =>
       Has(s, "address", i - 1) \/ Has(s, "chunk", i - 1)
  /\ \A i, j \in 1 .. Len(s) : s[i].op = "burn" /\ i < j => s[j].op \notin Loads \cup {"address", "move"}

\* Nothing empty is loaded or dumped, and no chunk is moved from where the burn writes.
Sizes(s) ==
  /\ \A i \in 1 .. Len(s) : s[i].op \in Loads \cup {"dump"} => s[i].len >= 1
  /\ \A i, j \in 1 .. Len(s) : s[i].op = "address" /\ s[j].op = "move" =>
       \A b \in s[j].arg .. s[j].arg + s[j].len - 1 : b \notin BurnZone(s)

\* What an upgrade script is.
Sound(s) == WellFormed(s) /\ Opens(s) /\ BuildsOnce(s) /\ Sizes(s)
SoundScripts == \A s \in Scripts : Sound(s)

\* Whatever of the script has been burnt, no chunk but the key's is taken for it, and it is
\* found unless a block is blank. In an image that does not begin with the flash, no block
\* is far enough in to be taken for its place.
Mixed(s, r) == [b \in Blocks |-> IF r[b] = "old" THEN Old(b) ELSE IF r[b] = "sent" THEN TargetOf(s, b) ELSE Blank]
KeyStays(s) ==
  \A r \in [Blocks -> {"old", "sent", "blank"}] :
    /\ KeyOf(Mixed(s, r)) \subseteq KeyPlace
    /\ (\A b \in Blocks : r[b] # "blank" /\ (b \in KeyPlace => r[b] = "old")) => KeyOf(Mixed(s, r)) = KeyPlace
KeyClear(s) == SectorStart(BeginOf(s)) = 0 \/ \A b \in KeyPlace : b >= Len(FinalOf(s))
SoundKey ==
  \A s \in Scripts : Has(s, "address", Len(s)) /\ Has(s, "burn", Len(s)) => KeyStays(s) /\ KeyClear(s)
------------------------------------------------------------------------------
(* What the device has done of the script. *)

\* Blocks in front of the first one the host writes.
PreLen == Begin - SectorStart(Begin)

\* A block that is not what the host sent: it was blank in the flash, or a burn among
\* the commands up to n has put the key in.
Lost(v) == Hurt /\ v = Blank
Spared(i, v, n) ==
  \/ Lost(v) /\ i <= PreLen
  \/ BurnBy(n) /\ Restored(i - 1) /\ (v = Old(i - 1) \/ Lost(v))

\* The image is w, but for such blocks.
Alike(w, n) ==
  /\ image # Null /\ Len(image) = Len(w)
  /\ \A i \in 1 .. Len(w) : image[i] = w[i] \/ Spared(i, image[i], n)

\* The image is that of the commands up to k; those up to n may have been run.
ImageAt(k, n) == Has(script, "address", k) => Begin \in Blocks /\ Alike(Built(k), n)

\* So is the start address: what the last address or chunk command made it.
StartAt(k) ==
  /\ \A i \in 1 .. k : script[i].op = "address" /\ (\A j \in i + 1 .. k : script[j].op # "chunk")
       => start = SectorStart(Begin)
  /\ \A i \in 1 .. k : script[i].op = "chunk" /\ (\A j \in i + 1 .. k : script[j].op # "address")
       => start = NoAddr

\* The flash is what the script makes it, once it has been burnt.
Intended(b) ==
  \/ flash[b] = Meant(b)
  \/ SectorStart(b) \in bad
  \/ Hurt /\ flash[b] \in {Blank, Target(b)} /\ Meant(b) = Old(b)
Whole(k) == Has(script, "burn", k) => \A b \in Blocks : Intended(b)

\* The commands up to k have been run; those before k have been, and k may be.
Ran(k)   == ImageAt(k, k) /\ StartAt(k) /\ Whole(k)
Ready(k) == ImageAt(k - 1, k) /\ (StartAt(k - 1) \/ script[k].op = "chunk") /\ Whole(k - 1)

Resting == pc \in {"shell", "rebooted"}

\* Command k is being run, or was the last one.
AtWork(k) ==
  /\ k <= Len(script)
  /\ pc = "shell" => Ran(k) \/ (last_status = "error" /\ ImageAt(k - 1, k) /\ Whole(k - 1))
  /\ pc = "rebooted" => Ran(k)
  /\ ~Resting => cmd = k /\ Ready(k) /\ last_status = "running"
  /\ pc = "transfer" =>
       /\ script[k].op \in Loads /\ start # NoAddr /\ count = script[k].len /\ Len(part) < count
       /\ \A n \in 1 .. Len(part) : part[n] = New(k, n)
  /\ pc = "dump" => script[k].op = "dump" /\ count = script[k].len /\ num < count
  /\ Burning => script[k].op = "burn"

\* Where a host can be: under index h, 1 for a host before that, at command a.
Place(h, a) == h \in Nat \ {0} /\ a \in 2 .. Len(script) + 1 /\ (h = 1 => a = 2) /\ (h = 2 => a <= 3)

\* The device, for a host there.
DeviceAt(h, a) ==
  /\ index <= h /\ (h >= 3 => index >= h - 1)
  /\ h = 1 => Resting /\ (index = 1 => 2 <= Len(script) /\ (Ran(2) \/ last_status = "error"))
  /\ h >= 2 /\ index < h => Resting /\ Ready(a)
  /\ h >= 2 /\ index = h => AtWork(a)

\* A packet of such a host.
PacketAt(p, h, a) ==
  p.type # "spoilt" =>
    /\ p.index <= h /\ (index >= 2 => p.index >= index)
    /\ p.type = "command" =>
         /\ p.index <= 1 => p.num = p.index + 1
         /\ p.index >= 2 => p.num >= 2 /\ (p.index = h => p.num = a)
    /\ p.type = "request" =>
         p.index >= 2 /\ (p.index = h => index = h /\ (pc = "dump" => p.num <= num + 1))

\* The first n packets on the line are.
LineAt(h, a, n) ==
  /\ \A i \in 1 .. n : PacketAt(toDev[i], h, a)
  /\ \A i, j \in 1 .. n :
       i < j /\ toDev[i].type # "spoilt" /\ toDev[j].type # "spoilt" /\ toDev[i].index >= 2
         => toDev[i].index <= toDev[j].index

\* Answers that take the host past command a.
Passes(r, a) ==
  \/ r.type = "status" /\ r.val = "executed"
  \/ r.type = "status" /\ r.val = "ok" /\ script[a].op \in {"address", "move", "unknown", "reboot"}
  \/ r.type = "data" /\ script[a].op \in {"version", "chunk"}
  \/ r.type = "data" /\ script[a].op = "dump" /\ r.num = script[a].len
  \/ r.type = "data" /\ script[a].op = "burn" /\ r.val = "FINISH"

\* An answer that such a host listens to.
AnswerAt(r, h, a) ==
  /\ r.index \in 0 .. 1 \cup 0 .. index
  /\ r.index = h /\ a <= Len(script) /\ Passes(r, a) => Resting /\ Ran(a)
  /\ r.index = h /\ pc = "dump" /\ r.type = "data" => r.num \in 0 .. num

\* While the host waits for the echo, what comes before it is of no account.
IsEcho(r) == r.type = "data" /\ r.index = 0 /\ r.val = "echo"
Heeded(i) == hidx >= 1 \/ \E j \in 1 .. i - 1 : IsEcho(toHost[j])

\* The device is in the session of a host there.
Session(h, a) ==
  /\ Place(h, a) /\ DeviceAt(h, a) /\ LineAt(h, a, Len(toDev))
  /\ \A i \in 1 .. Len(toHost) : Heeded(i) => AnswerAt(toHost[i], h, a)

\* What the host waits for.
Asks ==
  /\ hidx <= 1 => at = hidx + 1
  /\ hidx >= 2 => at >= 2
  /\ phase \in {"feed", "read"} => hidx >= 2 /\ index = hidx
  /\ phase = "feed" => script[at].op \in Loads
  /\ phase = "read" /\ pc = "dump" => got <= num + 1

\* Before the host starts over, nothing of comtest is behind what follows it.
SyncPacket(p) == p.type = "command" /\ p.index = 0
InTurn ==
  /\ \A i, j \in 1 .. Len(toDev) : i < j /\ toDev[i].index # 0 => ~SyncPacket(toDev[j])
  /\ index # 0 => \A j \in 1 .. Len(toDev) : ~SyncPacket(toDev[j])
  /\ \A i, j \in 1 .. Len(toHost) : i < j /\ toHost[i].index # 0 => ~IsEcho(toHost[j])
  /\ (\E i \in 1 .. Len(toHost) : toHost[i].index # 0) => index # 0
  /\ hidx = 0 => index = 0 /\ \A i \in 1 .. Len(toDev) : toDev[i].index = 0
  /\ hidx >= 2 => index # 0 /\ \A j \in 1 .. Len(toHost) : ~IsEcho(toHost[j])

AtLeast(n, m) == IF n < m THEN m ELSE n
InSession == Session(AtLeast(hidx, 1), AtLeast(at, 2)) /\ Asks /\ (aborts = 0 => InTurn)

\* The host has started over, and the device has not answered its comtest yet: it is
\* in the session the host was in, with n packets of it on the line, or its loop has
\* taken the comtest and only reset the index.
Former(h, a, n) ==
  /\ Place(h, a) /\ h >= 2 /\ n \in 0 .. Len(toDev) /\ DeviceAt(h, a) /\ LineAt(h, a, n)
  /\ \A i \in 1 .. n : ~SyncPacket(toDev[i])
OnlySync(n) == \A i \in n + 1 .. Len(toDev) : (SyncPacket(toDev[i]) /\ toDev[i].num = 1) \/ toDev[i].type = "spoilt"
Loose == index = 0 /\ pc \in {"shell", "burn", "copy", "poll"}
StartsOver ==
  /\ at = 1 /\ hidx = 0 /\ phase \in {"ask", "done", "failed"} /\ aborts >= 1
  /\ \A i \in 1 .. Len(toHost) : ~IsEcho(toHost[i])
LeftOver ==
  /\ StartsOver
  /\ (Loose /\ OnlySync(0)) \/ \E h \in Nat, a \in Nat, n \in Nat : Former(h, a, n) /\ OnlySync(n)

\* Power failed when the host had ended.
Over == phase \in {"done", "failed"} /\ toDev = <<>> /\ pc = "shell" /\ Whole(at - 1)
------------------------------------------------------------------------------
(* What the device does to the flash. *)

\* Blocks the script leaves alone hold what they did, or are blank.
Kept(b) == ~Has(script, "address", Len(script)) \/ b < Begin \/ b >= SectorStart(Begin) + Len(Final)
InCopy(b) == pc = "copy" /\ b \in Sector(num)
Missing(b) == flash[b] = Blank /\ (Hurt \/ InCopy(b))

FlashFine ==
  \A b \in Blocks :
    /\ flash[b] \in {Old(b), Target(b)} \/ Missing(b)
    /\ Kept(b) => flash[b] = Old(b) \/ Missing(b)
    /\ Restored(b) => flash[b] = Old(b) \/ Missing(b) \/ Hurt
    /\ b \notin BurnZone(script) => flash[b] = Old(b)

\* A burn burns the script's image, with the key in it.
BurnFine ==
  Burning => /\ Has(script, "address", Len(script)) /\ Has(script, "burn", Len(script))
             /\ Begin \in Blocks /\ Alike(Final, Len(script)) /\ start = SectorStart(Begin)
             /\ \A i \in 1 .. Len(Final) : Restored(i - 1) => image[i] = Old(i - 1) \/ Hurt
Fits(b, v) ==
  /\ v \in {Old(b), Target(b)} \/ Lost(v)
  /\ Kept(b) => v = Old(b) \/ Lost(v)
  /\ Restored(b) => v = Old(b) \/ Hurt
  /\ ~Kept(b) /\ ~Restored(b) => v = Target(b)
PartFine == pc = "copy" => \A b \in Sector(num) : b \in BurnZone(script) /\ Fits(b, part[b - num + 1])

Counts == crashes \in Nat /\ aborts \in Nat
Fine   == Counts /\ FlashFine /\ BurnFine /\ PartFine
SessionInv   == Fine /\ (InSession \/ LeftOver \/ Over)
------------------------------------------------------------------------------
(* Induction, as far as it can be had here. *)

\* Every set of naturals that is not empty has a least element.
LEMMA LeastOf ==
  ASSUME NEW R, IsWellFoundedOn(R, Nat), NEW T \in SUBSET Nat, T # {},
         \A x, y \in Nat : y < x => <<y, x>> \in R
  PROVE  \E x \in T : \A y \in T : x <= y
  <1>1. PICK x \in T : \A y \in T : ~ (<<y, x>> \in R)
    BY WFMin
  <1>2. \A y \in T : x \in Nat /\ y \in Nat /\ ~(y < x)
    BY <1>1
  <1> QED
    BY <1>2

\* So what holds of a first number, and of n + 1 with n, holds up to any bound.
LEMMA UpTo ==
  ASSUME NEW a \in Nat, NEW b \in Nat, NEW P, a \in P, \A n \in a .. b - 1 : n \in P => n + 1 \in P
  PROVE  \A n \in a .. b : n \in P
  <1> DEFINE T == {n \in Nat : a <= n /\ n <= b /\ n \notin P}
  <1>1. T = {}
    <2> SUFFICES ASSUME T # {}
                 PROVE  FALSE
      OBVIOUS
    <2>1. PICK x \in T : \A y \in T : x <= y
      <3>1. IsWellFoundedOn(OpToRel(<, Nat), Nat)
        BY NatLessThanWellFounded
      <3>2. \A x, y \in Nat : y < x => <<y, x>> \in OpToRel(<, Nat)
        BY DEF OpToRel
      <3>3. T \in SUBSET Nat
        OBVIOUS
      <3> HIDE DEF T
      <3> QED
        BY <3>1, <3>2, <3>3, LeastOf
    <2>2. x \in Nat /\ a <= x /\ x <= b /\ x \notin P
      OBVIOUS
    <2>3. x # a
      BY <2>2
    <2>4. x - 1 \in a .. b - 1 /\ x - 1 \in Nat /\ x - 1 < x /\ x - 1 + 1 = x
      BY <2>2, <2>3
    <2>5. x - 1 \in P
      BY <2>1, <2>2, <2>4
    <2> QED
      BY <2>2, <2>4, <2>5
  <1> QED
    BY <1>1
------------------------------------------------------------------------------
(* What a script builds. *)

\* The images up to command n.
Images(s, f, n) == f = [k \in 0 .. n |-> IF k = 0 THEN <<>> ELSE Piece(s, f[k - 1], k)]

LEMMA ImagesExist ==
  ASSUME NEW s, NEW b \in Nat
  PROVE  \E f : Images(s, f, b)
  <1> DEFINE P == {n \in Nat : \E f : Images(s, f, n)}
  <1>1. 0 \in P
    <2> DEFINE g == [k \in 0 .. 0 |-> <<>>]
    <2>1. g = [k \in 0 .. 0 |-> IF k = 0 THEN <<>> ELSE Piece(s, g[k - 1], k)]
      OBVIOUS
    <2>2. Images(s, g, 0)
      BY <2>1 DEF Images
    <2> QED
      BY <2>2
  <1>2. ASSUME NEW n \in 0 .. b - 1, n \in P
        PROVE  n + 1 \in P
    <2>1. PICK f : Images(s, f, n)
      BY <1>2
    <2> DEFINE g == [k \in 0 .. n + 1 |-> IF k = n + 1 THEN Piece(s, f[n], n + 1) ELSE f[k]]
    <2>2. n \in Nat /\ \A k \in 0 .. n + 1 : k = n + 1 \/ k \in 0 .. n
      BY <1>2
    <2>3. ASSUME NEW k \in 0 .. n + 1
          PROVE  g[k] = IF k = 0 THEN <<>> ELSE Piece(s, g[k - 1], k)
      <3>1. CASE k = 0
        BY <2>1, <2>2, <3>1 DEF Images
      <3>2. CASE k = n + 1
        <4>1. k - 1 = n /\ k # 0 /\ n \in 0 .. n + 1 /\ n # n + 1
          BY <2>2, <3>2
        <4>2. g[k] = Piece(s, f[n], n + 1) /\ g[n] = f[n]
          BY <3>2, <4>1
        <4> HIDE DEF g
        <4> QED
          BY <3>2, <4>1, <4>2
      <3>3. CASE k # 0 /\ k # n + 1
        <4>1. k \in 0 .. n /\ k - 1 \in 0 .. n + 1 /\ k - 1 # n + 1
          BY <2>2, <3>3
        <4>2. g[k] = f[k] /\ g[k - 1] = f[k - 1]
          BY <3>3, <4>1
        <4>3. f[k] = Piece(s, f[k - 1], k)
          BY <2>1, <3>3, <4>1 DEF Images
        <4> HIDE DEF g
        <4> QED
          BY <3>3, <4>2, <4>3
      <3> QED
        BY <3>1, <3>2, <3>3
    <2>4. Images(s, g, n + 1)
      <3> DEFINE h == [k \in 0 .. n + 1 |-> IF k = 0 THEN <<>> ELSE Piece(s, g[k - 1], k)]
      <3>1. g = h
        <4>1. DOMAIN g = 0 .. n + 1 /\ DOMAIN h = 0 .. n + 1 /\ g = [k \in 0 .. n + 1 |-> g[k]]
          OBVIOUS
        <4>2. \A k \in 0 .. n + 1 : g[k] = h[k]
          BY <2>3
        <4> HIDE DEF g
        <4> QED
          BY <4>1, <4>2
      <3> HIDE DEF g
      <3> QED
        BY <3>1 DEF Images
    <2> QED
      BY <2>2, <2>4
  <1>3. \A n \in 0 .. b : n \in P
    <2> HIDE DEF P
    <2> QED
      BY <1>1, <1>2, UpTo
  <1>4. b \in P
    BY <1>3
  <1> QED
    BY <1>4

\* The recursive definition defines a function.
LEMMA BuildsAre ==
  ASSUME NEW s, Len(s) \in Nat
  PROVE  /\ Builds(s)[0] = <<>>
         /\ \A k \in 1 .. Len(s) : Builds(s)[k] = Piece(s, Builds(s)[k - 1], k)
  <1>1. Builds(s) = CHOOSE f : Images(s, f, Len(s))
    BY DEF Builds, Images
  <1>2. Images(s, Builds(s), Len(s))
    BY <1>1, ImagesExist
  <1>3. \A k \in 0 .. Len(s) : Builds(s)[k] = IF k = 0 THEN <<>> ELSE Piece(s, Builds(s)[k - 1], k)
    BY <1>2 DEF Images
  <1> QED
    BY <1>3

LEMMA CommandsOf ==
  ASSUME NEW s, WellFormed(s)
  PROVE  /\ Len(s) \in Nat /\ Len(s) >= 1
         /\ \A k \in 1 .. Len(s) : s[k].arg \in Nat /\ s[k].len \in Nat
         /\ \A k \in 1 .. Len(s) : s[k].op = "move" => s[k].len >= 1 /\ s[k].arg + s[k].len <= FlashEnd
  <1>1. s \in Seq(Commands) /\ s # <<>>
    BY DEF WellFormed, Commands
  <1>2. Len(s) \in Nat /\ Len(s) >= 1 /\ \A k \in 1 .. Len(s) : s[k] \in Commands
    BY <1>1
  <1>3. \A c \in Commands : c.arg \in Nat /\ c.len \in Nat
    BY DEF Commands
  <1> QED
    BY <1>2, <1>3 DEF WellFormed

\* What a command makes of the image.
LEMMA PieceIs ==
  ASSUME NEW s, NEW k, NEW img
  PROVE  /\ s[k].op = "address" => Piece(s, img, k) = IF s[k].arg \in Blocks THEN Before(s[k].arg) ELSE <<>>
         /\ s[k].op \in Loads => Piece(s, img, k) = img \o Packets(s, k)
         /\ s[k].op = "move" => Piece(s, img, k) = img \o MovedChunk(s[k])
         /\ s[k].op \notin Loads \cup {"address", "move"} => Piece(s, img, k) = img
  <1> DEFINE o == s[k].op
             p == Packets(s, k)
             w == MovedChunk(s[k])
             z == IF s[k].arg \in Blocks THEN Before(s[k].arg) ELSE <<>>
  <1>1. Piece(s, img, k) = CASE o = "address" -> z
                             [] o \in {"transfer", "transferz"} -> img \o p
                             [] o = "move" -> img \o w
                             [] OTHER -> img
    BY DEF Piece
  <1> HIDE DEF o, p, w, z
  <1>2. /\ o = "address" => Piece(s, img, k) = z
        /\ o \in {"transfer", "transferz"} => Piece(s, img, k) = img \o p
        /\ o = "move" => Piece(s, img, k) = img \o w
        /\ o \notin {"transfer", "transferz", "address", "move"} => Piece(s, img, k) = img
    BY <1>1
  <1> QED
    BY <1>2 DEF o, p, w, z, Loads

LEMMA PieceTyped ==
  ASSUME BootAssumption, NEW s, WellFormed(s), NEW k \in 1 .. Len(s), NEW img \in Seq(Values)
  PROVE  /\ Piece(s, img, k) \in Seq(Values)
         /\ Packets(s, k) \in Seq(Values) /\ Len(Packets(s, k)) = s[k].len
         /\ s[k].op = "move" => MovedChunk(s[k]) \in Seq(Values) /\ Len(MovedChunk(s[k])) = s[k].len
  <1>1. s[k].arg \in Nat /\ s[k].len \in Nat /\ k \in Nat
    BY CommandsOf
  <1>2. Nat \subseteq Values
    BY DEF Values
  <1>3. Packets(s, k) \in Seq(Values) /\ Len(Packets(s, k)) = s[k].len
    <2>1. \A n \in 1 .. s[k].len : New(k, n) \in Values
      BY <1>1, <1>2 DEF New
    <2>2. Packets(s, k) \in [1 .. s[k].len -> Values]
      BY <2>1 DEF Packets
    <2> QED
      BY <1>1, <2>2
  <1>4. ASSUME s[k].op = "move"
        PROVE  MovedChunk(s[k]) \in Seq(Values) /\ Len(MovedChunk(s[k])) = s[k].len
    <2>1. \A i \in 1 .. s[k].len : Moved(Old(s[k].arg)) \in Values /\ Old(s[k].arg + i - 1) \in Values
      BY <1>1, <1>2 DEF Moved, Old
    <2>2. MovedChunk(s[k]) \in [1 .. s[k].len -> Values]
      BY <2>1 DEF MovedChunk
    <2> QED
      BY <1>1, <2>2
  <1>5. s[k].arg \in Blocks => Before(s[k].arg) \in Seq(Values)
    <2> DEFINE b == s[k].arg
    <2>1. SectorStart(b) \in Nat /\ SectorStart(b) <= b /\ b \in Nat
      BY <1>1, Sectors
    <2>2. \A i \in 1 .. b - SectorStart(b) : Old(SectorStart(b) + i - 1) \in Values
      BY <1>2, <2>1 DEF Old
    <2>3. Before(b) \in [1 .. b - SectorStart(b) -> Values]
      BY <2>2 DEF Before
    <2>4. b - SectorStart(b) \in Nat
      BY <2>1
    <2> HIDE DEF b
    <2>5. Before(b) \in Seq(Values)
      BY <2>3, <2>4
    <2> QED
      BY <2>5 DEF b
  <1>6. Piece(s, img, k) \in Seq(Values)
    <2>1. CASE s[k].op = "address"
      <3>1. <<>> \in Seq(Values)
        OBVIOUS
      <3> QED
        BY <1>5, <2>1, <3>1, PieceIs
    <2>2. CASE s[k].op \in Loads
      <3>1. img \o Packets(s, k) \in Seq(Values)
        BY <1>3
      <3> QED
        BY <2>2, <3>1, PieceIs
    <2>3. CASE s[k].op = "move"
      <3>1. img \o MovedChunk(s[k]) \in Seq(Values)
        BY <1>4, <2>3
      <3> QED
        BY <2>3, <3>1, PieceIs
    <2>4. CASE s[k].op \notin Loads \cup {"address", "move"}
      BY <2>4, PieceIs
    <2> QED
      BY <2>1, <2>2, <2>3, <2>4
  <1> QED
    BY <1>3, <1>4, <1>6


LEMMA BuildsTyped ==
  ASSUME BootAssumption, NEW s, WellFormed(s)
  PROVE  \A k \in 0 .. Len(s) : Builds(s)[k] \in Seq(Values)
  <1> DEFINE P == {k \in 0 .. Len(s) : Builds(s)[k] \in Seq(Values)}
  <1>1. Len(s) \in Nat
    BY CommandsOf
  <1>2. 0 \in P
    <2>1. <<>> \in Seq(Values)
      OBVIOUS
    <2>2. Builds(s)[0] \in Seq(Values)
      BY <1>1, <2>1, BuildsAre
    <2> QED
      BY <1>1, <2>2
  <1>3. ASSUME NEW n \in 0 .. Len(s) - 1, n \in P
        PROVE  n + 1 \in P
    <2>1. n + 1 \in 1 .. Len(s) /\ (n + 1) - 1 = n
      BY <1>1
    <2>2. Builds(s)[n + 1] = Piece(s, Builds(s)[n], n + 1)
      BY <1>1, <2>1, BuildsAre
    <2>3. Builds(s)[n + 1] \in Seq(Values)
      BY <1>3, <2>1, <2>2, PieceTyped
    <2> QED
      BY <1>1, <2>1, <2>3
  <1>4. \A n \in 0 .. Len(s) : n \in P
    <2> HIDE DEF P
    <2> QED
      BY <1>1, <1>2, <1>3, UpTo
  <1> QED
    BY <1>4

\* The one address.
LEMMA BeginIs ==
  ASSUME NEW s, Sound(s), NEW i \in 1 .. Len(s), s[i].op = "address"
  PROVE  BeginOf(s) = s[i].arg
  <1>1. Address_(s) \in 1 .. Len(s) /\ s[Address_(s)].op = "address"
    BY DEF Address_
  <1>2. Address_(s) = i
    BY <1>1 DEF Sound, BuildsOnce
  <1> QED
    BY <1>2 DEF BeginOf

\* From the address on the image begins with what the flash held before it.
LEMMA Prefixed ==
  ASSUME BootAssumption, NEW s, Sound(s), BeginOf(s) \in Blocks, NEW k \in 0 .. Len(s), Has(s, "address", k),
         NEW b, b = BeginOf(s)
  PROVE  /\ Len(Builds(s)[k]) >= b - SectorStart(b)
         /\ \A i \in 1 .. b - SectorStart(b) : Builds(s)[k][i] = Old(SectorStart(b) + i - 1)
  <1> DEFINE l == b - SectorStart(b)
             Begun(w) == Len(w) >= l /\ \A i \in 1 .. l : w[i] = Old(SectorStart(b) + i - 1)
             P == {n \in 0 .. Len(s) : Has(s, "address", n) => Begun(Builds(s)[n])}
  <1>0. WellFormed(s) /\ Len(s) \in Nat /\ b \in Nat /\ SectorStart(b) \in Nat /\ SectorStart(b) <= b /\ l \in Nat
    <2>1. WellFormed(s) /\ Len(s) \in Nat
      BY CommandsOf DEF Sound
    <2>2. b \in Nat
      BY DEF Blocks
    <2>3. SectorStart(b) \in Nat /\ SectorStart(b) <= b
      BY <2>2, Sectors
    <2> QED
      BY <2>1, <2>2, <2>3
  <1>1. 0 \in P
    BY <1>0 DEF Has
  <1>2. ASSUME NEW n \in 0 .. Len(s) - 1, n \in P
        PROVE  n + 1 \in P
    <2>1. n + 1 \in 1 .. Len(s) /\ (n + 1) - 1 = n /\ n \in 0 .. Len(s)
      BY <1>0
    <2>2. Builds(s)[n + 1] = Piece(s, Builds(s)[n], n + 1) /\ Builds(s)[n] \in Seq(Values)
      BY <1>0, <2>1, BuildsAre, BuildsTyped
    <2> DEFINE img == Builds(s)[n]
    <2>3. ASSUME Has(s, "address", n + 1)
          PROVE  Begun(Builds(s)[n + 1])
      <3>1. CASE s[n + 1].op = "address"
        <4>1. s[n + 1].arg = b
          BY <2>1, <3>1, BeginIs
        <4>2. Builds(s)[n + 1] = Before(b)
          BY <1>0, <2>1, <2>2, <3>1, <4>1, PieceIs
        <4>3. Len(Before(b)) = l /\ \A i \in 1 .. l : Before(b)[i] = Old(SectorStart(b) + i - 1)
          BY <1>0 DEF Before
        <4> QED
          BY <1>0, <4>2, <4>3
      <3>2. CASE s[n + 1].op # "address"
        <4>1. Has(s, "address", n)
          BY <2>1, <2>3, <3>2 DEF Has
        <4>2. Begun(img)
          BY <1>2, <4>1
        <4>3. Builds(s)[n + 1] = img \/ \E w \in Seq(Values) : Builds(s)[n + 1] = img \o w
          <5>1. CASE s[n + 1].op \in Loads
            BY <1>0, <2>1, <2>2, <5>1, PieceTyped, PieceIs
          <5>2. CASE s[n + 1].op = "move"
            BY <1>0, <2>1, <2>2, <5>2, PieceTyped, PieceIs
          <5>3. CASE s[n + 1].op \notin Loads \cup {"address", "move"}
            BY <2>2, <5>3, PieceIs
          <5> QED
            BY <3>2, <5>1, <5>2, <5>3
        <4>4. ASSUME NEW w \in Seq(Values), Builds(s)[n + 1] = img \o w
              PROVE  Begun(Builds(s)[n + 1])
          <5>1. Len(img \o w) = Len(img) + Len(w) /\ Len(img) \in Nat /\ Len(w) \in Nat
            BY <2>2
          <5>2. \A i \in 1 .. Len(img) : (img \o w)[i] = img[i]
            BY <2>2
          <5>3. \A i \in 1 .. l : i \in 1 .. Len(img)
            BY <1>0, <4>2, <5>1
          <5> HIDE DEF img
          <5>4. Len(img \o w) >= l
            BY <1>0, <4>2, <5>1
          <5>5. \A i \in 1 .. l : (img \o w)[i] = Old(SectorStart(b) + i - 1)
            BY <4>2, <5>2, <5>3
          <5> QED
            BY <4>4, <5>4, <5>5
        <4> QED
          BY <4>2, <4>3, <4>4
      <3> QED
        BY <3>1, <3>2
    <2> QED
      BY <2>1, <2>3, <1>0
  <1>3. \A n \in 0 .. Len(s) : n \in P
    <2> HIDE DEF P
    <2> QED
      BY <1>0, <1>1, <1>2, UpTo
  <1> QED
    BY <1>3

\* A burn burns the whole of what the script builds.
LEMMA FinalAt ==
  ASSUME BootAssumption, NEW s, Sound(s), NEW k \in 1 .. Len(s), s[k].op = "burn"
  PROVE  Builds(s)[k - 1] = FinalOf(s)
  <1> DEFINE P == {n \in 0 .. Len(s) : Builds(s)[n] = Builds(s)[k - 1]}
  <1>0. Len(s) \in Nat /\ k - 1 \in Nat /\ k - 1 \in 0 .. Len(s)
    BY CommandsOf DEF Sound
  <1>1. k - 1 \in P
    BY <1>0
  <1>2. ASSUME NEW n \in k - 1 .. Len(s) - 1, n \in P
        PROVE  n + 1 \in P
    <2>1. n + 1 \in 1 .. Len(s) /\ (n + 1) - 1 = n /\ (n + 1 = k \/ k < n + 1)
      BY <1>0
    <2>2. s[n + 1].op \notin Loads \cup {"address", "move"}
      <3>1. CASE n + 1 = k
        BY <3>1 DEF Loads
      <3>2. CASE k < n + 1
        BY <2>1, <3>2 DEF Sound, BuildsOnce
      <3> QED
        BY <2>1, <3>1, <3>2
    <2>3. Builds(s)[n + 1] = Builds(s)[n]
      BY <1>0, <2>1, <2>2, BuildsAre, PieceIs
    <2> QED
      BY <1>0, <1>2, <2>1, <2>3
  <1>3. \A n \in k - 1 .. Len(s) : n \in P
    <2> HIDE DEF P
    <2> QED
      BY <1>0, <1>1, <1>2, UpTo
  <1>4. Len(s) \in P
    BY <1>0, <1>3
  <1>5. Builds(s)[Len(s)] = Builds(s)[k - 1]
    BY <1>4
  <1> QED
    BY <1>5 DEF FinalOf
------------------------------------------------------------------------------
(* How far the device is. *)

LEMMA TheScript ==
  ASSUME SoundScripts, IInv
  PROVE  /\ Sound(script) /\ WellFormed(script) /\ Len(script) \in Nat /\ Len(script) >= 1
         /\ \A k \in 1 .. Len(script) : script[k].arg \in Nat /\ script[k].len \in Nat
  <1>1. Sound(script) /\ WellFormed(script)
    BY DEF SoundScripts, IInv, HostTypes, Sound
  <1> QED
    BY <1>1, CommandsOf

\* The script does not change.
LEMMA Fixed ==
  ASSUME script' = script
  PROVE  /\ Begin' = Begin /\ Final' = Final /\ PreLen' = PreLen
         /\ \A k : Built(k)' = Built(k)
         /\ \A b : Target(b)' = Target(b) /\ Kept(b)' = Kept(b) /\ Restored(b)' = Restored(b) /\ Meant(b)' = Meant(b)
         /\ \A n : BurnBy(n)' = BurnBy(n)
  <1>1. Begin' = Begin
    BY DEF Begin
  <1>2. Final' = Final
    BY DEF Final
  <1>3. \A k : Built(k)' = Built(k)
    BY DEF Built
  <1>4. PreLen' = PreLen
    BY <1>1 DEF PreLen
  <1>5. \A b : Target(b)' = Target(b)
    BY DEF Target
  <1>6. \A b : Kept(b)' = Kept(b)
    BY <1>1, <1>2 DEF Kept, Has
  <1>7. \A b : Restored(b)' = Restored(b)
    BY <1>1 DEF Restored, KeyPlace, Old
  <1>8. \A b : Meant(b)' = Meant(b)
    BY <1>5, <1>7 DEF Meant
  <1>9. \A n : BurnBy(n)' = BurnBy(n)
    BY DEF BurnBy
  <1> QED
    BY <1>1, <1>2, <1>3, <1>4, <1>5, <1>6, <1>7, <1>8, <1>9

\* More of the script may have been run.
LEMMA Looser ==
  ASSUME NEW k, NEW n, BurnBy(k) => BurnBy(n)
  PROVE  /\ \A w : Alike(w, k) => Alike(w, n)
         /\ \A j : ImageAt(j, k) => ImageAt(j, n)
  <1>1. \A w : Alike(w, k) => Alike(w, n)
    BY DEF Alike, Spared
  <1> QED
    BY <1>1 DEF ImageAt

LEMMA NextToRun ==
  ASSUME SoundScripts, IInv, NEW k \in 0 .. Len(script), Ran(k)
  PROVE  Ready(k + 1)
  <1>1. k \in Nat /\ Len(script) \in Nat /\ (k + 1) - 1 = k
    BY TheScript
  <1>2. BurnBy(k) => BurnBy(k + 1)
    BY <1>1 DEF BurnBy
  <1>3. ImageAt(k, k + 1)
    BY <1>2, Looser DEF Ran
  <1> QED
    BY <1>1, <1>3 DEF Ran, Ready

\* Steps that leave the image, the start address or the flash.
LEMMA ImageStays ==
  ASSUME script' = script, image' = image, Hurt => Hurt'
  PROVE  /\ \A w, n : Alike(w, n) => Alike(w, n)'
         /\ \A k, n : ImageAt(k, n) => ImageAt(k, n)'
  <1>1. \A w, n : Alike(w, n) => Alike(w, n)'
    BY Fixed DEF Alike, Spared, Lost
  <1> QED
    BY <1>1, Fixed DEF ImageAt, Has

LEMMA StartStays ==
  ASSUME script' = script, start' = start
  PROVE  \A k : StartAt(k) => StartAt(k)'
  BY Fixed DEF StartAt

LEMMA FlashStays ==
  ASSUME script' = script, flash' = flash, bad \subseteq bad', Hurt => Hurt'
  PROVE  \A k : Whole(k) => Whole(k)'
  BY Fixed DEF Whole, Intended, Has

LEMMA AllStays ==
  ASSUME script' = script, UNCHANGED <<image, start, flash, bad>>, Hurt => Hurt'
  PROVE  \A k : /\ \A n : ImageAt(k, n) => ImageAt(k, n)'
                /\ StartAt(k) => StartAt(k)'
                /\ Whole(k) => Whole(k)'
                /\ Ran(k) => Ran(k)'
                /\ Ready(k) => Ready(k)'
  <1>1. bad \subseteq bad'
    OBVIOUS
  <1>2. \A k : /\ \A n : ImageAt(k, n) => ImageAt(k, n)'
               /\ StartAt(k) => StartAt(k)'
               /\ Whole(k) => Whole(k)'
    BY <1>1, ImageStays, StartStays, FlashStays
  <1>3. \A k : Ran(k) => Ran(k)'
    BY <1>2 DEF Ran
  <1>4. \A k : Ready(k) => Ready(k)'
    BY <1>2 DEF Ready
  <1> QED
    BY <1>2, <1>3, <1>4

\* One command on, or back.
LEMMA OneCommand ==
  ASSUME SoundScripts, IInv, NEW k \in 1 .. Len(script)
  PROVE  /\ script[k].op \notin Loads \cup {"address", "move"} => (ImageAt(k, k) <=> ImageAt(k - 1, k))
         /\ script[k].op \notin {"address", "chunk"} => (StartAt(k) <=> StartAt(k - 1))
         /\ script[k].op # "burn" /\ Whole(k - 1) => Whole(k)
         /\ Whole(k) => Whole(k - 1)
  <1>1. Len(script) \in Nat /\ k \in Nat /\ k - 1 \in Nat /\ 1 .. k = (1 .. k - 1) \cup {k}
    BY TheScript
  <1>2. \A o : (Has(script, o, k) <=> Has(script, o, k - 1) \/ script[k].op = o)
    BY <1>1 DEF Has
  <1>3. ASSUME script[k].op \notin Loads \cup {"address", "move"}
        PROVE  ImageAt(k, k) <=> ImageAt(k - 1, k)
    <2>1. Built(k) = Built(k - 1)
      BY <1>1, <1>3, BuildsAre, PieceIs DEF Built
    <2> QED
      BY <1>2, <1>3, <2>1 DEF ImageAt
  <1>4. ASSUME script[k].op \notin {"address", "chunk"}
        PROVE  StartAt(k) <=> StartAt(k - 1)
    <2>1. ASSUME NEW i \in 1 .. k - 1, NEW o \in {"address", "chunk"}
          PROVE  (\A j \in i + 1 .. k : script[j].op # o) <=> (\A j \in i + 1 .. k - 1 : script[j].op # o)
      <3>1. i + 1 .. k = (i + 1 .. k - 1) \cup {k}
        BY <1>1
      <3> QED
        BY <1>4, <3>1
    <2>2. \A i \in 1 .. k : script[i].op \in {"address", "chunk"} => i \in 1 .. k - 1
      BY <1>1, <1>4
    <2>3. \A i \in 1 .. k - 1 : i \in 1 .. k
      BY <1>1
    <2> DEFINE A(i, n) == \A j \in i + 1 .. n : script[j].op # "chunk"
               C(i, n) == \A j \in i + 1 .. n : script[j].op # "address"
    <2>4. \A n : StartAt(n) <=> /\ \A i \in 1 .. n : script[i].op = "address" /\ A(i, n) => start = SectorStart(Begin)
                                /\ \A i \in 1 .. n : script[i].op = "chunk" /\ C(i, n) => start = NoAddr
      BY DEF StartAt
    <2>5. \A i \in 1 .. k - 1 : (A(i, k) <=> A(i, k - 1)) /\ (C(i, k) <=> C(i, k - 1))
      BY <2>1
    <2> HIDE DEF A, C
    <2>6. \A i \in 1 .. k : script[i].op = "address" \/ script[i].op = "chunk" => i \in 1 .. k - 1
      BY <2>2
    <2>7. StartAt(k - 1) => StartAt(k)
      BY <2>4, <2>5, <2>6
    <2>8. StartAt(k) => StartAt(k - 1)
      BY <2>3, <2>4, <2>5
    <2> QED
      BY <2>7, <2>8
  <1>5. /\ script[k].op # "burn" /\ Whole(k - 1) => Whole(k)
        /\ Whole(k) => Whole(k - 1)
    BY <1>2 DEF Whole
  <1> QED
    BY <1>3, <1>4, <1>5

\* A start address is that of the script's address.
LEMMA Based ==
  ASSUME SoundScripts, IInv, NEW k \in 1 .. Len(script), script[k].op \in Loads \cup {"move", "burn"},
         StartAt(k - 1), start # NoAddr
  PROVE  Has(script, "address", k - 1) /\ start = SectorStart(Begin)
  <1>1. /\ Len(script) \in Nat /\ k - 1 \in Nat
        /\ Has(script, "address", k - 1) \/ Has(script, "chunk", k - 1)
        /\ \A i, j \in 1 .. k - 1 : script[i].op = "address" /\ script[j].op = "address" => i = j
    BY TheScript DEF Sound, BuildsOnce
  <1>2. ASSUME NEW j \in 1 .. k - 1, script[j].op = "chunk", \A i \in j + 1 .. k - 1 : script[i].op # "address"
        PROVE  FALSE
    BY <1>2 DEF StartAt
  <1>3. PICK i \in 1 .. k - 1 : script[i].op = "address"
    BY <1>1, <1>2 DEF Has
  <1>4. ASSUME NEW j \in i + 1 .. k - 1, script[j].op = "chunk"
        PROVE  FALSE
    <2>1. j \in 1 .. k - 1 /\ \A n \in j + 1 .. k - 1 : n \in 1 .. k - 1 /\ n # i
      BY <1>1
    <2>2. \A n \in j + 1 .. k - 1 : script[n].op # "address"
      BY <1>1, <1>3, <2>1
    <2> QED
      BY <1>2, <1>4, <2>1, <2>2
  <1> QED
    BY <1>3, <1>4 DEF Has, StartAt

LEMMA Concat ==
  ASSUME NEW S, NEW x \in Seq(S), NEW y \in Seq(S)
  PROVE  /\ x \o y \in Seq(S) /\ Len(x \o y) = Len(x) + Len(y) /\ Len(x) \in Nat /\ Len(y) \in Nat
         /\ \A i \in 1 .. Len(x) : (x \o y)[i] = x[i]
         /\ \A i \in 1 .. Len(x) + Len(y) : i > Len(x) => (x \o y)[i] = y[i - Len(x)]
  OBVIOUS

\* The image has grown by what it was to grow by.
LEMMA Longer ==
  ASSUME IInv, script' = script, NEW w \in Seq(Values), NEW v \in Seq(Values), NEW n, Alike(w, n), image' = Extended(v), Hurt => Hurt',
         PreLen \in Nat
  PROVE  Alike(w \o v, n)'
  <1>1. image \in Seq(Values) /\ image' = image \o v /\ Len(image) = Len(w)
    BY DEF Alike, IInv, DeviceTypes, Extended
  <1>2. image \o v \in Seq(Values) /\ Len(image \o v) = Len(image) + Len(v) /\ Len(w \o v) = Len(w) + Len(v)
    BY <1>1, Concat
  <1>3. image' # Null
    BY <1>1, <1>2, NotNull
  <1>4. PICK x : x = image'
    OBVIOUS
  <1>5. ASSUME NEW i \in 1 .. Len(w \o v)
        PROVE  x[i] = (w \o v)[i] \/ Spared(i, x[i], n)'
    <2>1. Len(w) \in Nat /\ Len(v) \in Nat
      OBVIOUS
    <2>2. CASE i <= Len(w)
      <3>1. i \in 1 .. Len(w) /\ (w \o v)[i] = w[i] /\ (image \o v)[i] = image[i]
        BY <1>1, <2>1, <2>2, Concat
      <3>2. image[i] = w[i] \/ Spared(i, image[i], n)
        BY <3>1 DEF Alike
      <3>3. PICK u : u = image[i]
        OBVIOUS
      <3>4. Spared(i, u, n) => Spared(i, u, n)'
        BY Fixed DEF Spared, Lost
      <3>5. x[i] = u
        BY <1>1, <1>4, <3>1, <3>3
      <3> QED
        BY <3>1, <3>2, <3>3, <3>4, <3>5
    <2>3. CASE i > Len(w)
      <3>1. (w \o v)[i] = v[i - Len(w)] /\ (image \o v)[i] = v[i - Len(w)]
        BY <1>1, <1>2, <2>1, <2>3, Concat
      <3> QED
        BY <1>1, <1>4, <3>1
    <2> QED
      BY <1>2, <2>1, <2>2, <2>3
  <1> QED
    BY <1>1, <1>2, <1>3, <1>4, <1>5 DEF Alike, Spared
------------------------------------------------------------------------------
(* The shell runs a command of the script in its turn. *)

\* The command is done, has failed, or its loop has begun.
Refused(k) ==
  script[k].op \in Loads \cup {"move", "burn"} \/ (script[k].op = "address" /\ script[k].arg \notin Blocks)
Executed(k) ==
  \/ pc' \in {"shell", "rebooted"} /\ Ran(k)'
  \/ pc' = "shell" /\ last_status' = "error" /\ ImageAt(k - 1, k)' /\ Whole(k - 1)' /\ Refused(k)
  \/ pc' \notin {"shell", "rebooted"} /\ AtWork(k)'
Replied(k) ==
  \E e : /\ toHost' = Append(toHost, e) /\ e.index = index' /\ ~IsEcho(e)
         /\ Passes(e, k) => pc' \in {"shell", "rebooted"} /\ Ran(k)'
         /\ e.type = "data" => pc' # "dump"

LEMMA BlocksAre ==
  ASSUME BootAssumption
  PROVE  FlashEnd \in Nat /\ Blocks = 0 .. FlashEnd - 1
  BY EndAligned

LEMMA Within ==
  ASSUME BootAssumption, NEW b \in Nat, NEW l \in Nat, b + l <= FlashEnd, NEW i \in 1 .. l
  PROVE  b + i - 1 \in Blocks /\ b + i - 1 \in b .. b + l - 1
  BY BlocksAre

LEMMA BeginIn ==
  ASSUME BootAssumption, Begin \in Blocks
  PROVE  /\ Begin \in Nat /\ Begin < FlashEnd /\ FlashEnd \in Nat
         /\ SectorStart(Begin) \in Nat /\ SectorStart(Begin) <= Begin
         /\ PreLen \in Nat /\ PreLen = Begin - SectorStart(Begin)
  <1>1. Begin \in Nat /\ Begin < FlashEnd /\ FlashEnd \in Nat
    BY BlocksAre
  <1>2. SectorStart(Begin) \in Nat /\ SectorStart(Begin) <= Begin
    BY <1>1, Sectors
  <1> QED
    BY <1>1, <1>2 DEF PreLen

LEMMA FunctionLen ==
  ASSUME NEW n \in Nat, NEW S, NEW f \in [1 .. n -> S]
  PROVE  f \in Seq(S) /\ Len(f) = n
  OBVIOUS

\* A command that changes neither image nor start address.
LEMMA Harmless ==
  ASSUME SoundScripts, IInv, NEW k \in 2 .. Len(script), Ready(k), script' = script, UNCHANGED <<image, start, flash, bad, crashes>>,
         script[k].op \notin Loads \cup {"address", "move", "chunk", "burn"}
  PROVE  Ran(k)'
  <1>0. k \in 1 .. Len(script)
    BY TheScript
  <1>1. ImageAt(k, k) /\ Whole(k)
    BY <1>0, OneCommand DEF Ready, Loads
  <1>2. StartAt(k)
    BY <1>0, OneCommand DEF Ready, Loads
  <1>3. Ran(k) /\ (Hurt => Hurt')
    BY <1>1, <1>2 DEF Ran, Hurt
  <1> QED
    BY <1>3, AllStays

LEMMA AddressRuns ==
  ASSUME BootAssumption, SoundScripts, IInv, Fine, pc = "shell", NEW k \in 2 .. Len(script), Ready(k),
         script' = script, crashes' = crashes, Address(script[k])
  PROVE  Executed(k) /\ Replied(k)
  <1> DEFINE c == script[k]
  <1>0. k \in 1 .. Len(script) /\ k - 1 \in 1 .. Len(script) /\ c.op = "address" /\ Sound(script) /\ c.arg \in Nat
    BY TheScript DEF Address
  <1>1. Begin = c.arg
    BY <1>0, BeginIs DEF Begin
  <1>2. UNCHANGED <<pc, part, count, num, flash, bad>> /\ (Hurt <=> Hurt') /\ bad \subseteq bad'
    BY DEF Address, Hurt
  <1>3. Whole(k)' /\ Whole(k - 1)'
    <2>1. Whole(k) /\ Whole(k - 1)
      BY <1>0, OneCommand DEF Ready
    <2> QED
      BY <1>2, <2>1, FlashStays
  <1>4. CASE c.arg \notin Blocks
    <2>1. Returns("overflow") /\ SendStatus("error", "overflow")
      BY <1>4 DEF Address
    <2>2. ~Has(script, "address", k - 1)
      <3>1. \A i \in 1 .. k - 1 : i \in 1 .. Len(script) /\ i # k
        BY <1>0, TheScript
      <3> QED
        BY <1>0, <3>1 DEF Has, Sound, BuildsOnce
    <2>3. ImageAt(k - 1, k)'
      BY <2>2 DEF ImageAt, Has
    <2>4. Executed(k)
      BY <1>0, <1>2, <1>3, <1>4, <2>1, <2>3 DEF Executed, Returns, Refused
    <2>5. Replied(k)
      BY <2>1 DEF Replied, SendStatus, Send, Status, IsEcho, Passes
    <2> QED
      BY <2>4, <2>5
  <1>5. CASE c.arg \in Blocks
    <2>1. /\ start' = SectorStart(Begin) /\ image' = FlashSeq(start', Begin - start')
          /\ SendStatus("ok", 0)
      BY <1>1, <1>5 DEF Address
    <2>2. /\ Begin \in Nat /\ start' \in Nat /\ start' <= Begin /\ Begin - start' \in Nat /\ Begin \in Blocks
          /\ PreLen = Begin - start' /\ start' + (Begin - start') <= FlashEnd
      BY <1>1, <1>5, <2>1, BeginIn
    <2>3. image' \in Seq(Values) /\ image' \in [1 .. PreLen -> Values]
      BY <2>1, <2>2, FlashRead DEF IInv
    <2>4. Built(k) = Before(Begin)
      BY <1>0, <1>1, <1>5, BuildsAre, PieceIs, TheScript DEF Built
    <2>5. Len(Before(Begin)) = PreLen /\ \A i \in 1 .. PreLen : Before(Begin)[i] = Old(start' + i - 1)
      BY <2>1, <2>2 DEF Before
    <2>6. ASSUME NEW i \in 1 .. PreLen
          PROVE  image'[i] = Before(Begin)[i] \/ (Hurt' /\ image'[i] = Blank)
      <3> DEFINE b == start' + i - 1
      <3>1. b \in Blocks /\ b < Begin
        <4>1. i \in 1 .. Begin - start' /\ start' \in Nat /\ Begin - start' \in Nat /\ Begin \in Nat
          BY <2>2
        <4>2. b \in Blocks
          BY <2>2, <4>1, Within
        <4>3. start' + i - 1 < Begin
          <5>1. \A x, y, z \in Nat : z \in 1 .. y - x => x + z - 1 < y
            OBVIOUS
          <5>2. i \in Nat
            BY <4>1
          <5> QED
            BY <4>1, <5>1, <5>2
        <4> QED
          BY <4>2, <4>3
      <3>2. image'[i] = flash[b]
        BY <2>1, <2>2 DEF FlashSeq
      <3>3. Kept(b) /\ ~InCopy(b)
        BY <3>1 DEF Kept, InCopy
      <3>4. flash[b] = Old(b) \/ (flash[b] = Blank /\ Hurt)
        BY <3>1, <3>3 DEF Fine, FlashFine, Missing
      <3> QED
        BY <1>2, <2>5, <3>2, <3>4
    <2>7. Alike(Built(k), k)'
      <3>1. image' # Null
        BY <2>3, NotNull
      <3>2. Len(image') = PreLen
        BY <2>2, <2>3, FunctionLen
      <3> QED
        BY <2>4, <2>5, <2>6, <3>1, <3>2, Fixed DEF Alike, Spared, Lost
    <2>8. ImageAt(k, k)'
      BY <2>2, <2>7, Fixed DEF ImageAt
    <2>9. StartAt(k)'
      <3>1. ASSUME NEW i \in 1 .. k, script[i].op = "chunk", \A j \in i + 1 .. k : script[j].op # "address"
            PROVE  FALSE
        <4>1. i # k
          BY <1>0, <3>1
        <4>2. k \in i + 1 .. k
          BY <1>0, <4>1, TheScript
        <4> QED
          BY <1>0, <3>1, <4>2
      <3> QED
        BY <2>1, <3>1, Fixed DEF StartAt
    <2>10. Executed(k)
      BY <1>2, <1>3, <2>8, <2>9 DEF Executed, Ran
    <2>11. Replied(k)
      <3>1. Ran(k)'
        BY <1>3, <2>8, <2>9 DEF Ran
      <3> QED
        BY <1>2, <2>1, <3>1 DEF Replied, SendStatus, Send, Status, IsEcho
    <2> QED
      BY <2>10, <2>11
  <1> QED
    BY <1>4, <1>5

\* What the shell says of a command it does not run, or fails.
LEMMA SaysNo ==
  ASSUME NEW k, NEW e, SendStatus("error", e)
  PROVE  Replied(k)
  BY DEF Replied, SendStatus, Send, Status, IsEcho, Passes

LEMMA MoveRuns ==
  ASSUME BootAssumption, SoundScripts, IInv, Fine, pc = "shell", NEW k \in 2 .. Len(script), Ready(k),
         script' = script, crashes' = crashes, Move(script[k])
  PROVE  Executed(k) /\ Replied(k)
  <1> DEFINE c == script[k]
  <1>0. /\ k \in 1 .. Len(script) /\ c.op = "move" /\ Sound(script) /\ WellFormed(script)
        /\ c.arg \in Nat /\ c.len \in Nat /\ c.len >= 1 /\ c.arg + c.len <= FlashEnd /\ Len(script) \in Nat
    BY TheScript, CommandsOf DEF Move
  <1>1. StartAt(k - 1) /\ ImageAt(k - 1, k) /\ Whole(k - 1) /\ Whole(k)
    BY <1>0, OneCommand DEF Ready
  <1>2. CASE Refuse("noinit")
    <2>1. UNCHANGED <<pc, start, image, flash, bad>> /\ last_status' = "error" /\ (Hurt => Hurt')
      BY <1>2 DEF Refuse, Returns, Hurt
    <2>2. ImageAt(k - 1, k)' /\ Whole(k - 1)'
      BY <1>1, <2>1, AllStays
    <2>3. Executed(k)
      BY <1>0, <2>1, <2>2 DEF Executed, Refused
    <2> QED
      BY <1>2, <2>3, SaysNo DEF Refuse
  <1>3. CASE ~Refuse("noinit")
    <2> DEFINE v == [FlashSeq(c.arg, c.len) EXCEPT ![1] = Moved(@)]
    <2>1. /\ start # NoAddr /\ image' = Extended(v) /\ SendStatus("ok", 0)
          /\ UNCHANGED <<pc, start, flash, bad>> /\ (Hurt => Hurt')
      BY <1>3 DEF Move, Hurt
    <2>2. Has(script, "address", k - 1)
      BY <1>0, <1>1, <2>1, Based
    <2>3. PICK j \in 1 .. Len(script) : script[j].op = "address"
      BY <1>0, <2>2 DEF Has
    <2>4. ASSUME NEW i \in 1 .. c.len
          PROVE  flash[c.arg + i - 1] = Old(c.arg + i - 1)
      <3> DEFINE b == c.arg + i - 1
      <3>1. b \in Blocks /\ b \in c.arg .. c.arg + c.len - 1
        BY <1>0, Within
      <3>2. b \notin BurnZone(script)
        BY <1>0, <2>3, <3>1 DEF Sound, Sizes
      <3> QED
        BY <3>1, <3>2 DEF Fine, FlashFine
    <2>5. v = MovedChunk(c)
      <3>1. FlashSeq(c.arg, c.len) = [i \in 1 .. c.len |-> Old(c.arg + i - 1)]
        BY <2>4 DEF FlashSeq
      <3>2. 1 \in 1 .. c.len /\ c.arg + 1 - 1 = c.arg
        BY <1>0
      <3>3. FlashSeq(c.arg, c.len)[1] = Old(c.arg)
        BY <3>1, <3>2
      <3>4. v = [i \in 1 .. c.len |-> IF i = 1 THEN Moved(FlashSeq(c.arg, c.len)[1]) ELSE FlashSeq(c.arg, c.len)[i]]
        BY <3>1, <3>2
      <3>5. \A i \in 1 .. c.len : v[i] = MovedChunk(c)[i]
        <4>1. ASSUME NEW i \in 1 .. c.len
              PROVE  v[i] = MovedChunk(c)[i]
          <5>1. MovedChunk(c)[i] = IF i = 1 THEN Moved(Old(c.arg)) ELSE Old(c.arg + i - 1)
            BY DEF MovedChunk
          <5>2. v[i] = IF i = 1 THEN Moved(FlashSeq(c.arg, c.len)[1]) ELSE FlashSeq(c.arg, c.len)[i]
            BY <3>4
          <5> QED
            BY <3>1, <3>3, <5>1, <5>2
        <4> QED
          BY <4>1
      <3>6. DOMAIN v = 1 .. c.len /\ DOMAIN MovedChunk(c) = 1 .. c.len /\ v = [i \in 1 .. c.len |-> v[i]]
            /\ MovedChunk(c) = [i \in 1 .. c.len |-> MovedChunk(c)[i]]
        BY <3>4 DEF MovedChunk
      <3> HIDE DEF v
      <3> QED
        BY <3>5, <3>6
    <2> HIDE DEF v
    <2>6. Built(k) = Built(k - 1) \o v /\ Built(k - 1) \in Seq(Values) /\ v \in Seq(Values)
      <3>1. Builds(script)[k] = Piece(script, Builds(script)[k - 1], k)
        BY <1>0, BuildsAre
      <3>2. k - 1 \in 0 .. Len(script)
        BY <1>0
      <3>3. Built(k - 1) \in Seq(Values)
        BY <1>0, <3>2, BuildsTyped DEF Built
      <3>4. MovedChunk(c) \in Seq(Values)
        BY <1>0, <3>3, PieceTyped
      <3> QED
        BY <1>0, <2>5, <3>1, <3>3, <3>4, PieceIs DEF Built
    <2>7. Begin \in Blocks /\ Alike(Built(k - 1), k)
      BY <1>1, <2>2 DEF ImageAt
    <2>8. PreLen \in Nat
      BY <2>7, BeginIn
    <2>9. Alike(Built(k), k)'
      <3>1. PICK w \in Seq(Values), x \in Seq(Values) : w = Built(k - 1) /\ x = v
        BY <2>6
      <3>2. Alike(w \o x, k)'
        BY <2>1, <2>7, <2>8, <3>1, Longer
      <3>3. Built(k)' = w \o x
        BY <2>6, <3>1, Fixed
      <3> QED
        BY <3>2, <3>3 DEF Alike
    <2>10. ImageAt(k, k)'
      BY <2>7, <2>9, Fixed DEF ImageAt
    <2>11. StartAt(k)' /\ Whole(k)'
      <3>1. StartAt(k) /\ bad \subseteq bad'
        BY <1>0, <1>1, <2>1, OneCommand
      <3> QED
        BY <1>1, <2>1, <3>1, StartStays, FlashStays
    <2>12. Ran(k)'
      BY <2>10, <2>11 DEF Ran
    <2>13. Executed(k)
      BY <2>1, <2>12 DEF Executed
    <2>14. Replied(k)
      BY <2>1, <2>12 DEF Replied, SendStatus, Send, Status, IsEcho
    <2> QED
      BY <2>13, <2>14
  <1> QED
    BY <1>2, <1>3

LEMMA LoadRuns ==
  ASSUME BootAssumption, SoundScripts, IInv, pc = "shell", NEW k \in 2 .. Len(script), Ready(k), cmd' = k,
         script' = script, crashes' = crashes, Transfer(script[k])
  PROVE  Executed(k) /\ Replied(k)
  <1>0. k \in 1 .. Len(script) /\ script[k].op \in Loads /\ script[k].len \in Nat /\ script[k].len >= 1 /\ k \in Nat
    BY TheScript DEF Transfer, Loads, Sound, Sizes
  <1>1. Whole(k - 1) /\ ImageAt(k - 1, k)
    BY DEF Ready
  <1>2. UNCHANGED <<start, image, flash, bad>> /\ (Hurt => Hurt')
    BY DEF Transfer, Refuse, Hurt
  <1>3. ImageAt(k - 1, k)' /\ Whole(k - 1)' /\ Ready(k)'
    BY <1>1, <1>2, AllStays
  <1>4. CASE Refuse("noinit")
    <2>1. Executed(k)
      BY <1>0, <1>3, <1>4 DEF Executed, Refuse, Returns, Refused
    <2> QED
      BY <1>4, <2>1, SaysNo DEF Refuse
  <1>5. CASE ~Refuse("noinit")
    <2>1. /\ start # NoAddr /\ pc' = "transfer" /\ part' = <<>> /\ count' = script[k].len
          /\ Running /\ SendStatus("ok", 0)
      BY <1>5 DEF Transfer
    <2>2. Len(part') = 0 /\ k <= Len(script')
      BY <2>1, TheScript
    <2>3. AtWork(k)'
      BY <1>0, <1>2, <1>3, <2>1, <2>2 DEF AtWork, Resting, Running, Burning
    <2>4. Executed(k)
      BY <2>1, <2>3 DEF Executed
    <2>5. Replied(k)
      BY <1>0, <2>1 DEF Replied, SendStatus, Send, Status, IsEcho, Passes, Loads
    <2> QED
      BY <2>4, <2>5
  <1> QED
    BY <1>4, <1>5

\* Until a burn is under way, the key's chunk is found where it was, or not at all.
LEMMA KeyFound ==
  ASSUME BootAssumption, SoundScripts, SoundKey, IInv, Fine, pc # "copy",
         Has(script, "address", Len(script)), Has(script, "burn", Len(script))
  PROVE  /\ KeyOf(flash) \subseteq KeyPlace
         /\ SectorStart(Begin) = 0 /\ ~Hurt => KeyOf(flash) = KeyPlace
         /\ SectorStart(Begin) = 0 \/ \A b \in KeyPlace : b >= Len(Final)
  <1> DEFINE r == [b \in Blocks |-> IF flash[b] = Old(b) THEN "old" ELSE IF flash[b] = Target(b) THEN "sent" ELSE "blank"]
             m == Mixed(script, r)
  <1>1. script \in Scripts /\ flash \in [Blocks -> Values]
    BY DEF IInv, HostTypes, DeviceTypes
  <1>2. KeyStays(script) /\ KeyClear(script)
    BY <1>1 DEF SoundKey
  <1>3. r \in [Blocks -> {"old", "sent", "blank"}]
    OBVIOUS
  <1>4. ASSUME NEW b \in Blocks
        PROVE  /\ flash[b] \in {Old(b), Target(b)} \/ (flash[b] = Blank /\ Hurt)
               /\ Restored(b) => flash[b] = Old(b) \/ Hurt
    BY DEF Fine, FlashFine, Missing, InCopy
  <1>5. m = flash
    <2>1. \A b \in Blocks : m[b] = flash[b]
      BY <1>4 DEF Mixed, Target
    <2>2. m = [b \in Blocks |-> m[b]] /\ flash = [b \in Blocks |-> flash[b]]
      BY <1>1 DEF Mixed
    <2> HIDE DEF m
    <2> QED
      BY <2>1, <2>2
  <1>6. /\ KeyOf(m) \subseteq KeyPlace
        /\ (\A b \in Blocks : r[b] # "blank" /\ (b \in KeyPlace => r[b] = "old")) => KeyOf(m) = KeyPlace
    BY <1>2, <1>3 DEF KeyStays
  <1>7. ASSUME SectorStart(Begin) = 0, ~Hurt
        PROVE  \A b \in Blocks : r[b] # "blank" /\ (b \in KeyPlace => r[b] = "old")
    BY <1>4, <1>7 DEF Restored
  <1> HIDE DEF r, m
  <1>8. SectorStart(Begin) = 0 \/ \A b \in KeyPlace : b >= Len(Final)
    BY <1>2 DEF KeyClear, Begin, Final
  <1> QED
    BY <1>5, <1>6, <1>7, <1>8

\* With the key in it, the image is still the script's.
LEMMA KeyInImage ==
  ASSUME BootAssumption, SoundScripts, SoundKey, IInv, Fine, pc # "copy",
         Has(script, "address", Len(script)), Has(script, "burn", Len(script)),
         Begin \in Blocks, NEW n, BurnBy(n), Alike(Final, n), NEW img, img = WithKey(image)
  PROVE  /\ img # Null /\ Len(img) = Len(Final)
         /\ \A i \in 1 .. Len(Final) : /\ img[i] = Final[i] \/ Spared(i, img[i], n)
                                       /\ Restored(i - 1) => img[i] = Old(i - 1) \/ Hurt
  <1>1. /\ image \in Seq(Values) /\ Len(image) = Len(Final) /\ Len(Final) \in Nat
        /\ \A i \in 1 .. Len(Final) : image[i] = Final[i] \/ Spared(i, image[i], n)
    BY DEF Alike, IInv, DeviceTypes
  <1>2. /\ img \in Seq(Values) /\ Len(img) = Len(Final)
        /\ \A i \in 1 .. Len(Final) : img[i] = IF i - 1 \in KeyOf(flash) THEN flash[i - 1] ELSE image[i]
    BY <1>1, KeyKept DEF IInv
  <1>3. img # Null
    BY <1>2, NotNull
  <1>4. /\ KeyOf(flash) \subseteq KeyPlace
        /\ SectorStart(Begin) = 0 /\ ~Hurt => KeyOf(flash) = KeyPlace
        /\ SectorStart(Begin) = 0 \/ \A b \in KeyPlace : b >= Len(Final)
    BY KeyFound
  <1>5. ASSUME NEW i \in 1 .. Len(Final), i - 1 \in KeyOf(flash)
        PROVE  /\ Restored(i - 1) /\ img[i] = flash[i - 1]
               /\ flash[i - 1] \in {Old(i - 1), Final[i]} \/ Lost(flash[i - 1])
               /\ flash[i - 1] = Old(i - 1) \/ Hurt
    <2>1. i \in Nat /\ i - 1 < Len(Final) /\ i - 1 \in Blocks /\ i - 1 \in KeyPlace
      <3>1. KeyOf(flash) \subseteq Blocks
        BY DEF KeyOf
      <3> QED
        BY <1>1, <1>4, <1>5, <3>1
    <2>2. SectorStart(Begin) = 0 /\ Restored(i - 1)
      BY <1>4, <2>1 DEF Restored
    <2>3. Target(i - 1) = Final[i]
      <3>1. (i - 1) - 0 + 1 = i
        BY <2>1
      <3>2. (i - 1) - SectorStart(Begin) + 1 = i
        BY <2>2, <3>1
      <3> QED
        BY <3>2 DEF Target, TargetOf, Begin, Final
    <2>4. /\ flash[i - 1] \in {Old(i - 1), Target(i - 1)} \/ (flash[i - 1] = Blank /\ Hurt)
          /\ Restored(i - 1) => flash[i - 1] = Old(i - 1) \/ Hurt
      BY <2>1 DEF Fine, FlashFine, Missing, InCopy
    <2> QED
      BY <1>2, <1>5, <2>2, <2>3, <2>4 DEF Lost
  <1>6. ASSUME NEW i \in 1 .. Len(Final)
        PROVE  /\ img[i] = Final[i] \/ Spared(i, img[i], n)
               /\ Restored(i - 1) => img[i] = Old(i - 1) \/ Hurt
    <2>1. CASE i - 1 \in KeyOf(flash)
      BY <1>5, <2>1 DEF Spared
    <2>2. CASE i - 1 \notin KeyOf(flash)
      <3>1. img[i] = image[i]
        BY <1>2, <2>2
      <3>2. img[i] = Final[i] \/ Spared(i, img[i], n)
        BY <1>1, <3>1
      <3>3. Restored(i - 1) => Hurt
        BY <1>4, <2>2 DEF Restored
      <3> QED
        BY <3>2, <3>3
    <2> QED
      BY <2>1, <2>2
  <1> QED
    BY <1>2, <1>3, <1>6

\* A burn begins with the script's image in memory.
LEMMA BurnRuns ==
  ASSUME BootAssumption, SoundScripts, SoundKey, IInv, Fine, pc = "shell", NEW k \in 2 .. Len(script), Ready(k), cmd' = k,
         script' = script, crashes' = crashes, Burn(script[k])
  PROVE  Executed(k) /\ Replied(k) /\ BurnFine'
  <1>0. k \in 1 .. Len(script) /\ script[k].op = "burn" /\ Sound(script) /\ k - 1 \in Nat /\ k - 1 <= Len(script) /\ Len(script) \in Nat
    BY TheScript DEF Burn
  <1>1. Whole(k - 1) /\ ImageAt(k - 1, k) /\ StartAt(k - 1)
    BY <1>0 DEF Ready
  <1>2. UNCHANGED <<start, flash, bad>> /\ bad \subseteq bad' /\ (Hurt <=> Hurt')
    BY DEF Burn, Refuse, Hurt
  <1>3. Whole(k - 1)' /\ StartAt(k - 1)'
    BY <1>1, <1>2, StartStays, FlashStays
  <1>4. CASE Refuse("nothing")
    <2>1. ImageAt(k - 1, k)'
      <3>1. image' = image
        BY <1>4 DEF Refuse
      <3> QED
        BY <1>1, <1>2, <3>1, ImageStays
    <2>2. Executed(k)
      BY <1>0, <1>3, <1>4, <2>1 DEF Executed, Refuse, Returns, Refused
    <2>3. BurnFine'
      BY <1>4 DEF Refuse, BurnFine, Burning
    <2> QED
      BY <1>4, <2>2, <2>3, SaysNo DEF Refuse
  <1>5. CASE ~Refuse("nothing")
    <2>1. /\ start # NoAddr /\ pc' = "burn" /\ Running /\ SendStatus("ok", 0)
          /\ image # Null => image' = WithKey(image)
      BY <1>5 DEF Burn
    <2>2. Has(script, "address", k - 1) /\ start = SectorStart(Begin)
      BY <1>0, <1>1, <2>1, Based
    <2>3. Begin \in Blocks /\ Alike(Built(k - 1), k) /\ Built(k - 1) = Final
      BY <1>0, <1>1, <2>2, FinalAt DEF ImageAt, Built, Final
    <2>4. Alike(Final, k) /\ BurnBy(k) /\ image # Null
      BY <1>0, <2>3 DEF Alike, BurnBy
    <2>5. Has(script, "address", Len(script)) /\ Has(script, "burn", Len(script))
      BY <1>0, <2>2 DEF Has
    <2>6. /\ image' # Null /\ Len(image') = Len(Final)
          /\ \A i \in 1 .. Len(Final) : /\ image'[i] = Final[i] \/ Spared(i, image'[i], k)
                                        /\ Restored(i - 1) => image'[i] = Old(i - 1) \/ Hurt
      <3>1. PICK v : v = image' /\ v = WithKey(image)
        BY <2>1, <2>4
      <3> QED
        BY <2>3, <2>4, <2>5, <3>1, KeyInImage
    <2>7. \A i, v : Spared(i, v, k) => Spared(i, v, k)'
      BY <1>2, Fixed DEF Spared, Lost
    <2>8. \A w : w = Final => Alike(w, k)'
      BY <2>6, <2>7 DEF Alike
    <2>9. ImageAt(k - 1, k)'
      <3>1. PICK w : w = Built(k - 1) /\ w = Final
        BY <2>3
      <3>2. Alike(w, k)' /\ Built(k - 1)' = w /\ Begin' \in Blocks
        BY <2>3, <2>8, <3>1, Fixed
      <3> QED
        BY <3>2 DEF ImageAt, Alike
    <2>10. AtWork(k)'
      <3>1. Ready(k)' /\ k <= Len(script')
        BY <1>0, <1>3, <2>9 DEF Ready
      <3> QED
        BY <1>0, <2>1, <3>1 DEF AtWork, Resting, Running
    <2>11. Executed(k)
      BY <2>1, <2>10 DEF Executed
    <2>12. Replied(k)
      BY <1>0, <2>1 DEF Replied, SendStatus, Send, Status, IsEcho, Passes
    <2>13. BurnFine'
      <3>1. PICK w : w = Final
        OBVIOUS
      <3>2. Alike(w, Len(script))'
        <4>1. BurnBy(Len(script))'
          BY <2>5 DEF BurnBy, Has
        <4>2. \A x : Alike(x, k)' => Alike(x, Len(script))'
          BY <4>1 DEF Alike, Spared
        <4> QED
          BY <2>8, <3>1, <4>2
      <3>3. Final' = w /\ Begin' = Begin /\ \A i : Restored(i - 1)' = Restored(i - 1)
        BY <3>1, Fixed
      <3>4. Alike(Final, Len(script))'
        BY <3>2, <3>3 DEF Alike
      <3>5. \A i \in 1 .. Len(Final') : Restored(i - 1)' => image'[i] = Old(i - 1) \/ Hurt'
        BY <1>2, <2>6, <3>1, <3>3
      <3> QED
        BY <1>2, <2>2, <2>3, <2>5, <3>3, <3>4, <3>5 DEF BurnFine, Has
    <2> QED
      BY <2>11, <2>12, <2>13
  <1> QED
    BY <1>4, <1>5

LEMMA DumpRuns ==
  ASSUME BootAssumption, SoundScripts, IInv, pc = "shell", NEW k \in 2 .. Len(script), Ready(k), cmd' = k,
         script' = script, crashes' = crashes, Dump(script[k])
  PROVE  Executed(k) /\ Replied(k)
  <1>0. k \in 1 .. Len(script) /\ script[k].op = "dump" /\ script[k].len \in Nat /\ script[k].len >= 1
    BY TheScript DEF Dump, Sound, Sizes
  <1>1. UNCHANGED <<start, image, flash, bad>> /\ (Hurt => Hurt')
    BY DEF Dump, Hurt
  <1>2. Ready(k)'
    BY <1>1, AllStays
  <1>3. pc' = "dump" /\ num' = 0 /\ count' = script[k].len /\ Running /\ SendStatus("ok", 0) /\ k <= Len(script')
    BY <1>0, TheScript DEF Dump
  <1>4. AtWork(k)'
    BY <1>0, <1>2, <1>3 DEF AtWork, Resting, Running, Burning
  <1>5. Executed(k)
    BY <1>3, <1>4 DEF Executed
  <1>6. Replied(k)
    BY <1>0, <1>3 DEF Replied, SendStatus, Send, Status, IsEcho, Passes
  <1> QED
    BY <1>5, <1>6

LEMMA OtherRuns ==
  ASSUME BootAssumption, SoundScripts, IInv, pc = "shell", NEW k \in 2 .. Len(script), Ready(k), cmd' = k,
         script' = script, crashes' = crashes,
         Version(script[k]) \/ Chunk(script[k]) \/ Reboot(script[k]) \/ Unknown(script[k])
  PROVE  Executed(k) /\ Replied(k)
  <1> DEFINE c == script[k]
  <1>0. k \in 1 .. Len(script) /\ Len(script) \in Nat /\ k \in Nat /\ k - 1 \in Nat
    BY TheScript
  <1>1. ASSUME c.op # "chunk"
        PROVE  Ran(k)' /\ pc' \in {"shell", "rebooted"}
    <2>1. /\ UNCHANGED <<start, image, flash, bad, crashes>> /\ pc' \in {"shell", "rebooted"}
          /\ c.op \in {"version", "reboot", "unknown"}
      BY <1>1 DEF Version, Chunk, Reboot, Unknown
    <2> QED
      BY <2>1, Harmless DEF Loads
  <1>2. ASSUME c.op = "chunk"
        PROVE  Ran(k)' /\ pc' \in {"shell", "rebooted"}
    <2>1. UNCHANGED <<pc, image, flash, bad>> /\ start' = NoAddr /\ (Hurt => Hurt') /\ bad \subseteq bad'
      BY <1>2 DEF Version, Chunk, Reboot, Unknown, Hurt
    <2>2. ImageAt(k, k) /\ Whole(k)
      BY <1>0, <1>2, OneCommand DEF Ready, Loads
    <2>3. ImageAt(k, k)' /\ Whole(k)'
      BY <2>1, <2>2, ImageStays, FlashStays
    <2>4. StartAt(k)'
      <3>1. ASSUME NEW i \in 1 .. k, script[i].op = "address", \A j \in i + 1 .. k : script[j].op # "chunk"
            PROVE  FALSE
        <4>1. i # k
          BY <1>2, <3>1
        <4>2. k \in i + 1 .. k
          BY <1>0, <4>1
        <4> QED
          BY <1>2, <3>1, <4>2
      <3> QED
        BY <2>1, <3>1 DEF StartAt
    <2> QED
      BY <2>1, <2>3, <2>4 DEF Ran
  <1>3. Ran(k)' /\ pc' \in {"shell", "rebooted"}
    BY <1>1, <1>2
  <1>4. Executed(k)
    BY <1>3 DEF Executed
  <1>5. Replied(k)
    <2>1. PICK e : toHost' = Append(toHost, e) /\ e.index = index' /\ ~IsEcho(e)
      BY DEF Version, Chunk, Reboot, Unknown, SendStatus, Send, Status, Data, IsEcho
    <2> QED
      BY <1>3, <2>1 DEF Replied
  <1> QED
    BY <1>4, <1>5

\* Any command after comtest.
LEMMA Executes ==
  ASSUME BootAssumption, SoundScripts, SoundKey, IInv, Fine, pc = "shell", NEW k \in 2 .. Len(script), Ready(k), cmd' = k,
         script' = script, crashes' = crashes, Run(script[k])
  PROVE  Executed(k) /\ Replied(k) /\ BurnFine'
  <1>1. ~Comtest(script[k])
    BY TheScript DEF Comtest, Sound, Opens
  <1>2. CASE Burn(script[k])
    BY <1>2, BurnRuns
  <1>3. CASE ~Burn(script[k])
    <2>1. Executed(k) /\ Replied(k)
      BY <1>1, <1>3, AddressRuns, MoveRuns, LoadRuns, DumpRuns, OtherRuns DEF Run
    <2>2. pc' \notin {"burn", "copy", "poll"}
      BY <1>1, <1>3 DEF Run, Version, Chunk, Address, Move, Transfer, Dump, Reboot, Unknown, Refuse
    <2> QED
      BY <2>1, <2>2 DEF BurnFine, Burning
  <1> QED
    BY <1>2, <1>3

LEMMA NowAtWork ==
  ASSUME SoundScripts, IInv, NEW k, k <= Len(script), Executed(k), script' = script
  PROVE  AtWork(k)'
  BY DEF Executed, AtWork, Resting, Burning
------------------------------------------------------------------------------
(* The flash while it is burnt. *)

\* Steps that do not touch it.
LEMMA FineStays ==
  ASSUME Fine, script' = script, UNCHANGED <<flash, bad, crashes>>, aborts' \in Nat, pc # "copy", pc' # "copy", BurnFine'
  PROVE  Fine'
  <1>1. (Hurt <=> Hurt') /\ ~InCopy(0)
    BY DEF Hurt, InCopy
  <1>2. FlashFine'
    <2>1. ASSUME NEW b \in Blocks
          PROVE  /\ flash'[b] \in {Old(b), Target(b)} \/ Missing(b)'
                 /\ Kept(b) => flash'[b] = Old(b) \/ Missing(b)'
                 /\ Restored(b) => flash'[b] = Old(b) \/ Missing(b)' \/ Hurt'
                 /\ b \notin BurnZone(script) => flash'[b] = Old(b)
      BY <1>1, <2>1 DEF Fine, FlashFine, Missing, InCopy
    <2>2. BurnZone(script)' = BurnZone(script)
      BY DEF BurnZone
    <2> QED
      BY <2>1, <2>2, Fixed DEF FlashFine
  <1> QED
    BY <1>2 DEF Fine, Counts, PartFine

\* A burn goes on.
LEMMA BurnGoesOn ==
  ASSUME Fine, Burning, script' = script, UNCHANGED <<start, image>>, Hurt => Hurt'
  PROVE  BurnFine'
  <1>1. PICK w, n : w = Final /\ n = Len(script)
    OBVIOUS
  <1>2. Alike(w, n) => Alike(w, n)'
    BY ImageStays
  <1>3. Final' = w /\ Begin' = Begin /\ Len(script') = n /\ \A i : Restored(i - 1)' = Restored(i - 1)
    BY <1>1, Fixed
  <1>4. Alike(Final, Len(script)) => Alike(Final, Len(script))'
    BY <1>1, <1>2, <1>3 DEF Alike, Spared, BurnBy
  <1> QED
    BY <1>1, <1>3, <1>4 DEF Fine, BurnFine, Has

\* Steps of the host and the line.
LEMMA FineIdle ==
  ASSUME Fine, script' = script, UNCHANGED <<device, crashes>>, aborts' \in Nat
  PROVE  Fine'
  <1>1. UNCHANGED <<pc, flash, bad, num, part, image, start>>
    BY DEF device
  <1>2. (Hurt <=> Hurt') /\ (Burning <=> Burning') /\ BurnZone(script)' = BurnZone(script)
    BY <1>1 DEF Hurt, Burning, BurnZone
  <1>3. \A b : (InCopy(b) <=> InCopy(b)')
    BY <1>1 DEF InCopy, Sector
  <1>4. FlashFine'
    <2>1. \A b : (Missing(b) <=> Missing(b)')
      BY <1>1, <1>2, <1>3 DEF Missing
    <2> QED
      BY <1>1, <1>2, <2>1, Fixed DEF Fine, FlashFine
  <1>5. PartFine'
    <2>1. \A b, v : (Fits(b, v) <=> Fits(b, v)')
      BY <1>2, Fixed DEF Fits, Lost
    <2> QED
      BY <1>1, <1>2, <2>1 DEF Fine, PartFine, Sector
  <1>6. BurnFine'
    <2>1. CASE Burning
      BY <1>1, <1>2, <2>1, BurnGoesOn
    <2>2. CASE ~Burning
      BY <1>2, <2>2 DEF BurnFine
    <2> QED
      BY <2>1, <2>2
  <1> QED
    BY <1>4, <1>5, <1>6 DEF Fine, Counts

\* What the image holds for a block.
LEMMA ForBlock ==
  ASSUME BootAssumption, SoundScripts, IInv, Fine, Burning, NEW b \in Blocks
  PROVE  /\ Kept(b) => Target(b) = Old(b)
         /\ ~Kept(b) => start <= b /\ b - start < Len(Burnt)
         /\ start <= b /\ b - start < Len(Burnt) => Fits(b, Burnt[b - start + 1])
         /\ start <= b /\ ~(b - start < Len(Burnt)) => Kept(b)
  <1>1. /\ Has(script, "address", Len(script)) /\ Begin \in Blocks /\ Alike(Final, Len(script)) /\ start = SectorStart(Begin)
        /\ Burnt = image /\ \A n \in 1 .. Len(Final) : Restored(n - 1) => image[n] = Old(n - 1) \/ Hurt
    BY DEF Fine, BurnFine, Burnt, Alike
  <1>2. /\ Begin \in Nat /\ start \in Nat /\ start <= Begin /\ PreLen = Begin - start /\ b \in Nat
    BY <1>1, BeginIn, BlocksAre
  <1>3. /\ Final \in Seq(Values) /\ Len(Final) \in Nat /\ PreLen <= Len(Final)
        /\ \A i \in 1 .. PreLen : Final[i] = Old(start + i - 1)
    <2>1. Sound(script) /\ WellFormed(script) /\ Len(script) \in 0 .. Len(script)
      BY TheScript
    <2>2. Final \in Seq(Values)
      BY <2>1, BuildsTyped DEF Final, FinalOf
    <2>3. /\ Len(Final) >= Begin - SectorStart(Begin)
          /\ \A i \in 1 .. Begin - SectorStart(Begin) : Final[i] = Old(SectorStart(Begin) + i - 1)
      BY <1>1, <2>1, Prefixed DEF Final, FinalOf, Begin
    <2>4. Len(Final) \in Nat
      BY <2>2
    <2> QED
      BY <1>1, <1>2, <2>2, <2>3, <2>4
  <1>4. Len(image) = Len(Final) /\ \A i \in 1 .. Len(Final) : image[i] = Final[i] \/ Spared(i, image[i], Len(script))
    BY <1>1 DEF Alike
  <1> DEFINE i == b - start + 1
  <1>5. Target(b) = IF i \in 1 .. Len(Final) THEN Final[i] ELSE Old(b)
    BY <1>1 DEF Target, TargetOf, Begin, Final
  <1>6. (i \in 1 .. Len(Final) <=> start <= b /\ b - start < Len(Final)) /\ (i <= PreLen <=> b < Begin) /\ start + i - 1 = b
    BY <1>2, <1>3
  <1>7. Kept(b) <=> b < Begin \/ b >= start + Len(Final)
    BY <1>1 DEF Kept
  <1>8. i \in Int /\ (start = 0 => i - 1 = b)
    BY <1>2
  <1> HIDE DEF i
  <1>9. ASSUME Kept(b)
        PROVE  Target(b) = Old(b)
    <2>1. CASE i \in 1 .. Len(Final)
      <3>1. i \in 1 .. PreLen
        BY <1>2, <1>3, <1>6, <1>7, <1>8, <1>9, <2>1
      <3> QED
        BY <1>3, <1>5, <1>6, <2>1, <3>1
    <2>2. CASE i \notin 1 .. Len(Final)
      BY <1>5, <2>2
    <2> QED
      BY <2>1, <2>2
  <1>10. ASSUME ~Kept(b)
         PROVE  start <= b /\ b - start < Len(Burnt)
    BY <1>1, <1>2, <1>3, <1>4, <1>7, <1>10
  <1>11. ASSUME start <= b, b - start < Len(Burnt)
         PROVE  Fits(b, Burnt[i])
    <2>1. i \in 1 .. Len(Final)
      BY <1>1, <1>4, <1>6, <1>11
    <2>2. PICK v : v = Burnt[i]
      OBVIOUS
    <2>3. Restored(i - 1) => start = 0 /\ i - 1 = b
      BY <1>1, <1>8 DEF Restored
    <2>4. v = Target(b) \/ Spared(i, v, Len(script))
      BY <1>1, <1>4, <1>5, <2>1, <2>2
    <2>5. v = Target(b) \/ (Lost(v) /\ b < Begin) \/ (Restored(b) /\ (v = Old(b) \/ Lost(v)))
      BY <1>6, <2>3, <2>4 DEF Spared
    <2>6. Restored(b) => v = Old(b) \/ Hurt
      <3>1. Restored(b) => start = 0
        BY <1>1 DEF Restored
      <3> QED
        BY <1>1, <1>8, <2>1, <2>2, <3>1
    <2> QED
      BY <1>7, <1>9, <2>2, <2>5, <2>6 DEF Fits
  <1>12. ASSUME start <= b, ~(b - start < Len(Burnt))
         PROVE  Kept(b)
    BY <1>1, <1>2, <1>3, <1>4, <1>7, <1>12
  <1> QED
    BY <1>9, <1>10, <1>11, <1>12 DEF i

\* The sector to be burnt is in the burn's range.
LEMMA InZone ==
  ASSUME BootAssumption, SoundScripts, IInv, Fine, pc = "burn", num < BurnEnd
  PROVE  \A b \in Sector(num) : b \in BurnZone(script)
  <1>1. Burning /\ num \in Blocks
    BY InFlash
  <1>2. /\ num \in Nat /\ num % SectorLen = 0 /\ start \in Nat /\ start <= num /\ SectorLen \in Nat /\ SectorLen >= 1
        /\ Sector(num) = num .. num + SectorLen - 1
    BY <1>1, AtSector
  <1>3. Begin \in Blocks /\ start = SectorStart(Begin) /\ image # Null /\ Len(image) = Len(Final)
    BY <1>1 DEF Fine, BurnFine, Alike
  <1> DEFINE e == start + Len(image)
             z == SectorEnd(e)
  <1>4. e \in Nat /\ FlashEnd \in Nat /\ FlashEnd % SectorLen = 0 /\ num < FlashEnd
    BY <1>1, <1>2, <1>3, EndAligned DEF IInv, DeviceTypes
  <1>5. z \in Nat /\ z % SectorLen = 0 /\ e <= z
    <2>1. e + SectorLen - 1 \in Nat
      BY <1>2, <1>4
    <2>2. z \in Nat /\ z % SectorLen = 0 /\ e + SectorLen - 1 < z + SectorLen
      BY <2>1, Sectors DEF SectorEnd
    <2> HIDE DEF e, z
    <2> QED
      BY <1>2, <1>4, <2>2
  <1>6. BurnEnd = IF e < FlashEnd THEN z ELSE FlashEnd
    BY <1>3 DEF BurnEnd
  <1>7. BurnZone(script) = start .. z - 1
    BY <1>3 DEF BurnZone, Begin, Final
  <1> HIDE DEF e, z
  <1>8. num + SectorLen <= z
    <2>1. CASE e < FlashEnd
      BY <1>2, <1>5, <1>6, <2>1, Aligned
    <2>2. CASE ~(e < FlashEnd)
      <3>1. num + SectorLen <= FlashEnd
        BY <1>2, <1>4, Aligned
      <3> QED
        BY <1>2, <1>4, <1>5, <2>2, <3>1
    <2> QED
      BY <2>1, <2>2
  <1> QED
    BY <1>2, <1>5, <1>7, <1>8

LEMMA EraseFine ==
  ASSUME BootAssumption, SoundScripts, IInv, Fine, BurnErase \/ BurnNoErase
  PROVE  Fine'
  <1>1. /\ pc = "burn" /\ num < BurnEnd /\ pc' = "copy" /\ UNCHANGED <<host, bounds>>
        /\ part' = [i \in 1 .. SectorLen |-> SectorData[num + i - 1]]
        /\ UNCHANGED <<start, image, num, bad>>
        /\ \/ flash' = [b \in Blocks |-> IF b \in Sector(num) THEN Blank ELSE flash[b]]
           \/ flash' = flash
    BY DEF BurnErase, BurnNoErase, Quiet
  <1>2. Burning /\ num \in Blocks
    BY <1>1, InFlash
  <1>3. script' = script /\ crashes' = crashes /\ aborts' = aborts /\ (Hurt <=> Hurt') /\ Sector(num)' = Sector(num)
    BY <1>1 DEF host, bounds, Hurt, Sector
  <1>4. BurnZone(script)' = BurnZone(script) /\ \A b \in Sector(num) : b \in BurnZone(script)
    BY <1>1, <1>3, InZone DEF BurnZone
  <1>5. FlashFine'
    <2>1. ASSUME NEW b \in Blocks
          PROVE  /\ flash'[b] \in {Old(b), Target(b)} \/ Missing(b)'
                 /\ Kept(b) => flash'[b] = Old(b) \/ Missing(b)'
                 /\ Restored(b) => flash'[b] = Old(b) \/ Missing(b)' \/ Hurt'
                 /\ b \notin BurnZone(script) => flash'[b] = Old(b)
      <3>1. /\ flash[b] \in {Old(b), Target(b)} \/ (flash[b] = Blank /\ Hurt)
            /\ Kept(b) => flash[b] = Old(b) \/ (flash[b] = Blank /\ Hurt)
            /\ Restored(b) => flash[b] = Old(b) \/ Hurt
            /\ b \notin BurnZone(script) => flash[b] = Old(b)
        BY <1>1 DEF Fine, FlashFine, Missing, InCopy
      <3>2. flash'[b] = flash[b] \/ (b \in Sector(num) /\ flash'[b] = Blank)
        BY <1>1
      <3>3. b \in Sector(num) => InCopy(b)'
        BY <1>1, <1>3 DEF InCopy
      <3> QED
        BY <1>3, <1>4, <3>1, <3>2, <3>3 DEF Missing
    <2> QED
      BY <1>3, <1>4, <2>1, Fixed DEF FlashFine
  <1>6. PartFine'
    <2>0. PICK x : x = part'
      OBVIOUS
    <2>1. ASSUME NEW b \in Sector(num)
          PROVE  Fits(b, x[b - num + 1])
      <3>1. b \in Blocks /\ b \in Nat /\ num \in Nat /\ b - num + 1 \in 1 .. SectorLen /\ num + (b - num + 1) - 1 = b /\ start <= b
            /\ start \in Nat
        BY <1>2, AtSector
      <3>2. part'[b - num + 1] = Wanted(b)
        <4>1. part'[b - num + 1] = SectorData[num + (b - num + 1) - 1]
          BY <1>1, <3>1
        <4> QED
          BY <3>1, <4>1 DEF SectorData
      <3>3. Wanted(b) = IF b - start < Len(Burnt) THEN Burnt[b - start + 1] ELSE flash[b]
        BY DEF Wanted
      <3>4. Kept(b) => flash[b] = Old(b) \/ (flash[b] = Blank /\ Hurt)
        BY <1>1, <3>1 DEF Fine, FlashFine, Missing, InCopy
      <3>5. /\ b - start < Len(Burnt) => Fits(b, Burnt[b - start + 1])
            /\ ~(b - start < Len(Burnt)) => Kept(b)
        BY <1>2, <3>1, ForBlock
      <3>6. Kept(b) => Fits(b, flash[b])
        BY <3>4 DEF Fits, Lost
      <3> QED
        BY <2>0, <3>2, <3>3, <3>5, <3>6
    <2>2. \A b, v : Fits(b, v) => Fits(b, v)'
      BY <1>3, Fixed DEF Fits, Lost
    <2>3. \A b \in Sector(num) : Fits(b, x[b - num + 1])'
      BY <1>1, <1>3, <2>1, <2>2
    <2> QED
      BY <1>1, <1>3, <1>4, <2>0, <2>3 DEF PartFine, Fits, Lost
  <1>7. BurnFine'
    BY <1>1, <1>2, <1>3, BurnGoesOn
  <1> QED
    BY <1>3, <1>5, <1>6, <1>7 DEF Fine, Counts

\* Some of a sector is written.
LEMMA WrittenFine ==
  ASSUME BootAssumption, SoundScripts, IInv, Fine, pc = "copy", script' = script, NEW n \in 0 .. SectorLen,
         flash' = Copied(n), Hurt => Hurt', n = SectorLen \/ Hurt'
  PROVE  FlashFine'
  <1>1. num \in Nat /\ SectorLen \in Nat /\ Sector(num) = num .. num + SectorLen - 1 /\ Sector(num) \subseteq Blocks
    <2>1. Burning /\ num \in Blocks
      BY DEF IInv, Places, Burning
    <2> QED
      BY <2>1, AtSector
  <1>2. BurnZone(script)' = BurnZone(script)
    BY DEF BurnZone
  <1>3. ASSUME NEW b \in Blocks
        PROVE  /\ flash'[b] \in {Old(b), Target(b)} \/ Missing(b)'
               /\ Kept(b) => flash'[b] = Old(b) \/ Missing(b)'
               /\ Restored(b) => flash'[b] = Old(b) \/ Missing(b)' \/ Hurt'
               /\ b \notin BurnZone(script) => flash'[b] = Old(b)
    <2>1. /\ flash[b] \in {Old(b), Target(b)} \/ (flash[b] = Blank /\ (Hurt \/ b \in Sector(num)))
          /\ Kept(b) => flash[b] = Old(b) \/ (flash[b] = Blank /\ (Hurt \/ b \in Sector(num)))
          /\ Restored(b) => flash[b] = Old(b) \/ (flash[b] = Blank /\ b \in Sector(num)) \/ Hurt
          /\ b \notin BurnZone(script) => flash[b] = Old(b)
      BY DEF Fine, FlashFine, Missing, InCopy
    <2>2. b \in Sector(num) => b \in BurnZone(script) /\ Fits(b, part[b - num + 1])
      BY DEF Fine, PartFine
    <2>3. flash'[b] = IF b \in num .. num + n - 1 THEN part[b - num + 1] ELSE flash[b]
      BY DEF Copied
    <2>4. /\ b \in num .. num + n - 1 => b \in Sector(num)
          /\ b \notin num .. num + n - 1 /\ b \in Sector(num) => n # SectorLen
      BY <1>1
    <2>5. CASE b \in num .. num + n - 1
      BY <2>2, <2>3, <2>4, <2>5 DEF Fits, Lost, Missing
    <2>6. CASE b \notin num .. num + n - 1
      BY <2>1, <2>2, <2>3, <2>4, <2>6 DEF Missing
    <2> QED
      BY <2>5, <2>6
  <1> QED
    BY <1>2, <1>3, Fixed DEF FlashFine

LEMMA CopyFine ==
  ASSUME BootAssumption, SoundScripts, IInv, Fine, BurnCopy
  PROVE  Fine'
  <1>1. /\ pc = "copy" /\ pc' = "poll" /\ UNCHANGED <<host, start, image, num, aborts, crashes>> /\ script' = script
    BY DEF BurnCopy, host
  <1>2. PICK n \in 0 .. SectorLen : flash' = Copied(n) /\ ((n = SectorLen /\ bad' = bad) \/ bad' = bad \cup {num})
    <2>1. SectorLen \in 0 .. SectorLen /\ 0 .. SectorLen - 1 \subseteq 0 .. SectorLen
      BY DEF BootAssumption
    <2> QED
      BY <2>1 DEF BurnCopy
  <1>3. (Hurt => Hurt') /\ (n = SectorLen \/ Hurt')
    BY <1>1, <1>2 DEF Hurt
  <1>4. FlashFine'
    BY <1>1, <1>2, <1>3, WrittenFine
  <1>5. BurnFine'
    BY <1>1, <1>3, BurnGoesOn DEF Burning
  <1> QED
    BY <1>1, <1>4, <1>5 DEF Fine, Counts, PartFine

LEMMA MoveOnFine ==
  ASSUME BootAssumption, SoundScripts, IInv, Fine, BurnPoll \/ BurnSkip \/ BurnFinish
  PROVE  Fine'
  <1>1. /\ pc \in {"burn", "poll"} /\ pc' # "copy" /\ script' = script
        /\ UNCHANGED <<start, image, flash, bad, aborts, crashes>>
    BY DEF BurnPoll, BurnSkip, BurnFinish, Quiet, Receive, host, bounds
  <1>2. BurnFine'
    BY <1>1, BurnGoesOn DEF Burning, Hurt
  <1> QED
    BY <1>1, <1>2, FineStays DEF Fine, Counts

LEMMA PowerFine ==
  ASSUME BootAssumption, SoundScripts, IInv, Fine, PowerFail
  PROVE  Fine'
  <1>1. pc' = "shell" /\ script' = script /\ bad' = bad /\ aborts' = aborts /\ crashes' = crashes + 1
    BY DEF PowerFail, Restart, host
  <1>2. Hurt' /\ crashes' \in Nat /\ aborts' \in Nat
    BY <1>1 DEF Hurt, Fine, Counts
  <1>3. FlashFine'
    <2>1. CASE pc = "copy"
      <3>1. PICK n \in 0 .. SectorLen : flash' = Copied(n)
        BY <2>1 DEF PowerFail
      <3> QED
        BY <1>1, <1>2, <2>1, <3>1, WrittenFine
    <2>2. CASE pc # "copy"
      <3>1. flash' = flash /\ BurnZone(script)' = BurnZone(script)
        BY <1>1, <2>2 DEF PowerFail, BurnZone
      <3> QED
        BY <1>1, <1>2, <2>2, <3>1, Fixed DEF Fine, FlashFine, Missing, InCopy
    <2> QED
      BY <2>1, <2>2
  <1> QED
    BY <1>1, <1>2, <1>3 DEF Fine, Counts, BurnFine, PartFine, Burning

\* A burn that has come to its end has burnt the whole.
LEMMA BurnWhole ==
  ASSUME BootAssumption, SoundScripts, IInv, Fine, pc = "burn", num >= BurnEnd
  PROVE  \A b \in Blocks : Intended(b)
  <1>1. Burning /\ start \in Nat /\ num \in Nat /\ Behind = num
    BY DEF Burning, IInv, Places, DeviceTypes, Behind
  <1>2. BurnEnd \in Nat /\ \A b \in Blocks : start <= b /\ b - start < Len(Burnt) => b < BurnEnd
    BY <1>1, WhereItEnds DEF IInv, Places
  <1>3. ASSUME NEW b \in Blocks
        PROVE  Intended(b)
    <2>1. CASE Kept(b)
      <3>1. flash[b] = Old(b) \/ (flash[b] = Blank /\ Hurt)
        BY <2>1 DEF Fine, FlashFine, Missing, InCopy
      <3>2. Meant(b) = Old(b)
        BY <1>1, <2>1, ForBlock DEF Meant
      <3> QED
        BY <3>1, <3>2 DEF Intended
    <2>2. CASE ~Kept(b)
      <3>1. start <= b /\ b - start < Len(Burnt) /\ Fits(b, Burnt[b - start + 1]) /\ b \in Nat
        BY <1>1, <2>2, ForBlock, BlocksAre
      <3>2. b < Behind
        BY <1>1, <1>2, <3>1
      <3>3. flash[b] = Burnt[b - start + 1] \/ SectorStart(b) \in bad
        BY <1>1, <3>1, <3>2 DEF IInv, Written, Holds
      <3>4. Fits(b, flash[b]) \/ SectorStart(b) \in bad
        BY <3>1, <3>3
      <3> QED
        BY <2>2, <3>4 DEF Fits, Lost, Intended, Meant
    <2> QED
      BY <2>1, <2>2
  <1> QED
    BY <1>3
------------------------------------------------------------------------------
(* The device in a session, a step at a time. *)

\* Answers on the line stay what they were, what is sent is one, the index is that of
\* a command received or what it was, and a dump goes on or begins.
Keeps(h, a) == \A r : AnswerAt(r, h, a) => AnswerAt(r, h, a)'
Sends(e, h, a) ==
  /\ toHost' = Append(toHost, e) /\ AnswerAt(e, h, a)' /\ e.index = index'
  /\ IsEcho(e) => toDev' # toDev /\ SyncPacket(Head(toDev))
Replies(h, a) == toHost' = toHost \/ \E e : Sends(e, h, a)
Indexed == index' = index \/ (toDev' # toDev /\ Head(toDev).type = "command" /\ index' = Head(toDev).index)
Dumps(h) == pc' = "dump" => (pc = "dump" /\ num <= num') \/ index < h
Onward(h, a) == DeviceAt(h, a)' /\ Keeps(h, a) /\ Replies(h, a) /\ Indexed /\ Dumps(h)

LEMMA PlaceIs ==
  ASSUME SoundScripts, IInv, NEW h, NEW a, Place(h, a)
  PROVE  /\ h \in Nat /\ h >= 1 /\ a \in Nat /\ a >= 2 /\ a <= Len(script) + 1 /\ Len(script) \in Nat /\ index \in Nat
         /\ a - 1 \in 1 .. Len(script)
         /\ a <= Len(script) => a \in 2 .. Len(script) /\ a \in 1 .. Len(script)
  BY TheScript DEF Place, IInv, DeviceTypes

\* A device that stays as it is.
LEMMA DeviceStays ==
  ASSUME script' = script, UNCHANGED device, crashes' = crashes
  PROVE  \A h, a : /\ DeviceAt(h, a) => DeviceAt(h, a)'
                   /\ Keeps(h, a)
                   /\ \A p : PacketAt(p, h, a) => PacketAt(p, h, a)'
  <1>1. UNCHANGED <<pc, index, last_status, last_error, start, image, part, count, num, cmd, flash, bad>> /\ (Hurt => Hurt')
    BY DEF device, Hurt
  <1>2. \A k : /\ \A n : ImageAt(k, n) => ImageAt(k, n)'
               /\ Whole(k) => Whole(k)'
               /\ Ran(k) => Ran(k)'
               /\ Ready(k) => Ready(k)'
    BY <1>1, AllStays
  <1>3. \A k : AtWork(k) => AtWork(k)'
    BY <1>1, <1>2 DEF AtWork, Resting, Burning
  <1>4. \A h, a : DeviceAt(h, a) => DeviceAt(h, a)'
    BY <1>1, <1>2, <1>3 DEF DeviceAt, Resting
  <1>5. \A h, a, r : AnswerAt(r, h, a) => AnswerAt(r, h, a)'
    BY <1>1, <1>2 DEF AnswerAt, Passes, Resting
  <1>6. \A h, a, p : PacketAt(p, h, a) => PacketAt(p, h, a)'
    BY <1>1 DEF PacketAt
  <1> QED
    BY <1>4, <1>5, <1>6 DEF Keeps

\* It may say what the last command came to, or that a load goes on.
LEMMA IdleOnward ==
  ASSUME SoundScripts, IInv, NEW h, NEW a, Place(h, a), DeviceAt(h, a), script' = script, UNCHANGED device, crashes' = crashes,
         \/ toHost' = toHost
         \/ \E s, n : toHost' = Append(toHost, Status(index, s, n)) /\ (s = last_status \/ (s = "ok" /\ pc = "transfer"))
  PROVE  Onward(h, a)
  <1>1. /\ pc' = pc /\ index' = index /\ num' = num /\ last_status' = last_status
        /\ num \in Nat /\ index \in Nat
    BY DEF device, IInv, DeviceTypes
  <1>2. DeviceAt(h, a)' /\ Keeps(h, a) /\ Indexed /\ Dumps(h)
    BY <1>1, DeviceStays DEF Indexed, Dumps
  <1>3. ASSUME NEW s, NEW n, toHost' = Append(toHost, Status(index, s, n)), s = last_status \/ (s = "ok" /\ pc = "transfer")
        PROVE  Sends(Status(index, s, n), h, a)
    <2> DEFINE e == Status(index, s, n)
    <2>1. e.type = "status" /\ e.index = index /\ e.val = s
      BY DEF Status
    <2>2. ASSUME index = h, a <= Len(script), Passes(e, a)
          PROVE  Resting /\ Ran(a)
      <3>1. s = "executed" \/ (s = "ok" /\ script[a].op \in {"address", "move", "unknown", "reboot"})
        BY <2>1, <2>2 DEF Passes
      <3>2. CASE h = 1
        <4>1. Resting /\ (Ran(2) \/ last_status = "error") /\ a = 2 /\ pc # "transfer"
          BY <2>2, <3>2 DEF DeviceAt, Place, Resting
        <4> QED
          BY <1>3, <3>1, <4>1
      <3>3. CASE h # 1
        <4>1. AtWork(a)
          BY <2>2, <3>3, PlaceIs DEF DeviceAt
        <4>2. pc # "transfer"
          BY <1>3, <3>1, <4>1 DEF AtWork, Resting, Loads
        <4>3. s = last_status /\ last_status # "error" /\ last_status # "running"
          BY <1>3, <3>1, <4>2
        <4> QED
          BY <4>1, <4>3 DEF AtWork, Resting
      <3> QED
        BY <3>2, <3>3
    <2>3. index \in 0 .. index
      BY <1>1
    <2>4. AnswerAt(e, h, a)
      BY <2>1, <2>2, <2>3 DEF AnswerAt
    <2>5. AnswerAt(e, h, a)'
      <3>1. PICK r : r = e
        OBVIOUS
      <3>2. AnswerAt(r, h, a)'
        BY <2>4, <3>1, <1>2 DEF Keeps
      <3>3. Status(index', s, n) = r
        BY <1>1, <3>1
      <3> QED
        BY <3>2, <3>3 DEF AnswerAt, Status
    <2> QED
      BY <1>1, <1>3, <2>1, <2>5 DEF Sends, IsEcho
  <1>4. Replies(h, a)
    BY <1>3 DEF Replies
  <1> QED
    BY <1>2, <1>4 DEF Onward

\* In a loop no answer has let the host go on.
LEMMA LoopAnswers ==
  ASSUME SoundScripts, IInv, IInv', NEW h, NEW a, Place(h, a), DeviceAt(h, a), ~Resting, script' = script, index' = index,
         pc' = "dump" => pc = "dump" /\ num <= num'
  PROVE  h >= 2 /\ index = h /\ AtWork(a) /\ a \in 2 .. Len(script) /\ Keeps(h, a) /\ Indexed /\ Dumps(h)
  <1>1. h >= 2 /\ index = h /\ AtWork(a) /\ a \in 2 .. Len(script)
    <2>1. h >= 2 /\ index = h
      BY PlaceIs DEF DeviceAt
    <2> QED
      BY <2>1, PlaceIs DEF DeviceAt, AtWork
  <1>2. Indexed /\ Dumps(h)
    BY DEF Indexed, Dumps
  <1>3. ASSUME NEW r, AnswerAt(r, h, a)
        PROVE  AnswerAt(r, h, a)'
    <2>1. r.index \in 0 .. 1 \cup 0 .. index'
      BY <1>3 DEF AnswerAt
    <2>2. ~(r.index = h /\ a <= Len(script) /\ Passes(r, a))
      BY <1>3 DEF AnswerAt
    <2>3. ~(r.index = h /\ a <= Len(script') /\ Passes(r, a)')
      BY <2>2 DEF Passes
    <2>4. r.index = h /\ pc' = "dump" /\ r.type = "data" => r.num \in 0 .. num'
      <3>1. num \in Nat /\ num' \in Nat
        BY DEF IInv, DeviceTypes
      <3>2. r.index = h /\ pc' = "dump" /\ r.type = "data" => r.num \in 0 .. num /\ num <= num'
        BY <1>3 DEF AnswerAt
      <3> QED
        BY <3>1, <3>2
    <2> QED
      BY <2>1, <2>3, <2>4 DEF AnswerAt
  <1> QED
    BY <1>1, <1>2, <1>3 DEF Keeps
------------------------------------------------------------------------------
(* The steps of the device in a session. *)

\* A packet is taken.
LEMMA HeadTaken ==
  ASSUME BootAssumption, IInv, NEW m, Receive(m)
  PROVE  /\ m = Head(toDev) /\ toDev' = Tail(toDev) /\ toDev' # toDev /\ m \in HostPacket
         /\ m.index \in Nat /\ m.num \in Nat /\ (m.type = "command" => m.num \in 1 .. Len(script))
         /\ script' = script /\ UNCHANGED <<at, hidx, phase, got, faults, aborts, crashes>>
  <1>1. m = Head(toDev) /\ toDev' = Tail(toDev) /\ toDev # <<>> /\ toDev \in Seq(HostPacket)
    BY DEF Receive, IInv, Lines
  <1>2. toDev' # toDev
    <2> DEFINE S == HostPacket
    <2>1. toDev \in Seq(S)
      BY <1>1
    <2> HIDE DEF S
    <2>2. Len(Tail(toDev)) # Len(toDev)
      BY <1>1, <2>1
    <2> QED
      BY <1>1, <2>2
  <1>3. m \in HostPacket
    BY LineHead DEF IInv
  <1>4. m.index \in Nat /\ m.num \in Nat /\ (m.type = "command" => m.num \in 1 .. Len(script))
    BY <1>3 DEF HostPacket
  <1> QED
    BY <1>1, <1>2, <1>3, <1>4 DEF Receive

\* Before the second command there is nothing to have been done.
LEMMA AtFirst ==
  ASSUME SoundScripts, IInv
  PROVE  /\ script[1].op = "comtest" /\ ~Has(script, "address", 1) /\ ~Has(script, "burn", 1)
         /\ ~Has(script, "address", 0) /\ ~Has(script, "burn", 0)
         /\ ImageAt(1, 2) /\ StartAt(1) /\ Whole(1) /\ Whole(0) /\ Ready(2)
  <1>1. script[1].op = "comtest"
    BY TheScript DEF Sound, Opens
  <1>2. /\ ~Has(script, "address", 1) /\ ~Has(script, "burn", 1)
        /\ ~Has(script, "address", 0) /\ ~Has(script, "burn", 0)
    BY <1>1 DEF Has
  <1>3. ImageAt(1, 2) /\ Whole(1) /\ Whole(0)
    BY <1>2 DEF ImageAt, Whole
  <1>4. StartAt(1)
    BY <1>1 DEF StartAt
  <1>5. Ready(2)
    BY <1>3, <1>4 DEF Ready
  <1> QED
    BY <1>1, <1>2, <1>3, <1>4, <1>5

\* The second command neither loads nor moves nor burns.
LEMMA SecondRuns ==
  ASSUME BootAssumption, SoundScripts, IInv, IInv', 2 <= Len(script), Executed(2), script' = script
  PROVE  /\ pc' \in {"shell", "rebooted"} /\ (Ran(2)' \/ last_status' = "error")
         /\ (Has(script, "address", 2) => Begin \in Blocks) => Ran(2)'
  <1>1. /\ script[2].op \notin Loads \cup {"move", "burn", "dump", "comtest"}
        /\ 2 \in 1 .. Len(script) /\ Sound(script)
    <2>1. Sound(script) /\ Len(script) \in Nat
      BY TheScript
    <2>2. 2 \in 1 .. Len(script) /\ 2 - 1 = 1
      BY <2>1
    <2>3. ~(Has(script, "address", 1) \/ Has(script, "chunk", 1))
      BY AtFirst DEF Has
    <2>4. script[2].op \notin Loads \cup {"move", "burn"}
      BY <2>1, <2>2, <2>3 DEF Sound, BuildsOnce
    <2> QED
      BY <2>1, <2>2, <2>4 DEF Sound, Opens
  <1>2. pc' \in {"shell", "rebooted"}
    <2>1. CASE AtWork(2)' /\ pc' \notin {"shell", "rebooted"}
      <3>1. pc' = "transfer" => script[2].op \in Loads
        BY <2>1 DEF AtWork
      <3>2. pc' = "dump" => script[2].op = "dump"
        BY <2>1 DEF AtWork
      <3>3. Burning' => script[2].op = "burn"
        BY <2>1 DEF AtWork
      <3>4. pc' \in {"transfer", "dump", "burn", "copy", "poll"}
        BY <2>1 DEF IInv, DeviceTypes
      <3> QED
        BY <1>1, <3>1, <3>2, <3>3, <3>4 DEF Burning
    <2> QED
      BY <2>1 DEF Executed
  <1>3. Ran(2)' \/ last_status' = "error"
    BY <1>2 DEF Executed
  <1>4. ASSUME Has(script, "address", 2) => Begin \in Blocks
        PROVE  Ran(2)'
    <2>1. ASSUME Refused(2)
          PROVE  FALSE
      <3>1. script[2].op = "address" /\ script[2].arg \notin Blocks
        BY <1>1, <2>1 DEF Refused
      <3>2. Begin = script[2].arg
        BY <1>1, <3>1, BeginIs DEF Begin
      <3>3. Has(script, "address", 2)
        BY <3>1 DEF Has
      <3> QED
        BY <1>4, <3>1, <3>2, <3>3
    <2> QED
      BY <1>2, <2>1 DEF Executed
  <1> QED
    BY <1>2, <1>3, <1>4

\* The shell hears comtest.
LEMMA SyncHeard ==
  ASSUME BootAssumption, SoundScripts, IInv, pc = "shell", NEW m, Receive(m), m.type = "command", m.index = 0, m.num = 1,
         NewCommand(m) \/ Repeated(m) \/ NotACommand(m)
  PROVE  /\ pc' = "shell" /\ index' = 0 /\ UNCHANGED <<start, image, part, count, num, flash, bad>>
         /\ toHost' = Append(toHost, Data(0, 0, "echo"))
  <1>1. script[1].op = "comtest" /\ IsComtest(m) /\ IndexAfter(m) = 0
    BY AtFirst DEF IsComtest, IndexAfter
  <1>2. index' = m.index /\ Run(script[1])
    BY <1>1 DEF NewCommand, Repeated, NotACommand, Fresh
  <1>3. Comtest(script[1])
    BY <1>1, <1>2 DEF Run, Comtest, Version, Chunk, Address, Move, Transfer, Burn, Dump, Reboot, Unknown
  <1> QED
    BY <1>2, <1>3 DEF Comtest, Send

\* Which commands of a session the shell can hear.
LEMMA WhichCommand ==
  ASSUME BootAssumption, SoundScripts, IInv, NEW h, NEW a, Place(h, a), DeviceAt(h, a), NEW m, Receive(m), PacketAt(m, h, a),
         m.type = "command"
  PROVE  \/ m.index = 0 /\ m.num = 1 /\ index <= 1 /\ h <= 2
         \/ m.index = 1 /\ m.num = 2 /\ index <= 1 /\ h <= 2 /\ ~IsComtest(m)
         \/ m.index >= 2 /\ index = m.index /\ ~IsComtest(m)
         \/ m.index = h /\ h >= 2 /\ m.num = a /\ index < h /\ ~IsComtest(m)
  <1>1. /\ m.index \in Nat /\ m.num \in 1 .. Len(script) /\ Len(script) \in Nat
        /\ h \in Nat /\ h >= 1 /\ index \in Nat
    BY HeadTaken, PlaceIs
  <1>2. /\ m.index <= h /\ (index >= 2 => m.index >= index)
        /\ m.index <= 1 => m.num = m.index + 1
        /\ m.index >= 2 => m.num >= 2 /\ (m.index = h => m.num = a)
    BY DEF PacketAt
  <1>3. index <= h /\ (h >= 3 => index >= h - 1)
    BY DEF DeviceAt
  <1>4. m.num >= 2 => ~IsComtest(m)
    <2>1. Opens(script)
      BY TheScript DEF Sound
    <2>2. m.num >= 2 => script[m.num].op # "comtest"
      BY <1>1, <2>1 DEF Opens
    <2> QED
      BY <2>2 DEF IsComtest
  <1>5. CASE m.index = 0
    BY <1>1, <1>2, <1>3, <1>5
  <1>6. CASE m.index = 1
    BY <1>1, <1>2, <1>3, <1>4, <1>6
  <1>7. CASE m.index >= 2
    <2>1. m.index = index \/ (m.index = h /\ index < h)
      BY <1>1, <1>2, <1>3, <1>7
    <2> QED
      BY <1>2, <1>4, <1>7, <2>1
  <1> QED
    BY <1>1, <1>5, <1>6, <1>7

\* Comtest in a session.
LEMMA SyncOnward ==
  ASSUME BootAssumption, SoundScripts, IInv, IInv', NEW h, NEW a, Place(h, a), DeviceAt(h, a), pc = "shell", NEW m, Receive(m),
         m.type = "command", m.index = 0, m.num = 1, index <= 1, h <= 2,
         NewCommand(m) \/ Repeated(m) \/ NotACommand(m)
  PROVE  Onward(h, a)
  <1>1. /\ h \in Nat /\ h >= 1 /\ m = Head(toDev) /\ toDev' # toDev /\ script' = script /\ crashes' = crashes
        /\ index \in Nat
    BY HeadTaken, PlaceIs
  <1>2. /\ pc' = "shell" /\ index' = 0 /\ UNCHANGED <<start, image, part, count, num, flash, bad>>
        /\ toHost' = Append(toHost, Data(0, 0, "echo"))
    BY SyncHeard
  <1>3. \A k : (Ran(k) => Ran(k)') /\ (Ready(k) => Ready(k)')
    BY <1>1, <1>2, AllStays DEF Hurt
  <1>4. DeviceAt(h, a)'
    <2>1. CASE h = 1
      BY <1>2, <2>1 DEF DeviceAt, Resting
    <2>2. CASE h = 2
      <3>1. Ready(a)
        <4>1. CASE index < 2
          BY <2>2, <4>1 DEF DeviceAt
        <4> QED
          BY <1>1, <4>1
      <3> QED
        BY <1>2, <1>3, <2>2, <3>1 DEF DeviceAt, Resting
    <2> QED
      BY <1>1, <2>1, <2>2
  <1>5. Keeps(h, a)
    <2>1. ASSUME NEW r, AnswerAt(r, h, a)
          PROVE  AnswerAt(r, h, a)'
      <3>1. r.index \in 0 .. 1 \cup 0 .. index'
        BY <1>1, <2>1 DEF AnswerAt
      <3>2. r.index = h /\ a <= Len(script') /\ Passes(r, a)' => Resting' /\ Ran(a)'
        BY <1>1, <1>2, <1>3, <2>1 DEF AnswerAt, Passes, Resting
      <3>3. pc' # "dump"
        BY <1>2
      <3> QED
        BY <3>1, <3>2, <3>3 DEF AnswerAt
    <2> QED
      BY <2>1 DEF Keeps
  <1>6. Replies(h, a)
    <2> DEFINE e == Data(0, 0, "echo")
    <2>1. e.index = 0 /\ e.index # h
      BY <1>1 DEF Data
    <2>2. AnswerAt(e, h, a)'
      BY <1>2, <2>1 DEF AnswerAt, Data
    <2>3. Sends(e, h, a)
      BY <1>1, <1>2, <2>1, <2>2 DEF Sends, SyncPacket
    <2> QED
      BY <2>3 DEF Replies
  <1>7. Indexed /\ Dumps(h)
    BY <1>1, <1>2 DEF Indexed, Dumps
  <1> QED
    BY <1>4, <1>5, <1>6, <1>7 DEF Onward

\* A reply to the command under the host's index, or under one it has left.
LEMMA RepliesSo ==
  ASSUME SoundScripts, IInv, IInv', NEW h, NEW a, Place(h, a), NEW k, Replied(k), script' = script, index' = h => k = a
  PROVE  Replies(h, a)
  <1>1. PICK e : /\ toHost' = Append(toHost, e) /\ e.index = index' /\ ~IsEcho(e)
                 /\ Passes(e, k) => pc' \in {"shell", "rebooted"} /\ Ran(k)'
                 /\ e.type = "data" => pc' # "dump"
    BY DEF Replied
  <1>2. index' \in Nat
    BY DEF IInv, DeviceTypes
  <1>3. Passes(e, k)' = Passes(e, k)
    BY DEF Passes
  <1>4. AnswerAt(e, h, a)'
    <2>1. e.index \in 0 .. index'
      BY <1>1, <1>2
    <2>2. e.index = h /\ Passes(e, a)' => Resting' /\ Ran(a)'
      BY <1>1, <1>3 DEF Resting
    <2> QED
      BY <1>1, <2>1, <2>2 DEF AnswerAt
  <1> QED
    BY <1>1, <1>4 DEF Replies, Sends

\* The second command heard, under its first index, in a session that is not past it.
LEMMA SecondOnward ==
  ASSUME BootAssumption, SoundScripts, SoundKey, IInv, IInv', Fine, NEW h, NEW a, Place(h, a), DeviceAt(h, a), pc = "shell", index = 0, h <= 2,
         NEW m, Receive(m), m.type = "command", m.index = 1, m.num = 2, NewCommand(m)
  PROVE  Onward(h, a) /\ BurnFine'
  <1>1. /\ h \in Nat /\ h >= 1 /\ m = Head(toDev) /\ toDev' # toDev /\ script' = script /\ crashes' = crashes
        /\ 2 <= Len(script) /\ 2 \in 2 .. Len(script) /\ index' = 1 /\ cmd' = 2 /\ Run(script[2])
    <2>1. 2 \in 1 .. Len(script) /\ Len(script) \in Nat
      BY HeadTaken, TheScript
    <2> QED
      BY <2>1, HeadTaken, PlaceIs DEF NewCommand
  <1>2. Executed(2) /\ Replied(2) /\ BurnFine'
    BY <1>1, AtFirst, Executes
  <1>3. /\ pc' \in {"shell", "rebooted"} /\ (Ran(2)' \/ last_status' = "error")
        /\ (Has(script, "address", 2) => Begin \in Blocks) => Ran(2)'
    BY <1>1, <1>2, SecondRuns
  <1>4. ASSUME h = 2
        PROVE  Ready(a)'
    <2>1. a \in 2 .. 3 /\ Ready(a)
      BY <1>4 DEF Place, DeviceAt
    <2>2. CASE a = 2
      <3>1. ~Has(script, "address", 1)' /\ ~Has(script, "burn", 1)' /\ script'[1].op = "comtest"
        BY <1>1, AtFirst DEF Has
      <3>2. ImageAt(1, 2)' /\ Whole(1)' /\ StartAt(1)'
        BY <3>1 DEF ImageAt, Whole, StartAt
      <3> QED
        BY <2>2, <3>2 DEF Ready
    <2>3. CASE a = 3
      <3>1. Has(script, "address", 2) => Begin \in Blocks
        BY <2>1, <2>3 DEF Ready, ImageAt
      <3>2. Ran(2)'
        BY <1>3, <3>1
      <3>3. ImageAt(2, 3)'
        <4>1. ASSUME ImageAt(2, 2)'
              PROVE  ImageAt(2, 3)'
          <5>1. BurnBy(2)' => BurnBy(3)'
            BY DEF BurnBy
          <5> QED
            BY <4>1, <5>1 DEF ImageAt, Alike, Spared
        <4> QED
          BY <3>2, <4>1 DEF Ran
      <3> QED
        BY <2>3, <3>2, <3>3 DEF Ran, Ready
    <2> QED
      BY <2>1, <2>2, <2>3
  <1>5. DeviceAt(h, a)'
    BY <1>1, <1>3, <1>4 DEF DeviceAt, Resting
  <1>6. Keeps(h, a)
    <2>1. ASSUME NEW r, AnswerAt(r, h, a)
          PROVE  AnswerAt(r, h, a)'
      <3>1. r.index \in 0 .. 1
        BY <2>1 DEF AnswerAt
      <3>2. r.index \in 0 .. 1 \cup 0 .. index'
        BY <3>1
      <3>3. r.index = h => h = 1 /\ a = 2
        BY <1>1, <3>1 DEF Place
      <3>4. ASSUME r.index = h, Passes(r, a)'
            PROVE  Resting' /\ Ran(a)'
        <4>1. Passes(r, 2) /\ a = 2
          BY <1>1, <3>3, <3>4 DEF Passes
        <4>2. Ran(2)
          BY <1>1, <2>1, <3>3, <3>4, <4>1 DEF AnswerAt
        <4>3. Ran(2)'
          BY <1>3, <4>2 DEF Ran, ImageAt
        <4> QED
          BY <1>3, <4>1, <4>3 DEF Resting
      <3>5. pc' # "dump"
        BY <1>3
      <3> QED
        BY <3>2, <3>4, <3>5 DEF AnswerAt
    <2> QED
      BY <2>1 DEF Keeps
  <1>7. Replies(h, a)
    <2>1. index' = h => 2 = a
      BY <1>1 DEF Place
    <2> QED
      BY <1>1, <1>2, <2>1, RepliesSo
  <1>8. Indexed /\ Dumps(h)
    BY <1>1, <1>3 DEF Indexed, Dumps
  <1> QED
    BY <1>2, <1>5, <1>6, <1>7, <1>8 DEF Onward

\* The command the host is at, heard for the first time.
LEMMA NextOnward ==
  ASSUME BootAssumption, SoundScripts, SoundKey, IInv, IInv', Fine, NEW h, NEW a, Place(h, a), DeviceAt(h, a), pc = "shell", index < h, h >= 2,
         NEW m, Receive(m), m.type = "command", m.index = h, m.num = a, NewCommand(m)
  PROVE  Onward(h, a) /\ BurnFine'
  <1>1. /\ h \in Nat /\ m = Head(toDev) /\ toDev' # toDev /\ script' = script /\ crashes' = crashes
        /\ a \in 2 .. Len(script) /\ a <= Len(script) /\ index' = h /\ cmd' = a /\ Run(script[a]) /\ index \in Nat
    <2>1. a \in 1 .. Len(script) /\ Len(script) \in Nat
      BY HeadTaken, TheScript
    <2> QED
      BY <2>1, HeadTaken, PlaceIs DEF NewCommand
  <1>2. Ready(a)
    BY DEF DeviceAt
  <1>3. Executed(a) /\ Replied(a) /\ BurnFine'
    BY <1>1, <1>2, Executes
  <1>4. AtWork(a)'
    BY <1>1, <1>3, NowAtWork
  <1>5. DeviceAt(h, a)'
    BY <1>1, <1>4 DEF DeviceAt
  <1>6. Keeps(h, a)
    <2>1. ASSUME NEW r, AnswerAt(r, h, a)
          PROVE  AnswerAt(r, h, a)'
      <3>1. r.index \in 0 .. 1 \cup 0 .. index
        BY <2>1 DEF AnswerAt
      <3>2. r.index # h /\ r.index \in 0 .. 1 \cup 0 .. index'
        BY <1>1, <3>1
      <3> QED
        BY <3>2 DEF AnswerAt
    <2> QED
      BY <2>1 DEF Keeps
  <1>7. Replies(h, a)
    BY <1>1, <1>3, RepliesSo
  <1>8. Indexed /\ Dumps(h)
    BY <1>1 DEF Indexed, Dumps
  <1> QED
    BY <1>3, <1>5, <1>6, <1>7, <1>8 DEF Onward

\* A step of the device in the session of a host at h, a.
InStep(h, a) == Place(h, a) /\ DeviceAt(h, a) /\ (toDev' # toDev => PacketAt(Head(toDev), h, a))

\* A command leaves the flash alone.
LEMMA RunFine ==
  ASSUME Fine, IInv, NEW m, Receive(m), NewCommand(m), pc = "shell", BurnFine'
  PROVE  Fine'
  <1>1. UNCHANGED <<flash, bad>> /\ pc' # "copy"
    <2>1. PICK c : Run(c)
      BY DEF NewCommand
    <2> QED
      BY <2>1 DEF Run, Comtest, Version, Chunk, Address, Move, Transfer, Burn, Dump, Reboot, Unknown, Refuse
  <1>2. script' = script /\ crashes' = crashes /\ aborts' \in Nat
    BY DEF Receive, Fine, Counts
  <1> QED
    BY <1>1, <1>2, FineStays

LEMMA ShellOnward ==
  ASSUME BootAssumption, SoundScripts, SoundKey, IInv, IInv', Fine, NEW h, NEW a, InStep(h, a), Shell
  PROVE  Onward(h, a) /\ Fine'
  <1>1. PICK m \in Range(toDev) : Receive(m) /\ (NewCommand(m) \/ Repeated(m) \/ NotACommand(m))
    BY DEF Shell
  <1>2. /\ pc = "shell" /\ Place(h, a) /\ DeviceAt(h, a) /\ PacketAt(m, h, a)
        /\ script' = script /\ UNCHANGED <<aborts, crashes>> /\ aborts' \in Nat /\ index \in Nat
    BY <1>1, HeadTaken DEF Shell, InStep, Fine, Counts, IInv, DeviceTypes
  <1>3. CASE Repeated(m) \/ NotACommand(m)
    <2>1. UNCHANGED device
      BY <1>3 DEF Repeated, NotACommand
    <2>2. index' = index
      BY <2>1 DEF device
    <2>3. toHost' = toHost \/ \E n : toHost' = Append(toHost, Status(index, last_status, n))
      BY <1>3, <2>2 DEF Repeated, NotACommand, SendStatus, Send
    <2>4. Onward(h, a)
      BY <1>2, <2>1, <2>3, IdleOnward
    <2>5. Fine'
      BY <1>2, <2>1, FineIdle
    <2> QED
      BY <2>4, <2>5
  <1>4. CASE NewCommand(m)
    <2>1. m.type = "command" /\ Fresh(m)
      BY <1>4 DEF NewCommand
    <2>2. \/ m.index = 0 /\ m.num = 1 /\ index <= 1 /\ h <= 2
          \/ m.index = 1 /\ m.num = 2 /\ index <= 1 /\ h <= 2 /\ ~IsComtest(m)
          \/ m.index >= 2 /\ index = m.index /\ ~IsComtest(m)
          \/ m.index = h /\ h >= 2 /\ m.num = a /\ index < h /\ ~IsComtest(m)
      BY <1>1, <1>2, <2>1, WhichCommand
    <2>3. ~IsComtest(m) => m.index # index \/ index = 0
      BY <2>1 DEF Fresh, IndexAfter
    <2>4. CASE m.index = 0 /\ m.num = 1 /\ index <= 1 /\ h <= 2
      <3>1. Onward(h, a)
        BY <1>1, <1>2, <2>1, <2>4, SyncOnward
      <3>2. pc' = "shell" /\ UNCHANGED <<flash, bad>>
        BY <1>1, <1>2, <2>1, <2>4, SyncHeard
      <3>3. BurnFine'
        BY <3>2 DEF BurnFine, Burning
      <3>4. Fine'
        BY <1>2, <3>2, <3>3, FineStays
      <3> QED
        BY <3>1, <3>4
    <2>5. CASE m.index = 1 /\ m.num = 2 /\ index = 0 /\ h <= 2
      BY <1>1, <1>2, <1>4, <2>1, <2>5, SecondOnward, RunFine
    <2>6. CASE m.index = h /\ h >= 2 /\ m.num = a /\ index < h
      BY <1>1, <1>2, <1>4, <2>1, <2>6, NextOnward, RunFine
    <2> QED
      BY <1>2, <2>2, <2>3, <2>4, <2>5, <2>6
  <1> QED
    BY <1>1, <1>3, <1>4

\* The loop of a transfer ends, or goes on, with what it stored.
LEMMA LoadDone ==
  ASSUME BootAssumption, SoundScripts, IInv, NEW k \in 2 .. Len(script), AtWork(k), pc = "transfer", script' = script,
         UNCHANGED <<start, flash, bad, crashes>>, NEW m, m.num = Len(part) + 1, part' = Append(part, New(cmd, m.num)),
         Len(part') = count, image' = Extended(part')
  PROVE  Ran(k)'
  <1>1. /\ k \in 1 .. Len(script) /\ k \in Nat /\ k - 1 \in 0 .. Len(script) /\ Len(script) \in Nat
        /\ script[k].len \in Nat /\ Sound(script)
    BY TheScript
  <1>2. /\ cmd = k /\ ImageAt(k - 1, k) /\ Whole(k - 1) /\ script[k].op \in Loads /\ start # NoAddr /\ count = script[k].len
        /\ \A n \in 1 .. Len(part) : part[n] = New(k, n)
    BY DEF AtWork, Resting, Ready
  <1>3. StartAt(k - 1)
    BY <1>2 DEF AtWork, Resting, Ready, Loads
  <1>4. Has(script, "address", k - 1) /\ Begin \in Blocks /\ Alike(Built(k - 1), k)
    BY <1>1, <1>2, <1>3, Based DEF ImageAt
  <1>5. part' = Packets(script, k) /\ part' \in Seq(Values)
    <2>1. part \in Seq(Values) /\ New(k, m.num) \in Values
      BY <1>1 DEF IInv, DeviceTypes, New, Values
    <2>2. /\ part' \in Seq(Values) /\ Len(part') = Len(part) + 1 /\ part'[Len(part) + 1] = New(k, m.num)
          /\ \A n \in 1 .. Len(part) : part'[n] = part[n]
      BY <1>2, <2>1
    <2>3. \A n \in 1 .. Len(part') : part'[n] = New(k, n)
      BY <1>2, <2>1, <2>2
    <2>4. DOMAIN part' = 1 .. Len(part') /\ part' = [n \in 1 .. Len(part') |-> part'[n]]
      BY <2>2
    <2>5. part' = [n \in 1 .. script[k].len |-> New(k, n)]
      BY <1>2, <2>3, <2>4
    <2> QED
      BY <2>2, <2>5 DEF Packets
  <1>6. Built(k) = Built(k - 1) \o part' /\ Built(k - 1) \in Seq(Values)
    <2>1. Builds(script)[k] = Piece(script, Builds(script)[k - 1], k)
      BY <1>1, BuildsAre
    <2>2. Built(k - 1) \in Seq(Values)
      BY <1>1, BuildsTyped, TheScript DEF Built
    <2> QED
      BY <1>1, <1>2, <1>5, <2>1, <2>2, PieceIs DEF Built, Loads
  <1>7. PreLen \in Nat /\ (Hurt => Hurt')
    BY <1>4, BeginIn DEF Hurt
  <1>8. ImageAt(k, k)'
    <2>1. PICK w \in Seq(Values), x \in Seq(Values) : w = Built(k - 1) /\ x = part'
      BY <1>5, <1>6
    <2>2. Alike(w \o x, k)'
      BY <1>4, <1>7, <2>1, Longer
    <2>3. Built(k)' = w \o x
      BY <1>6, <2>1, Fixed
    <2>4. Alike(Built(k), k)'
      BY <2>2, <2>3 DEF Alike
    <2> QED
      BY <1>4, <2>4, Fixed DEF ImageAt
  <1>9. StartAt(k)' /\ Whole(k)'
    <2>1. StartAt(k) /\ Whole(k)
      BY <1>1, <1>2, <1>3, OneCommand DEF Loads
    <2> QED
      BY <1>7, <2>1, StartStays, FlashStays
  <1> QED
    BY <1>8, <1>9 DEF Ran

\* What a loop of the session hears under its own index.
LEMMA LoopHears ==
  ASSUME BootAssumption, SoundScripts, IInv, NEW h, NEW a, Place(h, a), DeviceAt(h, a), ~Resting, NEW m, Receive(m), PacketAt(m, h, a)
  PROVE  /\ h >= 2 /\ index = h /\ AtWork(a) /\ a \in 2 .. Len(script)
         /\ m.type # "spoilt" => m.index = h
         /\ ~IsComtest(m) /\ IndexAfter(m) = index
         /\ m.type = "command" => Same(m)
  <1>1. h \in Nat /\ h >= 1 /\ index \in Nat /\ m.index \in Nat /\ (m.type = "command" => m.num \in 1 .. Len(script))
    BY HeadTaken, PlaceIs
  <1>2. h >= 2 /\ index = h
    BY <1>1 DEF DeviceAt
  <1>3. AtWork(a) /\ a \in 2 .. Len(script)
    <2>1. AtWork(a)
      BY <1>2 DEF DeviceAt
    <2>2. a <= Len(script)
      BY <2>1 DEF AtWork
    <2> QED
      BY <2>1, <2>2, PlaceIs
  <1>4. m.type # "spoilt" => m.index = h
    BY <1>1, <1>2 DEF PacketAt
  <1>5. ~IsComtest(m)
    <2>1. m.type = "command" => m.num = a
      BY <1>2, <1>4 DEF PacketAt
    <2> QED
      BY <1>3, <2>1, TheScript DEF IsComtest, Sound, Opens
  <1>6. IndexAfter(m) = index
    BY <1>5 DEF IndexAfter
  <1>7. m.type = "command" => Same(m)
    BY <1>1, <1>2, <1>4, <1>6 DEF Same
  <1> QED
    BY <1>2, <1>3, <1>4, <1>5, <1>6, <1>7

\* It is told to stop.
LEMMA CancelOnward ==
  ASSUME BootAssumption, SoundScripts, IInv, IInv', Fine, NEW h, NEW a, InStep(h, a), pc \in {"transfer", "dump"}, NEW m, Receive(m), Cancelled(m)
  PROVE  Onward(h, a) /\ Fine'
  <1>1. /\ Place(h, a) /\ DeviceAt(h, a) /\ script' = script /\ UNCHANGED <<aborts, crashes>> /\ aborts' \in Nat
        /\ pc' = "shell" /\ last_status' = "error" /\ UNCHANGED <<toHost, index, start, image, flash, bad>>
    BY HeadTaken DEF InStep, Cancelled, Returns, Fine, Counts
  <1>2. h >= 2 /\ index = h /\ AtWork(a) /\ a \in 2 .. Len(script) /\ Keeps(h, a) /\ Indexed /\ Dumps(h)
    <2>1. ~Resting /\ (pc' = "dump" => pc = "dump" /\ num <= num')
      BY <1>1 DEF Resting
    <2> QED
      BY <1>1, <2>1, LoopAnswers
  <1>3. ImageAt(a - 1, a)' /\ Whole(a - 1)'
    <2>1. ImageAt(a - 1, a) /\ Whole(a - 1) /\ (Hurt => Hurt')
      BY <1>1, <1>2 DEF AtWork, Ready, Hurt, Resting
    <2> QED
      BY <1>1, <2>1, AllStays
  <1>4. AtWork(a)'
    BY <1>1, <1>2, <1>3 DEF AtWork, Resting, Burning
  <1>5. DeviceAt(h, a)'
    BY <1>1, <1>2, <1>4, PlaceIs DEF DeviceAt
  <1>6. Onward(h, a)
    BY <1>1, <1>2, <1>5 DEF Onward, Replies
  <1>7. Fine'
    <2>1. BurnFine' /\ pc' # "copy" /\ pc # "copy"
      BY <1>1 DEF BurnFine, Burning
    <2> QED
      BY <1>1, <2>1, FineStays
  <1> QED
    BY <1>6, <1>7

\* A loop that goes on, or ends, under its index.
LEMMA LoopSaid ==
  ASSUME SoundScripts, IInv, IInv', NEW h, NEW a, Place(h, a), DeviceAt(h, a), ~Resting, script' = script, index' = index,
         pc' = "dump" => pc = "dump" /\ num <= num',
         AtWork(a) => AtWork(a)',
         \/ toHost' = toHost
         \/ \E e : /\ toHost' = Append(toHost, e) /\ e.index = index
                   /\ Passes(e, a) => Resting' /\ Ran(a)'
                   /\ pc' = "dump" /\ e.type = "data" => e.num \in 0 .. num'
  PROVE  Onward(h, a)
  <1>1. /\ h >= 2 /\ index = h /\ AtWork(a) /\ a \in 2 .. Len(script) /\ Keeps(h, a) /\ Indexed /\ Dumps(h)
        /\ h \in Nat
    BY LoopAnswers, PlaceIs
  <1>2. DeviceAt(h, a)'
    BY <1>1 DEF DeviceAt
  <1>3. Replies(h, a)
    <2>1. CASE toHost' = toHost
      BY <2>1 DEF Replies
    <2>2. CASE toHost' # toHost
      <3>1. PICK e : /\ toHost' = Append(toHost, e) /\ e.index = index
                     /\ Passes(e, a) => Resting' /\ Ran(a)'
                     /\ pc' = "dump" /\ e.type = "data" => e.num \in 0 .. num'
        BY <2>2
      <3>2. e.index = h /\ e.index \in 0 .. index' /\ e.index # 0
        BY <1>1, <3>1
      <3>3. Passes(e, a)' = Passes(e, a)
        BY DEF Passes
      <3>4. AnswerAt(e, h, a)'
        BY <3>1, <3>2, <3>3 DEF AnswerAt
      <3> QED
        BY <3>1, <3>2, <3>4 DEF Replies, Sends, IsEcho
    <2> QED
      BY <2>1, <2>2
  <1> QED
    BY <1>1, <1>2, <1>3 DEF Onward

LEMMA StoreOnward ==
  ASSUME BootAssumption, SoundScripts, IInv, IInv', Fine, NEW h, NEW a, InStep(h, a), pc = "transfer", NEW m, Receive(m), Store(m)
  PROVE  Onward(h, a) /\ Fine'
  <1>1. /\ Place(h, a) /\ DeviceAt(h, a) /\ script' = script /\ UNCHANGED <<aborts, crashes>> /\ aborts' \in Nat
        /\ m.num = Len(part) + 1 /\ part' = Append(part, New(cmd, m.num))
        /\ UNCHANGED <<index, start, count, num, cmd, flash, bad>> /\ SendStatus("ok", Len(part'))
        /\ ~Resting /\ (Hurt => Hurt') /\ index \in Nat
    BY HeadTaken DEF InStep, Store, InOrder, Fine, Counts, Resting, Hurt, IInv, DeviceTypes
  <1>2. /\ AtWork(a) /\ a \in 2 .. Len(script)
    <2>1. h >= 2 /\ index = h
      BY <1>1, PlaceIs DEF DeviceAt
    <2>2. AtWork(a)
      BY <1>1, <2>1 DEF DeviceAt
    <2> QED
      BY <1>1, <2>2, PlaceIs DEF AtWork
  <1>3. script[a].op \in Loads /\ cmd = a /\ Ready(a) /\ last_status = "running" /\ count = script[a].len
    BY <1>1, <1>2 DEF AtWork
  <1> DEFINE e == Status(index', "ok", Len(part'))
  <1>4. /\ toHost' = Append(toHost, e) /\ e.index = index /\ e.type = "status" /\ ~Passes(e, a)
    BY <1>1, <1>3 DEF SendStatus, Send, Status, Passes, Loads
  <1> HIDE DEF e
  <1>5. CASE Len(part') < count /\ UNCHANGED <<pc, image, last_status, last_error>>
    <2>1. Ready(a)'
      BY <1>1, <1>3, <1>5, AllStays
    <2>2. \A n \in 1 .. Len(part') : part'[n] = New(a, n)
      <3>1. part \in Seq(Values) /\ \A n \in 1 .. Len(part) : part[n] = New(a, n)
        BY <1>2 DEF AtWork, IInv, DeviceTypes
      <3>2. /\ Len(part') = Len(part) + 1 /\ part'[Len(part) + 1] = New(a, m.num)
            /\ \A n \in 1 .. Len(part) : part'[n] = part[n]
        BY <1>1, <1>3, <3>1
      <3> QED
        BY <1>1, <3>1, <3>2
    <2>3. AtWork(a)'
      BY <1>1, <1>2, <1>3, <1>5, <2>1, <2>2 DEF AtWork, Resting, Burning
    <2>4. Onward(h, a)
      <3>1. pc' # "dump"
        BY <1>5
      <3> QED
        BY <1>1, <1>4, <2>3, <3>1, LoopSaid
    <2>5. Fine'
      <3>1. BurnFine' /\ pc' # "copy" /\ pc # "copy"
        BY <1>5 DEF BurnFine, Burning
      <3> QED
        BY <1>1, <3>1, FineStays
    <2> QED
      BY <2>4, <2>5
  <1>6. CASE Len(part') = count /\ pc' = "shell" /\ \E fits \in Unpacks :
             /\ Returns(IF fits THEN "success" ELSE "decompress")
             /\ image' = IF fits THEN Extended(part') ELSE image
    <2>1. PICK fits \in Unpacks : /\ Returns(IF fits THEN "success" ELSE "decompress")
                                  /\ image' = IF fits THEN Extended(part') ELSE image
      BY <1>6
    <2>2. ASSUME fits = TRUE
          PROVE  AtWork(a)'
      <3>1. Ran(a)'
        BY <1>1, <1>2, <1>6, <2>1, <2>2, LoadDone
      <3> QED
        BY <1>1, <1>2, <1>6, <3>1 DEF AtWork, Resting, Burning
    <2>3. ASSUME fits # TRUE
          PROVE  AtWork(a)'
      <3>1. last_status' = "error" /\ image' = image
        BY <2>1, <2>3 DEF Returns
      <3>2. ImageAt(a - 1, a)' /\ Whole(a - 1)'
        BY <1>1, <1>3, <3>1, AllStays DEF Ready
      <3> QED
        BY <1>1, <1>2, <1>6, <3>1, <3>2 DEF AtWork, Resting, Burning
    <2>4. AtWork(a)'
      BY <2>2, <2>3
    <2>5. Onward(h, a)
      <3>1. pc' # "dump"
        BY <1>6
      <3> QED
        BY <1>1, <1>4, <2>4, <3>1, LoopSaid
    <2>6. Fine'
      <3>1. BurnFine' /\ pc' # "copy" /\ pc # "copy"
        BY <1>6 DEF BurnFine, Burning
      <3> QED
        BY <1>1, <3>1, FineStays
    <2> QED
      BY <2>5, <2>6
  <1> QED
    BY <1>5, <1>6 DEF Store

\* What the loops have in common.
LEMMA IdleLoop ==
  ASSUME BootAssumption, SoundScripts, IInv, Fine, NEW h, NEW a, InStep(h, a), NEW m, Receive(m), pc # "copy", UNCHANGED device,
         \/ toHost' = toHost
         \/ \E s, n : toHost' = Append(toHost, Status(index, s, n)) /\ (s = last_status \/ (s = "ok" /\ pc = "transfer"))
  PROVE  Onward(h, a) /\ Fine'
  <1>1. Place(h, a) /\ DeviceAt(h, a) /\ script' = script /\ UNCHANGED <<aborts, crashes>> /\ aborts' \in Nat
    BY HeadTaken DEF InStep, Fine, Counts
  <1>2. Onward(h, a)
    BY <1>1, IdleOnward
  <1>3. Fine'
    BY <1>1, FineIdle
  <1> QED
    BY <1>2, <1>3

LEMMA TransferOnward ==
  ASSUME BootAssumption, SoundScripts, IInv, IInv', Fine, NEW h, NEW a, InStep(h, a), TransferLoop
  PROVE  Onward(h, a) /\ Fine'
  <1>1. PICK m \in Range(toDev) :
          /\ Receive(m)
          /\ \/ Overtaken(m) \/ Ignored(m) \/ Cancelled(m) \/ Store(m)
             \/ Same(m) /\ m.type = "command" /\ Answer(last_status, 0)
             \/ Same(m) /\ m.type = "request" /\ Answer("ok", Len(part))
             \/ Same(m) /\ m.type = "data" /\ ~InOrder(m) /\ Answer("ok", Len(part))
    BY DEF TransferLoop
  <1>2. pc = "transfer" /\ pc # "copy" /\ ~Resting
    BY DEF TransferLoop, Resting
  <1>3. m.type = "command" => Same(m)
    BY <1>1, <1>2, HeadTaken, LoopHears DEF InStep
  <1>4. CASE Overtaken(m)
    BY <1>3, <1>4 DEF Overtaken
  <1>5. CASE Ignored(m)
    BY <1>1, <1>2, <1>5, IdleLoop DEF Ignored
  <1>6. CASE Cancelled(m)
    BY <1>1, <1>2, <1>6, CancelOnward
  <1>7. CASE Store(m)
    BY <1>1, <1>2, <1>7, StoreOnward
  <1>8. CASE Answer(last_status, 0) \/ Answer("ok", Len(part))
    <2>1. UNCHANGED device /\ index' = index
      BY <1>8 DEF Answer, device
    <2>2. \E s, n : toHost' = Append(toHost, Status(index, s, n)) /\ (s = last_status \/ (s = "ok" /\ pc = "transfer"))
      BY <1>2, <1>8, <2>1 DEF Answer, SendStatus, Send
    <2> QED
      BY <1>1, <1>2, <2>1, <2>2, IdleLoop
  <1> QED
    BY <1>1, <1>4, <1>5, <1>6, <1>7, <1>8

LEMMA ServeOnward ==
  ASSUME BootAssumption, SoundScripts, IInv, IInv', Fine, NEW h, NEW a, InStep(h, a), pc = "dump", NEW m, Receive(m), Serve(m)
  PROVE  Onward(h, a) /\ Fine'
  <1>1. /\ Place(h, a) /\ DeviceAt(h, a) /\ PacketAt(m, h, a) /\ script' = script /\ UNCHANGED <<aborts, crashes>> /\ aborts' \in Nat
        /\ m.type = "request" /\ UNCHANGED <<index, start, image, part, count, cmd, flash, bad>>
        /\ ~Resting /\ (Hurt => Hurt') /\ index \in Nat /\ num \in Nat /\ m.num \in Nat /\ m.index \in Nat
    BY HeadTaken DEF InStep, Serve, Fine, Counts, Resting, Hurt, IInv, DeviceTypes
  <1>2. h >= 2 /\ index = h /\ AtWork(a) /\ a \in 2 .. Len(script) /\ m.index = h
    BY <1>1, LoopHears
  <1>3. script[a].op = "dump" /\ cmd = a /\ Ready(a) /\ last_status = "running" /\ count = script[a].len /\ num < count
    BY <1>1, <1>2 DEF AtWork
  <1>4. m.num <= num + 1 /\ script[a].len \in Nat /\ script[a].len >= 1
    BY <1>1, <1>2, <1>3, TheScript DEF PacketAt, Sound, Sizes
  <1>5. /\ num' = (IF m.num = num + 1 THEN num + 1 ELSE num)
        /\ IF num' = count THEN pc' = "shell" /\ Returns("success") ELSE UNCHANGED <<pc, last_status, last_error>>
    BY DEF Serve
  <1>6. num <= num' /\ m.num <= num' /\ num' <= count /\ num' \in Nat
    BY <1>1, <1>3, <1>4, <1>5
  <1>7. PICK e : toHost' = Append(toHost, e) /\ e.index = index /\ e.type = "data" /\ e.num = m.num
    BY DEF Serve, Send, Data
  <1>8. num' = count => Ran(a)' /\ Resting' /\ pc' = "shell"
    <2>1. Ran(a)'
      BY <1>1, <1>2, <1>3, Harmless DEF Loads
    <2> QED
      BY <1>5, <2>1 DEF Resting
  <1>9. AtWork(a)'
    <2>1. CASE num' = count
      BY <1>1, <1>2, <1>8, <2>1 DEF AtWork, Resting, Burning
    <2>2. CASE num' # count
      <3>1. Ready(a)' /\ pc' = "dump" /\ last_status' = "running" /\ num' < count
        BY <1>1, <1>3, <1>4, <1>5, <1>6, <2>2, AllStays
      <3> QED
        BY <1>1, <1>2, <1>3, <3>1 DEF AtWork, Resting, Burning
    <2> QED
      BY <2>1, <2>2
  <1>10. Passes(e, a) => Resting' /\ Ran(a)'
    <2>1. Passes(e, a) => m.num = script[a].len
      BY <1>3, <1>7 DEF Passes
    <2>2. m.num = script[a].len => num' = count
      BY <1>1, <1>3, <1>4, <1>6
    <2> QED
      BY <1>8, <2>1, <2>2
  <1>11. Onward(h, a)
    <2>1. e.num \in 0 .. num'
      BY <1>1, <1>6, <1>7
    <2> QED
      BY <1>1, <1>6, <1>7, <1>9, <1>10, <2>1, LoopSaid
  <1>12. Fine'
    <2>1. BurnFine' /\ pc' # "copy" /\ pc # "copy"
      BY <1>5 DEF BurnFine, Burning
    <2> QED
      BY <1>1, <2>1, FineStays
  <1> QED
    BY <1>11, <1>12

LEMMA DumpOnward ==
  ASSUME BootAssumption, SoundScripts, IInv, IInv', Fine, NEW h, NEW a, InStep(h, a), DumpLoop
  PROVE  Onward(h, a) /\ Fine'
  <1>1. PICK m \in Range(toDev) :
          /\ Receive(m)
          /\ \/ Overtaken(m) \/ Ignored(m) \/ Cancelled(m) \/ Serve(m)
             \/ Same(m) /\ m.type = "command" /\ Answer(last_status, 0)
    BY DEF DumpLoop
  <1>2. pc = "dump" /\ pc # "copy" /\ ~Resting
    BY DEF DumpLoop, Resting
  <1>3. m.type = "command" => Same(m)
    BY <1>1, <1>2, HeadTaken, LoopHears DEF InStep
  <1>4. CASE Overtaken(m)
    BY <1>3, <1>4 DEF Overtaken
  <1>5. CASE Ignored(m)
    BY <1>1, <1>2, <1>5, IdleLoop DEF Ignored
  <1>6. CASE Cancelled(m)
    BY <1>1, <1>2, <1>6, CancelOnward
  <1>7. CASE Serve(m)
    BY <1>1, <1>2, <1>7, ServeOnward
  <1>8. CASE Answer(last_status, 0)
    <2>1. UNCHANGED device /\ index' = index
      BY <1>8 DEF Answer, device
    <2>2. \E s, n : toHost' = Append(toHost, Status(index, s, n)) /\ (s = last_status \/ (s = "ok" /\ pc = "transfer"))
      BY <1>8, <2>1 DEF Answer, SendStatus, Send
    <2> QED
      BY <1>1, <1>2, <2>1, <2>2, IdleLoop
  <1> QED
    BY <1>1, <1>4, <1>5, <1>6, <1>7, <1>8

\* A burn has nothing behind it that burnt.
LEMMA OneBurn ==
  ASSUME SoundScripts, IInv, NEW k \in 1 .. Len(script), script[k].op = "burn"
  PROVE  ~Has(script, "burn", k - 1)
  <1>1. Sound(script) /\ Len(script) \in Nat
    BY TheScript
  <1>2. \A i \in 1 .. k - 1 : i \in 1 .. Len(script) /\ i # k
    BY <1>1
  <1> QED
    BY <1>1, <1>2 DEF Sound, BuildsOnce, Has

\* Steps of a burn before its last.
LEMMA BurnKeepsOn ==
  ASSUME SoundScripts, IInv, NEW k \in 2 .. Len(script), AtWork(k), Burning, Burning', script' = script,
         UNCHANGED <<cmd, start, image, last_status>>, Hurt => Hurt'
  PROVE  AtWork(k)'
  <1>1. /\ k \in 1 .. Len(script) /\ script[k].op = "burn" /\ cmd = k /\ Ready(k) /\ last_status = "running" /\ k <= Len(script)
        /\ ~Resting' /\ pc' \in {"burn", "copy", "poll"}
    BY TheScript DEF AtWork, Burning, Resting
  <1>2. ~Has(script, "burn", k - 1)
    BY <1>1, OneBurn
  <1>3. ImageAt(k - 1, k)' /\ StartAt(k - 1)' /\ Whole(k - 1)'
    <2>1. ImageAt(k - 1, k) /\ StartAt(k - 1)
      BY <1>1 DEF Ready
    <2>2. Whole(k - 1)'
      BY <1>2 DEF Whole, Has
    <2> QED
      BY <2>1, <2>2, ImageStays, StartStays
  <1>4. Ready(k)'
    BY <1>3 DEF Ready
  <1> QED
    BY <1>1, <1>4 DEF AtWork

LEMMA BurnOnward ==
  ASSUME BootAssumption, SoundScripts, IInv, IInv', Fine, NEW h, NEW a, InStep(h, a),
         BurnErase \/ BurnNoErase \/ BurnCopy \/ BurnPoll \/ BurnSkip \/ BurnFinish
  PROVE  Onward(h, a) /\ Fine'
  <1>1. /\ Burning /\ ~Resting /\ Place(h, a) /\ DeviceAt(h, a) /\ script' = script
        /\ UNCHANGED <<cmd, start, image, crashes>> /\ bad \subseteq bad' /\ (Hurt => Hurt')
    BY DEF BurnErase, BurnNoErase, BurnCopy, BurnPoll, BurnSkip, BurnFinish, Burning, Resting, InStep, Quiet, host, bounds,
           Receive, Hurt
  <1>2. h >= 2 /\ index = h /\ AtWork(a) /\ a \in 2 .. Len(script) /\ a \in 1 .. Len(script)
    <2>1. h >= 2 /\ index = h
      BY <1>1, PlaceIs DEF DeviceAt
    <2>2. AtWork(a)
      BY <1>1, <2>1 DEF DeviceAt
    <2> QED
      BY <1>1, <2>1, <2>2, PlaceIs DEF AtWork
  <1>3. script[a].op = "burn" /\ Ready(a) /\ last_status = "running"
    BY <1>1, <1>2 DEF AtWork
  <1>4. Fine'
    BY EraseFine, CopyFine, MoveOnFine
  <1>5. CASE BurnErase \/ BurnNoErase \/ BurnSkip
    <2>1. /\ Burning' /\ UNCHANGED <<toHost, index, last_status>> /\ pc' # "dump"
      BY <1>5 DEF BurnErase, BurnNoErase, BurnSkip, Burning
    <2>2. AtWork(a)'
      BY <1>1, <1>2, <2>1, BurnKeepsOn
    <2> QED
      BY <1>1, <1>4, <2>1, <2>2, LoopSaid
  <1>6. CASE BurnCopy
    <2>1. Burning' /\ UNCHANGED <<index, last_status>> /\ pc' # "dump"
      BY <1>6 DEF BurnCopy, Burning
    <2>2. AtWork(a)'
      BY <1>1, <1>2, <2>1, BurnKeepsOn
    <2>3. \E e : toHost' = Append(toHost, e) /\ e.index = index /\ ~Passes(e, a)
      BY <1>3, <1>6 DEF BurnCopy, Send, Data, Passes
    <2> QED
      BY <1>1, <1>4, <2>1, <2>2, <2>3, LoopSaid
  <1>7. CASE BurnPoll
    <2>1. Burning' /\ UNCHANGED last_status /\ pc' # "dump"
      BY <1>7 DEF BurnPoll, Burning
    <2>2. AtWork(a)'
      BY <1>1, <1>2, <2>1, BurnKeepsOn
    <2>3. CASE UNCHANGED <<toDev, toHost, index, host, bounds>>
      BY <1>1, <1>4, <2>1, <2>2, <2>3, LoopSaid
    <2>4. CASE \E m \in Range(toDev) : /\ Receive(m) /\ index' = IndexAfter(m)
                                       /\ IF m.type = "command" /\ m.index = index' THEN SendStatus(last_status, 0)
                                                                                   ELSE UNCHANGED toHost
      <3>1. PICK m \in Range(toDev) : /\ Receive(m) /\ index' = IndexAfter(m)
                                      /\ IF m.type = "command" /\ m.index = index' THEN SendStatus(last_status, 0)
                                                                                  ELSE UNCHANGED toHost
        BY <2>4
      <3>2. PacketAt(m, h, a)
        BY <3>1, HeadTaken DEF InStep
      <3>3. index' = index
        BY <1>1, <3>1, <3>2, LoopHears
      <3>4. \/ toHost' = toHost
            \/ \E e : toHost' = Append(toHost, e) /\ e.index = index /\ ~Passes(e, a) /\ e.type # "data"
        BY <1>3, <3>1, <3>3 DEF SendStatus, Send, Status, Passes
      <3> QED
        BY <1>1, <1>4, <2>1, <2>2, <3>3, <3>4, LoopSaid
    <2> QED
      BY <1>7, <2>3, <2>4 DEF BurnPoll
  <1>8. CASE BurnFinish
    <2>1. /\ pc = "burn" /\ num >= BurnEnd /\ pc' = "shell" /\ UNCHANGED <<index, flash, bad>> /\ Resting' /\ pc' # "dump"
          /\ \E e : toHost' = Append(toHost, e) /\ e.index = index
      BY <1>8 DEF BurnFinish, Send, Data, Resting
    <2>2. ImageAt(a, a) /\ StartAt(a)
      BY <1>2, <1>3, OneCommand DEF Ready, Loads
    <2>3. Whole(a)
      BY <2>1, BurnWhole DEF Whole
    <2>4. Ran(a)'
      <3>1. Ran(a)
        BY <2>2, <2>3 DEF Ran
      <3> QED
        BY <1>1, <2>1, <3>1, AllStays
    <2>5. AtWork(a)'
      BY <1>1, <1>2, <2>1, <2>4 DEF AtWork, Burning
    <2> QED
      BY <1>1, <1>4, <2>1, <2>4, <2>5, LoopSaid
  <1> QED
    BY <1>5, <1>6, <1>7, <1>8

\* Any step of the device in a session.
LEMMA DeviceOnward ==
  ASSUME BootAssumption, SoundScripts, SoundKey, IInv, IInv', Fine, NEW h, NEW a, InStep(h, a), Device
  PROVE  Onward(h, a) /\ Fine'
  BY ShellOnward, TransferOnward, DumpOnward, BurnOnward DEF Device
------------------------------------------------------------------------------
(* The line in a session. *)

\* Lines as sequences.
LEMMA TailOf ==
  ASSUME NEW S, NEW s \in Seq(S), s # <<>>
  PROVE  /\ Len(s) \in Nat /\ Len(s) >= 1 /\ Len(Tail(s)) = Len(s) - 1 /\ Head(s) = s[1] /\ Tail(s) \in Seq(S)
         /\ \A i \in 1 .. Len(s) - 1 : Tail(s)[i] = s[i + 1]
  OBVIOUS

LEMMA AppendOf ==
  ASSUME NEW S, NEW s \in Seq(S), NEW e
  PROVE  /\ Len(s) \in Nat /\ Len(Append(s, e)) = Len(s) + 1 /\ Append(s, e)[Len(s) + 1] = e
         /\ \A i \in 1 .. Len(s) : Append(s, e)[i] = s[i]
  <1> DEFINE T == S \cup {e}
  <1>1. s \in Seq(T) /\ e \in T
    OBVIOUS
  <1> HIDE DEF T
  <1> QED
    BY <1>1

\* The packets on the line are records with numbers.
LEMMA OnLine ==
  ASSUME IInv
  PROVE  /\ toDev \in Seq(HostPacket) /\ Len(toDev) \in Nat /\ toHost \in Seq(Range(toHost)) /\ Len(toHost) \in Nat
         /\ \A i \in 1 .. Len(toDev) : toDev[i] \in HostPacket /\ toDev[i].index \in Nat /\ toDev[i].num \in Nat
  <1>1. toDev \in Seq(HostPacket) /\ toHost \in Seq(Range(toHost))
    BY DEF IInv, Lines
  <1>2. Len(toDev) \in Nat /\ \A i \in 1 .. Len(toDev) : toDev[i] \in HostPacket
    BY <1>1
  <1>3. Len(toHost) \in Nat
    <2> DEFINE R == Range(toHost)
    <2>1. toHost \in Seq(R)
      BY <1>1
    <2> HIDE DEF R
    <2> QED
      BY <2>1
  <1> QED
    BY <1>1, <1>2, <1>3 DEF HostPacket

\* The index a device is under after a step of a session.
LEMMA IndexGoes ==
  ASSUME SoundScripts, IInv, IInv', NEW h, NEW a, Place(h, a), Indexed, toDev' # toDev => PacketAt(Head(toDev), h, a)
  PROVE  index' \in Nat /\ (index >= 2 => index' >= index) /\ (index = h /\ h >= 2 /\ index' <= h => index' = h)
  <1>1. index \in Nat /\ index' \in Nat /\ h \in Nat
    BY PlaceIs DEF IInv, DeviceTypes
  <1>2. index >= 2 => index' >= index
    BY <1>1 DEF Indexed, PacketAt
  <1> QED
    BY <1>1, <1>2

\* A packet that a step leaves on the line.
LEMMA PacketGoes ==
  ASSUME SoundScripts, IInv, IInv', NEW h, NEW a, InStep(h, a), Onward(h, a), NEW p, p.index \in Nat, p.num \in Nat, PacketAt(p, h, a),
         p.type # "spoilt" /\ toDev' # toDev /\ Head(toDev).type # "spoilt" /\ Head(toDev).index >= 2
           => Head(toDev).index <= p.index
  PROVE  PacketAt(p, h, a)'
  <1>1. /\ index \in Nat /\ index' \in Nat /\ h \in Nat /\ num \in Nat /\ num' \in Nat /\ index' <= h
        /\ Indexed /\ Dumps(h)
    BY PlaceIs DEF IInv, DeviceTypes, InStep, Onward, DeviceAt
  <1>2. SUFFICES ASSUME p.type # "spoilt"
                 PROVE  PacketAt(p, h, a)'
    BY DEF PacketAt
  <1>3. /\ p.index <= h /\ (index >= 2 => p.index >= index)
        /\ p.type = "command" =>
             /\ p.index <= 1 => p.num = p.index + 1
             /\ p.index >= 2 => p.num >= 2 /\ (p.index = h => p.num = a)
        /\ p.type = "request" =>
             p.index >= 2 /\ (p.index = h => index = h /\ (pc = "dump" => p.num <= num + 1))
    BY <1>2 DEF PacketAt
  <1>4. index' >= 2 => p.index >= index'
    BY <1>1, <1>2, <1>3 DEF Indexed
  <1>5. ASSUME p.type = "request", p.index = h
        PROVE  index' = h /\ (pc' = "dump" => p.num <= num' + 1)
    <2>1. index = h /\ h >= 2 /\ (pc = "dump" => p.num <= num + 1)
      BY <1>3, <1>5
    <2>2. index' = h
      BY <1>1, <2>1, IndexGoes DEF InStep
    <2>3. pc' = "dump" => pc = "dump" /\ num <= num'
      BY <1>1, <2>1 DEF Dumps
    <2> QED
      BY <1>1, <2>1, <2>2, <2>3
  <1> QED
    BY <1>3, <1>4, <1>5 DEF PacketAt

\* The first packets of the line, after a step of the device.
LEMMA LineGoes ==
  ASSUME SoundScripts, IInv, IInv', NEW h, NEW a, InStep(h, a), Onward(h, a), NEW n \in 0 .. Len(toDev), LineAt(h, a, n),
         toDev' = toDev \/ (toDev # <<>> /\ toDev' = Tail(toDev) /\ toDev' # toDev)
  PROVE  /\ toDev' = toDev => LineAt(h, a, n)' /\ Len(toDev') = Len(toDev)
         /\ toDev' # toDev => /\ (n >= 1 => LineAt(h, a, n - 1)' /\ n - 1 \in 0 .. Len(toDev'))
                              /\ Len(toDev') = Len(toDev) - 1 /\ Len(toDev') \in Nat
  <1>0. /\ toDev \in Seq(HostPacket) /\ Len(toDev) \in Nat /\ n \in Nat
        /\ \A i \in 1 .. n : toDev[i] \in HostPacket /\ toDev[i].index \in Nat /\ toDev[i].num \in Nat
    BY OnLine
  <1>1. ASSUME toDev' = toDev
        PROVE  LineAt(h, a, n)'
    <2>1. \A i \in 1 .. n : PacketAt(toDev[i], h, a)'
      <3>1. ASSUME NEW i \in 1 .. n
            PROVE  PacketAt(toDev[i], h, a)'
        <4>1. PICK p : p = toDev[i]
          OBVIOUS
        <4>2. PacketAt(p, h, a) /\ p.index \in Nat /\ p.num \in Nat
          BY <1>0, <4>1 DEF LineAt
        <4>3. PacketAt(p, h, a)'
          BY <1>1, <4>2, PacketGoes
        <4> QED
          BY <1>1, <4>1, <4>3 DEF PacketAt
      <3> QED
        BY <3>1
    <2> QED
      BY <1>1, <2>1 DEF LineAt
  <1>2. ASSUME toDev' # toDev
        PROVE  /\ Len(toDev') = Len(toDev) - 1 /\ Len(toDev') \in Nat /\ Head(toDev) = toDev[1]
               /\ \A i \in 1 .. Len(toDev) - 1 : toDev'[i] = toDev[i + 1]
    BY <1>0, <1>2, TailOf
  <1>3. ASSUME toDev' # toDev, n >= 1
        PROVE  LineAt(h, a, n - 1)'
    <2>1. /\ Head(toDev) = toDev[1]
          /\ \A i \in 1 .. n - 1 : toDev'[i] = toDev[i + 1] /\ i + 1 \in 1 .. n
          /\ 1 \in 1 .. n
      BY <1>0, <1>2, <1>3
    <2>2. \A i \in 1 .. n - 1 : PacketAt(toDev[i], h, a)'
      <3>1. ASSUME NEW i \in 1 .. n - 1
            PROVE  PacketAt(toDev[i], h, a)'
        <4>1. PICK p : p = toDev[i + 1]
          OBVIOUS
        <4>2. i + 1 \in 1 .. n /\ 1 < i + 1
          BY <1>0, <2>1
        <4>3. PacketAt(p, h, a) /\ p.index \in Nat /\ p.num \in Nat
          BY <1>0, <4>1, <4>2 DEF LineAt
        <4>4. p.type # "spoilt" /\ Head(toDev).type # "spoilt" /\ Head(toDev).index >= 2 => Head(toDev).index <= p.index
          BY <2>1, <4>1, <4>2 DEF LineAt
        <4>5. PacketAt(p, h, a)'
          BY <4>3, <4>4, PacketGoes
        <4>6. toDev'[i] = p
          BY <2>1, <4>1
        <4> QED
          BY <4>5, <4>6 DEF PacketAt
      <3> QED
        BY <3>1
    <2>3. ASSUME NEW i \in 1 .. n - 1, NEW j \in 1 .. n - 1, i < j, toDev'[i].type # "spoilt", toDev'[j].type # "spoilt",
                 toDev'[i].index >= 2
          PROVE  toDev'[i].index <= toDev'[j].index
      <3>1. i + 1 \in 1 .. n /\ j + 1 \in 1 .. n /\ i + 1 < j + 1
        BY <1>0, <2>1, <2>3
      <3> QED
        BY <2>1, <2>3, <3>1 DEF LineAt
    <2> QED
      BY <2>2, <2>3 DEF LineAt
  <1>4. toDev' # toDev /\ n >= 1 => n - 1 \in 0 .. Len(toDev')
    BY <1>0, <1>2
  <1> QED
    BY <1>1, <1>2, <1>3, <1>4

\* The same when a packet is lost, or its data is spoilt, and the device does nothing.
LEMMA LineLoses ==
  ASSUME SoundScripts, IInv, NEW h, NEW a, NEW n \in 0 .. Len(toDev), LineAt(h, a, n), toDev # <<>>,
         UNCHANGED device, crashes' = crashes, script' = script, NEW d \in {0, 1},
         toDev' = (IF d = 1 THEN Tail(toDev) ELSE <<Spoilt>> \o Tail(toDev))
  PROVE  /\ Len(toDev') = Len(toDev) - d /\ Len(toDev) >= 1
         /\ n >= 1 \/ d = 0 => LineAt(h, a, n - d)' /\ n - d \in 0 .. Len(toDev')
         /\ d = 1 => \A i \in 1 .. Len(toDev') : toDev'[i] = toDev[i + 1]
         /\ d = 0 => toDev'[1] = Spoilt /\ \A i \in 2 .. Len(toDev') : toDev'[i] = toDev[i]
  <1>0. toDev \in Seq(HostPacket) /\ Len(toDev) \in Nat /\ Spoilt \in HostPacket
    BY OnLine DEF HostPacket, Spoilt
  <1>1. /\ Len(toDev) >= 1 /\ Len(Tail(toDev)) = Len(toDev) - 1 /\ Tail(toDev) \in Seq(HostPacket)
        /\ \A i \in 1 .. Len(toDev) - 1 : Tail(toDev)[i] = toDev[i + 1]
    BY <1>0, TailOf
  <1>2. \A p : PacketAt(p, h, a) => PacketAt(p, h, a)'
    BY DeviceStays
  <1>3. ASSUME d = 1
        PROVE  /\ Len(toDev') = Len(toDev) - 1 /\ \A i \in 1 .. Len(toDev') : toDev'[i] = toDev[i + 1]
    BY <1>0, <1>1, <1>3
  <1>4. ASSUME d = 0
        PROVE  Len(toDev') = Len(toDev) /\ toDev'[1] = Spoilt /\ \A i \in 2 .. Len(toDev') : toDev'[i] = toDev[i]
    <2> DEFINE S == HostPacket
               t == Tail(toDev)
               u == <<Spoilt>>
    <2>1. t \in Seq(S) /\ u \in Seq(S) /\ Len(u) = 1 /\ u[1] = Spoilt /\ toDev' = u \o t /\ Len(t) = Len(toDev) - 1
      BY <1>0, <1>1, <1>4
    <2>2. \A i \in 1 .. Len(toDev) - 1 : t[i] = toDev[i + 1]
      BY <1>1
    <2> HIDE DEF S, t, u
    <2>3. /\ Len(toDev') = Len(toDev) /\ toDev'[1] = Spoilt
          /\ \A i \in 1 .. Len(u) + Len(t) : i > Len(u) => toDev'[i] = t[i - Len(u)]
      <3>1. /\ Len(u \o t) = Len(u) + Len(t) /\ \A i \in 1 .. Len(u) : (u \o t)[i] = u[i]
            /\ \A i \in 1 .. Len(u) + Len(t) : i > Len(u) => (u \o t)[i] = t[i - Len(u)]
        BY <2>1, Concat
      <3>2. 1 \in 1 .. Len(u) /\ Len(u) + Len(t) = Len(toDev)
        BY <1>0, <2>1
      <3> QED
        BY <2>1, <3>1, <3>2
    <2>4. ASSUME NEW i \in 2 .. Len(toDev)
          PROVE  toDev'[i] = toDev[i]
      <3>1. i \in 1 .. Len(u) + Len(t) /\ i > Len(u) /\ i - 1 \in 1 .. Len(toDev) - 1 /\ i - Len(u) = i - 1 /\ i - 1 + 1 = i
        BY <1>0, <2>1
      <3> QED
        BY <2>2, <2>3, <3>1
    <2> QED
      BY <2>3, <2>4
  <1>5. ASSUME d = 1, n >= 1
        PROVE  LineAt(h, a, n - 1)'
    <2>1. \A i \in 1 .. n - 1 : toDev'[i] = toDev[i + 1] /\ i + 1 \in 1 .. n
      BY <1>0, <1>3, <1>5
    <2>2. \A i \in 1 .. n - 1 : PacketAt(toDev[i], h, a)'
      <3>1. ASSUME NEW i \in 1 .. n - 1
            PROVE  PacketAt(toDev[i], h, a)'
        <4>1. PICK p : p = toDev[i + 1]
          OBVIOUS
        <4>2. PacketAt(p, h, a)
          BY <2>1, <4>1 DEF LineAt
        <4>3. PacketAt(p, h, a)' /\ toDev'[i] = p
          BY <1>2, <2>1, <4>1, <4>2
        <4> QED
          BY <4>3 DEF PacketAt
      <3> QED
        BY <3>1
    <2>3. ASSUME NEW i \in 1 .. n - 1, NEW j \in 1 .. n - 1, i < j, toDev'[i].type # "spoilt", toDev'[j].type # "spoilt",
                 toDev'[i].index >= 2
          PROVE  toDev'[i].index <= toDev'[j].index
      <3>1. i + 1 \in 1 .. n /\ j + 1 \in 1 .. n /\ i + 1 < j + 1
        BY <2>1, <2>3
      <3> QED
        BY <2>1, <2>3, <3>1 DEF LineAt
    <2> QED
      BY <2>2, <2>3 DEF LineAt
  <1>6. ASSUME d = 0
        PROVE  LineAt(h, a, n)'
    <2>1. \A i \in 1 .. n : i \in 1 .. Len(toDev) /\ (toDev'[i].type # "spoilt" => toDev'[i] = toDev[i])
      <3>1. Spoilt.type = "spoilt"
        BY DEF Spoilt
      <3> QED
        BY <1>0, <1>4, <1>6, <3>1
    <2>2. \A i \in 1 .. n : PacketAt(toDev[i], h, a)'
      <3>1. ASSUME NEW i \in 1 .. n
            PROVE  PacketAt(toDev[i], h, a)'
        <4>1. PICK p : p = toDev[i]
          OBVIOUS
        <4>2. PacketAt(p, h, a)'
          BY <1>2, <4>1 DEF LineAt
        <4>3. CASE toDev'[i].type = "spoilt"
          BY <4>3 DEF PacketAt
        <4>4. CASE toDev'[i] = p
          BY <4>2, <4>4 DEF PacketAt
        <4> QED
          BY <2>1, <4>1, <4>3, <4>4
      <3> QED
        BY <3>1
    <2>3. ASSUME NEW i \in 1 .. n, NEW j \in 1 .. n, i < j, toDev'[i].type # "spoilt", toDev'[j].type # "spoilt",
                 toDev'[i].index >= 2
          PROVE  toDev'[i].index <= toDev'[j].index
      BY <2>1, <2>3 DEF LineAt
    <2> QED
      BY <2>2, <2>3 DEF LineAt
  <1>7. CASE d = 1
    <2>1. Len(toDev') = Len(toDev) - d /\ (n >= 1 => n - d \in 0 .. Len(toDev'))
      BY <1>0, <1>1, <1>3, <1>7
    <2>2. n >= 1 => LineAt(h, a, n - d)'
      BY <1>5, <1>7
    <2> QED
      BY <1>1, <1>3, <1>7, <2>1, <2>2
  <1>8. CASE d = 0
    <2>1. Len(toDev') = Len(toDev) - d /\ n - d = n /\ n \in 0 .. Len(toDev')
      BY <1>0, <1>4, <1>8
    <2> QED
      BY <1>1, <1>4, <1>6, <1>8, <2>1
  <1> QED
    BY <1>7, <1>8

LEMMA LinePrefix ==
  ASSUME NEW h, NEW a, NEW n, LineAt(h, a, n), UNCHANGED device, crashes' = crashes, script' = script,
         \A i \in 1 .. n : toDev'[i] = toDev[i]
  PROVE  LineAt(h, a, n)'
  <1>1. \A p : PacketAt(p, h, a) => PacketAt(p, h, a)'
    BY DeviceStays
  <1>2. \A i \in 1 .. n : PacketAt(toDev[i], h, a)'
    <2>1. ASSUME NEW i \in 1 .. n
          PROVE  PacketAt(toDev[i], h, a)'
      <3>1. PICK p : p = toDev[i]
        OBVIOUS
      <3>2. PacketAt(p, h, a)'
        BY <1>1, <3>1 DEF LineAt
      <3> QED
        BY <3>1, <3>2 DEF PacketAt
    <2> QED
      BY <2>1
  <1> QED
    BY <1>2 DEF LineAt

LEMMA LineAdds ==
  ASSUME IInv, NEW h, NEW a, LineAt(h, a, Len(toDev)), UNCHANGED device, crashes' = crashes, script' = script,
         NEW p, PacketAt(p, h, a), toDev' = Append(toDev, p),
         \A i \in 1 .. Len(toDev) : toDev[i].type # "spoilt" /\ p.type # "spoilt" /\ toDev[i].index >= 2 => toDev[i].index <= p.index
  PROVE  /\ LineAt(h, a, Len(toDev))' /\ Len(toDev') = Len(toDev) + 1 /\ toDev'[Len(toDev')] = p
         /\ \A i \in 1 .. Len(toDev) : toDev'[i] = toDev[i]
  <1>1. /\ Len(toDev) \in Nat /\ Len(toDev') = Len(toDev) + 1 /\ toDev'[Len(toDev) + 1] = p
        /\ \A i \in 1 .. Len(toDev) : toDev'[i] = toDev[i]
    BY OnLine, AppendOf
  <1>2. PICK n \in Nat : n = Len(toDev)
    BY <1>1
  <1>3. LineAt(h, a, n)'
    BY <1>1, <1>2, LinePrefix
  <1>4. PacketAt(p, h, a)'
    BY DeviceStays
  <1>5. \A i \in 1 .. n + 1 : i \in 1 .. n \/ i = n + 1
    OBVIOUS
  <1>6. \A i \in 1 .. n + 1 : PacketAt(toDev[i], h, a)'
    <2>1. ASSUME NEW i \in 1 .. n + 1
          PROVE  PacketAt(toDev[i], h, a)'
      <3>1. CASE i \in 1 .. n
        BY <1>3, <3>1 DEF LineAt
      <3>2. CASE i = n + 1
        <4>1. toDev'[i] = p
          BY <1>1, <1>2, <3>2
        <4> QED
          BY <1>4, <4>1 DEF PacketAt
      <3> QED
        BY <1>5, <3>1, <3>2
    <2> QED
      BY <2>1
  <1>7. ASSUME NEW i \in 1 .. n + 1, NEW j \in 1 .. n + 1, i < j, toDev'[i].type # "spoilt", toDev'[j].type # "spoilt",
               toDev'[i].index >= 2
        PROVE  toDev'[i].index <= toDev'[j].index
    <2>1. i \in 1 .. n
      BY <1>7
    <2>2. CASE j \in 1 .. n
      BY <1>3, <1>7, <2>1, <2>2 DEF LineAt
    <2>3. CASE j = n + 1
      BY <1>1, <1>2, <1>7, <2>1, <2>3
    <2> QED
      BY <1>5, <2>2, <2>3
  <1>8. LineAt(h, a, n + 1)'
    BY <1>6, <1>7 DEF LineAt
  <1> QED
    BY <1>1, <1>2, <1>8 DEF LineAt

\* A line that is what it was, or has lost its head.
Later(s, t, d) == \A i \in 1 .. Len(t) : i + d \in 1 .. Len(s) /\ t[i] = s[i + d]

LEMMA LaterTail ==
  ASSUME NEW S, NEW s \in Seq(S), s # <<>>
  PROVE  Later(s, Tail(s), 1)
  <1>1. Len(s) \in Nat /\ Len(Tail(s)) = Len(s) - 1 /\ \A i \in 1 .. Len(s) - 1 : Tail(s)[i] = s[i + 1]
    BY TailOf
  <1> QED
    BY <1>1 DEF Later

LEMMA LaterSame ==
  ASSUME NEW s
  PROVE  Len(s) \in Nat => Later(s, s, 0)
  BY DEF Later

\* Steps of the host and of the line that send nothing and leave the host where it is.
LEMMA TurnStays ==
  ASSUME IInv, InTurn, index' = index, hidx' = hidx, NEW d \in {0, 1}, Later(toHost, toHost', d), NEW e \in {0, 1},
         \A i \in 1 .. Len(toDev') :
           toDev'[i] = Spoilt \/ (i + e \in 1 .. Len(toDev) /\ toDev'[i] = toDev[i + e])
  PROVE  InTurn'
  <1>1. Spoilt.index = 0 /\ ~SyncPacket(Spoilt)
    BY DEF Spoilt, SyncPacket
  <1>2. ASSUME NEW i \in 1 .. Len(toDev'), NEW j \in 1 .. Len(toDev'), i < j, toDev'[i].index # 0
        PROVE  ~SyncPacket(toDev'[j])
    <2>1. i + e \in 1 .. Len(toDev) /\ toDev'[i] = toDev[i + e]
      BY <1>1, <1>2
    <2>2. CASE toDev'[j] = Spoilt
      BY <1>1, <2>2
    <2>3. CASE j + e \in 1 .. Len(toDev) /\ toDev'[j] = toDev[j + e]
      <3>1. i + e < j + e
        BY <1>2
      <3> QED
        BY <1>2, <2>1, <2>3, <3>1 DEF InTurn
    <2> QED
      BY <2>2, <2>3
  <1>3. index' # 0 => \A j \in 1 .. Len(toDev') : ~SyncPacket(toDev'[j])
    BY <1>1 DEF InTurn
  <1>4. ASSUME NEW i \in 1 .. Len(toHost'), NEW j \in 1 .. Len(toHost'), i < j, toHost'[i].index # 0
        PROVE  ~IsEcho(toHost'[j])
    <2>1. i + d \in 1 .. Len(toHost) /\ toHost'[i] = toHost[i + d] /\ j + d \in 1 .. Len(toHost) /\ toHost'[j] = toHost[j + d]
          /\ i + d < j + d
      BY <1>4 DEF Later
    <2> QED
      BY <1>4, <2>1 DEF InTurn
  <1>5. (\E i \in 1 .. Len(toHost') : toHost'[i].index # 0) => index' # 0
    BY DEF InTurn, Later
  <1>6. hidx' = 0 => index' = 0 /\ \A i \in 1 .. Len(toDev') : toDev'[i].index = 0
    BY <1>1 DEF InTurn
  <1>7. hidx' >= 2 => index' # 0 /\ \A j \in 1 .. Len(toHost') : ~IsEcho(toHost'[j])
    BY DEF InTurn, Later
  <1>8. /\ (\A x : SyncPacket(x)' <=> SyncPacket(x)) /\ (\A x : IsEcho(x)' <=> IsEcho(x))
    BY DEF SyncPacket, IsEcho
  <1> QED
    BY <1>2, <1>3, <1>4, <1>5, <1>6, <1>7 DEF InTurn, SyncPacket, IsEcho

LEMMA HeededLater ==
  ASSUME IInv, hidx' = hidx, NEW d \in {0, 1}, Later(toHost, toHost', d)
  PROVE  \A i \in 1 .. Len(toHost') : Heeded(i)' => Heeded(i + d)
  <1>1. ASSUME NEW i \in 1 .. Len(toHost'), Heeded(i)'
        PROVE  Heeded(i + d)
    <2>1. CASE hidx >= 1
      BY <2>1 DEF Heeded
    <2>2. CASE hidx < 1
      <3>1. PICK j \in 1 .. i - 1 : IsEcho(toHost[j])'
        BY <1>1, <2>2 DEF Heeded, IInv, HostTypes
      <3>2. j \in 1 .. Len(toHost') /\ j + d \in 1 .. i + d - 1 /\ toHost'[j] = toHost[j + d]
        BY <3>1 DEF Later
      <3>3. IsEcho(toHost[j + d])
        BY <3>1, <3>2 DEF IsEcho
      <3> QED
        BY <3>2, <3>3 DEF Heeded
    <2> QED
      BY <2>1, <2>2 DEF IInv, HostTypes
  <1> QED
    BY <1>1

\* Steps that leave the device and where the host is.
LEMMA SessionStays ==
  ASSUME IInv, NEW h, NEW a, Session(h, a), UNCHANGED device, crashes' = crashes, script' = script,
         LineAt(h, a, Len(toDev))', NEW d \in {0, 1}, Later(toHost, toHost', d),
         \A i \in 1 .. Len(toHost') : Heeded(i)' => Heeded(i + d)
  PROVE  Session(h, a)'
  <1>1. Place(h, a)' /\ DeviceAt(h, a)'
    BY DeviceStays DEF Session, Place
  <1>2. \A r : AnswerAt(r, h, a) => AnswerAt(r, h, a)'
    BY DeviceStays DEF Keeps
  <1>3. \A i \in 1 .. Len(toHost') : Heeded(i)' => AnswerAt(toHost[i], h, a)'
    <2>1. ASSUME NEW i \in 1 .. Len(toHost'), Heeded(i)'
          PROVE  AnswerAt(toHost[i], h, a)'
      <3>1. PICK r : r = toHost'[i]
        OBVIOUS
      <3>2. i + d \in 1 .. Len(toHost) /\ r = toHost[i + d] /\ Heeded(i + d)
        BY <2>1, <3>1 DEF Later
      <3>3. AnswerAt(r, h, a)'
        BY <1>2, <3>2 DEF Session
      <3> QED
        BY <3>1, <3>3 DEF AnswerAt, Passes
    <2> QED
      BY <2>1
  <1> QED
    BY <1>1, <1>3 DEF Session
------------------------------------------------------------------------------
(* A session goes on: the device's steps. *)

\* A step of the device takes the head of the line or nothing, says one thing at most,
\* and leaves the host alone.
LEMMA DeviceAlone ==
  ASSUME BootAssumption, IInv, Device
  PROVE  /\ UNCHANGED <<script, at, hidx, phase, got, aborts, crashes>>
         /\ toDev' = toDev \/ (toDev # <<>> /\ toDev' = Tail(toDev) /\ toDev' # toDev)
  <1>1. CASE \E m : Receive(m)
    <2>1. PICK m : Receive(m)
      BY <1>1
    <2>2. toDev' = Tail(toDev) /\ toDev' # toDev /\ UNCHANGED <<script, at, hidx, phase, got, aborts, crashes>>
      BY <2>1, HeadTaken
    <2> QED
      BY <2>1, <2>2 DEF Receive
  <1>2. CASE ~\E m : Receive(m)
    BY <1>2 DEF Device, Shell, TransferLoop, DumpLoop, BurnErase, BurnNoErase, BurnCopy, BurnPoll, BurnSkip, BurnFinish, Quiet,
                host, bounds
  <1> QED
    BY <1>1, <1>2

\* Where the host is, as constants.
LEMMA WhereItIs ==
  ASSUME SoundScripts, IInv, InSession
  PROVE  \E h, a : /\ h = AtLeast(hidx, 1) /\ a = AtLeast(at, 2) /\ Session(h, a)
                   /\ h \in Nat /\ h >= 1 /\ a \in Nat /\ at \in Nat /\ hidx \in Nat /\ Place(h, a)
                   /\ hidx >= 1 => h = hidx
                   /\ hidx = 0 => h = 1
                   /\ hidx >= 1 => a = at
  <1>1. hidx \in Nat /\ at \in Nat /\ at >= 1 /\ (hidx <= 1 => at = hidx + 1)
    BY DEF IInv, HostTypes, InSession, Asks
  <1>2. PICK h, a : h = AtLeast(hidx, 1) /\ a = AtLeast(at, 2)
    OBVIOUS
  <1>3. Session(h, a) /\ Place(h, a)
    BY <1>2 DEF InSession, Session
  <1>4. /\ hidx >= 1 => h = hidx
        /\ hidx = 0 => h = 1
    BY <1>1, <1>2 DEF AtLeast
  <1>5. hidx >= 1 => a = at
    BY <1>1, <1>2 DEF AtLeast, InSession, Asks
  <1>6. h \in Nat /\ h >= 1 /\ a \in Nat
    BY <1>3, PlaceIs
  <1> QED
    BY <1>1, <1>2, <1>3, <1>4, <1>5, <1>6

\* The device's answers keep their turn.
LEMMA TurnGoes ==
  ASSUME SoundScripts, IInv, IInv', InTurn, NEW h, NEW a, Replies(h, a), Indexed, hidx' = hidx,
         toDev' = toDev \/ (toDev # <<>> /\ toDev' = Tail(toDev) /\ toDev' # toDev)
  PROVE  InTurn'
  <1>1. /\ toDev \in Seq(HostPacket) /\ Len(toDev) \in Nat /\ toHost \in Seq(Range(toHost)) /\ Len(toHost) \in Nat
        /\ index \in Nat /\ index' \in Nat
    BY OnLine DEF IInv, DeviceTypes
  <1>2. PICK d \in {0, 1} : Later(toDev, toDev', d) /\ (d = 0 => toDev' = toDev) /\
                            (d = 1 => toDev' # toDev /\ Head(toDev) = toDev[1] /\ 1 \in 1 .. Len(toDev))
    <2>1. CASE toDev' = toDev
      BY <1>1, <2>1 DEF Later
    <2>2. CASE toDev' # toDev
      <3>1. Later(toDev, toDev', 1)
        BY <1>1, <2>2, LaterTail
      <3>2. Head(toDev) = toDev[1] /\ 1 \in 1 .. Len(toDev)
        BY <1>1, <2>2, TailOf
      <3> QED
        BY <2>2, <3>1, <3>2
    <2> QED
      BY <2>1, <2>2
  <1>3. \A i \in 1 .. Len(toDev') : i + d \in 1 .. Len(toDev) /\ toDev'[i] = toDev[i + d]
    BY <1>2 DEF Later
  <1>4. index # 0 => index' # 0
    <2>1. index # 0 => ~SyncPacket(Head(toDev)) \/ toDev' = toDev
      BY <1>2 DEF InTurn
    <2> QED
      BY <2>1 DEF Indexed, SyncPacket
  <1>5. \A i, j \in 1 .. Len(toDev') : i < j /\ toDev'[i].index # 0 => ~SyncPacket(toDev'[j])
    <2>1. ASSUME NEW i \in 1 .. Len(toDev'), NEW j \in 1 .. Len(toDev'), i < j, toDev'[i].index # 0
          PROVE  ~SyncPacket(toDev'[j])
      <3>1. i + d \in 1 .. Len(toDev) /\ j + d \in 1 .. Len(toDev) /\ i + d < j + d
        BY <1>3, <2>1
      <3> QED
        BY <1>3, <2>1, <3>1 DEF InTurn
    <2> QED
      BY <2>1
  <1>6. index' # 0 => \A j \in 1 .. Len(toDev') : ~SyncPacket(toDev'[j])
    <2>1. ASSUME index' # 0, NEW j \in 1 .. Len(toDev')
          PROVE  ~SyncPacket(toDev'[j])
      <3>1. CASE index' = index
        BY <1>3, <2>1, <3>1 DEF InTurn
      <3>2. CASE index' # index
        <4>1. d = 1 /\ toDev[1].index # 0 /\ 1 \in 1 .. Len(toDev)
          BY <1>2, <2>1, <3>2 DEF Indexed
        <4>2. j + 1 \in 1 .. Len(toDev) /\ 1 < j + 1 /\ toDev'[j] = toDev[j + 1]
          BY <1>3, <2>1, <4>1
        <4> QED
          BY <4>1, <4>2 DEF InTurn
      <3> QED
        BY <3>1, <3>2
    <2> QED
      BY <2>1
  <1>7. hidx' = 0 => index' = 0 /\ \A i \in 1 .. Len(toDev') : toDev'[i].index = 0
    BY <1>2, <1>3 DEF InTurn, Indexed
  <1>8. CASE toHost' = toHost
    BY <1>4, <1>5, <1>6, <1>7, <1>8 DEF InTurn, SyncPacket, IsEcho
  <1>9. CASE toHost' # toHost
    <2>1. PICK e : Sends(e, h, a)
      BY <1>9 DEF Replies
    <2>2. /\ Len(toHost') = Len(toHost) + 1 /\ toHost'[Len(toHost) + 1] = e
          /\ \A i \in 1 .. Len(toHost) : toHost'[i] = toHost[i]
      BY <1>1, <2>1, AppendOf DEF Sends
    <2>3. IsEcho(e) => index = 0
      BY <1>2, <2>1 DEF Sends, InTurn
    <2>4. \A i \in 1 .. Len(toHost') : i \in 1 .. Len(toHost) \/ i = Len(toHost) + 1
      BY <1>1, <2>2
    <2>5. ASSUME NEW i \in 1 .. Len(toHost'), NEW j \in 1 .. Len(toHost'), i < j, toHost'[i].index # 0
          PROVE  ~IsEcho(toHost'[j])
      <3>1. i \in 1 .. Len(toHost) /\ toHost'[i] = toHost[i]
        BY <1>1, <2>2, <2>5
      <3>2. CASE j \in 1 .. Len(toHost)
        BY <2>2, <2>5, <3>1, <3>2 DEF InTurn
      <3>3. CASE j = Len(toHost) + 1
        BY <2>2, <2>3, <2>5, <3>1, <3>3 DEF InTurn
      <3> QED
        BY <2>4, <3>2, <3>3
    <2>6. (\E i \in 1 .. Len(toHost') : toHost'[i].index # 0) => index' # 0
      BY <1>4, <2>1, <2>2, <2>4 DEF InTurn, Sends
    <2>7. hidx' >= 2 => index' # 0 /\ \A j \in 1 .. Len(toHost') : ~IsEcho(toHost'[j])
      BY <1>4, <2>2, <2>3, <2>4 DEF InTurn
    <2> QED
      BY <1>5, <1>6, <1>7, <2>5, <2>6, <2>7 DEF InTurn, SyncPacket, IsEcho
  <1> QED
    BY <1>8, <1>9

LEMMA SessionGoes ==
  ASSUME BootAssumption, SoundScripts, SoundKey, IInv, IInv', Fine, InSession, Device
  PROVE  Fine' /\ InSession'
  <1>1. PICK h, a : /\ h = AtLeast(hidx, 1) /\ a = AtLeast(at, 2) /\ Session(h, a)
                    /\ h \in Nat /\ h >= 1 /\ a \in Nat /\ at \in Nat /\ hidx \in Nat /\ Place(h, a)
                    /\ hidx >= 1 => h = hidx
                    /\ hidx = 0 => h = 1
                    /\ hidx >= 1 => a = at
    BY WhereItIs
  <1>2. /\ UNCHANGED <<script, at, hidx, phase, got, aborts, crashes>>
        /\ toDev' = toDev \/ (toDev # <<>> /\ toDev' = Tail(toDev) /\ toDev' # toDev)
    BY DeviceAlone
  <1>3. toDev' # toDev => PacketAt(Head(toDev), h, a)
    <2>1. toDev # <<>> => Head(toDev) = toDev[1] /\ 1 \in 1 .. Len(toDev)
      BY OnLine, TailOf
    <2> QED
      BY <1>1, <1>2, <2>1 DEF Session, LineAt
  <1>4. InStep(h, a)
    BY <1>1, <1>3 DEF InStep, Session
  <1>5. Onward(h, a) /\ Fine'
    BY <1>4, DeviceOnward
  <1>6. Session(h, a)'
    <2>1. LineAt(h, a, Len(toDev))'
      <3>1. PICK n \in 0 .. Len(toDev) : n = Len(toDev)
        BY OnLine
      <3>2. n \in Nat /\ LineAt(h, a, n)
        BY <1>1, <3>1 DEF Session
      <3>3. /\ toDev' = toDev => LineAt(h, a, n)' /\ Len(toDev') = n
            /\ toDev' # toDev => (n >= 1 => LineAt(h, a, n - 1)') /\ Len(toDev') = n - 1 /\ Len(toDev') \in Nat
        BY <1>2, <1>4, <1>5, <3>1, <3>2, LineGoes
      <3>4. CASE toDev' = toDev
        BY <3>3, <3>4 DEF LineAt
      <3>5. CASE toDev' # toDev
        <4>1. n >= 1
          BY <3>2, <3>3, <3>5
        <4> QED
          BY <3>3, <3>5, <4>1 DEF LineAt
      <3> QED
        BY <3>4, <3>5
    <2>2. \A i \in 1 .. Len(toHost) : Heeded(i) => \E r : r = toHost[i] /\ AnswerAt(r, h, a)'
      BY <1>1, <1>5 DEF Session, Onward, Keeps
    <2>3. \A i \in 1 .. Len(toHost') : Heeded(i)' => \E r : r = toHost'[i] /\ AnswerAt(r, h, a)'
      <3>1. CASE toHost' = toHost
        <4>1. \A i : Heeded(i)' <=> Heeded(i)
          BY <1>2, <3>1 DEF Heeded, IsEcho
        <4> QED
          BY <2>2, <3>1, <4>1
      <3>2. CASE toHost' # toHost
        <4>1. PICK e : Sends(e, h, a)
          BY <1>5, <3>2 DEF Onward, Replies
        <4>2. /\ Len(toHost) \in Nat /\ Len(toHost') = Len(toHost) + 1 /\ toHost'[Len(toHost) + 1] = e
              /\ \A i \in 1 .. Len(toHost) : toHost'[i] = toHost[i]
          BY <4>1, OnLine, AppendOf DEF Sends
        <4>3. ASSUME NEW i \in 1 .. Len(toHost), Heeded(i)'
              PROVE  Heeded(i)
          <5>1. \A j \in 1 .. i - 1 : j \in 1 .. Len(toHost)
            BY <4>2
          <5> QED
            BY <1>2, <4>2, <4>3, <5>1 DEF Heeded, IsEcho
        <4>4. \A i \in 1 .. Len(toHost') : i \in 1 .. Len(toHost) \/ i = Len(toHost) + 1
          BY <4>2
        <4>5. AnswerAt(e, h, a)'
          BY <4>1 DEF Sends
        <4> QED
          BY <2>2, <4>2, <4>3, <4>4, <4>5
      <3> QED
        BY <3>1, <3>2
    <2>4. \A i \in 1 .. Len(toHost') : Heeded(i)' => AnswerAt(toHost[i], h, a)'
      BY <2>3 DEF AnswerAt, Passes
    <2>5. Place(h, a)' /\ DeviceAt(h, a)'
      BY <1>1, <1>2, <1>5 DEF Place, Onward
    <2> QED
      BY <2>1, <2>4, <2>5 DEF Session
  <1>7. Asks'
    <2>1. ASSUME phase \in {"feed", "read"}
          PROVE  index' = hidx /\ (phase = "read" /\ pc' = "dump" => got <= num' + 1)
      <3>1. hidx >= 2 /\ index = hidx /\ h = hidx
        BY <1>1, <2>1 DEF InSession, Asks
      <3>2. index' <= h
        BY <1>5 DEF Onward, DeviceAt
      <3>3. index' = h
        BY <1>1, <1>3, <1>5, <3>1, <3>2, IndexGoes DEF Onward
      <3>4. phase = "read" /\ pc' = "dump" => got <= num' + 1
        <4>1. ASSUME phase = "read", pc' = "dump"
              PROVE  got <= num' + 1
          <5>1. pc = "dump" /\ num <= num' /\ got <= num + 1
            BY <1>1, <1>5, <3>1, <4>1 DEF Onward, Dumps, InSession, Asks
          <5>2. num \in Nat /\ num' \in Nat /\ got \in Nat
            BY DEF IInv, DeviceTypes, HostTypes
          <5>3. \A x, y, z \in Nat : x <= y + 1 /\ y <= z => x <= z + 1
            OBVIOUS
          <5> QED
            BY <5>1, <5>2, <5>3
        <4> QED
          BY <4>1
      <3> QED
        BY <3>1, <3>3, <3>4
    <2> QED
      BY <1>2, <2>1 DEF InSession, Asks
  <1>8. aborts' = 0 => InTurn'
    <2>1. Replies(h, a) /\ Indexed
      BY <1>5 DEF Onward
    <2> QED
      BY <1>2, <2>1, TurnGoes DEF InSession
  <1>9. h = AtLeast(hidx', 1) /\ a = AtLeast(at', 2)
    BY <1>1, <1>2
  <1> QED
    BY <1>5, <1>6, <1>7, <1>8, <1>9 DEF InSession
------------------------------------------------------------------------------
(* A session goes on: the host's steps, and the line's. *)

LEMMA HostSends ==
  ASSUME BootAssumption, SoundScripts, IInv, IInv', InSession, HostSend \/ HostRequest
  PROVE  InSession'
  <1>1. PICK h, a : /\ h = AtLeast(hidx, 1) /\ a = AtLeast(at, 2) /\ Session(h, a)
                    /\ h \in Nat /\ h >= 1 /\ a \in Nat /\ at \in Nat /\ hidx \in Nat /\ Place(h, a)
                    /\ hidx >= 1 => h = hidx
                    /\ hidx = 0 => h = 1
                    /\ hidx >= 1 => a = at
    BY WhereItIs
  <1>2. /\ UNCHANGED <<script, at, hidx, phase, got, toHost, aborts, crashes>> /\ UNCHANGED device
        /\ UNCHANGED <<pc, index, num>>
    BY DEF HostSend, HostRequest, Idle, host, bounds, device
  <1>3. PICK p : /\ toDev' = Append(toDev, p)
                 /\ \/ p = Command(hidx, at)
                    \/ p = Block(hidx, got + 1)
                    \/ phase \in {"feed", "read"} /\ p = Request(hidx, got)
    BY DEF HostSend, HostRequest, Current
  <1>4. /\ index \in Nat /\ got \in Nat /\ p.index = hidx /\ p.type # "spoilt" /\ (hidx <= 1 => at = hidx + 1) /\ (hidx >= 2 => at >= 2)
        /\ p.type = "command" => p.num = at
        /\ p.type = "request" => phase \in {"feed", "read"} /\ p.num = got
        /\ p.type \in {"command", "data", "request"}
    <2>1. index \in Nat /\ got \in Nat
      BY DEF IInv, DeviceTypes, HostTypes
    <2>2. (hidx <= 1 => at = hidx + 1) /\ (hidx >= 2 => at >= 2)
      BY DEF InSession, Asks
    <2>3. CASE p = Command(hidx, at)
      BY <2>1, <2>2, <2>3 DEF Command
    <2>4. CASE p = Block(hidx, got + 1)
      BY <2>1, <2>2, <2>4 DEF Block
    <2>5. CASE phase \in {"feed", "read"} /\ p = Request(hidx, got)
      BY <2>1, <2>2, <2>5 DEF Request
    <2> QED
      BY <1>3, <2>3, <2>4, <2>5
  <1>5. index <= h /\ (h >= 3 => index >= h - 1)
    BY <1>1 DEF Session, DeviceAt
  <1>6. PacketAt(p, h, a)
    <2>1. p.index <= h /\ (index >= 2 => p.index >= index)
      BY <1>1, <1>4, <1>5
    <2>2. p.type = "command" =>
            /\ p.index <= 1 => p.num = p.index + 1
            /\ p.index >= 2 => p.num >= 2 /\ (p.index = h => p.num = a)
      BY <1>1, <1>4
    <2>3. ASSUME p.type = "request"
          PROVE  p.index >= 2 /\ index = h /\ (pc = "dump" => p.num <= num + 1)
      <3>1. hidx >= 2 /\ index = hidx /\ h = hidx /\ a = at
        BY <1>1, <1>4, <2>3 DEF InSession, Asks
      <3>2. ASSUME pc = "dump"
            PROVE  phase = "read"
        <4>1. AtWork(a)
          BY <1>1, <3>1 DEF Session, DeviceAt
        <4>2. script[at].op = "dump"
          BY <3>1, <3>2, <4>1 DEF AtWork
        <4> QED
          BY <1>4, <2>3, <4>2 DEF InSession, Asks, Loads
      <3> QED
        BY <1>4, <2>3, <3>1, <3>2 DEF InSession, Asks
    <2> QED
      BY <2>1, <2>2, <2>3 DEF PacketAt
  <1>7. \A i \in 1 .. Len(toDev) : toDev[i].type # "spoilt" /\ p.type # "spoilt" /\ toDev[i].index >= 2 => toDev[i].index <= p.index
    <2>1. ASSUME NEW i \in 1 .. Len(toDev), toDev[i].type # "spoilt", toDev[i].index >= 2
          PROVE  toDev[i].index <= p.index
      <3>1. toDev[i].index <= h /\ toDev[i].index \in Nat
        BY <1>1, <2>1, OnLine DEF Session, LineAt, PacketAt
      <3> QED
        BY <1>1, <1>4, <2>1, <3>1
    <2> QED
      BY <2>1
  <1>8. /\ LineAt(h, a, Len(toDev))' /\ Len(toDev') = Len(toDev) + 1 /\ toDev'[Len(toDev')] = p /\ Len(toDev) \in Nat
        /\ \A i \in 1 .. Len(toDev) : toDev'[i] = toDev[i]
    <2>1. LineAt(h, a, Len(toDev)) /\ Len(toDev) \in Nat
      BY <1>1, OnLine DEF Session
    <2> QED
      BY <1>2, <1>3, <1>6, <1>7, <2>1, LineAdds
  <1>9. Session(h, a)'
    <2>1. Later(toHost, toHost', 0) /\ \A i \in 1 .. Len(toHost') : Heeded(i)' => Heeded(i + 0)
      <3>1. Later(toHost, toHost', 0)
        BY <1>2, OnLine, LaterSame
      <3> QED
        BY <1>2, <3>1, HeededLater
    <2> QED
      BY <1>1, <1>2, <1>8, <2>1, SessionStays
  <1>10. Asks'
    BY <1>2 DEF InSession, Asks
  <1>11. aborts' = 0 => InTurn'
    <2>1. ASSUME aborts' = 0
          PROVE  InTurn'
      <3>1. InTurn
        BY <1>2, <2>1 DEF InSession
      <3>2. \A i \in 1 .. Len(toDev') : (i \in 1 .. Len(toDev) /\ toDev'[i] = toDev[i]) \/ (i = Len(toDev) + 1 /\ toDev'[i] = p)
        BY <1>8
      <3>3. hidx # 0 => ~SyncPacket(p)
        BY <1>4 DEF SyncPacket
      <3>4. ASSUME NEW i \in 1 .. Len(toDev'), NEW j \in 1 .. Len(toDev'), i < j, toDev'[i].index # 0
            PROVE  ~SyncPacket(toDev'[j])
        <4>1. i \in 1 .. Len(toDev) /\ toDev'[i] = toDev[i]
          BY <1>8, <3>2, <3>4
        <4> QED
          BY <3>1, <3>2, <3>3, <3>4, <4>1 DEF InTurn
      <3>5. index' # 0 => \A j \in 1 .. Len(toDev') : ~SyncPacket(toDev'[j])
        BY <1>2, <3>1, <3>2, <3>3 DEF InTurn
      <3>6. hidx' = 0 => index' = 0 /\ \A i \in 1 .. Len(toDev') : toDev'[i].index = 0
        BY <1>2, <1>4, <3>1, <3>2 DEF InTurn
      <3> QED
        BY <1>2, <3>1, <3>4, <3>5, <3>6 DEF InTurn, SyncPacket, IsEcho
    <2> QED
      BY <2>1
  <1>12. h = AtLeast(hidx', 1) /\ a = AtLeast(at', 2)
    BY <1>1, <1>2
  <1> QED
    BY <1>9, <1>10, <1>11, <1>12 DEF InSession

\* Steps that leave the host at its command: it hears something of no account, or the
\* line loses something.
LEMMA SessionKept ==
  ASSUME BootAssumption, SoundScripts, IInv, InSession, UNCHANGED device, UNCHANGED <<crashes, script, at, hidx>>,
         aborts' = 0 => aborts = 0,
         NEW c \in {0, 1}, Later(toHost, toHost', c), Asks',
         \/ toDev' = toDev
         \/ toDev # <<>> /\ toDev' \in {Tail(toDev), <<Spoilt>> \o Tail(toDev)}
  PROVE  InSession'
  <1>1. PICK h, a : /\ h = AtLeast(hidx, 1) /\ a = AtLeast(at, 2) /\ Session(h, a) /\ Place(h, a)
    BY WhereItIs
  <1>2. PICK n \in 0 .. Len(toDev) : n = Len(toDev)
    BY OnLine
  <1>3. LineAt(h, a, n) /\ n \in Nat
    BY <1>1, <1>2 DEF Session
  <1>4. /\ LineAt(h, a, Len(toDev))'
        /\ \E e \in {0, 1} : \A i \in 1 .. Len(toDev') :
             toDev'[i] = Spoilt \/ (i + e \in 1 .. Len(toDev) /\ toDev'[i] = toDev[i + e])
    <2>1. CASE toDev' = toDev
      <3>1. LineAt(h, a, n)'
        BY <1>3, <2>1, LinePrefix
      <3>2. \A i \in 1 .. Len(toDev') : i + 0 \in 1 .. Len(toDev) /\ toDev'[i] = toDev[i + 0]
        BY <2>1
      <3> QED
        BY <1>2, <2>1, <3>1, <3>2 DEF LineAt
    <2>2. ASSUME toDev # <<>>, NEW d \in {0, 1}, toDev' = (IF d = 1 THEN Tail(toDev) ELSE <<Spoilt>> \o Tail(toDev))
          PROVE  /\ LineAt(h, a, Len(toDev))'
                 /\ \E e \in {0, 1} : \A i \in 1 .. Len(toDev') :
                      toDev'[i] = Spoilt \/ (i + e \in 1 .. Len(toDev) /\ toDev'[i] = toDev[i + e])
      <3>1. /\ Len(toDev') = Len(toDev) - d /\ Len(toDev) >= 1
            /\ n >= 1 \/ d = 0 => LineAt(h, a, n - d)' /\ n - d \in 0 .. Len(toDev')
            /\ d = 1 => \A i \in 1 .. Len(toDev') : toDev'[i] = toDev[i + 1]
            /\ d = 0 => toDev'[1] = Spoilt /\ \A i \in 2 .. Len(toDev') : toDev'[i] = toDev[i]
        BY <1>2, <1>3, <2>2, LineLoses
      <3>2. LineAt(h, a, n - d)' /\ n - d = Len(toDev')
        BY <1>2, <3>1
      <3>3. LineAt(h, a, Len(toDev))'
        BY <3>2 DEF LineAt
      <3>4. \A i \in 1 .. Len(toDev') : toDev'[i] = Spoilt \/ (i + d \in 1 .. Len(toDev) /\ toDev'[i] = toDev[i + d])
        <4>1. CASE d = 1
          BY <1>2, <1>3, <3>1, <4>1
        <4>2. CASE d = 0
          BY <1>2, <1>3, <3>1, <4>2
        <4> QED
          BY <4>1, <4>2
      <3> QED
        BY <3>3, <3>4
    <2>3. CASE toDev # <<>> /\ toDev' = Tail(toDev)
      BY <2>2, <2>3
    <2>4. CASE toDev # <<>> /\ toDev' = <<Spoilt>> \o Tail(toDev)
      BY <2>2, <2>4
    <2> QED
      BY <2>1, <2>3, <2>4
  <1>5. \A i \in 1 .. Len(toHost') : Heeded(i)' => Heeded(i + c)
    BY HeededLater
  <1>6. Session(h, a)'
    BY <1>1, <1>4, <1>5, SessionStays
  <1>7. aborts' = 0 => InTurn'
    <2>1. PICK e \in {0, 1} : \A i \in 1 .. Len(toDev') :
             toDev'[i] = Spoilt \/ (i + e \in 1 .. Len(toDev) /\ toDev'[i] = toDev[i + e])
      BY <1>4
    <2>2. index' = index
      BY DEF device
    <2> QED
      BY <2>1, <2>2, TurnStays DEF InSession
  <1>8. h = AtLeast(hidx', 1) /\ a = AtLeast(at', 2)
    BY <1>1
  <1> QED
    BY <1>6, <1>7, <1>8 DEF InSession

\* What the host hears.
LEMMA HostLearns ==
  ASSUME BootAssumption, SoundScripts, IInv, InSession, HostReceive, NEW m, m = Head(toHost)
  PROVE  \/ UNCHANGED <<at, hidx>> /\ Asks'
         \/ hidx = 0 /\ IsEcho(m) /\ hidx' = 1 /\ at' = 2 /\ phase' \notin {"feed", "read"}
         \/ /\ hidx >= 1 /\ m.index = hidx /\ at <= Len(script) /\ Passes(m, at) /\ hidx' = hidx + 1
            /\ at' = at + 1 \/ (at' = at /\ script[at].op \in {"version", "chunk", "dump"})
            /\ phase' \notin {"feed", "read"}
  <1>1. PICK h, a : /\ h = AtLeast(hidx, 1) /\ a = AtLeast(at, 2) /\ Session(h, a)
                    /\ h \in Nat /\ h >= 1 /\ a \in Nat /\ at \in Nat /\ hidx \in Nat /\ Place(h, a)
                    /\ hidx >= 1 => h = hidx
                    /\ hidx = 0 => h = 1
                    /\ hidx >= 1 => a = at
    BY WhereItIs
  <1>2. /\ UNCHANGED <<pc, index, num, script>> /\ toHost # <<>> /\ Asks
        /\ hidx <= 1 => at = hidx + 1
        /\ hidx >= 2 => at >= 2
        /\ phase \in {"feed", "read"} => hidx >= 2 /\ index = hidx
    BY DEF HostReceive, device, InSession, Asks
  <1>3. CASE Stays
    BY <1>2, <1>3 DEF Stays, Asks
  <1>4. CASE phase \notin {"done", "failed"} /\ m.index = hidx /\ (HearStatus(m) \/ HearData(m))
    <2>1. at <= Len(script) /\ at \in 1 .. Len(script) /\ Sound(script) /\ Len(script) \in Nat
      BY <1>4, TheScript DEF IInv, HostTypes
    <2>2. Cmd.op = "comtest" <=> at = 1
      BY <2>1 DEF Cmd, Sound, Opens
    <2>3. Cmd.op \in Loads \cup {"dump"} => at >= 3
      <3>1. ASSUME at = 2
            PROVE  script[2].op \notin Loads \cup {"dump"}
        <4>1. 2 \in 1 .. Len(script) /\ 2 - 1 = 1
          BY <2>1, <3>1
        <4>2. ~(Has(script, "address", 1) \/ Has(script, "chunk", 1))
          BY AtFirst DEF Has
        <4> QED
          BY <2>1, <4>1, <4>2 DEF Sound, BuildsOnce, Opens
      <3>2. Cmd.op \in Loads \cup {"dump"} => at # 1
        BY <2>2 DEF Loads
      <3> QED
        BY <2>1, <3>1, <3>2 DEF Cmd
    <2>4. 1 \in 1 .. Len(toHost) /\ m = toHost[1]
      <3> DEFINE R == Range(toHost)
      <3>1. toHost \in Seq(R)
        BY OnLine
      <3> HIDE DEF R
      <3> QED
        BY <1>2, <3>1, TailOf
    <2>5. ASSUME hidx >= 1
          PROVE  AnswerAt(m, h, a)
      BY <1>1, <2>4, <2>5 DEF Session, Heeded
    <2>6. hidx >= 2 => index = hidx
      <3>1. ASSUME hidx >= 2
            PROVE  index = hidx
        <4>1. index \in Nat /\ index <= h /\ h = hidx
          BY <1>1, <3>1 DEF Session, DeviceAt, IInv, DeviceTypes
        <4>2. m.index \in 0 .. 1 \cup 0 .. index
          BY <1>1, <2>5, <3>1 DEF AnswerAt
        <4> QED
          BY <1>4, <3>1, <4>1, <4>2
      <3> QED
        BY <3>1
    <2>7. ASSUME NextCommand, hidx >= 1, Passes(m, at)
          PROVE  /\ hidx >= 1 /\ m.index = hidx /\ at <= Len(script) /\ Passes(m, at) /\ hidx' = hidx + 1
                 /\ at' = at + 1 /\ phase' \notin {"feed", "read"}
      BY <1>4, <2>1, <2>7 DEF NextCommand
    <2>8. at # 1 => hidx >= 1
      BY <1>1, <1>2
    <2>9. CASE HearStatus(m)
      <3>1. CASE Stays
        BY <1>3, <3>1
      <3>2. CASE Fails
        BY <1>2, <3>2 DEF Fails, Asks
      <3>3. CASE NextCommand /\ m.val = "executed" /\ (Simple \/ Loading \/ Cmd.op = "burn")
        <4>1. at # 1 /\ Passes(m, at)
          BY <2>2, <2>9, <3>3 DEF HearStatus, Passes, Simple, Loading
        <4> QED
          BY <2>7, <2>8, <3>3, <4>1
      <3>4. CASE NextCommand /\ m.val = "ok" /\ Simple
        <4>1. at # 1 /\ Passes(m, at)
          BY <2>2, <2>9, <3>4 DEF HearStatus, Passes, Simple, Cmd
        <4> QED
          BY <2>7, <2>8, <3>4, <4>1
      <3>5. CASE Again /\ m.val = "executed" /\ Cmd.op \in {"version", "chunk", "dump"}
        <4>1. at # 1 /\ Passes(m, at)
          BY <2>2, <2>9, <3>5 DEF HearStatus, Passes
        <4> QED
          BY <1>4, <2>1, <2>8, <3>5, <4>1 DEF Again, Cmd
      <3>6. CASE Waits("feed", 0) /\ Loading
        <4>1. at >= 3 /\ script[at].op \in Loads
          BY <2>3, <3>6 DEF Loading, Loads, Cmd
        <4>2. hidx >= 2 /\ index = hidx
          BY <1>1, <1>2, <2>6, <4>1
        <4> QED
          BY <1>2, <3>6, <4>1, <4>2 DEF Waits, Asks
      <3>7. CASE Waits("read", 0) /\ Cmd.op = "dump"
        <4>1. hidx >= 2 /\ index = hidx
          BY <1>1, <1>2, <2>3, <2>6, <3>7
        <4>2. num \in Nat
          BY DEF IInv, DeviceTypes
        <4> QED
          BY <1>2, <3>7, <4>1, <4>2 DEF Waits, Asks
      <3>8. CASE Waits("wait", 0)
        BY <1>2, <3>8 DEF Waits, Asks
      <3>9. CASE phase = "feed" /\ Waits(IF m.num = Cmd.len THEN "wait" ELSE "feed", m.num)
        BY <1>2, <3>9 DEF Waits, Asks
      <3> QED
        BY <2>9, <3>1, <3>2, <3>3, <3>4, <3>5, <3>6, <3>7, <3>8, <3>9 DEF HearStatus
    <2>10. CASE HearData(m)
      <3>1. CASE Stays
        BY <1>3, <3>1
      <3>2. CASE Fails
        BY <1>2, <3>2 DEF Fails, Asks
      <3>3. CASE Cmd.op = "comtest" /\ m.val = "echo" /\ NextCommand
        <4>1. at = 1 /\ hidx = 0
          BY <1>1, <1>2, <2>2, <3>3
        <4> QED
          BY <1>4, <2>10, <3>3, <4>1 DEF NextCommand, IsEcho, HearData
      <3>4. CASE Cmd.op \in {"version", "chunk"} /\ NextCommand
        <4>1. at # 1 /\ Passes(m, at)
          BY <2>2, <2>10, <3>4 DEF HearData, Passes, Cmd
        <4> QED
          BY <2>7, <2>8, <3>4, <4>1
      <3>5. CASE Cmd.op = "dump" /\ phase = "read" /\ m.num = got /\ got < Cmd.len /\ Waits("read", got + 1)
        <4>1. hidx >= 2 /\ index = hidx /\ hidx >= 1
          BY <1>1, <1>2, <3>5
        <4>2. pc = "dump" => m.num \in 0 .. num
          BY <1>1, <1>4, <2>5, <2>10, <4>1 DEF AnswerAt, HearData
        <4>3. pc = "dump" => got + 1 <= num + 1
          <5>1. num \in Nat /\ got \in Nat
            BY DEF IInv, DeviceTypes, HostTypes
          <5> QED
            BY <3>5, <4>2, <5>1
        <4> QED
          BY <1>2, <3>5, <4>1, <4>3 DEF Waits, Asks
      <3>6. CASE Cmd.op = "dump" /\ phase = "read" /\ m.num = got /\ got = Cmd.len /\ NextCommand
        <4>1. at # 1 /\ Passes(m, at)
          BY <2>2, <2>10, <3>6 DEF HearData, Passes, Cmd
        <4> QED
          BY <2>7, <2>8, <3>6, <4>1
      <3>7. CASE Cmd.op = "burn" /\ m.val = "FINISH" /\ NextCommand
        <4>1. at # 1 /\ Passes(m, at)
          BY <2>2, <2>10, <3>7 DEF HearData, Passes, Cmd
        <4> QED
          BY <2>7, <2>8, <3>7, <4>1
      <3> QED
        BY <2>10, <3>1, <3>2, <3>3, <3>4, <3>5, <3>6, <3>7 DEF HearData
    <2> QED
      BY <1>4, <2>9, <2>10
  <1> QED
    BY <1>3, <1>4 DEF HostReceive

\* The host goes on to the next command, or to this one again under a new index.
LEMMA GoesOn ==
  ASSUME BootAssumption, SoundScripts, IInv, InSession, HostReceive, NEW m, m = Head(toHost), hidx >= 1, m.index = hidx,
         at <= Len(script), Passes(m, at), hidx' = hidx + 1,
         at' = at + 1 \/ (at' = at /\ script[at].op \in {"version", "chunk", "dump"}), phase' \notin {"feed", "read"}
  PROVE  InSession'
  <1>1. PICK h, a : /\ h = AtLeast(hidx, 1) /\ a = AtLeast(at, 2) /\ Session(h, a)
                    /\ h \in Nat /\ h >= 1 /\ a \in Nat /\ at \in Nat /\ hidx \in Nat /\ Place(h, a)
                    /\ hidx >= 1 => h = hidx
                    /\ hidx = 0 => h = 1
                    /\ hidx >= 1 => a = at
    BY WhereItIs
  <1>2. /\ UNCHANGED device /\ UNCHANGED <<pc, index, num, script, crashes, aborts, toDev>>
        /\ toHost # <<>> /\ toHost' = Tail(toHost) /\ h = hidx /\ a = at
    BY <1>1 DEF HostReceive, device, bounds
  <1>3. /\ toHost \in Seq(Range(toHost)) /\ Len(toHost) \in Nat /\ Later(toHost, toHost', 1)
        /\ 1 \in 1 .. Len(toHost) /\ m = toHost[1]
    <2> DEFINE R == Range(toHost)
    <2>1. toHost \in Seq(R) /\ Len(toHost) \in Nat
      BY OnLine
    <2> HIDE DEF R
    <2>2. Later(toHost, toHost', 1) /\ 1 \in 1 .. Len(toHost) /\ m = toHost[1]
      BY <1>2, <2>1, LaterTail, TailOf
    <2> QED
      BY <2>1, <2>2 DEF R
  <1>4. AnswerAt(m, h, a)
    BY <1>1, <1>3 DEF Session, Heeded
  <1>5. /\ Resting /\ Ran(a) /\ index \in Nat /\ index <= h /\ (h >= 2 => index = h)
        /\ a \in 2 .. Len(script) /\ a \in 1 .. Len(script) /\ Len(script) \in Nat
    <2>1. Resting /\ Ran(a)
      BY <1>2, <1>4 DEF AnswerAt
    <2>2. index \in Nat /\ index <= h
      BY <1>1 DEF Session, DeviceAt, IInv, DeviceTypes
    <2>3. h >= 2 => index = h
      <3>1. m.index \in 0 .. 1 \cup 0 .. index
        BY <1>4 DEF AnswerAt
      <3> QED
        BY <1>1, <1>2, <2>2, <3>1
    <2>4. a \in 2 .. Len(script) /\ a \in 1 .. Len(script) /\ Len(script) \in Nat
      BY <1>1, <1>2, PlaceIs
    <2> QED
      BY <2>1, <2>2, <2>3, <2>4
  <1>6. PICK g, b : g = h + 1 /\ b = at' /\ b \in {a, a + 1} /\ (b = a => script[a].op \in {"version", "chunk", "dump"})
    BY <1>2, <1>5
  <1>7. Ready(b)
    <2>1. CASE b = a + 1
      <3>1. b - 1 = a
        BY <1>5, <2>1
      <3> QED
        BY <1>5, <2>1, NextToRun
    <2>2. CASE b = a
      <3>1. script[a].op \in {"version", "chunk", "dump"}
        BY <1>6, <2>2
      <3>2. ImageAt(a, a) /\ StartAt(a) /\ Whole(a)
        BY <1>5 DEF Ran
      <3>3. ImageAt(a - 1, a) /\ Whole(a - 1) /\ (script[a].op # "chunk" => StartAt(a - 1))
        BY <1>5, <3>1, <3>2, OneCommand DEF Loads
      <3> QED
        BY <2>2, <3>3 DEF Ready
    <2> QED
      BY <1>6, <2>1, <2>2
  <1>8. Place(g, b)
    <2>1. h = 1 => a = 2
      BY <1>1 DEF Place
    <2>2. g \in Nat \ {0} /\ g >= 2 /\ b \in 2 .. Len(script) + 1
      BY <1>1, <1>5, <1>6
    <2>3. g = 2 => b <= 3
      BY <1>1, <1>6, <2>1
    <2> QED
      BY <2>2, <2>3 DEF Place
  <1>9. DeviceAt(g, b)
    BY <1>1, <1>5, <1>6, <1>7 DEF DeviceAt
  <1>10. ASSUME NEW p, p.index \in Nat, PacketAt(p, h, a)
         PROVE  PacketAt(p, g, b)
    <2>1. p.type # "spoilt" => p.index <= g /\ p.index # g /\ (p.type = "request" => h # 1)
      BY <1>1, <1>6, <1>10 DEF PacketAt
    <2> QED
      BY <1>10, <2>1 DEF PacketAt
  <1>11. LineAt(g, b, Len(toDev))
    BY <1>1, <1>10, OnLine DEF Session, LineAt
  <1>12. ASSUME NEW i \in 1 .. Len(toHost)
         PROVE  AnswerAt(toHost[i], g, b)
    <2>1. AnswerAt(toHost[i], h, a)
      BY <1>1 DEF Session, Heeded
    <2>2. toHost[i].index \in 0 .. 1 \cup 0 .. index /\ toHost[i].index # g
      BY <1>1, <1>5, <1>6, <2>1 DEF AnswerAt
    <2> QED
      BY <2>2 DEF AnswerAt
  <1>13. Session(g, b)'
    <2>1. Place(g, b)' /\ DeviceAt(g, b)'
      BY <1>2, <1>8, <1>9, DeviceStays DEF Place
    <2>2. LineAt(g, b, Len(toDev))'
      <3>1. PICK n : n = Len(toDev)
        OBVIOUS
      <3>2. LineAt(g, b, n)'
        BY <1>2, <1>11, <3>1, LinePrefix
      <3> QED
        BY <1>2, <3>1, <3>2 DEF LineAt
    <2>3. \A i \in 1 .. Len(toHost') : \E r : r = toHost'[i] /\ AnswerAt(r, g, b)'
      <3>1. \A r : AnswerAt(r, g, b) => AnswerAt(r, g, b)'
        BY <1>2, DeviceStays DEF Keeps
      <3> QED
        BY <1>3, <1>12, <3>1 DEF Later
    <2>4. \A i \in 1 .. Len(toHost') : AnswerAt(toHost[i], g, b)'
      BY <2>3 DEF AnswerAt, Passes
    <2> QED
      BY <2>1, <2>2, <2>4 DEF Session
  <1>14. Asks'
    <2>1. hidx' >= 2 /\ at' >= 2
      BY <1>1, <1>5, <1>6
    <2>2. hidx' <= 1 => at' = hidx' + 1
      BY <1>1, <2>1
    <2> QED
      BY <2>1, <2>2 DEF Asks
  <1>15. aborts' = 0 => InTurn'
    <2>1. ASSUME aborts' = 0
          PROVE  InTurn'
      <3>1. InTurn
        BY <1>2, <2>1 DEF InSession
      <3>2. m.index # 0 /\ hidx # 0
        BY <1>1
      <3>3. index # 0
        BY <1>3, <3>1, <3>2 DEF InTurn
      <3>4. \A i \in 1 .. Len(toHost') : i + 1 \in 1 .. Len(toHost) /\ toHost'[i] = toHost[i + 1] /\ i \in Nat
        BY <1>3 DEF Later
      <3>5. \A i \in 1 .. Len(toHost') : ~IsEcho(toHost'[i])
        BY <1>3, <3>1, <3>2, <3>4 DEF InTurn
      <3>6. hidx' # 0
        BY <1>1
      <3> QED
        BY <1>2, <3>1, <3>3, <3>5, <3>6 DEF InTurn, SyncPacket, IsEcho
    <2> QED
      BY <2>1
  <1>16. g = AtLeast(hidx', 1) /\ b = AtLeast(at', 2)
    <2>1. hidx' \in Nat /\ ~(hidx' < 1) /\ g = hidx'
      BY <1>1, <1>2, <1>6
    <2>2. at' \in Nat /\ ~(at' < 2) /\ b = at'
      BY <1>5, <1>6
    <2> QED
      BY <2>1, <2>2 DEF AtLeast
  <1> QED
    BY <1>13, <1>14, <1>15, <1>16 DEF InSession

\* The echo comes.
LEMMA Echoed ==
  ASSUME BootAssumption, SoundScripts, IInv, InSession, HostReceive, NEW m, m = Head(toHost), hidx = 0, IsEcho(m), hidx' = 1, at' = 2,
         phase' \notin {"feed", "read"}
  PROVE  InSession'
  <1>1. PICK h, a : /\ h = AtLeast(hidx, 1) /\ a = AtLeast(at, 2) /\ Session(h, a) /\ Place(h, a)
    BY WhereItIs
  <1>2. /\ UNCHANGED device /\ UNCHANGED <<pc, index, num, script, crashes, aborts, toDev>>
        /\ toHost # <<>> /\ toHost' = Tail(toHost)
    BY <1>1 DEF HostReceive, device, bounds
  <1>3. h = 1 /\ a = 2 /\ h = AtLeast(hidx', 1) /\ a = AtLeast(at', 2)
    BY <1>1 DEF AtLeast, InSession, Asks
  <1>4. Later(toHost, toHost', 1) /\ 1 \in 1 .. Len(toHost) /\ m = toHost[1] /\ Len(toHost) \in Nat
    <2> DEFINE R == Range(toHost)
    <2>1. toHost \in Seq(R) /\ Len(toHost) \in Nat
      BY OnLine
    <2> HIDE DEF R
    <2> QED
      BY <1>2, <2>1, LaterTail, TailOf
  <1>5. \A i \in 1 .. Len(toHost') : Heeded(i + 1)
    <2>1. ASSUME NEW i \in 1 .. Len(toHost')
          PROVE  Heeded(i + 1)
      <3>1. 1 \in 1 .. (i + 1) - 1
        OBVIOUS
      <3> QED
        BY <1>4, <3>1 DEF Heeded
    <2> QED
      BY <2>1
  <1>6. LineAt(h, a, Len(toDev))'
    <2>1. PICK n : n = Len(toDev)
      OBVIOUS
    <2>2. LineAt(h, a, n)'
      BY <1>1, <1>2, <2>1, LinePrefix DEF Session
    <2> QED
      BY <1>2, <2>1, <2>2 DEF LineAt
  <1>7. Session(h, a)'
    BY <1>1, <1>2, <1>4, <1>5, <1>6, SessionStays
  <1>8. Asks'
    BY DEF Asks
  <1>9. aborts' = 0 => InTurn'
    <2>1. ASSUME aborts' = 0
          PROVE  InTurn'
      <3>1. InTurn
        BY <1>2, <2>1 DEF InSession
      <3>2. \A i \in 1 .. Len(toHost') : i + 1 \in 1 .. Len(toHost) /\ toHost'[i] = toHost[i + 1] /\ i \in Nat
        BY <1>4 DEF Later
      <3>3. \A i, j \in 1 .. Len(toHost') : i < j /\ toHost'[i].index # 0 => ~IsEcho(toHost'[j])
        <4>1. ASSUME NEW i \in 1 .. Len(toHost'), NEW j \in 1 .. Len(toHost'), i < j, toHost'[i].index # 0
              PROVE  ~IsEcho(toHost'[j])
          BY <3>1, <3>2, <4>1 DEF InTurn
        <4> QED
          BY <4>1
      <3>4. (\E i \in 1 .. Len(toHost') : toHost'[i].index # 0) => index # 0
        BY <3>1, <3>2 DEF InTurn
      <3> QED
        BY <1>2, <3>1, <3>3, <3>4 DEF InTurn, SyncPacket, IsEcho
    <2> QED
      BY <2>1
  <1> QED
    BY <1>3, <1>7, <1>8, <1>9 DEF InSession

LEMMA HostHearsOn ==
  ASSUME BootAssumption, SoundScripts, IInv, InSession, HostReceive
  PROVE  InSession'
  <1>1. PICK m : m = Head(toHost)
    OBVIOUS
  <1>2. CASE UNCHANGED <<at, hidx>> /\ Asks'
    <2>1. /\ UNCHANGED device /\ UNCHANGED <<script, crashes, aborts, toDev>> /\ toHost # <<>> /\ toHost' = Tail(toHost)
      BY DEF HostReceive, bounds
    <2>2. Later(toHost, toHost', 1)
      <3> DEFINE R == Range(toHost)
      <3>1. toHost \in Seq(R)
        BY OnLine
      <3> HIDE DEF R
      <3> QED
        BY <2>1, <3>1, LaterTail
    <2> QED
      BY <1>2, <2>1, <2>2, SessionKept
  <1> QED
    BY <1>1, <1>2, HostLearns, Echoed, GoesOn

\* The host starts over: the device is left in the session, unless it has run nothing yet.
LEMMA HostStops ==
  ASSUME BootAssumption, SoundScripts, SoundKey, MaxAborts <= 1, IInv, IInv', Fine, InSession, HostAbort
  PROVE  InSession' \/ LeftOver'
  <1>1. PICK h, a : /\ h = AtLeast(hidx, 1) /\ a = AtLeast(at, 2) /\ Session(h, a)
                    /\ h \in Nat /\ h >= 1 /\ a \in Nat /\ at \in Nat /\ hidx \in Nat /\ Place(h, a)
                    /\ hidx >= 1 => h = hidx
                    /\ hidx = 0 => h = 1
                    /\ hidx >= 1 => a = at
    BY WhereItIs
  <1>2. /\ UNCHANGED device /\ UNCHANGED <<pc, index, num, script, crashes, toHost>>
        /\ at > 1 /\ aborts' = aborts + 1 /\ aborts < MaxAborts /\ at' = 1 /\ hidx' = 0 /\ phase' = "ask"
        /\ toDev' = toDev \/ toDev' = Append(toDev, Cancel(hidx))
    BY DEF HostAbort, Restart, device
  <1>3. aborts = 0 /\ InTurn /\ hidx >= 1 /\ h = hidx /\ a = at
    <2>1. aborts \in Nat /\ MaxAborts \in Nat
      BY DEF Fine, Counts, BootAssumption
    <2>2. aborts = 0
      BY <1>2, <2>1
    <2>3. hidx # 0
      BY <1>1, <1>2 DEF InSession, Asks
    <2> QED
      BY <1>1, <2>2, <2>3 DEF InSession
  <1>4. /\ LineAt(h, a, Len(toDev))' /\ Len(toDev') \in Nat
        /\ \A i \in 1 .. Len(toDev') : (i \in 1 .. Len(toDev) /\ toDev'[i] = toDev[i]) \/ toDev'[i] = Cancel(hidx)
    <2>1. LineAt(h, a, Len(toDev)) /\ Len(toDev) \in Nat /\ index <= h /\ index \in Nat
      BY <1>1, OnLine DEF Session, DeviceAt, IInv, DeviceTypes
    <2>2. CASE toDev' = toDev
      <3>1. PICK n : n = Len(toDev)
        OBVIOUS
      <3>2. LineAt(h, a, n)'
        BY <1>2, <2>1, <2>2, <3>1, LinePrefix
      <3> QED
        BY <2>1, <2>2, <3>1, <3>2 DEF LineAt
    <2>3. CASE toDev' = Append(toDev, Cancel(hidx))
      <3>1. PICK p : p = Cancel(hidx)
        OBVIOUS
      <3>2. p.index = h /\ p.type = "cancel"
        BY <1>3, <3>1 DEF Cancel
      <3>3. PacketAt(p, h, a)
        BY <1>1, <2>1, <3>2 DEF PacketAt
      <3>4. \A i \in 1 .. Len(toDev) : toDev[i].type # "spoilt" /\ p.type # "spoilt" /\ toDev[i].index >= 2 => toDev[i].index <= p.index
        BY <2>1, <3>2 DEF LineAt, PacketAt
      <3>5. /\ LineAt(h, a, Len(toDev))' /\ Len(toDev') = Len(toDev) + 1 /\ toDev'[Len(toDev')] = p
            /\ \A i \in 1 .. Len(toDev) : toDev'[i] = toDev[i]
        BY <1>2, <2>1, <2>3, <3>1, <3>3, <3>4, LineAdds
      <3>6. \A i \in 1 .. Len(toDev') : i \in 1 .. Len(toDev) \/ i = Len(toDev')
        BY <2>1, <3>5
      <3> QED
        BY <2>1, <3>1, <3>5, <3>6
    <2> QED
      BY <1>2, <2>2, <2>3
  <1>5. CASE hidx = 1
    <2>1. a = 2 /\ h = 1
      BY <1>1, <1>3, <1>5 DEF InSession, Asks
    <2>2. h = AtLeast(hidx', 1) /\ a = AtLeast(at', 2)
      BY <1>2, <2>1 DEF AtLeast
    <2>3. Later(toHost, toHost', 0) /\ \A i \in 1 .. Len(toHost') : Heeded(i)' => Heeded(i + 0)
      <3>1. Later(toHost, toHost', 0)
        BY <1>2, OnLine, LaterSame
      <3>2. \A i : Heeded(i)
        BY <1>3 DEF Heeded
      <3> QED
        BY <3>1, <3>2
    <2>4. Session(h, a)'
      BY <1>1, <1>2, <1>4, <2>3, SessionStays
    <2>5. Asks' /\ aborts' # 0
      BY <1>2, <1>3 DEF Asks
    <2> QED
      BY <2>2, <2>4, <2>5 DEF InSession
  <1>6. CASE hidx >= 2
    <2>1. PICK n \in Nat : n = Len(toDev')
      BY <1>4
    <2>2. Former(h, a, n)'
      <3>1. Place(h, a)' /\ DeviceAt(h, a)'
        BY <1>1, <1>2, DeviceStays DEF Place, Session
      <3>2. LineAt(h, a, n)'
        BY <1>4, <2>1 DEF LineAt
      <3>3. \A i \in 1 .. n : ~SyncPacket(toDev'[i])
        <4>1. ~SyncPacket(Cancel(hidx))
          BY DEF SyncPacket, Cancel
        <4>2. \A i \in 1 .. Len(toDev) : ~SyncPacket(toDev[i])
          BY <1>3, <1>6 DEF InTurn
        <4> QED
          BY <1>4, <2>1, <4>1, <4>2
      <3>4. n \in 0 .. Len(toDev')
        BY <2>1
      <3> QED
        BY <1>3, <1>6, <3>1, <3>2, <3>3, <3>4 DEF Former, SyncPacket
    <2>3. OnlySync(n)'
      BY <2>1 DEF OnlySync
    <2>4. StartsOver'
      <3>1. \A i \in 1 .. Len(toHost') : ~IsEcho(toHost'[i])
        BY <1>2, <1>3, <1>6 DEF InTurn
      <3>2. aborts' >= 1
        BY <1>2, <1>3
      <3> QED
        BY <1>2, <3>1, <3>2 DEF StartsOver, IsEcho
    <2> QED
      BY <1>1, <2>1, <2>2, <2>3, <2>4 DEF LeftOver
  <1> QED
    BY <1>1, <1>3, <1>5, <1>6

\* The host gives up, or the line loses something, or nothing happens.
LEMMA SessionLoses ==
  ASSUME BootAssumption, SoundScripts, IInv, InSession, HostGivesUp \/ LoseToDev \/ LoseToHost \/ UNCHANGED vars
  PROVE  InSession'
  <1>1. UNCHANGED device /\ UNCHANGED <<crashes, script, at, hidx, got, aborts, pc, index, num>>
    BY DEF HostGivesUp, LoseToDev, LoseToHost, Idle, device, host, bounds, vars
  <1>2. Asks'
    <2>1. phase' = phase \/ phase' \in {"done", "failed"}
      BY DEF HostGivesUp, LoseToDev, LoseToHost, host, vars
    <2> QED
      BY <1>1, <2>1 DEF InSession, Asks
  <1>3. \E c \in {0, 1} : Later(toHost, toHost', c)
    <2> DEFINE R == Range(toHost)
    <2>1. toHost \in Seq(R) /\ Len(toHost) \in Nat
      BY OnLine
    <2> HIDE DEF R
    <2>2. toHost' = toHost \/ (toHost # <<>> /\ toHost' = Tail(toHost))
      BY DEF HostGivesUp, LoseToDev, LoseToHost, Idle, vars
    <2> QED
      BY <2>1, <2>2, LaterSame, LaterTail
  <1>4. \/ toDev' = toDev
        \/ toDev # <<>> /\ toDev' \in {Tail(toDev), <<Spoilt>> \o Tail(toDev)}
    BY DEF HostGivesUp, LoseToDev, LoseToHost, vars
  <1>5. aborts' = 0 => aborts = 0
    BY <1>1
  <1> QED
    BY <1>1, <1>2, <1>3, <1>4, <1>5, SessionKept

\* A host that has begun: what it heard burnt is burnt.
LEMMA HeardBurnt ==
  ASSUME SoundScripts, IInv, InSession \/ LeftOver \/ Over
  PROVE  Whole(at - 1)
  <1>1. CASE InSession
    <2>1. PICK h, a : /\ h = AtLeast(hidx, 1) /\ a = AtLeast(at, 2) /\ Session(h, a)
                      /\ h \in Nat /\ h >= 1 /\ a \in Nat /\ at \in Nat /\ hidx \in Nat /\ Place(h, a)
                      /\ hidx >= 1 => h = hidx
                      /\ hidx = 0 => h = 1
                      /\ hidx >= 1 => a = at
      BY <1>1, WhereItIs
    <2>2. CASE hidx <= 1
      <3>1. at - 1 = 0 \/ at - 1 = 1
        BY <1>1, <2>1, <2>2 DEF InSession, Asks
      <3> QED
        BY <3>1, AtFirst
    <2>3. CASE hidx >= 2
      <3>1. DeviceAt(h, a) /\ index <= h /\ index \in Nat /\ h >= 2 /\ a = at
        BY <2>1, <2>3 DEF Session, DeviceAt, IInv, DeviceTypes
      <3>2. CASE index < h
        BY <3>1, <3>2 DEF DeviceAt, Ready
      <3>3. CASE index = h
        <4>1. AtWork(a) /\ a \in 1 .. Len(script)
          <5>1. AtWork(a)
            BY <3>1, <3>3 DEF DeviceAt
          <5> QED
            BY <2>1, <5>1, PlaceIs DEF AtWork
        <4>2. Whole(a) \/ Whole(a - 1)
          BY <4>1 DEF AtWork, Ran, Ready, Resting
        <4> QED
          BY <3>1, <4>1, <4>2, OneCommand
      <3> QED
        BY <2>1, <3>1, <3>2, <3>3
    <2> QED
      BY <2>1, <2>2, <2>3
  <1>2. CASE LeftOver
    <2>1. at - 1 = 0
      BY <1>2 DEF LeftOver, StartsOver
    <2> QED
      BY <2>1, AtFirst
  <1>3. CASE Over
    BY <1>3 DEF Over
  <1> QED
    BY <1>1, <1>2, <1>3

\* Nothing the host heard burnt is in a sector being copied.
LEMMA CopyUnheard ==
  ASSUME SoundScripts, IInv, InSession \/ LeftOver \/ Over, pc = "copy"
  PROVE  ~Has(script, "burn", at - 1)
  <1>1. CASE InSession
    <2>1. PICK h, a : /\ h = AtLeast(hidx, 1) /\ a = AtLeast(at, 2) /\ Session(h, a)
                      /\ h \in Nat /\ h >= 1 /\ a \in Nat /\ at \in Nat /\ hidx \in Nat /\ Place(h, a)
                      /\ hidx >= 1 => h = hidx
                      /\ hidx = 0 => h = 1
                      /\ hidx >= 1 => a = at
      BY <1>1, WhereItIs
    <2>2. CASE hidx <= 1
      <3>1. at - 1 = 0 \/ at - 1 = 1
        BY <1>1, <2>1, <2>2 DEF InSession, Asks
      <3> QED
        BY <3>1, AtFirst
    <2>3. CASE hidx >= 2
      <3>1. index <= h /\ index \in Nat /\ h >= 2 /\ a = at /\ ~Resting /\ Burning
        BY <2>1, <2>3 DEF Session, DeviceAt, IInv, DeviceTypes, Resting, Burning
      <3>2. index = h
        BY <2>1, <3>1 DEF Session, DeviceAt
      <3>3. AtWork(a)
        BY <2>1, <3>1, <3>2 DEF Session, DeviceAt
      <3>4. a \in 1 .. Len(script) /\ script[a].op = "burn"
        BY <2>1, <3>1, <3>3, PlaceIs DEF AtWork
      <3> QED
        BY <3>1, <3>4, OneBurn
    <2> QED
      BY <2>1, <2>2, <2>3
  <1>2. CASE LeftOver
    <2>1. at - 1 = 0
      BY <1>2 DEF LeftOver, StartsOver
    <2> QED
      BY <2>1, AtFirst
  <1>3. CASE Over
    BY <1>3 DEF Over
  <1> QED
    BY <1>1, <1>2, <1>3

\* Power fails: host and device begin again, or the host has ended.
LEMMA PowerOff ==
  ASSUME BootAssumption, SoundScripts, HostSees = TRUE, IInv, IInv', Fine, InSession \/ LeftOver \/ Over, PowerFail
  PROVE  InSession' \/ Over'
  <1>1. /\ pc' = "shell" /\ index' = 0 /\ toDev' = <<>> /\ toHost' = <<>> /\ script' = script /\ bad' = bad
        /\ crashes' = crashes + 1 /\ (pc # "copy" => flash' = flash)
    BY DEF PowerFail, Restart, host
  <1>2. CASE phase \in {"done", "failed"}
    <2>1. UNCHANGED <<at, phase>>
      BY <1>2 DEF PowerFail, host
    <2>2. Whole(at - 1)'
      <3>1. PICK k : k = at - 1
        OBVIOUS
      <3>2. Whole(k)'
        <4>1. CASE pc = "copy"
          <5>1. ~Has(script, "burn", k)
            BY <3>1, <4>1, CopyUnheard
          <5> QED
            BY <1>1, <5>1 DEF Whole, Has
        <4>2. CASE pc # "copy"
          <5>1. Whole(k)
            BY <3>1, HeardBurnt
          <5>2. ASSUME Has(script, "burn", k), NEW b \in Blocks
                PROVE  Intended(b)'
            <6>1. Intended(b)
              BY <5>1, <5>2 DEF Whole
            <6>2. Hurt => Hurt'
              BY <1>1 DEF Hurt, Fine, Counts
            <6> QED
              BY <1>1, <4>2, <6>1, <6>2, Fixed DEF Intended
          <5> QED
            BY <1>1, <5>2 DEF Whole, Has
        <4> QED
          BY <4>1, <4>2
      <3> QED
        BY <2>1, <3>1, <3>2 DEF Whole
    <2> QED
      BY <1>1, <1>2, <2>1, <2>2 DEF Over
  <1>3. CASE phase \notin {"done", "failed"}
    <2>1. at' = 1 /\ hidx' = 0 /\ phase' = "ask" /\ got' = 0
      BY <1>3 DEF PowerFail, Restart
    <2>2. AtLeast(hidx', 1) = 1 /\ AtLeast(at', 2) = 2
      BY <2>1 DEF AtLeast
    <2>3. Place(1, 2)' /\ DeviceAt(1, 2)'
      <3>1. Len(script') \in Nat /\ Len(script') >= 1
        BY <1>1, TheScript
      <3> QED
        BY <1>1, <3>1 DEF Place, DeviceAt, Resting
    <2>4. LineAt(1, 2, Len(toDev))'
      BY <1>1 DEF LineAt
    <2>5. Session(1, 2)'
      BY <1>1, <2>3, <2>4 DEF Session
    <2>6. Asks' /\ InTurn'
      BY <1>1, <2>1 DEF Asks, InTurn
    <2> QED
      BY <2>2, <2>5, <2>6 DEF InSession
  <1> QED
    BY <1>2, <1>3
------------------------------------------------------------------------------
(* The host has started over before the device knows. *)

\* The device hears the comtest it was sent: they are in a session again.
LEMMA Heard ==
  ASSUME BootAssumption, SoundScripts, IInv, IInv', StartsOver, pc' = "shell", index' = 0,
         UNCHANGED <<script, at, hidx, phase, got, aborts, crashes>>, toHost' = Append(toHost, Data(0, 0, "echo")), OnlySync(0)'
  PROVE  InSession'
  <1>1. AtLeast(hidx', 1) = 1 /\ AtLeast(at', 2) = 2
    BY DEF AtLeast, StartsOver
  <1>2. Place(1, 2)' /\ DeviceAt(1, 2)'
    <2>1. Len(script') \in Nat /\ Len(script') >= 1
      BY TheScript
    <2> QED
      BY <2>1 DEF Place, DeviceAt, Resting
  <1>3. LineAt(1, 2, Len(toDev))'
    <2>1. \A i \in 1 .. Len(toDev') :
            toDev'[i].type # "spoilt" => toDev'[i].type = "command" /\ toDev'[i].index = 0 /\ toDev'[i].num = 1
      BY DEF OnlySync, SyncPacket
    <2>2. \A i \in 1 .. Len(toDev') : PacketAt(toDev[i], 1, 2)'
      BY <2>1 DEF PacketAt
    <2> QED
      BY <2>1, <2>2 DEF LineAt
  <1>4. ASSUME NEW i \in 1 .. Len(toHost')
        PROVE  ~Heeded(i)'
    <2>1. /\ Len(toHost) \in Nat /\ Len(toHost') = Len(toHost) + 1
          /\ \A j \in 1 .. Len(toHost) : toHost'[j] = toHost[j]
      BY OnLine, AppendOf
    <2>2. \A j \in 1 .. i - 1 : j \in 1 .. Len(toHost) /\ ~IsEcho(toHost'[j])
      BY <2>1 DEF StartsOver
    <2>3. hidx' = 0
      BY DEF StartsOver
    <2> QED
      BY <2>2, <2>3 DEF Heeded, IsEcho
  <1>5. Session(1, 2)'
    BY <1>2, <1>3, <1>4 DEF Session
  <1>6. Asks' /\ aborts' # 0
    BY DEF Asks, StartsOver
  <1> QED
    BY <1>1, <1>5, <1>6 DEF InSession

LEMMA StillStarting ==
  ASSUME IInv, StartsOver, UNCHANGED <<at, hidx, phase, aborts>>,
         toHost' = toHost \/ \E e : toHost' = Append(toHost, e) /\ ~IsEcho(e)
  PROVE  StartsOver'
  <1>1. \A i \in 1 .. Len(toHost') : ~IsEcho(toHost'[i])
    <2>1. CASE toHost' = toHost
      BY <2>1 DEF StartsOver
    <2>2. CASE \E e : toHost' = Append(toHost, e) /\ ~IsEcho(e)
      <3>1. PICK e : toHost' = Append(toHost, e) /\ ~IsEcho(e)
        BY <2>2
      <3>2. /\ Len(toHost) \in Nat /\ Len(toHost') = Len(toHost) + 1 /\ toHost'[Len(toHost) + 1] = e
            /\ \A i \in 1 .. Len(toHost) : toHost'[i] = toHost[i]
        BY <3>1, OnLine, AppendOf
      <3>3. \A i \in 1 .. Len(toHost') : i \in 1 .. Len(toHost) \/ i = Len(toHost) + 1
        BY <3>2
      <3> QED
        BY <3>1, <3>2, <3>3 DEF StartsOver
    <2> QED
      BY <2>1, <2>2
  <1> QED
    BY <1>1 DEF StartsOver, IsEcho

\* What is left of the line after its head is taken.
LEMMA SyncLeft ==
  ASSUME IInv, NEW n \in Nat, OnlySync(n), toDev # <<>>, toDev' = Tail(toDev)
  PROVE  /\ n >= 1 => OnlySync(n - 1)'
         /\ n = 0 => /\ OnlySync(0)'
                     /\ (SyncPacket(Head(toDev)) /\ Head(toDev).num = 1) \/ Head(toDev).type = "spoilt"
  <1>1. /\ Len(toDev) \in Nat /\ Len(toDev) >= 1 /\ Head(toDev) = toDev[1] /\ Len(toDev') = Len(toDev) - 1
        /\ \A i \in 1 .. Len(toDev) - 1 : toDev'[i] = toDev[i + 1]
    BY OnLine, TailOf
  <1>2. ASSUME NEW i \in 1 .. Len(toDev'), i + 1 > n
        PROVE  (SyncPacket(toDev'[i]) /\ toDev'[i].num = 1) \/ toDev'[i].type = "spoilt"
    <2>1. toDev'[i] = toDev[i + 1] /\ i + 1 \in n + 1 .. Len(toDev)
      BY <1>1, <1>2
    <2> QED
      BY <2>1 DEF OnlySync
  <1>3. ASSUME n >= 1
        PROVE  OnlySync(n - 1)'
    <2>1. \A i \in (n - 1) + 1 .. Len(toDev') : i \in 1 .. Len(toDev') /\ i + 1 > n
      BY <1>3
    <2> QED
      BY <1>2, <2>1 DEF OnlySync, SyncPacket
  <1>4. ASSUME n = 0
        PROVE  /\ OnlySync(0)'
               /\ (SyncPacket(Head(toDev)) /\ Head(toDev).num = 1) \/ Head(toDev).type = "spoilt"
    <2>1. \A i \in 0 + 1 .. Len(toDev') : i \in 1 .. Len(toDev') /\ i + 1 > n
      BY <1>4
    <2>2. 1 \in n + 1 .. Len(toDev)
      BY <1>1, <1>4
    <2> QED
      BY <1>1, <1>2, <2>1, <2>2 DEF OnlySync, SyncPacket
  <1> QED
    BY <1>3, <1>4

\* A comtest, or nothing, comes to the shell.
LEMMA ShellStarts ==
  ASSUME BootAssumption, SoundScripts, IInv, IInv', Fine, StartsOver, pc = "shell", OnlySync(0), Device,
         toDev # <<>> /\ SyncPacket(Head(toDev)) /\ Head(toDev).num = 1
  PROVE  Fine' /\ InSession'
  <1>1. PICK m : Receive(m) /\ (NewCommand(m) \/ Repeated(m) \/ NotACommand(m))
    BY DEF Device, Shell, TransferLoop, DumpLoop, BurnErase, BurnNoErase, BurnCopy, BurnPoll, BurnSkip, BurnFinish
  <1>2. /\ m = Head(toDev) /\ toDev' = Tail(toDev) /\ m.type = "command" /\ m.index = 0 /\ m.num = 1
        /\ UNCHANGED <<script, at, hidx, phase, got, aborts, crashes>>
    BY <1>1, HeadTaken DEF SyncPacket
  <1>3. /\ pc' = "shell" /\ index' = 0 /\ UNCHANGED <<start, image, part, count, num, flash, bad>>
        /\ toHost' = Append(toHost, Data(0, 0, "echo"))
    BY <1>1, <1>2, SyncHeard
  <1>4. OnlySync(0)'
    BY <1>2, SyncLeft
  <1>5. InSession'
    BY <1>2, <1>3, <1>4, Heard
  <1>6. Fine'
    <2>1. BurnFine' /\ aborts' \in Nat
      BY <1>2, <1>3 DEF BurnFine, Burning, Fine, Counts
    <2> QED
      BY <1>2, <1>3, <2>1, FineStays
  <1> QED
    BY <1>5, <1>6

\* The device's index is reset, and it burns or waits for the comtest to come again.
LEMMA LooseGoes ==
  ASSUME BootAssumption, SoundScripts, IInv, IInv', Fine, StartsOver, Loose, OnlySync(0), Device
  PROVE  Fine' /\ (InSession' \/ LeftOver')
  <1>1. /\ UNCHANGED <<script, at, hidx, phase, got, aborts, crashes>>
        /\ toDev' = toDev \/ (toDev # <<>> /\ toDev' = Tail(toDev) /\ toDev' # toDev)
    BY DeviceAlone
  <1>2. OnlySync(0)' /\ (toDev' # toDev => (SyncPacket(Head(toDev)) /\ Head(toDev).num = 1) \/ Head(toDev).type = "spoilt")
    <2>1. CASE toDev' = toDev
      BY <2>1 DEF OnlySync, SyncPacket
    <2>2. CASE toDev' # toDev
      BY <1>1, <2>2, SyncLeft
    <2> QED
      BY <2>1, <2>2
  <1>3. ASSUME pc' \in {"shell", "burn", "copy", "poll"}, index' = 0,
               toHost' = toHost \/ \E e : toHost' = Append(toHost, e) /\ ~IsEcho(e)
        PROVE  LeftOver'
    <2>1. StartsOver'
      BY <1>1, <1>3, StillStarting
    <2>2. Loose'
      BY <1>3 DEF Loose
    <2> QED
      BY <1>2, <2>1, <2>2 DEF LeftOver
  <1>4. CASE pc = "shell"
    <2>1. PICK m : Receive(m) /\ (NewCommand(m) \/ Repeated(m) \/ NotACommand(m))
      BY <1>4 DEF Device, Shell, TransferLoop, DumpLoop, BurnErase, BurnNoErase, BurnCopy, BurnPoll, BurnSkip, BurnFinish
    <2>2. m = Head(toDev) /\ toDev' # toDev /\ toDev # <<>>
      BY <2>1, HeadTaken DEF Receive
    <2>3. CASE SyncPacket(m) /\ m.num = 1
      BY <1>4, <2>2, <2>3, ShellStarts
    <2>4. CASE m.type = "spoilt"
      <3>1. UNCHANGED device /\ \E e : toHost' = Append(toHost, e) /\ ~IsEcho(e)
        BY <2>1, <2>4 DEF NewCommand, Repeated, NotACommand, SendStatus, Send, Status, IsEcho
      <3>2. pc' = "shell" /\ index' = 0
        BY <1>4, <3>1 DEF device, Loose
      <3>3. Fine'
        BY <1>1, <3>1, FineIdle DEF Fine, Counts
      <3> QED
        BY <1>3, <3>1, <3>2, <3>3
    <2> QED
      BY <1>2, <2>2, <2>3, <2>4
  <1>5. CASE pc # "shell"
    <2>1. BurnErase \/ BurnNoErase \/ BurnCopy \/ BurnPoll \/ BurnSkip \/ BurnFinish
      BY <1>5 DEF Device, Shell, TransferLoop, DumpLoop, Loose
    <2>2. Fine'
      BY <2>1, EraseFine, CopyFine, MoveOnFine
    <2>3. pc' \in {"shell", "burn", "copy", "poll"}
      BY <2>1 DEF BurnErase, BurnNoErase, BurnCopy, BurnPoll, BurnSkip, BurnFinish
    <2>4. index' = 0
      BY <2>1 DEF BurnErase, BurnNoErase, BurnCopy, BurnPoll, BurnSkip, BurnFinish, Loose, IndexAfter
    <2>5. toHost' = toHost \/ \E e : toHost' = Append(toHost, e) /\ ~IsEcho(e)
      <3>1. ~IsEcho(Data(index, 0, "B")) /\ ~IsEcho(Data(index, 0, "E")) /\ ~IsEcho(Data(index, 0, "FINISH"))
            /\ \A i, s, n : ~IsEcho(Status(i, s, n))
        BY DEF IsEcho, Data, Status
      <3> QED
        BY <2>1, <3>1 DEF BurnErase, BurnNoErase, BurnCopy, BurnPoll, BurnSkip, BurnFinish, Send, SendStatus
    <2> QED
      BY <1>3, <2>2, <2>3, <2>4, <2>5
  <1> QED
    BY <1>4, <1>5

\* The device is still in the session the host was in.
LEMMA FormerGoes ==
  ASSUME BootAssumption, SoundScripts, SoundKey, IInv, IInv', Fine, StartsOver, NEW h, NEW a, NEW n, Former(h, a, n), OnlySync(n), Device
  PROVE  Fine' /\ (InSession' \/ LeftOver')
  <1>1. /\ UNCHANGED <<script, at, hidx, phase, got, aborts, crashes>>
        /\ toDev' = toDev \/ (toDev # <<>> /\ toDev' = Tail(toDev) /\ toDev' # toDev)
    BY DeviceAlone
  <1>2. /\ Place(h, a) /\ h >= 2 /\ n \in 0 .. Len(toDev) /\ DeviceAt(h, a) /\ LineAt(h, a, n)
        /\ \A i \in 1 .. n : ~SyncPacket(toDev[i])
        /\ h \in Nat /\ a \in Nat /\ n \in Nat /\ Len(toDev) \in Nat
    BY PlaceIs, OnLine DEF Former
  <1>3. toDev # <<>> => Len(toDev) >= 1 /\ Head(toDev) = toDev[1]
    BY OnLine, TailOf
  <1>4. ASSUME InStep(h, a), NEW k \in Nat, toDev' # toDev => ~SyncPacket(Head(toDev)),
               /\ toDev' = toDev => k = n
               /\ toDev' # toDev => k = (IF n = 0 THEN 0 ELSE n - 1)
        PROVE  Fine' /\ LeftOver'
    <2>1. Onward(h, a) /\ Fine'
      BY <1>4, DeviceOnward
    <2>2. toHost' = toHost \/ \E e : toHost' = Append(toHost, e) /\ ~IsEcho(e)
      BY <1>4, <2>1 DEF Onward, Replies, Sends
    <2>3. StartsOver'
      BY <1>1, <2>2, StillStarting
    <2>4. OnlySync(k)'
      <3>1. CASE toDev' = toDev
        BY <1>4, <3>1 DEF OnlySync, SyncPacket
      <3>2. CASE toDev' # toDev
        BY <1>1, <1>2, <1>4, <3>2, SyncLeft
      <3> QED
        BY <3>1, <3>2
    <2>5. LineAt(h, a, k)' /\ k \in 0 .. Len(toDev')
      <3>1. /\ toDev' = toDev => LineAt(h, a, n)' /\ Len(toDev') = Len(toDev)
            /\ toDev' # toDev => /\ (n >= 1 => LineAt(h, a, n - 1)' /\ n - 1 \in 0 .. Len(toDev'))
                                 /\ Len(toDev') = Len(toDev) - 1 /\ Len(toDev') \in Nat
        BY <1>1, <1>2, <1>4, <2>1, LineGoes
      <3>2. CASE toDev' = toDev
        BY <1>2, <1>4, <3>1, <3>2
      <3>3. CASE toDev' # toDev /\ n >= 1
        BY <1>2, <1>4, <3>1, <3>3
      <3>4. CASE toDev' # toDev /\ n = 0
        <4>1. k = 0
          BY <1>4, <3>4
        <4> QED
          BY <3>1, <3>4, <4>1 DEF LineAt
      <3> QED
        BY <1>2, <3>2, <3>3, <3>4
    <2>6. \A i \in 1 .. k : ~SyncPacket(toDev'[i])
      <3>1. CASE toDev' = toDev
        BY <1>2, <1>4, <3>1
      <3>2. CASE toDev' # toDev
        <4>1. \A i \in 1 .. k : i \in 1 .. n - 1 /\ i + 1 \in 1 .. n /\ i \in 1 .. Len(toDev) - 1
          BY <1>2, <1>4, <3>2
        <4>2. \A i \in 1 .. Len(toDev) - 1 : toDev'[i] = toDev[i + 1]
          BY <1>1, <3>2, OnLine, TailOf
        <4> QED
          BY <1>2, <4>1, <4>2
      <3> QED
        BY <3>1, <3>2
    <2>7. Place(h, a)' /\ DeviceAt(h, a)'
      BY <1>1, <1>2, <2>1 DEF Place, Onward
    <2>8. Former(h, a, k)'
      BY <1>2, <2>5, <2>6, <2>7 DEF Former, SyncPacket
    <2> QED
      BY <1>2, <2>1, <2>3, <2>4, <2>8 DEF LeftOver
  <1>5. CASE toDev' = toDev
    <2>1. InStep(h, a)
      BY <1>2, <1>5 DEF InStep
    <2> QED
      BY <1>2, <1>4, <1>5, <2>1
  <1>6. CASE toDev' # toDev /\ n >= 1
    <2>1. 1 \in 1 .. n /\ Head(toDev) = toDev[1]
      BY <1>1, <1>2, <1>3, <1>6
    <2>2. InStep(h, a) /\ ~SyncPacket(Head(toDev))
      BY <1>2, <2>1 DEF InStep, LineAt
    <2>3. PICK k \in Nat : k = n - 1
      BY <1>2, <1>6
    <2> QED
      BY <1>4, <1>6, <2>2, <2>3
  <1>7. CASE toDev' # toDev /\ n = 0
    <2>1. OnlySync(0)' /\ ((SyncPacket(Head(toDev)) /\ Head(toDev).num = 1) \/ Head(toDev).type = "spoilt")
      BY <1>1, <1>7, SyncLeft
    <2>2. CASE Head(toDev).type = "spoilt"
      <3>1. InStep(h, a) /\ ~SyncPacket(Head(toDev))
        BY <1>2, <2>2 DEF InStep, PacketAt, SyncPacket
      <3> QED
        BY <1>4, <1>7, <3>1
    <2>3. CASE SyncPacket(Head(toDev)) /\ Head(toDev).num = 1
      <3>1. CASE pc = "shell"
        BY <1>1, <1>7, <2>3, <3>1, ShellStarts
      <3>2. CASE pc # "shell"
        <4>1. PICK m : /\ Receive(m)
                       /\ \/ pc \in {"transfer", "dump"} /\ (Overtaken(m) \/ Ignored(m) \/ Same(m))
                          \/ BurnPoll /\ index' = IndexAfter(m)
                             /\ (toHost' = toHost \/ SendStatus(last_status, 0))
          BY <1>7, <3>2 DEF Device, Shell, TransferLoop, DumpLoop, BurnErase, BurnNoErase, BurnCopy, BurnPoll, BurnSkip, BurnFinish,
                            Quiet, Cancelled, Store, Serve
        <4>2. m = Head(toDev) /\ m.type = "command" /\ m.index = 0 /\ m.num = 1
          BY <2>3, <4>1, HeadTaken DEF SyncPacket
        <4>3. IndexAfter(m) = 0 /\ ~Same(m)
          BY <4>2, AtFirst DEF IndexAfter, IsComtest, Same
        <4>4. CASE pc \in {"transfer", "dump"}
          <5>1. Overtaken(m)
            BY <4>1, <4>2, <4>3, <4>4 DEF Ignored, BurnPoll
          <5>2. /\ index' = 0 /\ pc' = "shell" /\ UNCHANGED <<toHost, flash, bad>> /\ pc # "copy" /\ pc' # "copy"
                /\ BurnFine'
            BY <4>3, <4>4, <5>1 DEF Overtaken, BurnFine, Burning
          <5>3. Fine'
            BY <1>1, <5>2, FineStays DEF Fine, Counts
          <5>4. StartsOver'
            BY <1>1, <5>2, StillStarting
          <5>5. Loose'
            BY <5>2 DEF Loose
          <5> QED
            BY <2>1, <5>3, <5>4, <5>5 DEF LeftOver
        <4>5. CASE pc \notin {"transfer", "dump"}
          <5>1. BurnPoll /\ index' = 0 /\ pc' = "burn" /\ (toHost' = toHost \/ SendStatus(last_status, 0))
            BY <4>1, <4>3, <4>5 DEF BurnPoll
          <5>2. Fine'
            BY <5>1, MoveOnFine
          <5>3. toHost' = toHost \/ \E e : toHost' = Append(toHost, e) /\ ~IsEcho(e)
            BY <5>1 DEF SendStatus, Send, Status, IsEcho
          <5>4. StartsOver'
            BY <1>1, <5>3, StillStarting
          <5>5. Loose'
            BY <5>1 DEF Loose
          <5> QED
            BY <2>1, <5>2, <5>4, <5>5 DEF LeftOver
        <4> QED
          BY <4>4, <4>5
      <3> QED
        BY <3>1, <3>2
    <2> QED
      BY <2>1, <2>2, <2>3
  <1> QED
    BY <1>2, <1>5, <1>6, <1>7

\* The host, which knows nothing yet, can only ask again or give up; the line may lose.
LEMMA StartWaits ==
  ASSUME BootAssumption, SoundScripts, IInv, LeftOver, HostSend \/ HostRequest \/ HostReceive \/ HostAbort \/ HostGivesUp
  PROVE  /\ UNCHANGED device /\ UNCHANGED <<crashes, script, at, hidx, aborts>> /\ phase' \in {"ask", "done", "failed"}
         /\ toDev' = toDev \/ toDev' = Append(toDev, Command(0, 1))
         /\ toHost' = toHost \/ (toHost # <<>> /\ toHost' = Tail(toHost))
  <1>1. at = 1 /\ hidx = 0 /\ phase \in {"ask", "done", "failed"} /\ \A i \in 1 .. Len(toHost) : ~IsEcho(toHost[i])
    BY DEF LeftOver, StartsOver
  <1>2. CASE HostSend \/ HostRequest
    BY <1>1, <1>2 DEF HostSend, HostRequest, Current, Idle, host, bounds
  <1>3. CASE HostReceive
    <2>1. PICK m : m = Head(toHost)
      OBVIOUS
    <2>2. toHost # <<>> /\ toHost' = Tail(toHost) /\ UNCHANGED device /\ UNCHANGED <<script, crashes, aborts, toDev>>
      BY <1>3 DEF HostReceive, bounds
    <2>3. ~IsEcho(m)
      <3> DEFINE R == Range(toHost)
      <3>1. toHost \in Seq(R)
        BY OnLine
      <3> HIDE DEF R
      <3>2. 1 \in 1 .. Len(toHost) /\ m = toHost[1]
        BY <2>1, <2>2, <3>1, TailOf
      <3> QED
        BY <1>1, <3>2
    <2>4. Cmd.op = "comtest"
      BY <1>1, AtFirst DEF Cmd
    <2>5. Stays
      <3>1. CASE phase \in {"done", "failed"} \/ m.index # hidx
        BY <1>3, <2>1, <3>1 DEF HostReceive
      <3>2. CASE phase = "ask" /\ m.index = 0
        <4>1. Stays \/ HearStatus(m) \/ HearData(m)
          BY <1>3, <2>1 DEF HostReceive
        <4>2. HearStatus(m) => Stays
          BY <2>4, <3>2 DEF HearStatus, Simple, Loading
        <4>3. HearData(m) => Stays
          BY <2>3, <2>4, <3>2 DEF HearData, IsEcho
        <4> QED
          BY <4>1, <4>2, <4>3
      <3> QED
        BY <1>1, <3>1, <3>2
    <2> QED
      BY <1>1, <2>2, <2>5 DEF Stays
  <1>4. CASE HostAbort
    BY <1>1, <1>4 DEF HostAbort
  <1>5. CASE HostGivesUp
    BY <1>1, <1>5 DEF HostGivesUp, Idle, bounds
  <1> QED
    BY <1>2, <1>3, <1>4, <1>5

\* Packets may be lost or sent, and answers taken or lost.
LEMMA StartKept ==
  ASSUME SoundScripts, IInv, LeftOver, UNCHANGED device, UNCHANGED <<crashes, script, at, hidx, aborts>>,
         phase' \in {"ask", "done", "failed"},
         \/ toDev' = toDev \/ toDev' = Append(toDev, Command(0, 1))
         \/ toDev # <<>> /\ toDev' \in {Tail(toDev), <<Spoilt>> \o Tail(toDev)},
         toHost' = toHost \/ (toHost # <<>> /\ toHost' = Tail(toHost))
  PROVE  LeftOver'
  <1>1. StartsOver'
    <2>1. \A i \in 1 .. Len(toHost') : ~IsEcho(toHost'[i])
      <3> DEFINE R == Range(toHost)
      <3>1. toHost \in Seq(R) /\ Len(toHost) \in Nat
        BY OnLine
      <3> HIDE DEF R
      <3>2. \E c \in {0, 1} : Later(toHost, toHost', c)
        BY <3>1, LaterSame, LaterTail
      <3> QED
        BY <3>2 DEF Later, LeftOver, StartsOver
    <2> QED
      BY <2>1 DEF LeftOver, StartsOver, IsEcho
  <1>2. Len(toDev) \in Nat /\ UNCHANGED <<pc, index>>
    BY OnLine DEF device
  <1>3. SyncPacket(Command(0, 1)) /\ Command(0, 1).num = 1 /\ Spoilt.type = "spoilt" /\ ~SyncPacket(Spoilt)
    BY DEF SyncPacket, Command, Spoilt
  <1>4. \E d \in {0, 1} :
          /\ \A i \in 1 .. Len(toDev') :
               \/ i + d \in 1 .. Len(toDev) /\ toDev'[i] = toDev[i + d]
               \/ toDev'[i] = Spoilt
               \/ toDev'[i] = Command(0, 1) /\ i > Len(toDev)
          /\ Len(toDev') >= Len(toDev) - d /\ Len(toDev') \in Nat
          /\ d = 1 => toDev # <<>> /\ toDev' = Tail(toDev)
    <2>1. CASE toDev' = toDev
      <3>1. \A i \in 1 .. Len(toDev') : i + 0 \in 1 .. Len(toDev) /\ toDev'[i] = toDev[i + 0]
        BY <2>1
      <3> QED
        BY <1>2, <2>1, <3>1
    <2>2. CASE toDev' = Append(toDev, Command(0, 1))
      <3>1. /\ Len(toDev') = Len(toDev) + 1 /\ toDev'[Len(toDev) + 1] = Command(0, 1)
            /\ \A i \in 1 .. Len(toDev) : toDev'[i] = toDev[i]
        BY <2>2, OnLine, AppendOf
      <3>2. \A i \in 1 .. Len(toDev') : \/ i + 0 \in 1 .. Len(toDev) /\ toDev'[i] = toDev[i + 0]
                                        \/ toDev'[i] = Command(0, 1) /\ i > Len(toDev)
        BY <1>2, <3>1
      <3> QED
        BY <1>2, <3>1, <3>2
    <2>3. CASE toDev # <<>> /\ toDev' = Tail(toDev)
      <3>1. Len(toDev) >= 1 /\ Len(toDev') = Len(toDev) - 1 /\ \A i \in 1 .. Len(toDev) - 1 : toDev'[i] = toDev[i + 1]
        BY <2>3, OnLine, TailOf
      <3>2. \A i \in 1 .. Len(toDev') : i + 1 \in 1 .. Len(toDev) /\ toDev'[i] = toDev[i + 1]
        BY <1>2, <3>1
      <3>3. Len(toDev') >= Len(toDev) - 1 /\ Len(toDev') \in Nat
        BY <1>2, <3>1
      <3>4. 1 \in {0, 1}
        OBVIOUS
      <3> WITNESS 1 \in {0, 1}
      <3> QED
        BY <2>3, <3>2, <3>3
    <2>4. CASE toDev # <<>> /\ toDev' = <<Spoilt>> \o Tail(toDev)
      <3>1. Len(toDev') = Len(toDev) /\ toDev'[1] = Spoilt /\ \A i \in 2 .. Len(toDev') : toDev'[i] = toDev[i]
        <4>1. PICK h, a : LineAt(h, a, 0)
          BY DEF LineAt
        <4>2. 0 \in 0 .. Len(toDev)
          BY <1>2
        <4>3. PICK d \in {0, 1} : d = 0
          OBVIOUS
        <4>4. toDev' = (IF d = 1 THEN Tail(toDev) ELSE <<Spoilt>> \o Tail(toDev))
          BY <2>4, <4>3
        <4>5. Len(toDev') = Len(toDev) - d /\ (d = 0 => toDev'[1] = Spoilt /\ \A i \in 2 .. Len(toDev') : toDev'[i] = toDev[i])
          BY <2>4, <4>1, <4>2, <4>4, LineLoses
        <4> QED
          BY <1>2, <4>3, <4>5
      <3>2. \A i \in 1 .. Len(toDev') : (i + 0 \in 1 .. Len(toDev) /\ toDev'[i] = toDev[i + 0]) \/ toDev'[i] = Spoilt
        BY <1>2, <3>1
      <3> QED
        BY <1>2, <3>1, <3>2
    <2> QED
      BY <2>1, <2>2, <2>3, <2>4
  <1>5. PICK d \in {0, 1} :
          /\ \A i \in 1 .. Len(toDev') :
               \/ i + d \in 1 .. Len(toDev) /\ toDev'[i] = toDev[i + d]
               \/ toDev'[i] = Spoilt
               \/ toDev'[i] = Command(0, 1) /\ i > Len(toDev)
          /\ Len(toDev') >= Len(toDev) - d /\ Len(toDev') \in Nat
          /\ d = 1 => toDev # <<>> /\ toDev' = Tail(toDev)
    BY <1>4
  <1>6. ASSUME NEW n \in Nat, NEW k \in Nat, OnlySync(n), k = n - d \/ k >= n
        PROVE  OnlySync(k)'
    <2>1. ASSUME NEW i \in k + 1 .. Len(toDev')
          PROVE  (SyncPacket(toDev'[i]) /\ toDev'[i].num = 1) \/ toDev'[i].type = "spoilt"
      <3>1. i \in 1 .. Len(toDev') /\ i + d >= n + 1
        BY <1>5, <1>6
      <3>2. CASE i + d \in 1 .. Len(toDev) /\ toDev'[i] = toDev[i + d]
        BY <3>1, <3>2, <1>6 DEF OnlySync
      <3> QED
        BY <1>3, <1>5, <3>1, <3>2
    <2> QED
      BY <2>1 DEF OnlySync, SyncPacket
  <1>7. CASE Loose /\ OnlySync(0)
    <2>1. OnlySync(0)'
      BY <1>6, <1>7
    <2>2. Loose'
      BY <1>2, <1>7 DEF Loose
    <2> QED
      BY <1>1, <2>1, <2>2 DEF LeftOver
  <1>8. ASSUME NEW h \in Nat, NEW a \in Nat, NEW n \in Nat, Former(h, a, n), OnlySync(n)
        PROVE  LeftOver'
    <2>1. /\ Place(h, a) /\ h >= 2 /\ n \in 0 .. Len(toDev) /\ DeviceAt(h, a) /\ LineAt(h, a, n)
          /\ \A i \in 1 .. n : ~SyncPacket(toDev[i])
      BY <1>8 DEF Former
    <2>2. PICK k \in Nat : k = IF n = 0 THEN 0 ELSE n - d
      <3>1. n - d \in Nat \/ n = 0
        BY <1>5
      <3> QED
        BY <3>1
    <2>3. k \in 0 .. Len(toDev') /\ (k = n - d \/ k >= n)
      BY <1>2, <1>5, <2>1, <2>2
    <2>4. LineAt(h, a, k)'
      <3>1. CASE n = 0
        BY <2>2, <3>1 DEF LineAt
      <3>2. CASE n # 0 /\ toDev # <<>> /\ toDev' \in {Tail(toDev), <<Spoilt>> \o Tail(toDev)}
        <4>1. PICK e \in {0, 1} : toDev' = (IF e = 1 THEN Tail(toDev) ELSE <<Spoilt>> \o Tail(toDev)) /\ (e = 1 <=> toDev' = Tail(toDev))
          BY <3>2
        <4>2. n >= 1 /\ n - e \in Nat
          BY <3>2
        <4>3. LineAt(h, a, n - e)' /\ Len(toDev') = Len(toDev) - e
          BY <2>1, <3>2, <4>1, <4>2, LineLoses
        <4>4. e = d
          <5>1. d = 1 => e = 1
            BY <1>5, <4>1
          <5>2. e = 1 => d = 1
            BY <1>2, <1>5, <4>1, <4>3
          <5> QED
            BY <5>1, <5>2
        <4> QED
          BY <2>2, <3>2, <4>3, <4>4
      <3>3. CASE n # 0 /\ (toDev' = toDev \/ toDev' = Append(toDev, Command(0, 1)))
        <4>1. Len(toDev') >= Len(toDev) /\ \A i \in 1 .. n : toDev'[i] = toDev[i]
          <5>1. CASE toDev' = toDev
            BY <1>2, <5>1
          <5>2. CASE toDev' = Append(toDev, Command(0, 1))
            <6>1. /\ Len(toDev') = Len(toDev) + 1
                  /\ \A i \in 1 .. Len(toDev) : toDev'[i] = toDev[i]
              BY <5>2, OnLine, AppendOf
            <6> QED
              BY <1>2, <2>1, <6>1
          <5> QED
            BY <3>3, <5>1, <5>2
        <4>2. d = 0
          <5>1. d = 1 => Len(toDev') = Len(toDev) - 1
            BY <1>5, OnLine, TailOf
          <5> QED
            BY <1>2, <4>1, <5>1
        <4>3. LineAt(h, a, n)'
          BY <2>1, <4>1, LinePrefix
        <4>4. k = n
          BY <2>2, <3>3, <4>2
        <4> QED
          BY <4>3, <4>4
      <3> QED
        BY <3>1, <3>2, <3>3
    <2>5. ASSUME NEW i \in 1 .. k
          PROVE  ~SyncPacket(toDev'[i])
      <3>1. /\ i \in 1 .. Len(toDev') /\ i + d \in 1 .. n /\ i \in 1 .. Len(toDev)
        BY <1>2, <1>5, <2>1, <2>2, <2>3
      <3>2. CASE i + d \in 1 .. Len(toDev) /\ toDev'[i] = toDev[i + d]
        BY <2>1, <3>1, <3>2
      <3>3. CASE toDev'[i] = Spoilt
        BY <1>3, <3>3
      <3>4. ~(toDev'[i] = Command(0, 1) /\ i > Len(toDev))
        BY <1>2, <3>1
      <3> QED
        BY <1>5, <3>1, <3>2, <3>3, <3>4
    <2>6. Place(h, a)' /\ DeviceAt(h, a)'
      BY <2>1, DeviceStays DEF Place
    <2>7. OnlySync(k)'
      BY <1>6, <1>8, <2>3
    <2>8. Former(h, a, k)'
      BY <2>1, <2>3, <2>4, <2>5, <2>6 DEF Former, SyncPacket
    <2> QED
      BY <1>1, <2>7, <2>8 DEF LeftOver
  <1> QED
    BY <1>7, <1>8 DEF LeftOver
------------------------------------------------------------------------------
(* Every step. *)

\* After a power failure that the host did not see, nothing happens any more.
LEMMA OverStays ==
  ASSUME SoundScripts, Over, Device \/ HostSend \/ HostRequest \/ HostReceive \/ HostAbort \/ HostGivesUp \/ LoseToDev \/ LoseToHost
         \/ UNCHANGED vars
  PROVE  UNCHANGED device /\ UNCHANGED <<script, crashes, aborts>> /\ Over'
  <1>1. phase \in {"done", "failed"} /\ toDev = <<>> /\ pc = "shell" /\ Whole(at - 1)
    BY DEF Over
  <1>2. ~Device
    BY <1>1 DEF Device, Shell, Receive, TransferLoop, DumpLoop, BurnErase, BurnNoErase, BurnCopy, BurnPoll, BurnSkip, BurnFinish
  <1>3. ~HostSend /\ ~HostRequest /\ ~HostAbort /\ ~HostGivesUp /\ ~LoseToDev
    BY <1>1 DEF HostSend, HostRequest, HostAbort, HostGivesUp, LoseToDev
  <1>4. UNCHANGED device /\ UNCHANGED <<script, crashes, aborts, at, phase, toDev>>
    <2>1. CASE HostReceive
      BY <1>1, <2>1 DEF HostReceive, Stays, bounds
    <2>2. CASE LoseToHost
      BY <2>2 DEF LoseToHost, host
    <2>3. CASE UNCHANGED vars
      BY <2>3 DEF vars, host, bounds
    <2> QED
      BY <1>2, <1>3, <2>1, <2>2, <2>3
  <1>5. pc' = pc /\ UNCHANGED <<flash, bad>> /\ (Hurt => Hurt')
    BY <1>4 DEF device, Hurt
  <1>6. Whole(at - 1)'
    <2>1. PICK k : k = at - 1
      OBVIOUS
    <2>2. Whole(k)'
      BY <1>1, <1>4, <1>5, <2>1, FlashStays
    <2> QED
      BY <1>4, <2>1, <2>2 DEF Whole
  <1> QED
    BY <1>1, <1>4, <1>5, <1>6 DEF Over

\* A step of the device.
LEMMA DeviceKeeps ==
  ASSUME BootAssumption, SoundScripts, SoundKey, IInv, IInv', SessionInv, Device
  PROVE  SessionInv'
  <1>1. CASE InSession
    BY <1>1, SessionGoes DEF SessionInv
  <1>2. CASE LeftOver
    <2>1. CASE Loose /\ OnlySync(0)
      BY <1>2, <2>1, LooseGoes DEF SessionInv, LeftOver
    <2>2. CASE \E h \in Nat, a \in Nat, n \in Nat : Former(h, a, n) /\ OnlySync(n)
      BY <1>2, <2>2, FormerGoes DEF SessionInv, LeftOver
    <2> QED
      BY <1>2, <2>1, <2>2 DEF LeftOver
  <1>3. CASE Over
    <2>1. UNCHANGED device /\ UNCHANGED <<script, crashes, aborts>> /\ Over'
      BY <1>3, OverStays
    <2> QED
      BY <2>1, FineIdle DEF SessionInv, Fine, Counts
  <1> QED
    BY <1>1, <1>2, <1>3 DEF SessionInv

\* A step of the host.
LEMMA HostKeeps ==
  ASSUME BootAssumption, SoundScripts, SoundKey, MaxAborts <= 1, IInv, IInv', SessionInv,
         HostSend \/ HostRequest \/ HostReceive \/ HostAbort \/ HostGivesUp
  PROVE  SessionInv'
  <1>1. UNCHANGED device /\ script' = script /\ crashes' = crashes /\ aborts' \in Nat
    BY DEF HostSend, HostRequest, HostReceive, HostAbort, HostGivesUp, Idle, host, bounds, Restart, SessionInv, Fine, Counts
  <1>2. Fine'
    BY <1>1, FineIdle DEF SessionInv
  <1>3. InSession' \/ LeftOver' \/ Over'
    <2>1. CASE InSession
      BY <2>1, HostSends, HostHearsOn, HostStops, SessionLoses DEF SessionInv
    <2>2. CASE LeftOver
      <3>1. /\ UNCHANGED device /\ UNCHANGED <<crashes, script, at, hidx, aborts>> /\ phase' \in {"ask", "done", "failed"}
            /\ toDev' = toDev \/ toDev' = Append(toDev, Command(0, 1))
            /\ toHost' = toHost \/ (toHost # <<>> /\ toHost' = Tail(toHost))
        BY <2>2, StartWaits
      <3> QED
        BY <2>2, <3>1, StartKept
    <2>3. CASE Over
      BY <2>3, OverStays
    <2> QED
      BY <2>1, <2>2, <2>3 DEF SessionInv
  <1> QED
    BY <1>2, <1>3 DEF SessionInv

\* A step of the line, or none.
LEMMA LineKeeps ==
  ASSUME BootAssumption, SoundScripts, IInv, IInv', SessionInv, LoseToDev \/ LoseToHost \/ UNCHANGED vars
  PROVE  SessionInv'
  <1>1. UNCHANGED device /\ UNCHANGED <<script, at, hidx, phase, got, crashes, aborts>>
    BY DEF LoseToDev, LoseToHost, host, bounds, vars
  <1>2. Fine'
    BY <1>1, FineIdle DEF SessionInv, Fine, Counts
  <1>3. InSession' \/ LeftOver' \/ Over'
    <2>1. CASE InSession
      BY <2>1, SessionLoses
    <2>2. CASE LeftOver
      <3>1. phase' \in {"ask", "done", "failed"}
        BY <1>1, <2>2 DEF LeftOver, StartsOver
      <3>2. \/ toDev' = toDev \/ toDev' = Append(toDev, Command(0, 1))
            \/ toDev # <<>> /\ toDev' \in {Tail(toDev), <<Spoilt>> \o Tail(toDev)}
        BY DEF LoseToDev, LoseToHost, vars
      <3>3. toHost' = toHost \/ (toHost # <<>> /\ toHost' = Tail(toHost))
        BY DEF LoseToDev, LoseToHost, vars
      <3> QED
        BY <1>1, <2>2, <3>1, <3>2, <3>3, StartKept
    <2>3. CASE Over
      BY <2>3, OverStays
    <2> QED
      BY <2>1, <2>2, <2>3 DEF SessionInv
  <1> QED
    BY <1>2, <1>3 DEF SessionInv

LEMMA SessionHolds ==
  ASSUME BootAssumption, SoundScripts, SoundKey, MaxAborts <= 1, HostSees = TRUE, IInv, IInv', SessionInv, [Next]_vars
  PROVE  SessionInv'
  <1>1. CASE PowerFail
    BY <1>1, PowerOff, PowerFine DEF SessionInv
  <1> QED
    BY <1>1, DeviceKeeps, HostKeeps, LineKeeps DEF Next

LEMMA SessionBegins ==
  ASSUME BootAssumption, SoundScripts, IInv, Init
  PROVE  SessionInv
  <1>1. /\ pc = "shell" /\ index = 0 /\ toDev = <<>> /\ toHost = <<>> /\ \A b \in Blocks : flash[b] = Old(b)
        /\ at = 1 /\ hidx = 0 /\ phase = "ask" /\ aborts = 0 /\ crashes = 0
    BY DEF Init
  <1>2. Fine
    BY <1>1 DEF Fine, Counts, FlashFine, BurnFine, PartFine, Burning
  <1>3. AtLeast(hidx, 1) = 1 /\ AtLeast(at, 2) = 2
    BY <1>1 DEF AtLeast
  <1>4. Place(1, 2) /\ DeviceAt(1, 2)
    <2>1. Len(script) \in Nat /\ Len(script) >= 1
      BY TheScript
    <2> QED
      BY <1>1, <2>1 DEF Place, DeviceAt, Resting
  <1>5. Session(1, 2)
    BY <1>1, <1>4 DEF Session, LineAt
  <1>6. Asks /\ InTurn
    BY <1>1 DEF Asks, InTurn
  <1> QED
    BY <1>2, <1>3, <1>5, <1>6 DEF SessionInv, InSession

LEMMA SessionInvariant ==
  ASSUME BootAssumption, SoundScripts, SoundKey, MaxAborts <= 1, HostSees = TRUE
  PROVE  Spec => [](IInv /\ SessionInv)
  <1>1. ScriptsWellFormed
    BY DEF SoundScripts, Sound, ScriptsWellFormed
  <1>2. Init => IInv /\ SessionInv
    BY <1>1, InitHolds, SessionBegins
  <1>3. IInv /\ SessionInv /\ [Next]_vars => (IInv /\ SessionInv)'
    BY <1>1, NextHolds, SessionHolds
  <1> QED
    BY <1>2, <1>3, PTL DEF Spec
------------------------------------------------------------------------------
(* What it comes to. *)

\* Whatever is lost, repeated, refused or overtaken, whenever the host starts over once
\* and whenever power fails, the image in the device's memory is the one the host's
\* commands up to the current one build, or up to the one before: no piece is left out
\* or put in twice, and only a burn has the key's blocks in it (lib_ash_process_new,
\* cmd_transfer, cmd_move, cmd_burn). It is assumed that no chunk but the key's can be
\* taken for it while the flash is being burnt, and that an image which does not begin
\* with the flash ends before the key's place.
THEOREM ImageIsExact ==
  ASSUME BootAssumption, SoundScripts, SoundKey, MaxAborts <= 1, HostSees = TRUE
  PROVE  Spec => []ImageExact
  <1>1. ASSUME IInv, SessionInv, phase \notin {"done", "failed"}, at > 1, \E i \in 1 .. at - 1 : script[i].op = "address"
        PROVE  Like(image, Built(at - 1)) \/ Like(image, Built(at))
    <2>1. InSession
      BY <1>1 DEF SessionInv, LeftOver, StartsOver, Over
    <2>2. PICK h, a : /\ h = AtLeast(hidx, 1) /\ a = AtLeast(at, 2) /\ Session(h, a)
                      /\ h \in Nat /\ h >= 1 /\ a \in Nat /\ at \in Nat /\ hidx \in Nat /\ Place(h, a)
                      /\ hidx >= 1 => h = hidx
                      /\ hidx = 0 => h = 1
                      /\ hidx >= 1 => a = at
      BY <1>1, <2>1, WhereItIs
    <2>3. Has(script, "address", at - 1) /\ Has(script, "address", at)
      BY <1>1, <2>2 DEF Has
    <2>4. hidx >= 2
      <3>1. hidx <= 1 => at - 1 = 1 \/ at - 1 = 0
        BY <2>1, <2>2 DEF InSession, Asks
      <3> QED
        BY <1>1, <2>2, <2>3, <3>1, AtFirst
    <2>5. ImageAt(at - 1, at) \/ ImageAt(at, at)
      <3>1. DeviceAt(h, a) /\ index <= h /\ index \in Nat /\ h >= 2 /\ a = at
        BY <1>1, <2>2, <2>4 DEF Session, DeviceAt, IInv, DeviceTypes
      <3>2. CASE index < h
        BY <3>1, <3>2 DEF DeviceAt, Ready
      <3>3. CASE index = h
        BY <3>1, <3>3 DEF DeviceAt, AtWork, Ran, Ready, Resting
      <3> QED
        BY <2>2, <3>1, <3>2, <3>3
    <2>6. ASSUME NEW w, Alike(w, at)
          PROVE  Like(image, w)
      BY <2>6 DEF Alike, Spared, Lost, Like
    <2> QED
      BY <2>3, <2>5, <2>6 DEF ImageAt
  <1>2. IInv /\ SessionInv => ImageExact
    BY <1>1 DEF ImageExact
  <1> QED
    BY <1>2, SessionInvariant, PTL

\* Whatever is lost and whenever power fails, a block of the flash holds what it held,
\* what a burn is to make of it, that is what the host sent for that place or the key
\* that was there, or nothing; and what the host sent is in the key's place only after a
\* power failure or a bad sector (cmd_burn, with the copy of the CI+ key).
THEOREM FlashIsOurs ==
  ASSUME BootAssumption, SoundScripts, SoundKey, MaxAborts <= 1, HostSees = TRUE
  PROVE  Spec => []FlashOurs
  <1>1. SessionInv => FlashOurs
    <2>1. ASSUME FlashFine, NEW b \in Blocks
          PROVE  flash[b] \in {Old(b), Meant(b), Blank} \/ (Hurt /\ flash[b] = Target(b))
      BY <2>1 DEF FlashFine, Missing, Meant
    <2> QED
      BY <2>1 DEF SessionInv, Fine, FlashOurs
  <1> QED
    BY <1>1, SessionInvariant, PTL

\* A host that has gone past its burn command finds every block as it means it, with the
\* key that was there, but for the sectors the device reported and for blocks it does not
\* send, and the key, when power has failed (cmd_burn, lib_ash_process_new).
THEOREM BurnIsWhole ==
  ASSUME BootAssumption, SoundScripts, SoundKey, MaxAborts <= 1, HostSees = TRUE
  PROVE  Spec => []BurnedWhole
  <1>1. IInv /\ SessionInv => BurnedWhole
    <2>1. ASSUME IInv, SessionInv
          PROVE  Whole(at - 1)
      BY <2>1, HeardBurnt DEF SessionInv
    <2> QED
      BY <2>1 DEF Whole, Has, Intended, BurnedWhole, HasBurnt
  <1> QED
    BY <1>1, SessionInvariant, PTL
=============================================================================
