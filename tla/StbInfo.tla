------------------------------ MODULE StbInfo ------------------------------
(***************************************************************************)
(* libstbinfo/stb_info.c: the set-top box's settings as records appended   *)
(* to two flash sectors in turn, and their recovery after a power failure. *)
(*                                                                         *)
(* Addresses count the 4-byte words that stbinfo_backward_locate steps by. *)
(* The program runs one call at a time, but power may fail between any two *)
(* flash operations and inside an erase.  A word that is not blank can be  *)
(* written again only with the value it has: the flash driver refuses what *)
(* needs an erase, for STO_FLAG_AUTO_ERASE is not set.  g_stbinfo_buf has   *)
(* no variable: it is filled from the flash, written with it, and freed     *)
(* before it would differ.                                                 *)
(***************************************************************************)
EXTENDS Integers, FiniteSets, FiniteSetsExt

CONSTANTS
  S,          \* STBINFO_SECTOR_LEN
  L,          \* the caller's buff_len
  MaxSaves,   \* bound: saves in one behaviour
  MaxCrashes  \* bound: power failures in one behaviour

R == L + 2              \* a record: start id, data, end id

\* The callers save an STB_INFO_DATA, some 3 KB of the sector's 64: two records
\* fit a sector.
ASSUME StbAssumption ==
  /\ L \in Nat \ {0} /\ S \in Nat /\ 2 * R <= S
  /\ MaxSaves \in Nat /\ MaxCrashes \in Nat

Sector1 == 0
Sector2 == S
Sectors == {Sector1, Sector2}
Words   == 0 .. S - 1
Unknown == -1           \* stbinfo_f_addr not known
None    == -1           \* nothing found
NoRecord == 0           \* a load that fails
Mixed   == -1           \* a load of words of several records

Blank   == <<"blank", 0>>
Junk    == <<"junk", 0>>
StartId == <<"start", 0>>
EndId   == <<"end", 0>>
Data(v) == <<"data", v>>

VARIABLES
  flash,      \* sector -> word -> its content
  f_addr,     \* stbinfo_f_addr
  addr,       \* save_stbinfo_data's addr
  at,         \* where the copy in hand is written: its f_addr
  copy,       \* "first" or "mirror"
  field,      \* the part of the record to write next
  pc, call,   \* where the call in progress is, and which it is
  saves,      \* saves begun: the newest record
  ret,        \* what the last save returned, or "busy"
  since,      \* history: saves begun before the last restart
  crashes     \* power failures so far

ram  == <<f_addr, addr, at, copy, field, call>>
vars == <<flash, ram, pc, ret, saves, since, crashes>>
------------------------------------------------------------------------------
(* Reading the flash. *)

SectorOf(a) == IF a >= Sector2 THEN Sector2 ELSE Sector1

\* _get_stbinfo_sector_free_addr: behind the last word that is not blank.
Used(fl, s) ==
  CHOOSE u \in 0 .. S : /\ \A w \in u .. S - 1 : fl[s][w] = Blank
                        /\ u > 0 => fl[s][u - 1] # Blank

\* stbinfo_backward_locate in a sector: the last word from start down to margin
\* that is the id.
Locate(sector, start, margin, id) ==
  IF \A w \in margin .. start : sector[w] # id THEN None
  ELSE CHOOSE w \in margin .. start : sector[w] = id /\ \A x \in w + 1 .. start : sector[x] # id

\* The search of load_stbinfo and _get_stbinfo_free_addr in a sector, downwards:
\* the head of the last record of the caller's length.  An end id is looked for
\* first, where a record would fit, and then a start id; if their distance is
\* another, the search goes on.
Head(fl, s, below) ==
  LET tail[b \in 0 .. S]     == Locate(fl[s], b - 1, L + 1, EndId)
      start[t \in None .. S] == Locate(fl[s], t - 1, 0, StartId)
      head[b \in 0 .. S]     ==
        CASE start[tail[b]] = None -> None
          [] tail[b] - start[tail[b]] = L + 1 -> start[tail[b]]
          [] OTHER -> head[start[tail[b]]]
  IN  head[below]

\* What load_stbinfo returns when the free address is a word of sector s, or the
\* one behind it.
Whole(sector, h) ==
  IF \A i \in 1 .. L : sector[h + i] = sector[h + 1] THEN sector[h + 1][2] ELSE Mixed
LoadFrom(fl, s, below) ==
  LET read == [h \in None .. S |-> IF h = None THEN NoRecord ELSE Whole(fl[s], h)]
  IN  read[Head(fl, s, below)]

Load(fl, a) == LoadFrom(fl, SectorOf(a), a - SectorOf(a))
------------------------------------------------------------------------------
(* _get_stbinfo_free_addr when stbinfo_f_addr is not known. *)

Other(s) == S - s

Shorter(fl) == IF Used(fl, Sector1) > Used(fl, Sector2) THEN Sector2 ELSE Sector1

\* Of two sectors in use, the shorter is kept if it holds a record; and one that
\* is kept whatever it holds.
KeepShorter(fl) == Shorter(fl)
KeepValid(fl) ==
  LET s == Shorter(fl)
  IN  IF Head(fl, s, Used(fl, s)) # None THEN s ELSE Other(s)

Keep(fl) ==
  IF Used(fl, Sector2) = 0 THEN Sector1
  ELSE IF Used(fl, Sector1) = 0 THEN Sector2
  ELSE KeepValid(fl)

Filled(fl, s, word) == [fl EXCEPT ![s] = [w \in Words |-> word]]
Erased(fl, s) == Filled(fl, s, Blank)

\* The flash, and the free address, that the scan leaves.  A sector that is
\* blank need not be erased.
Scanned(fl)  == Erased(fl, Other(Keep(fl)))
FreeAddr(fl) == Keep(fl) + Used(fl, Keep(fl))

\* The record a load returns after a restart: from the sector kept - but the free
\* address behind a full first sector is that of the second, which is blank then.
Recovered(fl) ==
  LET from == [s \in Sectors |-> IF s = Sector1 /\ Used(fl, s) = S THEN NoRecord
                                 ELSE LoadFrom(fl, s, Used(fl, s))]
  IN  from[Keep(fl)]

Scan ==
  /\ pc = "scan"
  /\ IF f_addr = Unknown
     THEN flash' = Scanned(flash) /\ f_addr' = FreeAddr(flash)
     ELSE UNCHANGED <<flash, f_addr>>
  /\ addr' = f_addr'
  /\ IF call = "save"
     THEN pc' = "room" /\ UNCHANGED since
     ELSE pc' = "idle" /\ since' = IF call = "restart" THEN saves ELSE since
  /\ UNCHANGED <<at, copy, field, call, ret, saves, crashes>>
------------------------------------------------------------------------------
(* save_stbinfo_data *)

BeginSave ==
  /\ pc = "idle" /\ saves < MaxSaves
  /\ saves' = saves + 1
  /\ call' = "save" /\ ret' = "busy" /\ pc' = "scan"
  /\ UNCHANGED <<flash, f_addr, addr, at, copy, field, since, crashes>>

Writes(a, which) == at' = a /\ copy' = which /\ field' = "start" /\ pc' = "write"

\* Start and end id included; and without the end id.
FitsShort(a) == a - SectorOf(a) + R - 1 <= S
Fits(a) == a - SectorOf(a) + R <= S

\* A record that fits goes to the free address; otherwise the other sector is
\* erased for it.
MakeRoom ==
  /\ pc = "room"
  /\ IF Fits(addr)
     THEN Writes(addr, "first") /\ UNCHANGED <<flash, f_addr>>
     ELSE LET s == IF addr > Sector2 THEN Sector1 ELSE Sector2
          IN  flash' = Erased(flash, s) /\ f_addr' = s /\ Writes(s, "first")
  /\ UNCHANGED <<addr, call, ret, saves, since, crashes>>

\* The words of a record, by field.
Fields == [start |-> {0}, data |-> 1 .. L, end |-> {L + 1}]

Record(v, i) == CASE i = 0 -> StartId [] i = L + 1 -> EndId [] OTHER -> Data(v)

\* The flash takes the field: verify and write of the flash driver.
Place == at - SectorOf(at)
Writable ==
  \A i \in Fields[field] :
    Place + i \in Words /\ flash[SectorOf(at)][Place + i] \in {Blank, Record(saves, i)}

\* The cached free address after a write that ends at a; and one that is not kept.
CachedNot(a) == f_addr
Cached(a) == IF f_addr = Unknown THEN Unknown ELSE a

\* The same place in the other sector; and one a sector further on.
MirroredUp(a) == a + S
Mirrored(a) == IF a >= Sector2 THEN a - S ELSE a + S

Put ==
  /\ pc = "write" /\ Writable
  /\ flash' = [flash EXCEPT ![SectorOf(at)] =
                [w \in Words |-> IF w - Place \in Fields[field] THEN Record(saves, w - Place) ELSE @[w]]]
  /\ f_addr' = Cached(at + Max(Fields[field]) + 1)
  /\ CASE field = "start" -> field' = "data" /\ UNCHANGED <<at, copy, pc, ret>>
       [] field = "data" -> field' = "end" /\ UNCHANGED <<at, copy, pc, ret>>
       [] field = "end" /\ copy = "first" ->
            /\ IF at = addr THEN Writes(Mirrored(at), "mirror")
                            ELSE pc' = "erase" /\ UNCHANGED <<at, copy, field>>
            /\ UNCHANGED ret
       [] OTHER -> pc' = "idle" /\ ret' = "ok" /\ UNCHANGED <<at, copy, field>>
  /\ UNCHANGED <<addr, call, saves, since, crashes>>

\* The driver refuses a write that needs an erase; the call returns an error and
\* leaves what it wrote.
PutFails ==
  /\ pc = "write" /\ ~Writable
  /\ pc' = "idle" /\ ret' = "failed"
  /\ UNCHANGED <<flash, ram, saves, since, crashes>>

\* The sector the free address was in is erased when the record went to the other.
EraseOld ==
  /\ pc = "erase"
  /\ flash' = Erased(flash, SectorOf(addr)) /\ f_addr' = Unknown
  /\ Writes(Mirrored(at), "mirror")
  /\ UNCHANGED <<addr, call, ret, saves, since, crashes>>
------------------------------------------------------------------------------
(* load_stbinfo, at a restart and later: it may scan, and so erase. *)

BeginLoad ==
  /\ \/ pc = "off" /\ call' = "restart"
     \/ pc = "idle" /\ f_addr = Unknown /\ call' = "load"
  /\ pc' = "scan"
  /\ UNCHANGED <<flash, f_addr, addr, at, copy, field, ret, saves, since, crashes>>

\* The sector that the next operation erases.
Erasing ==
  CASE pc = "scan" /\ f_addr = Unknown /\ \A s \in Sectors : Used(flash, s) > 0 -> {Other(Keep(flash))}
    [] pc = "room" /\ ~Fits(addr) -> {IF addr > Sector2 THEN Sector1 ELSE Sector2}
    [] pc = "erase" -> {SectorOf(addr)}
    [] OTHER -> {}

\* Power fails: between two operations, or within an erase, which leaves the
\* sector unreadable.
Crash ==
  /\ pc # "off" /\ crashes < MaxCrashes /\ crashes' = crashes + 1
  /\ \/ UNCHANGED flash
     \/ \E s \in Erasing : flash' = Filled(flash, s, Junk)
  /\ f_addr' = Unknown /\ pc' = "off" /\ ret' = "none"
  /\ addr' = 0 /\ at' = 0 /\ copy' = "first" /\ field' = "start" /\ call' = "load"
  /\ UNCHANGED <<saves, since>>

Init ==
  /\ flash = [s \in Sectors |-> [w \in Words |-> Blank]]
  /\ f_addr = Unknown /\ addr = 0 /\ at = 0
  /\ copy = "first" /\ field = "start" /\ pc = "off" /\ call = "load"
  /\ ret = "none" /\ saves = 0 /\ since = 0 /\ crashes = 0

Next == Scan \/ BeginSave \/ MakeRoom \/ Put \/ EraseOld \/ BeginLoad \/ Crash

\* As long as no write needs an erase.
Spec == Init /\ [][Next]_vars

\* And when one does.
SpecRefused == Init /\ [][Next \/ PutFails]_vars
=============================================================================
