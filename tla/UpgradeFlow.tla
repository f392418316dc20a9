---------------------------- MODULE UpgradeFlow ----------------------------
(***************************************************************************)
(* An upgrade over the air, from the request to the new software: the boot *)
(* loader (loader4/bootloader.c), the upgrade loader it may start          *)
(* (upg_loader, libupg4), the backup copy of the upgrade loader            *)
(* (backup_loader.c), what the main application does with the settings at  *)
(* its start (root.c), and power failures anywhere in between.             *)
(*                                                                         *)
(* Addresses count flash sectors, from the upgrade loader on: the boot     *)
(* loader and the settings chunk before it are never burnt in the modes    *)
(* modelled.  The settings are one record, which stb_info_data_save        *)
(* replaces as a whole: what module RecordStore promises of libstbinfo.    *)
(* Chunks lie in a fixed order and each begins with a header that holds    *)
(* its length, so that a chunk is found by walking over those before it.   *)
(***************************************************************************)
EXTENDS Integers, Sequences

CONSTANTS
  Streams,      \* the upgrades on air: [sw, mode, flag]
  Versions,     \* versions of a chunk; 0 left the factory
  LoaderLen, RscLen, UserLen,
  MainLen,      \* version -> length of the main code
  NorSize,      \* nor_flash_size
  MaxCrashes,   \* bound: power failures
  MaxKeys,      \* bound: times the front panel key is held at power on
  MaxRefusals   \* bound: downloads that fail though there is a newer stream, and cancels

Ids == {"loader", "main", "rsc", "user"}
Mine == -1                   \* the owner's data, the "version" of the user chunk to keep

Lens(id, v) ==
  CASE id = "loader" -> LoaderLen [] id = "main" -> MainLen[v]
    [] id = "rsc" -> RscLen [] id = "user" -> UserLen

\* A sector's content: part n of a chunk; part 0 is a header on other data.
Sector(id, v, n) == [id |-> id, ver |-> v, part |-> n]
Blank == Sector("blank", 0, 0)
Junk  == Sector("junk", 0, 0)

Sectors(id, v) == [n \in 1 .. Lens(id, v) |-> Sector(id, v, n)]
Image(v, user) == Sectors("loader", v) \o Sectors("main", v) \o Sectors("rsc", v) \o Sectors("user", user)

BackupAt == NorSize - LoaderLen + 1      \* param2

ASSUME UpgradeFlowAssumption ==
  /\ LoaderLen \in Nat \ {0} /\ RscLen \in Nat \ {0} /\ UserLen \in Nat \ {0}
  /\ MainLen \in [Versions -> Nat \ {0}] /\ NorSize \in Nat
  /\ 0 \in Versions /\ Versions \subseteq Nat
  /\ Streams \subseteq [sw : Versions, mode : {"all", "chunk"}, flag : [{"loader", "main", "rsc"} -> 0 .. 2]]
  /\ \A v \in Versions : LET len == LoaderLen + MainLen[v] + RscLen + UserLen
                         IN len < BackupAt /\ 2 * len > NorSize
  /\ MaxCrashes \in Nat /\ MaxKeys \in Nat /\ MaxRefusals \in Nat

VARIABLES
  flash,     \* sector -> content
  stored,    \* the settings record in flash
  stb,       \* g_stb_data, or the boot loader's defaults
  own,       \* whether it is g_stb_data, loaded: stb_info_data_get() # NULL
  pc,        \* where the box is
  job,       \* the copy to flash in progress: data, address, next sector, what follows
  seen,      \* boot_enter_upgloader's findings, before it repairs anything
  offer,     \* the upgrade being burnt
  crashes, keys, refusals

ram    == <<stb, own, job, seen, offer>>
bounds == <<crashes, keys, refusals>>
vars   == <<flash, stored, pc, ram, bounds>>
------------------------------------------------------------------------------
(* The settings: libstbinfo/stb_info_data.c. *)

NoRecord == [state |-> "none"]
Default  == [state |-> "normal", needbackup |-> FALSE, forbidden |-> FALSE,
             trigger |-> "none", sw |-> 0, table |-> <<>>]

\* The table of chunks: their lengths add up to part.size.
SizeTo(t) == LET s[n \in 0 .. Len(t)] == IF n = 0 THEN 0 ELSE s[n - 1] + Lens(t[n].id, t[n].ver) IN s
Size(t) == SizeTo(t)[Len(t)]

\* stb_info_data_check, which only a NORMAL record must pass.
Loads(r) == r # NoRecord /\ (r.state = "normal" => Size(r.table) <= NorSize)

Save == stored' = IF own' THEN stb' ELSE stored

Load == own' = TRUE /\ stb' = stored
------------------------------------------------------------------------------
(* Chunks: libchunk. *)

IsHead(c) == c.id \in Ids /\ c.part \in {0, 1}
Order == <<"loader", "main", "rsc", "user">>

\* Where the walk over the headers of m finds each chunk: one place, or none.
Walk(m) ==
  LET at[k \in 1 .. Len(Order)] ==
        {a \in IF k = 1 THEN {1} ELSE {b + Lens(m[b].id, m[b].ver) : b \in at[k - 1]} :
           a \in DOMAIN m /\ IsHead(m[a]) /\ m[a].id = Order[k]}
  IN at

Found(m, id) ==
  LET places == UNION {Walk(m)[k] : k \in {k \in 1 .. Len(Order) : Order[k] = id}}
  IN IF places = {} THEN 0 ELSE CHOOSE a \in places : TRUE

\* chunk_check_single_crc.  The user data has no CRC.
Whole(m, a) ==
  /\ a \in DOMAIN m /\ IsHead(m[a])
  /\ \/ m[a].id = "user"
     \/ \A n \in 1 .. Lens(m[a].id, m[a].ver) :
          a + n - 1 \in DOMAIN m /\ m[a + n - 1] = Sector(m[a].id, m[a].ver, n)

LoaderWhole == Whole(flash, 1) /\ flash[1].id = "loader"
BackupWhole == Whole(flash, BackupAt)
CrcOk == \A id \in Ids : Found(flash, id) # 0 /\ Whole(flash, Found(flash, id))

\* stb_info_data_init_chunk, which appends to the lists it finds.  The walk ends at the
\* first header that is missing: the chunks found are the first ones.
Scanned(t) ==
  t \o [k \in {k \in DOMAIN Order : Found(flash, Order[k]) # 0} |->
          [id |-> Order[k], ver |-> flash[Found(flash, Order[k])].ver]]
------------------------------------------------------------------------------
(* Copies to flash, a sector at a time: backup_burn_flash, upg_burn_part,   *)
(* upg_burn_norflash.                                                       *)

Copy(src, to, then) == pc' = "write" /\ job' = [src |-> src, to |-> to, n |-> 1, then |-> then]

\* Mutant: addresses off by one.
HereNext == job.to + job.n

Here == job.to + job.n - 1
Differs == flash[Here] # job.src[job.n]

Verified ==
  /\ pc = "write" /\ ~Differs
  /\ job' = [job EXCEPT !.n = @ + 1]
  /\ pc' = IF job.n = Len(job.src) THEN job.then ELSE pc
  /\ UNCHANGED <<flash, stored, stb, own, seen, offer, bounds>>

Erase ==
  /\ pc = "write" /\ Differs /\ flash[Here] # Blank
  /\ flash' = [flash EXCEPT ![Here] = Blank]
  /\ UNCHANGED <<stored, pc, ram, bounds>>

Fill ==
  /\ pc = "write" /\ Differs /\ flash[Here] = Blank
  /\ flash' = [flash EXCEPT ![Here] = job.src[job.n]]
  /\ UNCHANGED <<stored, pc, ram, bounds>>

LoaderData == [n \in 1 .. LoaderLen |-> flash[n]]
BackupData == [n \in 1 .. LoaderLen |-> flash[BackupAt + n - 1]]
Backup(then) == Copy(LoaderData, BackupAt, then)
Restore(then) == Copy(BackupData, 1, then)
------------------------------------------------------------------------------
(* The boot loader. *)

NoJob  == [src |-> <<>>, to |-> 1, n |-> 1, then |-> "off"]
Unseen == [bad |-> FALSE, differ |-> FALSE, whole |-> FALSE, back |-> FALSE]
NoOffer == [sw |-> 0, mode |-> "none", flag |-> [id \in {} |-> 0]]

Goes(p) == pc' = p /\ job' = NoJob
Reboot ==
  /\ Goes("off") /\ stb' = Default /\ own' = FALSE /\ seen' = Unseen /\ offer' = NoOffer

\* Mutant: the new loader is backed up before the upgrade is known to be complete.
PowerOnEager ==
  /\ pc = "off"
  /\ own' = Loads(stored) /\ stb' = IF own' THEN stored ELSE Default
  /\ seen' = [Unseen EXCEPT !.whole = CrcOk]
  /\ IF stb'.needbackup THEN Backup("flagged") ELSE Goes("decide")
  /\ UNCHANGED <<flash, stored, offer, bounds>>

\* AppInit: settings, CRC check, and the backup of a loader that was upgraded.
PowerOn ==
  /\ pc = "off"
  /\ own' = Loads(stored) /\ stb' = IF own' THEN stored ELSE Default
  /\ seen' = [Unseen EXCEPT !.whole = CrcOk]
  /\ IF stb'.state # "preburn" /\ stb'.needbackup
     THEN IF LoaderWhole THEN Backup("flagged") ELSE Goes("flagged")
     ELSE Goes("decide")
  /\ UNCHANGED <<flash, stored, offer, bounds>>

Flagged ==
  /\ pc = "flagged" /\ Goes("decide")
  /\ stb' = [stb EXCEPT !.needbackup = FALSE] /\ own' = own /\ Save
  /\ UNCHANGED <<flash, seen, offer, bounds>>

\* Mutants: bad chunks do not start the upgrade loader; nor does an interrupted upgrade.
TriggerNoFail(key) ==
  CASE key -> "bootkey"
    [] ~key /\ seen.whole /\ stb.state = "preburn" -> "interrupt"
    [] OTHER -> IF stb.trigger = "appota" THEN "appota" ELSE "none"

TriggerNoInterrupt(key) ==
  CASE key -> "bootkey"
    [] ~key /\ ~seen.whole -> "bootfail"
    [] OTHER -> IF stb.trigger = "appota" THEN "appota" ELSE "none"

Trigger(key) ==
  CASE key -> "bootkey"
    [] ~key /\ ~seen.whole -> "bootfail"
    [] ~key /\ seen.whole /\ stb.state = "preburn" -> "interrupt"
    [] OTHER -> IF stb.trigger = "appota" THEN "appota" ELSE "none"

\* Main code, unless a chunk is bad; then the shell.
StartMain == Goes(IF seen.whole THEN "main" ELSE "dead")

Decide ==
  /\ pc = "decide"
  /\ \E key \in BOOLEAN :
       /\ key => keys < MaxKeys
       /\ keys' = IF key /\ ~stb.forbidden THEN keys + 1 ELSE keys
       /\ stb' = IF stb.forbidden THEN stb ELSE [stb EXCEPT !.trigger = Trigger(key)]
  /\ IF stb.forbidden \/ stb'.trigger = "none" THEN StartMain ELSE Goes("enter")
  /\ UNCHANGED <<flash, stored, own, seen, offer, crashes, refusals>>

\* boot_enter_upgloader, as far as the copy 2 -> 1.
Enter ==
  /\ pc = "enter"
  /\ IF ~LoaderWhole /\ ~BackupWhole
     THEN /\ stb' = [stb EXCEPT !.forbidden = TRUE] /\ own' = own /\ Save
          /\ StartMain /\ UNCHANGED seen
     ELSE /\ UNCHANGED <<stb, stored, own>>
          /\ seen' = [seen EXCEPT !.bad = ~LoaderWhole,
                                  !.differ = ~BackupWhole \/ flash[1] # flash[BackupAt]]
          /\ IF BackupWhole /\ ((stb.state = "preburn" /\ stb.needbackup) \/ ~LoaderWhole)
             THEN Restore("restored") ELSE Goes("spare")
  /\ UNCHANGED <<flash, offer, bounds>>

\* The main code runs at once when the restored loader was all that was bad.
Restored ==
  /\ pc = "restored" /\ Goes("spare")
  /\ stb' = [stb EXCEPT !.needbackup = FALSE]
  /\ seen' = [seen EXCEPT !.back = CrcOk /\ stb.state # "preburn"]
  /\ UNCHANGED <<flash, stored, own, offer, bounds>>

\* The copy 1 -> 2, decided by the headers read before the copy 2 -> 1.
Spare ==
  /\ pc = "spare"
  /\ IF ~seen.bad /\ seen.differ
     THEN IF LoaderWhole THEN Backup("start") ELSE Goes("dead")
     ELSE Goes("start")
  /\ UNCHANGED <<flash, stored, stb, own, seen, offer, bounds>>

Start ==
  /\ pc = "start" /\ UNCHANGED <<stb, own>> /\ Save
  /\ Goes(IF seen.back THEN "main" ELSE IF LoaderWhole THEN "loader" ELSE "dead")
  /\ UNCHANGED <<flash, seen, offer, bounds>>
------------------------------------------------------------------------------
(* Settings at the start of the main application and of the upgrade loader. *)

\* stb_data_factory_init; the main application also makes the backup.
FactoryInit ==
  /\ pc \in {"main", "loader"} /\ ~Loads(stored)
  /\ own' = TRUE /\ stb' = [Default EXCEPT !.table = Scanned(<<>>)] /\ Save
  /\ IF pc = "main" /\ LoaderWhole THEN Backup("run")
     ELSE Goes(IF pc = "main" THEN "run" ELSE "ota")
  /\ UNCHANGED <<flash, seen, offer, bounds>>

\* stb_data_factory_complete: the table is saved, the state not yet.
Complete ==
  /\ pc \in {"main", "loader"} /\ Loads(stored) /\ stored.state = "reset"
  /\ own' = TRUE /\ stb' = [stored EXCEPT !.table = Scanned(@)] /\ Save
  /\ pc' = "completed" /\ job' = [NoJob EXCEPT !.then = IF pc = "main" THEN "run" ELSE "ota"]
  /\ UNCHANGED <<flash, seen, offer, bounds>>

Completed ==
  /\ pc = "completed" /\ Goes(job.then)
  /\ stb' = [stb EXCEPT !.state = "normal"] /\ own' = own /\ Save
  /\ UNCHANGED <<flash, seen, offer, bounds>>

LoadSettings ==
  /\ pc \in {"main", "loader"} /\ Loads(stored) /\ stored.state # "reset" /\ Load
  /\ Goes(IF pc = "main" THEN "run" ELSE "ota")
  /\ UNCHANGED <<flash, stored, seen, offer, bounds>>

Newer(s) == s.sw > stb.sw

\* ap_OTA_upgrade: a new version was announced.
Request ==
  /\ pc = "run" /\ \E s \in Streams : Newer(s)
  /\ stored' = [stb EXCEPT !.trigger = "appota"] /\ Reboot
  /\ UNCHANGED <<flash, bounds>>
------------------------------------------------------------------------------
(* The upgrade loader: upg_ota.c, upg_ota_api.c. *)

\* Without the parameters of the main application the user is asked for them.
Ota ==
  /\ pc = "ota" /\ Goes(IF stb.trigger \in {"bootkey", "none"} THEN "prompt" ELSE "begin")
  /\ UNCHANGED <<flash, stored, stb, own, seen, offer, bounds>>

Confirm ==
  /\ pc = "prompt" /\ Goes("begin")
  /\ UNCHANGED <<flash, stored, stb, own, seen, offer, bounds>>

Refusal ==
  IF \E s \in Streams : Newer(s)
  THEN refusals < MaxRefusals /\ refusals' = refusals + 1 ELSE UNCHANGED refusals

Cancel ==
  /\ pc = "prompt" /\ Refusal /\ Reboot
  /\ UNCHANGED <<flash, stored, crashes, keys>>

Begin ==
  /\ pc = "begin" /\ Goes("download")
  /\ stb' = [stb EXCEPT !.trigger = "none"] /\ own' = own /\ Save
  /\ UNCHANGED <<flash, seen, offer, bounds>>

\* No service, no newer version, a download or a decompression that fails.
NoDownload ==
  /\ pc = "download" /\ Refusal /\ Goes("prompt")
  /\ UNCHANGED <<flash, stored, stb, own, seen, offer, crashes, keys>>

\* ota_cmd_start_burnflash: from here on an interrupted upgrade is resumed.
Download ==
  /\ pc = "download" /\ Goes("burn")
  /\ \E s \in Streams : Newer(s) /\ offer' = s
  /\ stb' = [stb EXCEPT !.state = "preburn"] /\ own' = own /\ Save
  /\ UNCHANGED <<flash, seen, bounds>>

BurnFails == Goes("prompt") /\ UNCHANGED <<stb, stored, own>>
------------------------------------------------------------------------------
(* _upg_upgrade_part_by_all, limited: everything, the user data kept. *)

UserOffset(t) ==
  LET k == CHOOSE k \in 1 .. Len(t) : t[k].id = "user" /\ \A j \in 1 .. k - 1 : t[j].id # "user"
  IN SizeTo(t)[k - 1]

\* The image buffer holds what was read of the flash: part.size of it.
Buffer(img) ==
  [i \in DOMAIN img |-> IF i <= Size(stb.table) /\ i \in DOMAIN flash THEN flash[i] ELSE Junk]

\* Mutant: the old chunk is only looked for by its header.
OldUserByHead(m) == Found(m, "user")

\* __upg_restore_chunk finds the old chunk by its header, or by the table.
OldUser(m) ==
  IF Found(m, "user") # 0 THEN Found(m, "user")
  ELSE IF \E k \in DOMAIN stb.table : stb.table[k].id = "user" THEN UserOffset(stb.table) + 1 ELSE 0

Kept(img) ==
  LET m == Buffer(img) old == OldUser(m) new == Found(img, "user")
  IN IF old \in DOMAIN m /\ IsHead(m[old]) /\ Lens(m[old].id, m[old].ver) = UserLen
     THEN [i \in DOMAIN img |->
             IF i \in new .. new + UserLen - 1
             THEN IF old + i - new \in DOMAIN m THEN m[old + i - new] ELSE Junk
             ELSE img[i]]
     ELSE img

BurnAll ==
  /\ pc = "burn" /\ offer.mode = "all"
  /\ stb' = [stb EXCEPT !.needbackup = TRUE] /\ own' = own /\ Save
  /\ Copy(Kept(Image(offer.sw, offer.sw)), 1, "burnt")
  /\ UNCHANGED <<flash, seen, offer, bounds>>
------------------------------------------------------------------------------
(* _upg_upgrade_part_by_chunk, limited: chunks by flag and version. *)

AtOf(k) == SizeTo(stb.table)[k - 1] + 1

\* __upg_check_part: a chunk that is bad in flash adds 3.
Flag(k) ==
  LET c == stb.table[k] whole == Whole(flash, AtOf(k))
      asked == IF c.id = "user" THEN 0 ELSE offer.flag[c.id]
  IN CASE ~whole -> asked + 3
       [] whole /\ asked = 1 /\ offer.sw <= flash[AtOf(k)].ver /\ c.ver = flash[AtOf(k)].ver -> 0
       [] OTHER -> asked

Upgraded == {k \in DOMAIN stb.table : Flag(k) # 0}

\* __upg_reorg_part refuses a chunk of another length, and a part that does not fit.
Fits ==
  /\ \A k \in Upgraded : LET c == stb.table[k] IN Lens(c.id, c.ver) = Lens(c.id, offer.sw)
  /\ Size(stb.table) <= NorSize

\* The part as it will be; flag 3 brings a header only.
Reorganised ==
  [i \in 1 .. Size(stb.table) |->
    LET k == CHOOSE k \in DOMAIN stb.table : AtOf(k) <= i /\ i <= SizeTo(stb.table)[k]
        id == stb.table[k].id
    IN CASE k \notin Upgraded -> flash[i]
         [] Flag(k) = 3 -> IF i = AtOf(k) THEN Sector(id, offer.sw, 0) ELSE flash[i]
         [] OTHER -> Sector(id, offer.sw, i - AtOf(k) + 1)]

NewTable ==
  [k \in DOMAIN stb.table |-> IF k \in Upgraded THEN [stb.table[k] EXCEPT !.ver = offer.sw] ELSE stb.table[k]]

BurnChunks ==
  /\ pc = "burn" /\ offer.mode = "chunk"
  /\ IF ~Fits THEN BurnFails
     ELSE IF Upgraded = {} THEN Goes("burnt") /\ UNCHANGED <<stb, stored, own>>
     ELSE /\ stb' = IF \E k \in Upgraded : stb.table[k].id = "loader"
                    THEN [stb EXCEPT !.needbackup = TRUE] ELSE stb
          /\ own' = own /\ Save
          /\ Copy(Reorganised, 1, "chunks")
  /\ UNCHANGED <<flash, seen, offer, bounds>>

\* stb_info_data_update_part.
UpdatePart ==
  /\ pc = "chunks" /\ Goes("burnt")
  /\ stb' = [stb EXCEPT !.table = NewTable] /\ own' = own /\ Save
  /\ UNCHANGED <<flash, seen, offer, bounds>>
------------------------------------------------------------------------------
\* Mutant: the state is left as it was.
BurntUnmarked ==
  /\ pc = "burnt" /\ Goes("done")
  /\ stb' = [stb EXCEPT !.sw = offer.sw]
  /\ own' = own /\ Save
  /\ UNCHANGED <<flash, seen, offer, bounds>>

\* After all parts: the version, and the state that ends the upgrade.
Burnt ==
  /\ pc = "burnt" /\ Goes("done")
  /\ stb' = IF offer.mode = "all"
            THEN [stb EXCEPT !.sw = offer.sw, !.state = "reset", !.table = <<>>]
            ELSE [stb EXCEPT !.sw = offer.sw, !.state = "normal"]
  /\ own' = own /\ Save
  /\ UNCHANGED <<flash, seen, offer, bounds>>

\* otaloader: reboot, unless a chunk is bad.
Done ==
  /\ pc = "done"
  /\ IF CrcOk THEN Reboot ELSE Goes("dead") /\ UNCHANGED <<stb, own, seen, offer>>
  /\ UNCHANGED <<flash, stored, bounds>>

\* Power fails; a sector being filled may hold a part of what was meant for it.
Torn == IF pc = "write" /\ Differs /\ flash[Here] = Blank /\ IsHead(job.src[job.n])
        THEN {flash, [flash EXCEPT ![Here] = [job.src[job.n] EXCEPT !.part = 0]]} ELSE {flash}

PowerOff ==
  /\ pc # "off" /\ crashes < MaxCrashes /\ crashes' = crashes + 1
  /\ flash' \in Torn /\ Reboot
  /\ UNCHANGED <<stored, keys, refusals>>
------------------------------------------------------------------------------
\* As programmed in the factory: no settings record and no backup yet.
Init ==
  /\ flash = [i \in 1 .. NorSize |-> IF i \in DOMAIN Image(0, Mine) THEN Image(0, Mine)[i] ELSE Blank]
  /\ stored = NoRecord /\ stb = Default /\ own = FALSE
  /\ pc = "off" /\ job = NoJob /\ seen = Unseen /\ offer = NoOffer
  /\ crashes = 0 /\ keys = 0 /\ refusals = 0

Boot == PowerOn \/ Flagged \/ Decide \/ Enter \/ Restored \/ Spare \/ Start
Settings == FactoryInit \/ Complete \/ Completed \/ LoadSettings
Upgrade ==
  \/ Ota \/ Confirm \/ Cancel \/ Begin \/ NoDownload \/ Download
  \/ BurnAll \/ BurnChunks \/ UpdatePart \/ Burnt \/ Done
Write == Verified \/ Erase \/ Fill

Next == Boot \/ Settings \/ Upgrade \/ Write \/ Request \/ PowerOff

\* The programs run on and the user answers the prompt, in the end by leaving it when
\* nothing newer is on air; power, keys, refusals and failed downloads are bounded.
Fairness == WF_vars(Boot \/ Settings \/ Upgrade \/ Write) /\ SF_vars(Cancel)

Spec == Init /\ [][Next]_vars /\ Fairness
=============================================================================
