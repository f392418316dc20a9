------------------------------ MODULE PsiSearch ------------------------------
(***************************************************************************)
(* A program search: the scan loop of lib_as.c (as_main, as_enum_scan,     *)
(* as_service_start, as_service_stop) around psi_search_start and          *)
(* psi_search_stop of si_search.c, with the section callbacks they install *)
(* in the SI engine.                                                       *)
(*                                                                         *)
(* Four actors: the libpub task, which scans; the SIE task, which closes   *)
(* filters that were hit or timed out; the demux driver, which delivers    *)
(* sections at a priority of its own; the user interface, which starts and *)
(* stops scans.  The SI engine is the one SieEngine describes, seen from   *)
(* outside: its calls are atomic, sie_close waits for the SIE task.        *)
(***************************************************************************)
EXTENDS Integers, Sequences, FiniteSets, SequencesExt

CONSTANTS
    Pats,          \* the PATs on air: for each program the PID of its PMT
    Invalid,       \* PIDs psi_prepare_pmt skips: 0, and 8191 or more
    Low,           \* PIDs below 0x20
    Filters,       \* PSI_MODULE_CONCURRENT_FILTER
    Schemes,       \* of {"programs", "both", "nit"}: search_scheme
    Tps, Scans,    \* bounds: transponders of a scan, scans
    Refuses,       \* the driver may refuse the filter of the PAT, the SDT or the NIT
    LateHits,      \* the driver may deliver between a time-out's callback and
                   \* the close of the filter
    StopPreempted  \* as_service_stop may lose the processor between seeing
                   \* RELEASE and sie_open

ASSUME SearchAssumption ==
    /\ Filters \in Nat /\ Filters >= 3
    /\ Tps \in Nat /\ Scans \in Nat
    /\ {Refuses, LateHits, StopPreempted} \subseteq BOOLEAN
    /\ Schemes \subseteq {"programs", "both", "nit"}
    /\ IsFiniteSet(Pats)
    /\ \A p \in Pats : p \in Seq(Range(p)) /\ Range(p) \cap {"PAT", "SDT", "NIT"} = {}

Tables == {"PAT", "SDT", "NIT"}
Pids == UNION {Range(p) : p \in Pats}
Keys == Tables \cup Pids
None == "none"

VARIABLES
    asInfo,      \* as_info is not NULL
    stopSignal,  \* as_info->stop_scan_signal
    tps,         \* transponders left to scan
    scans,       \* scans left (bound)
    pc,          \* where the libpub task is
    at,          \* the post function psi_search_start has come to
    scheme,      \* search_scheme
    todo,        \* PIDs psi_prepare_pmt has still to ask for
    n,           \* its count of PIDs that are asked for
    made,        \* psi_flag has been created
    flags,       \* psi_flag
    engine,      \* the engine: closed; open; open with the search's buffers;
                 \* open, its table freed by an earlier sie_close
    flt,         \* the engine's requests by what they are for
    sie, cb,     \* the SIE task and the request whose parser it is in
    pat,         \* psi_info->pat: map_counter and maps[].pm_pid
    listed,      \* maps still linked to their root
    stat,        \* maps[].pm_stat
    parsed,      \* some map's PMT was parsed: pmt_status 1
    counter,     \* psi_info->pmt_counter
    held,        \* the driver is told to stop getting sections
    stop         \* where as_service_stop is

scan   == <<asInfo, stopSignal, tps, scans>>
search == <<at, scheme, todo, n>>
info   == <<pat, listed, stat, parsed, counter>>
siev   == <<flt, sie, cb>>
vars   == <<scan, pc, search, made, flags, engine, siev, info, held, stop>>

Maps == DOMAIN pat
\* Mutant: an abort wakes nobody.
AbnormalRelease == {"RELEASE"}

Abnormal == {"ABORT", "RELEASE"}

(* psi_wait_stat: it returns when one of the flags is set, badly when the   *)
(* search is to end, and else clears what it was told to.                   *)
Woken(good) == flags \cap (good \cup Abnormal) # {}
Good == flags \cap Abnormal = {}
Cleared(clear) == IF Good THEN flags \ clear ELSE flags

(* psi_make_tree: programs with one PMT PID share a list, named for the      *)
(* first of them; psi_prepare_pmt takes the lists in the order of those.    *)
Firsts(p) == {i \in DOMAIN p : \A k \in 1 .. i - 1 : p[k] # p[i]}
Root(p, j) == CHOOSE i \in Firsts(p) : Cardinality(Firsts(p) \cap 1 .. i) = j
Roots(p) == [j \in 1 .. Cardinality(Firsts(p)) |-> p[Root(p, j)]]

Linked(p) == {i \in listed : pat[i] = p}

(* The requests in use, of the engine's Filters.                            *)
Full == Cardinality({k \in Keys : flt[k] # "free"}) >= Filters

(***************************************************************************)
(* The user interface.  as_service_start queues a command for the libpub   *)
(* task; as_service_stop returns when as_main has ended.                   *)
(***************************************************************************)
Start ==
    /\ ~asInfo /\ stop = "off" /\ scans > 0
    /\ asInfo' = TRUE /\ stopSignal' = FALSE
    /\ scans' = scans - 1 /\ tps' = Tps
    /\ pc' = "queued"
    /\ UNCHANGED <<search, made, flags, engine, siev, info, held, stop>>

StopBegin ==
    /\ stop = "off" /\ asInfo
    /\ stopSignal' = TRUE /\ stop' = "search"
    /\ UNCHANGED <<asInfo, tps, scans, pc, search, made, flags, engine, siev, info, held>>

(* psi_search_stop: RELEASE says that no search is under way.               *)
StopSearch ==
    /\ stop = "search"
    /\ stop' = IF ~asInfo \/ ~made THEN "gone"
                ELSE IF "RELEASE" \in flags THEN "open" ELSE "abort"
    /\ UNCHANGED <<scan, pc, search, made, flags, engine, siev, info, held>>

StopAbort ==
    /\ stop = "abort"
    /\ held' = TRUE
    /\ flags' = flags \cup {"ABORT"}
    /\ stop' = "wait"
    /\ UNCHANGED <<scan, pc, search, made, engine, siev, info>>

StopWait ==
    /\ stop = "wait" /\ "RELEASE" \in flags
    /\ held' = FALSE
    /\ stop' = "open"
    /\ UNCHANGED <<scan, pc, search, made, flags, engine, siev, info>>

StopOpen ==
    /\ stop = "open"
    /\ engine' = IF engine = "closed" THEN "open" ELSE engine
    /\ stop' = "gone"
    /\ UNCHANGED <<scan, pc, search, made, flags, siev, info, held>>

StopEnd ==
    /\ stop = "gone" /\ ~asInfo
    /\ stop' = "off"
    /\ UNCHANGED <<scan, pc, search, made, flags, engine, siev, info, held>>

(***************************************************************************)
(* The libpub task: as_main and as_enum_scan.                              *)
(***************************************************************************)
Goto(place) ==
    /\ pc' = place
    /\ UNCHANGED <<scan, made, held, stop>>

\* Mutant: the count of the last search stays.
CleanedNotCounter ==
    /\ pat' = <<>> /\ listed' = {} /\ stat' = <<>>
    /\ parsed' = FALSE /\ counter' = counter

Cleaned ==
    /\ pat' = <<>> /\ listed' = {} /\ stat' = <<>>
    /\ parsed' = FALSE /\ counter' = 0

Main ==
    /\ pc = "queued"
    /\ Goto("lock")
    /\ Cleaned
    /\ UNCHANGED <<search, flags, engine, siev>>

(* One turn of the transponder loop up to the test of stop_scan_signal: the *)
(* tuner locks or not.                                                     *)
NextTp ==
    /\ pc = "lock"
    /\ IF tps = 0 \/ stopSignal
       THEN pc' = "over" /\ UNCHANGED <<tps, scheme>>
       ELSE \/ tps' = tps - 1 /\ UNCHANGED <<pc, scheme>>
            \/ pc' = "init" /\ scheme' \in Schemes /\ UNCHANGED tps
    /\ UNCHANGED <<asInfo, stopSignal, scans, at, todo, n, made, flags, engine,
                   siev, info, held, stop>>

(* psi_module_init: nothing is left of the last search, RELEASE included.   *)
ModuleInit ==
    /\ pc = "init"
    /\ StopPreempted \/ stop # "open"
    /\ pc' = "close" /\ made' = TRUE /\ flags' = {}
    /\ Cleaned
    /\ UNCHANGED <<scan, search, engine, siev, held, stop>>

(* sie_close, at the start of the search and at its end: it waits for the   *)
(* SIE task's callback, closes all filters and frees the table - whichever *)
(* table there is by then.                                                 *)
CloseBegin ==
    /\ pc \in {"close", "exit"}
    /\ engine' = "closed"
    /\ Goto(IF pc = "close"
            THEN IF engine = "closed" THEN "open" ELSE "closing"
            ELSE IF engine = "closed" THEN "final" ELSE "exiting")
    /\ UNCHANGED <<search, flags, siev, info>>

CloseEnd ==
    /\ pc \in {"closing", "exiting"} /\ sie = "poll"
    /\ flt' = [k \in Keys |-> "free"]
    /\ engine' = IF engine = "closed" THEN "closed" ELSE "freed"
    /\ Goto(IF pc = "closing" THEN "open" ELSE "final")
    /\ UNCHANGED <<search, flags, sie, cb, info>>

SieOpen ==
    /\ pc = "open"
    /\ engine' = IF engine = "closed" THEN "search" ELSE engine
    /\ Goto("tables")
    /\ UNCHANGED <<search, flags, siev, info>>

(* The filters of tables.  One that the driver refuses is free again, and is *)
(* not asked for a second time: its table will not be received.            *)
Enabled(tables) ==
    \E refused \in SUBSET tables :
        /\ Refuses \/ refused = {}
        /\ flt' = [k \in Keys |-> IF k \in tables \ refused THEN "active" ELSE flt[k]]

(* The filters of the PAT and the SDT.  Without buffers of the search's own *)
(* sie_alloc_filter returns NULL, which psi_search_start dereferences; with *)
(* a freed table it reads what is not there.                               *)
OpenTables ==
    /\ pc = "tables"
    /\ IF engine # "search"
       THEN Goto("crashed") /\ UNCHANGED flt
       ELSE /\ Enabled({"PAT"} \cup IF scheme = "nit" THEN {} ELSE {"SDT"})
            /\ Goto(IF scheme = "programs" THEN "event" ELSE "patForNit")
    /\ UNCHANGED <<search, flags, engine, sie, cb, info>>

(* The filter of the NIT waits for the PAT, which may name its PID.         *)
OpenNit ==
    /\ pc = "patForNit" /\ Woken({"PAT"})
    /\ Enabled({"NIT"})
    /\ Goto(IF scheme = "nit" THEN "nit" ELSE "event")
    /\ UNCHANGED <<search, flags, engine, sie, cb, info>>

(***************************************************************************)
(* The post functions, in the order of post_fn_array, an on_event before   *)
(* each; the first that fails ends the search.                             *)
(***************************************************************************)
After(fn) == CASE fn = "PAT" -> "NIT" [] fn = "NIT" -> "PMT"
               [] fn = "PMT" -> "SDT" [] OTHER -> "EIT"

(* Abort: ABORT makes the last psi_wait_stat return at once.                *)
AbortExit(f) == flags' = f \cup {"ABORT"} /\ Goto("exit") /\ UNCHANGED at
GoOn(f) == flags' = f /\ at' = After(at) /\ Goto("event")
Post == UNCHANGED <<scheme, todo, n, engine, siev, info>>

OnEvent ==
    /\ pc = "event"
    /\ IF stopSignal THEN AbortExit(flags)
       ELSE Goto("wait") /\ UNCHANGED <<flags, at>>
    /\ Post

PsiOnPat ==
    /\ pc = "wait" /\ at = "PAT" /\ Woken({"PAT"})
    /\ IF Good /\ pat # <<>>
       THEN /\ todo' = Roots(pat) /\ n' = Len(todo')
            /\ Goto("prepare")
            /\ UNCHANGED flags
       ELSE /\ IF scheme = "both" THEN Goto("nit") /\ UNCHANGED flags
               ELSE Goto("exit") /\ flags' = flags \cup {"ABORT"}
            /\ UNCHANGED <<todo, n>>
    /\ UNCHANGED <<at, scheme, engine, siev, info>>

(* The transponders of the NIT are added to those to scan.  When the store   *)
(* is full that fails, as it does once the user stops, and the search ends; *)
(* a full store ends the scan with it, of which this is the last turn.     *)
NitReceived(only) ==
    /\ Woken({"NIT"})
    /\ \/ Good /\ tps' = 1 /\ pc' = "exit"
       \/ tps' = tps /\ pc' = IF only \/ ~Good \/ stopSignal THEN "exit" ELSE "event"
    /\ flags' = Cleared({"NIT"}) \cup IF pc' = "exit" THEN {"ABORT"} ELSE {}
    /\ at' = IF pc' = "exit" THEN at ELSE After(at)
    /\ UNCHANGED <<asInfo, stopSignal, scans, made, held, stop>>

PsiOnNit ==
    /\ pc = "wait" /\ at = "NIT"
    /\ \/ scheme = "programs" /\ GoOn(flags)
       \/ scheme = "both" /\ NitReceived(FALSE)
    /\ Post

(* psi_on_nit where the search is only for the NIT, or the PAT was not      *)
(* received.                                                               *)
NitOnly ==
    /\ pc = "nit" /\ NitReceived(TRUE)
    /\ Post

PsiOnPmt ==
    /\ pc = "wait" /\ at = "PMT" /\ Woken({"PMTALL"})
    /\ IF Good /\ parsed THEN GoOn(Cleared({"PMTALL"}))
       ELSE AbortExit(Cleared({"PMTALL"}))
    /\ Post

PsiOnSdt ==
    /\ pc = "wait" /\ at = "SDT" /\ Woken({"SDT"})
    /\ IF Good THEN GoOn(Cleared({"SDT"})) ELSE AbortExit(flags)
    /\ Post

(* psi_on_eit has nothing to wait for.  The programs are stored one by one, *)
(* until the store is full or the user stops, which end the scan.          *)
Store ==
    /\ pc = "wait" /\ at = "EIT"
    /\ pc' = "exit"
    /\ \E full \in BOOLEAN : tps' = IF full \/ stopSignal THEN 1 ELSE tps
    /\ UNCHANGED <<asInfo, stopSignal, scans, search, made, flags, engine, siev, info,
                   held, stop>>

(***************************************************************************)
(* psi_prepare_pmt: a filter for each PID; when the engine has no request  *)
(* left it waits until a PMT filter has been closed.                       *)
(***************************************************************************)
Prepare == pc = "prepare" /\ todo # <<>>
Skip == todo' = Tail(todo) /\ n' = n - 1 /\ UNCHANGED <<pc, flt>>
Prepared == UNCHANGED <<scan, at, scheme, made, flags, engine, sie, cb, info, held, stop>>

SkipInvalid ==
    /\ Prepare /\ Head(todo) \in Invalid
    /\ Skip /\ Prepared

(* A filter the driver refuses is asked for again after 20 ms: that leaves   *)
(* no trace in the state, and is assumed to succeed in the end.             *)
OpenPmt ==
    /\ Prepare /\ Head(todo) \notin Invalid /\ ~Full
    /\ flt' = [flt EXCEPT ![Head(todo)] = "active"]
    /\ todo' = Tail(todo)
    /\ UNCHANGED <<pc, n>> /\ Prepared

NoRequest ==
    /\ Prepare /\ Head(todo) \notin Invalid /\ Full
    /\ IF Head(todo) \in Low THEN Skip
       ELSE pc' = "full" /\ UNCHANGED <<todo, n, flt>>
    /\ Prepared

ClearSection ==
    /\ pc = "full"
    /\ flags' = flags \ {"SECTION"}
    /\ Goto("section")
    /\ UNCHANGED <<search, engine, siev, info>>

WaitSection ==
    /\ pc = "section" /\ Woken({"SECTION"})
    /\ flags' = Cleared({"SECTION"})
    /\ at' = IF Good THEN at ELSE After(at)
    /\ Goto(IF Good THEN "prepare" ELSE "event")
    /\ UNCHANGED <<scheme, todo, n, engine, siev, info>>

(* With no PID to wait for, PMTALL is set here.                             *)
PrepareEnd ==
    /\ pc = "prepare" /\ todo = <<>>
    /\ GoOn(IF n <= 0 THEN flags \cup {"PMTALL"} ELSE flags)
    /\ Post

(* The end of psi_search_start, and back to the transponder loop, on_tuning *)
(* having moved it on.                                                     *)
Release ==
    /\ pc = "final" /\ Woken({"PAT", "SDT"})
    /\ flags' = (Cleared({"PAT", "SDT"}) \ {"ABORT"}) \cup {"RELEASE"}
    /\ pc' = "lock" /\ tps' = tps - 1
    /\ at' = "PAT" /\ scheme' = "programs" /\ todo' = <<>> /\ n' = 0
    /\ UNCHANGED <<asInfo, stopSignal, scans, made, engine, siev, info, held, stop>>

(* The end of as_main: the driver delivers again, the engine is open.       *)
\* Mutant: the engine stays as the search left it.
ResumedNot == engine

Resumed == IF engine = "closed" THEN "open" ELSE engine

ScanOver ==
    /\ pc = "over"
    /\ held' = FALSE /\ engine' = Resumed
    /\ pc' = "end"
    /\ UNCHANGED <<scan, search, made, flags, siev, info, stop>>

ScanEnd ==
    /\ pc = "end"
    /\ asInfo' = FALSE /\ pc' = "idle"
    /\ UNCHANGED <<stopSignal, tps, scans, search, made, flags, engine, siev, info, held, stop>>

(***************************************************************************)
(* The driver delivers a section: of a filter that is asked for, and, with *)
(* LateHits, of one whose time-out is being dealt with.                    *)
(***************************************************************************)
Hits(k) == ~held /\ (flt[k] = "active" \/ (LateHits /\ flt[k] = "timedout"))
Stopped(k) == flt' = [flt EXCEPT ![k] = IF @ = "active" THEN "hit" ELSE "done"]
Driver == UNCHANGED <<scan, pc, search, made, flags, engine, sie, cb, held, stop>>

PatHit ==
    /\ Hits("PAT")
    /\ pat' \in Pats
    /\ listed' = DOMAIN pat'
    /\ stat' = [i \in DOMAIN pat' |-> "new"]
    /\ Stopped("PAT")
    /\ UNCHANGED <<parsed, counter>>
    /\ Driver

TableHit(k) ==
    /\ k \in {"SDT", "NIT"} /\ Hits(k)
    /\ Stopped(k)
    /\ UNCHANGED info /\ Driver

(* psi_on_pmt_section_hit, psi_analyze_pmt and psi_remove_map: the last map *)
(* of a PID stays in its list and ends the filter, as an abort does.       *)
PmtHit(i) ==
    LET p == pat[i]
        last == Linked(p) = {i}
        aborted == "ABORT" \in flags
    IN /\ i \in listed /\ Hits(p)
       /\ parsed' \in IF aborted THEN {parsed} ELSE {parsed, TRUE}
       /\ stat' = [stat EXCEPT ![i] = "returned"]
       /\ counter' = counter + 1
       /\ IF last \/ aborted THEN Stopped(p) /\ UNCHANGED listed
          ELSE listed' = listed \ {i} /\ UNCHANGED flt
       /\ UNCHANGED pat /\ Driver

(***************************************************************************)
(* The SIE task visits a request that was hit or timed out.                *)
(***************************************************************************)
Sie == UNCHANGED <<scan, pc, search, made, engine, held, stop>>
Due(k) == sie = "poll" /\ engine = "search" /\ flt[k] \in {"active", "hit"}
Visit(k) ==
    /\ cb' = k
    /\ flt' = [flt EXCEPT ![k] = IF @ = "active" THEN "timedout" ELSE "done"]

(* si_msection_filter_close.                                                *)
TableClose(k) ==
    /\ k \in Tables /\ Due(k)
    /\ Visit(k)
    /\ flags' = flags \cup {k}
    /\ sie' = "free"
    /\ UNCHANGED info /\ Sie

(* psi_on_pmt_filter_close: the maps not returned are counted, SECTION is   *)
(* set, and PMTALL if that was the last.                                   *)
Uncounted(p) == {i \in Linked(p) : stat[i] = "new"}

PmtClose(p) ==
    /\ p \in Pids /\ Due(p)
    /\ Visit(p)
    /\ counter' = counter + Cardinality(Uncounted(p))
    /\ stat' = [i \in Maps |-> IF i \in Uncounted(p) THEN "closed" ELSE stat[i]]
    /\ flags' = flags \cup {"SECTION"}
    /\ sie' = "check"
    /\ UNCHANGED <<pat, listed, parsed>> /\ Sie

PmtCheck ==
    /\ sie = "check"
    /\ flags' = IF counter = Len(pat) THEN flags \cup {"PMTALL"} ELSE flags
    /\ sie' = "free"
    /\ UNCHANGED <<flt, cb, info>> /\ Sie

(* dispatch_section, the parser having returned sie_freed.                  *)
Freed ==
    /\ sie = "free"
    /\ flt' = [flt EXCEPT ![cb] = "free"]
    /\ sie' = "poll" /\ cb' = None
    /\ UNCHANGED <<flags, info>> /\ Sie

(***************************************************************************)
(* The specification.                                                      *)
(***************************************************************************)
Init ==
    /\ asInfo = FALSE /\ stopSignal = FALSE /\ tps = 0 /\ scans = Scans
    /\ pc = "idle" /\ at = "PAT" /\ scheme = "programs"
    /\ todo = <<>> /\ n = 0
    /\ made = FALSE /\ flags = {}
    /\ engine = "open" /\ flt = [k \in Keys |-> "free"]
    /\ sie = "poll" /\ cb = None
    /\ pat = <<>> /\ listed = {} /\ stat = <<>> /\ parsed = FALSE /\ counter = 0
    /\ held = FALSE /\ stop = "off"

User == Start \/ StopBegin

AsService == StopSearch \/ StopAbort \/ StopWait \/ StopOpen \/ StopEnd

PubTask ==
    \/ Main \/ NextTp \/ ModuleInit \/ CloseBegin \/ CloseEnd \/ SieOpen
    \/ OpenTables \/ OpenNit \/ OnEvent
    \/ PsiOnPat \/ PsiOnNit \/ NitOnly \/ PsiOnPmt \/ PsiOnSdt \/ Store
    \/ SkipInvalid \/ OpenPmt \/ NoRequest
    \/ ClearSection \/ WaitSection \/ PrepareEnd
    \/ Release \/ ScanOver \/ ScanEnd

DmxDriver == PatHit \/ (\E k \in Tables : TableHit(k)) \/ (\E i \in Maps : PmtHit(i))

SieTask ==
    \/ \E k \in Tables : TableClose(k)
    \/ \E p \in Pids : PmtClose(p)
    \/ PmtCheck \/ Freed

Next == User \/ AsService \/ PubTask \/ DmxDriver \/ SieTask

Spec ==
    /\ Init /\ [][Next]_vars
    /\ WF_vars(AsService) /\ WF_vars(PubTask) /\ WF_vars(SieTask)

(***************************************************************************)
(* Properties.                                                             *)
(***************************************************************************)

(* The state is well-typed; pmt_counter never counts a program more than    *)
(* twice, once for its section and once for its time-out.                  *)
TypeOK ==
    /\ {asInfo, stopSignal, made, held} \subseteq BOOLEAN
    /\ tps \in 0 .. Tps /\ scans \in 0 .. Scans
    /\ at \in {"PAT", "NIT", "PMT", "SDT", "EIT"} /\ scheme \in Schemes \cup {"programs"}
    /\ todo \in Seq(Pids) /\ n \in Nat
    /\ flags \subseteq Tables \cup {"SECTION", "PMTALL", "ABORT", "RELEASE"}
    /\ engine \in {"closed", "open", "search", "freed"}
    /\ flt \in [Keys -> {"free", "active", "hit", "timedout", "done"}]
    /\ sie \in {"poll", "check", "free"} /\ cb \in Keys \cup {None}
    /\ pat \in Pats \cup {<<>>} /\ listed \subseteq Maps /\ parsed \in BOOLEAN
    /\ stat \in [Maps -> {"new", "closed", "returned"}]
    /\ counter \in 0 .. 2 * Len(pat)
    /\ stop \in {"off", "search", "abort", "wait", "open", "gone"}

(* When no scan runs and no stop is under way the engine is open for the   *)
(* rest of the system, the driver delivers, and no filter and no callback  *)
(* of the search is left that would write to memory it no longer has.      *)
LeavesEngineOpen ==
    /\ ~asInfo => sie = "poll" /\ \A k \in Keys : flt[k] = "free"
    /\ ~asInfo /\ stop = "off" => engine = "open" /\ ~held

(* The search always has an engine with buffers of its own to work with.    *)
EngineForSearch == pc # "crashed"

(* A stop that came before psi_flag was made set no ABORT, and the search   *)
(* waits for a table it has no filter for: on_event, where it would see     *)
(* stop_scan_signal, comes after that.                                     *)
StopLost ==
    /\ stop = "gone" /\ Good
    /\ \/ pc = "patForNit" /\ flt["PAT"] = "free" /\ "PAT" \notin flags
       \/ pc = "nit" /\ flt["NIT"] = "free" /\ "NIT" \notin flags

(* as_service_stop returns, wherever the search is, also one that would     *)
(* otherwise wait for ever: for a PMT it does not count, or for a table     *)
(* whose filter was refused - except where StopLost holds.                 *)
StopEnds == (stop # "off") ~> (stop = "off" \/ StopLost)

(* as_service_stop always returns.  False if the driver may refuse.        *)
StopReturns == (stop # "off") ~> (stop = "off")

(* A scan ends by itself.                                                   *)
SearchEnds == asInfo ~> ~asInfo
=============================================================================
