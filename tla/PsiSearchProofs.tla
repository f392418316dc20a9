--------------------------- MODULE PsiSearchProofs ---------------------------
(***************************************************************************)
(* What a program search leaves behind and what it counts, for any PATs,   *)
(* number of requests, transponders and scans, as long as as_service_stop  *)
(* is not preempted between seeing RELEASE and sie_open.                   *)
(***************************************************************************)
EXTENDS PsiSearch, FiniteSetTheorems, WellFoundedInduction, TLAPS

(* Where the libpub task works with the engine opened for the search.       *)
Searching == {"patForNit", "nit", "event", "wait", "prepare", "full", "section", "exit"}

(* Where no filter of the search is open and the SIE task is in none of its *)
(* callbacks: everywhere else, but for the wait at the end of the search.   *)
Quiet == {"idle", "queued", "lock", "init", "close", "closing", "open", "tables",
          "final", "over", "end"}

(* Inside psi_search_start, from psi_module_init to RELEASE.                *)
Inside == Searching \cup {"close", "closing", "open", "tables", "exiting", "final"}

FilterStates == {"free", "active", "hit", "timedout", "done"}

Types ==
    /\ pc \in Searching \cup Quiet \cup {"exiting"}
    /\ flt \in [Keys -> FilterStates]
    /\ sie \in {"poll", "check", "free"}
    /\ asInfo \in BOOLEAN /\ held \in BOOLEAN

(* The scan is alive exactly while its task is not idle.                    *)
Alive == asInfo <=> pc # "idle"

(* Nothing is open and no callback runs in the quiet places.                *)
Idle == pc \in Quiet => sie = "poll" /\ \A k \in Keys : flt[k] = "free"

(* While a search is under way no stop is about to open the engine.         *)
NoOpener == pc \in Inside => stop # "open" /\ "RELEASE" \notin flags

(* The engine is the search's while it searches, closed around that, and    *)
(* open again when the scan is over.                                        *)
Engine ==
    /\ pc \in Searching \cup {"tables"} => engine = "search"
    /\ pc \in {"closing", "open", "exiting", "final"} => engine = "closed"
    /\ pc \in {"idle", "end"} => engine = "open"
    /\ pc \in {"queued", "lock", "init", "close", "over"} => engine \in {"open", "closed"}

(* Only a stop that waits for RELEASE holds the driver.                     *)
Holding == held => stop = "wait"

(* Every program of the PAT has a PMT PID on air.                           *)
Programs == \A i \in Maps : pat[i] \in Pids

IInv == Types /\ Alive /\ Idle /\ NoOpener /\ Engine /\ Holding

USE DEF Searching, Quiet, Inside

(* The invariant holds when the box starts.                                 *)
LEMMA InitIInv == Init => IInv
BY DEF Init, IInv, Types, Alive, Idle, NoOpener, Engine, Holding, FilterStates

(* Starting a scan and asking for its stop keep it.                         *)
LEMMA UserKeeps == IInv /\ User => IInv'
<1>1. IInv /\ Start => IInv'
  BY DEF Start, IInv, Types, Alive, Idle, NoOpener, Engine, Holding, siev, search, info
<1>2. IInv /\ StopBegin => IInv'
  BY DEF StopBegin, IInv, Types, Alive, Idle, NoOpener, Engine, Holding, siev, search, info
<1> QED BY <1>1, <1>2 DEF User

(* So do the steps of psi_search_stop and as_service_stop.                  *)
LEMMA ServiceKeeps == IInv /\ AsService => IInv'
<1>1. IInv /\ StopSearch => IInv'
  <2> SUFFICES ASSUME IInv, StopSearch PROVE IInv'
    OBVIOUS
  <2>1. stop' = "open" => "RELEASE" \in flags
    BY DEF StopSearch
  <2>2. stop = "search" /\ UNCHANGED <<pc, asInfo, flags, engine, flt, sie, held>>
    BY DEF StopSearch, scan, siev
  <2> QED BY <2>1, <2>2 DEF IInv, Types, Alive, Idle, NoOpener, Engine, Holding
<1>2. IInv /\ StopAbort => IInv'
  BY DEF StopAbort, IInv, Types, Alive, Idle, NoOpener, Engine, Holding, siev, search, info, scan
<1>3. IInv /\ StopWait => IInv'
  <2> SUFFICES ASSUME IInv, StopWait PROVE IInv'
    OBVIOUS
  <2>1. /\ "RELEASE" \in flags /\ held' = FALSE
        /\ UNCHANGED <<pc, asInfo, flags, engine, flt, sie>>
    BY DEF StopWait, scan, siev
  <2> QED BY <2>1 DEF IInv, Types, Alive, Idle, NoOpener, Engine, Holding
<1>4. IInv /\ StopOpen => IInv'
  BY DEF StopOpen, IInv, Types, Alive, Idle, NoOpener, Engine, Holding, siev, search, info, scan
<1>5. IInv /\ StopEnd => IInv'
  BY DEF StopEnd, IInv, Types, Alive, Idle, NoOpener, Engine, Holding, siev, search, info, scan
<1> QED BY <1>1, <1>2, <1>3, <1>4, <1>5 DEF AsService

(* A step inside a search, whatever it does to filters and the SIE task.    *)
LEMMA Working ==
    ASSUME IInv, pc \notin Quiet, pc' \notin Quiet,
           pc' \in Searching \/ pc' = pc,
           flt' \in [Keys -> FilterStates], sie' \in {"poll", "check", "free"},
           "RELEASE" \in flags' => "RELEASE" \in flags,
           UNCHANGED <<asInfo, engine, held, stop>>,
           pc = "exiting" => pc' = pc
    PROVE  IInv'
<1>1. Types' /\ Alive' /\ Idle'
  BY DEF IInv, Types, Alive, Idle
<1>2. NoOpener' /\ Engine' /\ Holding'
  BY DEF IInv, Types, NoOpener, Engine, Holding
<1> QED BY <1>1, <1>2 DEF IInv

(* A step from one quiet place to another.                                  *)
LEMMA Resting ==
    ASSUME IInv, pc \in Quiet, pc' \in Quiet, UNCHANGED siev,
           asInfo' \in BOOLEAN, held' \in BOOLEAN, Alive', NoOpener', Engine', Holding'
    PROVE  IInv'
BY DEF IInv, Types, Idle, siev

(* So do those of the libpub task, if no stop is about to open the engine.  *)
LEMMA PubTaskKeeps == ~StopPreempted /\ IInv /\ PubTask => IInv'
<1> SUFFICES ASSUME ~StopPreempted, IInv, PubTask PROVE IInv'
  OBVIOUS
<1> USE DEF Goto, Cleaned, AbortExit, GoOn, Post, Prepare, Prepared, Skip, Cleared
<1>0. /\ flt \in [Keys -> FilterStates] /\ sie \in {"poll", "check", "free"}
      /\ asInfo \in BOOLEAN /\ held \in BOOLEAN
  BY DEF IInv, Types
<1> DEFINE Rest == Alive /\ NoOpener /\ Engine /\ Holding
<1>1. CASE Main
  <2>1. Rest'  BY <1>1 DEF Main, scan, IInv, Alive, NoOpener, Engine, Holding
  <2> QED BY <1>0, <1>1, <2>1, Resting DEF Main, scan
<1>2. CASE NextTp
  <2>1. Rest'  BY <1>2 DEF NextTp, IInv, Alive, NoOpener, Engine, Holding
  <2> QED BY <1>0, <1>2, <2>1, Resting DEF NextTp
<1>3. CASE ModuleInit
  <2>1. Rest'  BY <1>3 DEF ModuleInit, scan, IInv, Alive, NoOpener, Engine, Holding
  <2> QED BY <1>0, <1>3, <2>1, Resting DEF ModuleInit, scan
<1>4. CASE CloseBegin
  <2>1. Rest'  BY <1>4 DEF CloseBegin, scan, IInv, Alive, NoOpener, Engine, Holding
  <2>2. CASE pc = "close"
    BY <1>0, <1>4, <2>1, <2>2, Resting DEF CloseBegin, scan
  <2>3. CASE pc = "exit"
    <3>1. engine = "search"  BY <2>3 DEF IInv, Engine
    <3>2. pc' = "exiting" /\ UNCHANGED <<flt, sie, asInfo, held>>
      BY <1>4, <2>3, <3>1 DEF CloseBegin, scan, siev
    <3> QED BY <1>0, <2>1, <3>2 DEF IInv, Types, Idle
  <2> QED BY <1>4, <2>2, <2>3 DEF CloseBegin
<1>5. CASE CloseEnd
  <2>1. engine = "closed"  BY <1>5 DEF CloseEnd, IInv, Engine
  <2>2. Rest'  BY <1>5, <2>1 DEF CloseEnd, scan, IInv, Alive, NoOpener, Engine, Holding
  <2>3. Idle' /\ flt' \in [Keys -> FilterStates]  BY <1>5 DEF CloseEnd, Idle, FilterStates
  <2> QED BY <1>0, <1>5, <2>2, <2>3 DEF CloseEnd, scan, IInv, Types
<1>6. CASE SieOpen
  <2>1. Rest'  BY <1>6 DEF SieOpen, scan, IInv, Alive, NoOpener, Engine, Holding
  <2> QED BY <1>0, <1>6, <2>1, Resting DEF SieOpen, scan
<1>7. CASE OpenTables
  <2>1. engine = "search"  BY <1>7 DEF OpenTables, IInv, Engine
  <2>2. pc' \in {"event", "patForNit"} /\ UNCHANGED <<engine, flags, sie, asInfo, held, stop>>
    BY <1>7, <2>1 DEF OpenTables, scan
  <2>3. flt' \in [Keys -> FilterStates]  BY <1>0, <1>7, <2>1 DEF OpenTables, Enabled, FilterStates
  <2>4. Rest'  BY <1>7, <2>1, <2>2 DEF OpenTables, IInv, Alive, NoOpener, Engine, Holding
  <2> QED BY <1>0, <2>2, <2>3, <2>4 DEF IInv, Types, Idle
<1>8. CASE OpenNit
  <2>1. flt' \in [Keys -> FilterStates]  BY <1>0, <1>8 DEF OpenNit, Enabled, FilterStates
  <2> QED BY <1>0, <1>8, <2>1, Working DEF OpenNit, scan
<1>9. CASE OnEvent  BY <1>0, <1>9, Working DEF OnEvent, scan, siev
<1>10. CASE PsiOnPat  BY <1>0, <1>10, Working DEF PsiOnPat, scan, siev
<1>11. CASE PsiOnNit  BY <1>0, <1>11, Working DEF PsiOnNit, NitReceived, scan, siev
<1>12. CASE NitOnly  BY <1>0, <1>12, Working DEF NitOnly, NitReceived, scan, siev
<1>13. CASE PsiOnPmt  BY <1>0, <1>13, Working DEF PsiOnPmt, scan, siev
<1>14. CASE PsiOnSdt  BY <1>0, <1>14, Working DEF PsiOnSdt, scan, siev
<1>15. CASE Store  BY <1>0, <1>15, Working DEF Store, siev
<1>16. CASE SkipInvalid  BY <1>0, <1>16, Working DEF SkipInvalid, scan
<1>17. CASE OpenPmt
  <2>1. flt' \in [Keys -> FilterStates]  BY <1>0, <1>17 DEF OpenPmt, FilterStates
  <2> QED BY <1>0, <1>17, <2>1, Working DEF OpenPmt, scan
<1>18. CASE NoRequest  BY <1>0, <1>18, Working DEF NoRequest, scan
<1>19. CASE ClearSection  BY <1>0, <1>19, Working DEF ClearSection, scan, siev
<1>20. CASE WaitSection  BY <1>0, <1>20, Working DEF WaitSection, scan, siev
<1>21. CASE PrepareEnd  BY <1>0, <1>21, Working DEF PrepareEnd, scan, siev
<1>22. CASE Release
  <2>1. Rest'  BY <1>22 DEF Release, IInv, Alive, NoOpener, Engine, Holding
  <2> QED BY <1>0, <1>22, <2>1, Resting DEF Release
<1>23. CASE ScanOver
  <2>1. Rest'  BY <1>23 DEF ScanOver, Resumed, scan, IInv, Alive, NoOpener, Engine, Holding
  <2> QED BY <1>0, <1>23, <2>1, Resting DEF ScanOver, scan
<1>24. CASE ScanEnd
  <2>1. Rest'  BY <1>24 DEF ScanEnd, IInv, Alive, NoOpener, Engine, Holding
  <2> QED BY <1>0, <1>24, <2>1, Resting DEF ScanEnd
<1> QED BY <1>1, <1>2, <1>3, <1>4, <1>5, <1>6, <1>7, <1>8, <1>9, <1>10, <1>11, <1>12, <1>13,
           <1>14, <1>15, <1>16, <1>17, <1>18, <1>19, <1>20, <1>21, <1>22, <1>23, <1>24
        DEF PubTask

(* The driver only delivers for a filter that is open: not in a quiet place. *)
LEMMA DriverKeeps == Programs /\ IInv /\ DmxDriver => IInv'
<1> SUFFICES ASSUME Programs, IInv, DmxDriver PROVE IInv'
  OBVIOUS
<1>1. /\ flt \in [Keys -> FilterStates] /\ sie \in {"poll", "check", "free"}
      /\ pc \in Searching \cup Quiet \cup {"exiting"}
  BY DEF IInv, Types
<1>2. UNCHANGED <<pc, flags, engine, sie, asInfo, held, stop>>
  BY DEF DmxDriver, PatHit, TableHit, PmtHit, Driver, scan
<1>3. \E k \in Keys : Hits(k)
  <2>1. PatHit => Hits("PAT") /\ "PAT" \in Keys  BY DEF PatHit, Keys, Tables
  <2>2. \A k \in Tables : TableHit(k) => Hits(k) /\ k \in Keys  BY DEF TableHit, Keys
  <2>3. \A i \in Maps : PmtHit(i) => Hits(pat[i]) /\ pat[i] \in Keys
    BY DEF PmtHit, Programs, Maps, Keys
  <2> QED BY <2>1, <2>2, <2>3 DEF DmxDriver
<1>4. pc \notin Quiet  BY <1>3 DEF Hits, IInv, Idle
<1>5. flt' \in [Keys -> FilterStates]
  BY <1>1 DEF DmxDriver, PatHit, TableHit, PmtHit, Stopped, FilterStates
<1> QED BY <1>1, <1>2, <1>4, <1>5, Working

(* The SIE task visits open filters only: not in a quiet place.             *)
LEMMA SieTaskKeeps == IInv /\ SieTask => IInv'
<1> SUFFICES ASSUME IInv, SieTask PROVE IInv'
  OBVIOUS
<1>1. /\ flt \in [Keys -> FilterStates] /\ sie \in {"poll", "check", "free"}
      /\ pc \in Searching \cup Quiet \cup {"exiting"}
  BY DEF IInv, Types
<1>2. UNCHANGED <<pc, engine, asInfo, held, stop>>
  BY DEF SieTask, TableClose, PmtClose, PmtCheck, Freed, Sie, scan
<1>3. pc \notin Quiet
  BY DEF IInv, Idle, SieTask, TableClose, PmtClose, PmtCheck, Freed, Due, Keys
<1>4. flt' \in [Keys -> FilterStates]
  BY <1>1 DEF SieTask, TableClose, PmtClose, PmtCheck, Freed, Visit, FilterStates
<1>5. sie' \in {"poll", "check", "free"} /\ ("RELEASE" \in flags' => "RELEASE" \in flags)
  BY <1>1 DEF SieTask, TableClose, PmtClose, PmtCheck, Freed, Tables
<1> QED BY <1>1, <1>2, <1>3, <1>4, <1>5, Working

(* The PAT the search holds is empty or one on air.                         *)
LEMMA ProgramsKept == Programs /\ [Next]_vars => Programs'
<1> SUFFICES ASSUME Programs, [Next]_vars PROVE Programs'
  OBVIOUS
<1>1. pat' = pat \/ pat' = <<>> \/ pat' \in Pats
  <2>1. User \/ AsService => pat' = pat
    BY DEF User, Start, StopBegin, AsService, StopSearch, StopAbort, StopWait, StopOpen,
           StopEnd, info
  <2>2. PubTask => pat' = pat \/ pat' = <<>>
    BY DEF PubTask, Main, NextTp, ModuleInit, CloseBegin, CloseEnd, SieOpen, OpenTables,
           OpenNit, OnEvent, PsiOnPat, PsiOnNit, NitOnly, PsiOnPmt, PsiOnSdt, Store,
           SkipInvalid, OpenPmt, NoRequest, ClearSection, WaitSection, PrepareEnd, Release,
           ScanOver, ScanEnd, Cleaned, Post, Prepared, info
  <2>3. DmxDriver => pat' = pat \/ pat' \in Pats
    BY DEF DmxDriver, PatHit, TableHit, PmtHit, info
  <2>4. SieTask => pat' = pat
    BY DEF SieTask, TableClose, PmtClose, PmtCheck, Freed, info
  <2>5. UNCHANGED vars => pat' = pat
    BY DEF vars, info
  <2> QED BY <2>1, <2>2, <2>3, <2>4, <2>5 DEF Next
<1> QED BY <1>1 DEF Programs, Maps, Pids, Range

(* A step of the rest of the system changes nothing here.                   *)
LEMMA StutterKeeps == IInv /\ UNCHANGED vars => IInv'
BY DEF IInv, Types, Alive, Idle, NoOpener, Engine, Holding, vars, siev, search, info, scan

(* The inductive invariant holds in every state of a scan.                  *)
THEOREM Invariant == ASSUME ~StopPreempted PROVE Spec => []IInv
<1>1. Init => Programs
  BY DEF Init, Programs, Maps
<1>2. Programs /\ IInv /\ [Next]_vars => IInv'
  BY UserKeeps, ServiceKeeps, PubTaskKeeps, DriverKeeps, SieTaskKeeps, StutterKeeps DEF Next
<1> QED BY InitIInv, ProgramsKept, <1>1, <1>2, PTL DEF Spec

(* After a scan, and after a stop, the engine is open for the others, the   *)
(* driver delivers, and no filter or callback of the search is left.        *)
THEOREM EngineIsLeftOpen == ASSUME ~StopPreempted PROVE Spec => []LeavesEngineOpen
<1>1. IInv => LeavesEngineOpen
  BY DEF IInv, Types, Alive, Idle, Engine, Holding, LeavesEngineOpen
<1> QED BY Invariant, <1>1, PTL

(* psi_search_start never works on an engine it has not opened itself.      *)
THEOREM EngineIsTheSearchs == ASSUME ~StopPreempted PROVE Spec => []EngineForSearch
<1>1. IInv => EngineForSearch
  BY DEF IInv, Types, EngineForSearch
<1> QED BY Invariant, <1>1, PTL
-----------------------------------------------------------------------------
(* What is asked for and counted in a search.                               *)

Waiting == {"active", "timedout"}

(* A search is only for a transponder that is left.                         *)
Budget == tps \in 0 .. Tps /\ (pc \in Inside \cup {"init"} => tps # 0)

(* Every PID is to be asked for once, and is counted.                       *)
Asking ==
    /\ todo \in Seq(Pids)
    /\ \A i, j \in DOMAIN todo : todo[i] = todo[j] => i = j
    /\ n \in Nat /\ Len(todo) <= n

(* The programs of the PAT, and which are still in the lists of their PIDs. *)
Lists ==
    /\ pat \in Pats \cup {<<>>} /\ listed \subseteq Maps
    /\ stat \in [Maps -> {"new", "closed", "returned"}]
    /\ pc \in {"close", "closing", "open", "tables"} => pat = <<>>

(* Of a PID that is still to be asked for nothing has been received.        *)
Untried == \A j \in DOMAIN todo :
    flt[todo[j]] = "free" /\ \A i \in Maps : pat[i] = todo[j] => stat[i] # "returned"

(* Before psi_on_pat none has been asked for.                               *)
Fresh == at = "PAT" /\ pc \in {"close", "closing", "open", "tables", "patForNit", "event", "wait"} =>
    /\ \A p \in Pids : flt[p] = "free"
    /\ \A i \in Maps : stat[i] # "returned"

(* The PAT is received once, and the PMT of a program that is still listed. *)
Once ==
    /\ pat # <<>> => flt["PAT"] \notin Waiting
    /\ \A i \in listed : stat[i] = "returned" => flt[pat[i]] \notin Waiting

(* What psi_flag and the stop say.                                          *)
Simple ==
    /\ {stopSignal, made, parsed} \subseteq BOOLEAN
    /\ scans \in 0 .. Scans
    /\ at \in {"PAT", "NIT", "PMT", "SDT", "EIT"} /\ scheme \in Schemes \cup {"programs"}
    /\ flags \subseteq Tables \cup {"SECTION", "PMTALL", "ABORT", "RELEASE"}
    /\ cb \in Keys \cup {None}
    /\ stop \in {"off", "search", "abort", "wait", "open", "gone"}

(* pmt_counter has counted a program that was closed or returned, and one   *)
(* that was returned perhaps once more.                                     *)
Seen == {i \in Maps : stat[i] # "new"}
Back == {i \in Maps : stat[i] = "returned"}
Counted == counter \in Nat /\ counter <= Cardinality(Seen) + Cardinality(Back)

(* What holds in a search of the programs and their count.                  *)
CInv == Budget /\ Asking /\ Lists /\ Untried /\ Fresh /\ Once /\ Simple /\ Counted
-----------------------------------------------------------------------------
(* Roots lists every PID of a PAT once.                                     *)

(* A set of naturals that is not empty has a least element, in any well-    *)
(* founded order that agrees with theirs.                                   *)
LEMMA LeastIn ==
    ASSUME NEW R, IsWellFoundedOn(R, Nat), NEW T \in SUBSET Nat, T # {},
           \A x, y \in Nat : y < x => <<y, x>> \in R
    PROVE  \E x \in T : \A y \in T : x <= y
<1>1. PICK x \in T : \A y \in T : ~ (<<y, x>> \in R)
  BY WFMin
<1>2. \A y \in T : x \in Nat /\ y \in Nat /\ ~ (y < x)
  BY <1>1
<1> QED BY <1>2

(* The library has such an order.                                           *)
LEMMA LeastNatural ==
    ASSUME NEW T \in SUBSET Nat, T # {}
    PROVE  \E x \in T : \A y \in T : x <= y
<1>1. IsWellFoundedOn(OpToRel(<, Nat), Nat)
  BY NatLessThanWellFounded
<1>2. \A x, y \in Nat : y < x => <<y, x>> \in OpToRel(<, Nat)
  BY DEF OpToRel
<1> QED BY <1>1, <1>2, LeastIn

(* There is a j-th among the places of a finite set of them.                *)
LEMMA Nth ==
    ASSUME NEW F, NEW len \in Nat, F \subseteq 1 .. len, NEW j \in 1 .. Cardinality(F)
    PROVE  \E i \in F : Cardinality(F \cap 1 .. i) = j
<1> DEFINE C(i) == Cardinality(F \cap 1 .. i)
           T == {i \in 0 .. len : C(i) >= j}
<1>1. IsFiniteSet(F) /\ \A i \in Nat : IsFiniteSet(F \cap 1 .. i) /\ C(i) \in Nat
  <2>1. IsFiniteSet(1 .. len)  BY FS_Interval
  <2>2. IsFiniteSet(F)  BY <2>1, FS_Subset
  <2>3. \A i \in Nat : IsFiniteSet(F \cap 1 .. i)  BY <2>2, FS_Intersection
  <2> QED BY <2>2, <2>3, FS_CardinalityType
<1>2. len \in T
  <2>1. F \cap 1 .. len = F  OBVIOUS
  <2>2. C(len) = Cardinality(F)  BY <2>1
  <2>3. Cardinality(F) \in Nat  BY <1>1, FS_CardinalityType
  <2> QED BY <2>2, <2>3
<1>3. PICK i \in T : \A y \in T : i <= y
  <2>1. T \in SUBSET Nat  OBVIOUS
  <2> HIDE DEF T
  <2> QED BY <1>2, <2>1, LeastNatural
<1>4. i \in 0 .. len /\ C(i) >= j
  BY <1>3
<1>5. i # 0
  <2>1. F \cap 1 .. 0 = {}  OBVIOUS
  <2>2. C(0) = 0  BY <2>1, FS_EmptySet
  <2> QED BY <1>4, <2>2
<1>6. i - 1 \in Nat /\ ~ (C(i - 1) >= j)
  <2>1. i - 1 \in 0 .. len  BY <1>4, <1>5
  <2>2. i - 1 \notin T  BY <1>3, <1>5, <2>1
  <2> QED BY <2>1, <2>2
<1>7. C(i) = IF i \in F THEN C(i - 1) + 1 ELSE C(i - 1)
  <2>1. CASE i \in F
    <3>1. F \cap 1 .. i = (F \cap 1 .. (i - 1)) \cup {i} /\ i \notin F \cap 1 .. (i - 1)
      BY <1>4, <1>5, <2>1
    <3> QED BY <1>1, <1>6, <2>1, <3>1, FS_AddElement
  <2>2. CASE i \notin F
    <3>1. F \cap 1 .. i = F \cap 1 .. (i - 1)  BY <1>4, <1>5, <2>2
    <3> QED BY <2>2, <3>1
  <2> QED BY <2>1, <2>2
<1>8. C(i) \in Nat /\ C(i - 1) \in Nat  BY <1>1, <1>4, <1>6
<1>9. i \in F /\ C(i) = j
  <2> HIDE DEF C
  <2> QED BY <1>4, <1>6, <1>7, <1>8
<1> QED BY <1>9

(* What psi_prepare_pmt asks for, for each PAT on air.                      *)
LEMMA RootsOnce ==
    ASSUME NEW p \in Pats
    PROVE  /\ Roots(p) \in Seq(Pids) /\ Len(Roots(p)) \in Nat
           /\ \A i, j \in DOMAIN Roots(p) : Roots(p)[i] = Roots(p)[j] => i = j
<1>1. p \in Seq(Range(p)) /\ Range(p) \subseteq Pids
  BY SearchAssumption DEF Pids
<1>2. Len(p) \in Nat /\ DOMAIN p = 1 .. Len(p) /\ \A i \in DOMAIN p : p[i] \in Pids
  BY <1>1
<1> DEFINE N == Cardinality(Firsts(p))
<1>3. Firsts(p) \subseteq 1 .. Len(p)
  BY <1>2 DEF Firsts
<1>4. \A j \in 1 .. N : Root(p, j) \in Firsts(p) /\ Cardinality(Firsts(p) \cap 1 .. Root(p, j)) = j
  <2> TAKE j \in 1 .. N
  <2>1. \E i \in Firsts(p) : Cardinality(Firsts(p) \cap 1 .. i) = j
    BY <1>2, <1>3, Nth
  <2> QED BY <2>1 DEF Root
<1>5. \A j \in 1 .. N : p[Root(p, j)] \in Pids
  BY <1>2, <1>3, <1>4
<1>6. N \in Nat
  <2>1. IsFiniteSet(1 .. Len(p))  BY <1>2, FS_Interval
  <2>2. IsFiniteSet(Firsts(p))  BY <1>3, <2>1, FS_Subset
  <2> QED BY <2>2, FS_CardinalityType
<1>7. \A i, j \in Firsts(p) : p[i] = p[j] => i = j
  BY <1>2, <1>3 DEF Firsts
<1> HIDE DEF N
<1>8. Roots(p) = [j \in 1 .. N |-> p[Root(p, j)]]
  BY DEF Roots, N
<1>9. Roots(p) \in Seq(Pids) /\ Len(Roots(p)) = N
  BY <1>5, <1>6, <1>8
<1>10. ASSUME NEW i \in 1 .. N, NEW j \in 1 .. N, Roots(p)[i] = Roots(p)[j] PROVE i = j
  BY <1>4, <1>7, <1>8, <1>10
<1> QED BY <1>6, <1>8, <1>9, <1>10
-----------------------------------------------------------------------------
(* Steps that keep CInv.                                                    *)

(* Filters only go on: to their end, and a free one stays free.             *)
Calm == \A k \in Keys : (flt'[k] \in Waiting => flt[k] \in Waiting) /\ (flt[k] = "free" => flt'[k] = "free")

(* The places from psi_module_init to psi_on_pat.                           *)
FreshPlaces == {"close", "closing", "open", "tables", "patForNit", "event", "wait"}

(* PIDs are not tables' names, and a PAT's programs have PIDs.              *)
LEMMA KeysOf ==
    /\ Pids \cap Tables = {} /\ Pids \subseteq Keys /\ Tables \subseteq Keys
    /\ CInv => \A i \in Maps : pat[i] \in Pids
<1>1. \A p \in Pats : Range(p) \cap Tables = {}
  BY SearchAssumption DEF Tables
<1>2. CInv => \A i \in Maps : pat[i] \in Pids
  BY DEF CInv, Lists, Maps, Pids, Range
<1> QED BY <1>1, <1>2 DEF Pids, Keys

(* Steps that leave the programs and what is to be asked for alone.         *)
LEMMA CalmKeeps ==
    ASSUME CInv, Calm, UNCHANGED <<info, todo, n>>, Budget', Simple',
           at' = "PAT" /\ pc' \in FreshPlaces => at = "PAT" /\ pc \in FreshPlaces,
           pc' \in {"close", "closing", "open", "tables"} => pat = <<>>
    PROVE  CInv'
<1>1. pat' = pat /\ listed' = listed /\ stat' = stat /\ counter' = counter /\ todo' = todo /\ n' = n
  BY DEF info
<1>2. Asking' /\ Lists' /\ Counted'
  BY <1>1 DEF CInv, Asking, Lists, Counted, Maps, Seen, Back
<1>3. \A i \in DOMAIN todo : todo[i] \in Keys
  BY KeysOf DEF CInv, Asking
<1>4. Untried'
  BY <1>1, <1>3 DEF CInv, Untried, Calm, Maps
<1>5. Fresh'
  BY <1>1, KeysOf DEF CInv, Fresh, Calm, Maps, FreshPlaces
<1>6. Once'
  <2>1. \A i \in listed : pat[i] \in Keys  BY KeysOf DEF CInv, Lists
  <2>2. "PAT" \in Keys  BY DEF Keys, Tables
  <2> QED BY <1>1, <2>1, <2>2 DEF CInv, Once, Calm
<1> QED BY <1>2, <1>4, <1>5, <1>6 DEF CInv

(* The user and as_service_stop.                                            *)
LEMMA UserCounts == CInv /\ IInv /\ (User \/ AsService) => CInv'
<1> SUFFICES ASSUME CInv, IInv, User \/ AsService PROVE CInv'
  OBVIOUS
<1>1. UNCHANGED <<info, search, siev>> /\ (pc' = pc \/ pc' = "queued")
  BY DEF User, AsService, Start, StopBegin, StopSearch, StopAbort, StopWait, StopOpen, StopEnd, scan
<1>2. UNCHANGED <<todo, n, at, flt, scheme, cb>>
  BY <1>1 DEF search, siev
<1>3. Calm
  BY <1>2 DEF Calm
<1>4. Budget'
  <2>1. Tps \in Nat  BY SearchAssumption
  <2> QED BY <2>1, <1>1 DEF User, AsService, Start, StopBegin, StopSearch, StopAbort, StopWait, StopOpen, StopEnd, scan,
             CInv, Budget
<1>5. Simple'
  <2>1. Scans \in Nat  BY SearchAssumption
  <2>2. parsed' = parsed  BY <1>1 DEF info
  <2>3. stop' \in {"off", "search", "abort", "wait", "open", "gone"}
    BY DEF User, AsService, Start, StopBegin, StopSearch, StopAbort, StopWait, StopOpen, StopEnd, CInv, Simple
  <2>4. stopSignal' \in BOOLEAN /\ made' = made /\ flags' \subseteq flags \cup {"ABORT"}
    BY DEF User, AsService, Start, StopBegin, StopSearch, StopAbort, StopWait, StopOpen, StopEnd, scan, CInv, Simple
  <2>5. scans' = scans \/ (scans > 0 /\ scans' = scans - 1)
    BY DEF User, AsService, Start, StopBegin, StopSearch, StopAbort, StopWait, StopOpen, StopEnd, scan
  <2> QED BY <1>2, <2>1, <2>2, <2>3, <2>4, <2>5 DEF CInv, Simple
<1>6. pc' \in {"close", "closing", "open", "tables"} => pat = <<>>
  BY <1>1 DEF CInv, Lists
<1>7. pc' \in FreshPlaces => pc \in FreshPlaces
  BY <1>1 DEF FreshPlaces
<1> QED BY <1>1, <1>2, <1>3, <1>4, <1>5, <1>6, <1>7, CalmKeeps

(* Steps of the libpub task that only move on.                              *)
Moving ==
    \/ NextTp \/ CloseBegin \/ CloseEnd \/ SieOpen \/ OnEvent \/ PsiOnNit \/ NitOnly \/ PsiOnPmt \/ PsiOnSdt
    \/ Store \/ ClearSection \/ WaitSection \/ PrepareEnd \/ ScanOver \/ ScanEnd

(* They keep it: filters are closed at most.                                *)
LEMMA MovingCounts == CInv /\ IInv /\ Moving => CInv'
<1> SUFFICES ASSUME CInv, IInv, Moving PROVE CInv'
  OBVIOUS
<1> USE DEF Goto, AbortExit, GoOn, Post, Cleared, NitReceived
<1>0. flt \in [Keys -> FilterStates]
  BY DEF IInv, Types
<1>1. UNCHANGED <<info, todo, n, cb>> /\ (flt' = flt \/ flt' = [k \in Keys |-> "free"])
  BY DEF Moving, NextTp, CloseBegin, CloseEnd, SieOpen, OnEvent, PsiOnNit, NitOnly, PsiOnPmt, PsiOnSdt, Store,
         ClearSection, WaitSection, PrepareEnd, ScanOver, ScanEnd, search, siev
<1>2. Calm
  BY <1>1 DEF Calm, Waiting
<1>3. Budget'
  <2>1. Tps \in Nat  BY SearchAssumption
  <2> QED BY <2>1 DEF Moving, NextTp, CloseBegin, CloseEnd, SieOpen, OnEvent, PsiOnNit, NitOnly, PsiOnPmt, PsiOnSdt, Store,
             ClearSection, WaitSection, PrepareEnd, ScanOver, ScanEnd, scan, CInv, Budget
<1>4. Simple'
  <2>1. at' \in {at, After(at)} /\ scheme' \in {scheme} \cup Schemes
    BY DEF Moving, NextTp, CloseBegin, CloseEnd, SieOpen, OnEvent, PsiOnNit, NitOnly, PsiOnPmt, PsiOnSdt, Store,
           ClearSection, WaitSection, PrepareEnd, ScanOver, ScanEnd, search
  <2>2. flags' \subseteq flags \cup {"ABORT", "PMTALL"}
    BY DEF Moving, NextTp, CloseBegin, CloseEnd, SieOpen, OnEvent, PsiOnNit, NitOnly, PsiOnPmt, PsiOnSdt, Store,
           ClearSection, WaitSection, PrepareEnd, ScanOver, ScanEnd
  <2>3. stopSignal' = stopSignal /\ made' = made /\ scans' = scans /\ stop' = stop
    BY DEF Moving, NextTp, CloseBegin, CloseEnd, SieOpen, OnEvent, PsiOnNit, NitOnly, PsiOnPmt, PsiOnSdt, Store,
           ClearSection, WaitSection, PrepareEnd, ScanOver, ScanEnd, scan
  <2>4. parsed' = parsed  BY <1>1 DEF info
  <2> QED BY <1>1, <2>1, <2>2, <2>3, <2>4 DEF CInv, Simple, After
<1>5. at' = "PAT" /\ pc' \in FreshPlaces => at = "PAT" /\ pc \in FreshPlaces
  BY DEF Moving, NextTp, CloseBegin, CloseEnd, SieOpen, OnEvent, PsiOnNit, NitOnly, PsiOnPmt, PsiOnSdt, Store,
         ClearSection, WaitSection, PrepareEnd, ScanOver, ScanEnd, FreshPlaces, search, After
<1>6. pc' \in {"close", "closing", "open", "tables"} => pat = <<>>
  BY DEF Moving, NextTp, CloseBegin, CloseEnd, SieOpen, OnEvent, PsiOnNit, NitOnly, PsiOnPmt, PsiOnSdt, Store,
         ClearSection, WaitSection, PrepareEnd, ScanOver, ScanEnd, CInv, Lists
<1> QED BY <1>1, <1>2, <1>3, <1>4, <1>5, <1>6, CalmKeeps

(* psi_module_init and as_main forget the programs.                         *)
LEMMA CleanCounts == CInv /\ IInv /\ (Main \/ ModuleInit) => CInv'
<1> SUFFICES ASSUME CInv, IInv, Main \/ ModuleInit PROVE CInv'
  OBVIOUS
<1>1. /\ UNCHANGED <<scan, search, siev, stop>> /\ Cleaned
      /\ pc \in {"queued", "init"} /\ (pc = "queued" => pc' = "lock") /\ (pc = "init" => pc' = "close")
      /\ made' \in {made, TRUE} /\ flags' \subseteq flags
  BY DEF Main, ModuleInit, Goto
<1>2. Maps' = {} /\ Seen' = {} /\ Back' = {}
  BY <1>1 DEF Cleaned, Maps, Seen, Back
<1>3. \A k \in Keys : flt'[k] = "free"
  BY <1>1 DEF IInv, Idle, siev
<1>4. UNCHANGED <<tps, scans, stopSignal, todo, n, at, scheme, cb>>
  BY <1>1 DEF scan, search, siev
<1>5. Counted'
  <2>1. Cardinality({}) = 0  BY FS_EmptySet
  <2> QED BY <1>1, <1>2, <2>1 DEF Counted, Cleaned
<1>6. Lists' /\ Fresh' /\ Once'
  <2>1. <<>> \in [{} -> {"new", "closed", "returned"}]  OBVIOUS
  <2>2. Lists'  BY <1>1, <1>2, <2>1 DEF Lists, Cleaned
  <2>3. Fresh'  BY <1>2, <1>3, KeysOf DEF Fresh
  <2>4. Once'  BY <1>1, <1>3 DEF Once, Cleaned
  <2> QED BY <2>2, <2>3, <2>4
<1>7. Untried' /\ Asking'
  <2>1. \A i \in DOMAIN todo : todo[i] \in Keys  BY KeysOf DEF CInv, Asking
  <2> QED BY <1>2, <1>3, <1>4, <2>1 DEF CInv, Untried, Asking
<1>8. Budget'
  BY <1>1, <1>4 DEF CInv, Budget
<1>9. Simple'
  BY <1>1, <1>4 DEF CInv, Simple, Cleaned
<1> QED BY <1>5, <1>6, <1>7, <1>8, <1>9 DEF CInv

(* Filters are opened: each was free, and nothing was received from it.     *)
LEMMA OpenCounts == CInv /\ IInv /\ (OpenTables \/ OpenNit) => CInv'
<1> SUFFICES ASSUME CInv, IInv, OpenTables \/ OpenNit PROVE CInv'
  OBVIOUS
<1> USE DEF Goto
<1>1. UNCHANGED <<scan, made, stop, search, flags, cb, info>>
  BY DEF OpenTables, OpenNit
<1>2. UNCHANGED <<tps, scans, stopSignal, todo, n, at, scheme, pat, listed, stat, parsed, counter>>
  BY <1>1 DEF scan, search, info
<1>3. flt \in [Keys -> FilterStates]
  BY DEF IInv, Types
<1>4. \A k \in Pids : flt'[k] = flt[k]
  BY <1>2, <1>3, KeysOf DEF OpenTables, OpenNit, Enabled, Tables
<1>5. Counted' /\ Lists' /\ Asking'
  BY <1>2 DEF CInv, Counted, Lists, Asking, Maps, Seen, Back, OpenTables, OpenNit
<1>6. Untried'
  BY <1>2, <1>4 DEF CInv, Untried, Asking, Maps
<1>7. Fresh'
  BY <1>2, <1>4 DEF CInv, Fresh, Maps, OpenTables, OpenNit
<1>8. Once'
  <2>1. CASE OpenTables
    <3>1. pat = <<>>  BY <2>1 DEF OpenTables, CInv, Lists
    <3>2. listed = {}  BY <3>1 DEF CInv, Lists, Maps
    <3> QED BY <1>2, <3>1, <3>2 DEF Once
  <2>2. CASE OpenNit
    <3>0. "PAT" \in Keys  BY DEF Keys, Tables
    <3>1. flt'["PAT"] = flt["PAT"]  BY <1>3, <2>2, <3>0, SMT DEF OpenNit, Enabled
    <3>2. \A i \in listed : pat[i] \in Pids  BY KeysOf DEF CInv, Lists
    <3> QED BY <1>2, <1>4, <3>1, <3>2 DEF CInv, Once
  <2> QED BY <2>1, <2>2
<1>9. Budget'
  BY <1>2 DEF CInv, Budget, OpenTables, OpenNit
<1>10. Simple'
  BY <1>1, <1>2 DEF CInv, Simple
<1> QED BY <1>5, <1>6, <1>7, <1>8, <1>9, <1>10 DEF CInv

(* The list of PIDs shrinks with the count of them.                         *)
LEMMA TailOnce ==
    ASSUME Asking, todo # <<>>
    PROVE  /\ Head(todo) \in Pids /\ Tail(todo) \in Seq(Pids) /\ Len(Tail(todo)) = Len(todo) - 1
           /\ Len(todo) \in Nat /\ Len(todo) >= 1
           /\ \A i \in DOMAIN Tail(todo) : i + 1 \in DOMAIN todo /\ Tail(todo)[i] = todo[i + 1] /\ todo[i + 1] # Head(todo)
           /\ \A i, j \in DOMAIN Tail(todo) : Tail(todo)[i] = Tail(todo)[j] => i = j
<1>1. todo \in Seq(Pids) /\ Len(todo) \in Nat /\ DOMAIN todo = 1 .. Len(todo) /\ Len(todo) >= 1
  BY DEF Asking
<1>2. Head(todo) = todo[1] /\ 1 \in DOMAIN todo /\ Tail(todo) \in Seq(Pids) /\ Len(Tail(todo)) = Len(todo) - 1
  BY <1>1
<1>3. \A i \in DOMAIN Tail(todo) : i \in Nat /\ i # 0 /\ i + 1 \in DOMAIN todo /\ Tail(todo)[i] = todo[i + 1]
  BY <1>1, <1>2
<1>4. \A i \in DOMAIN Tail(todo) : todo[i + 1] # Head(todo)
  BY <1>2, <1>3 DEF Asking
<1>5. ASSUME NEW i \in DOMAIN Tail(todo), NEW j \in DOMAIN Tail(todo), Tail(todo)[i] = Tail(todo)[j]
      PROVE  i = j
  <2>1. i + 1 = j + 1  BY <1>3, <1>5 DEF Asking
  <2> QED BY <1>3, <2>1
<1> QED BY <1>1, <1>2, <1>3, <1>4, <1>5

(* psi_prepare_pmt comes to the next PID.                                   *)
LEMMA NextPidCounts == CInv /\ IInv /\ (SkipInvalid \/ OpenPmt \/ NoRequest) => CInv'
<1> SUFFICES ASSUME CInv, IInv, SkipInvalid \/ OpenPmt \/ NoRequest PROVE CInv'
  OBVIOUS
<1> USE DEF Prepare, Prepared, Skip
<1>1. /\ UNCHANGED <<scan, made, stop, at, scheme, flags, cb, info>> /\ pc = "prepare" /\ pc' \in {"prepare", "full"}
      /\ todo # <<>>
      /\ \/ todo' = todo /\ n' = n
         \/ todo' = Tail(todo) /\ (n' = n - 1 \/ n' = n)
  BY DEF SkipInvalid, OpenPmt, NoRequest
<1>2. UNCHANGED <<tps, scans, stopSignal, pat, listed, stat, parsed, counter>>
  BY <1>1 DEF scan, info
<1>3. flt \in [Keys -> FilterStates]
  BY DEF IInv, Types
<1>4. Asking
  BY DEF CInv
<1>5. flt' = flt \/ (flt' = [flt EXCEPT ![Head(todo)] = "active"] /\ todo' = Tail(todo))
  BY DEF SkipInvalid, OpenPmt, NoRequest
<1>6. \A k \in Keys : flt'[k] # flt[k] => k = Head(todo) /\ todo' = Tail(todo)
  BY <1>3, <1>5
<1>7. Counted' /\ Lists'
  BY <1>1, <1>2 DEF CInv, Counted, Lists, Maps, Seen, Back
<1>8. Asking'
  <2>1. CASE todo' = todo /\ n' = n
    BY <1>4, <2>1 DEF Asking
  <2>2. CASE todo' = Tail(todo) /\ (n' = n - 1 \/ n' = n)
    <3>1. n \in Nat /\ Len(todo) <= n  BY <1>4 DEF Asking
    <3>2. /\ todo' \in Seq(Pids) /\ Len(todo') = Len(todo) - 1 /\ Len(todo) \in Nat /\ Len(todo) >= 1
          /\ \A i, j \in DOMAIN todo' : todo'[i] = todo'[j] => i = j
      BY <1>1, <1>4, <2>2, TailOnce
    <3>3. n' \in Nat /\ Len(todo') <= n'  BY <2>2, <3>1, <3>2
    <3> QED BY <3>2, <3>3 DEF Asking
  <2> QED BY <1>1, <2>1, <2>2
<1>9. Untried'
  <2>1. ASSUME NEW j \in DOMAIN todo'
        PROVE  \E i \in DOMAIN todo : todo'[j] = todo[i] /\ (todo' = Tail(todo) => todo[i] # Head(todo))
    BY <1>1, <1>4, <2>1, TailOnce
  <2>2. \A i \in DOMAIN todo : todo[i] \in Keys
    BY <1>4, KeysOf DEF Asking
  <2>3. ASSUME NEW j \in DOMAIN todo'
        PROVE  flt'[todo'[j]] = "free" /\ \A i \in Maps : pat[i] = todo'[j] => stat[i] # "returned"
    <3>1. PICK i \in DOMAIN todo : todo'[j] = todo[i] /\ (todo' = Tail(todo) => todo[i] # Head(todo))
      BY <2>1
    <3>2. flt[todo[i]] = "free" /\ \A m \in Maps : pat[m] = todo[i] => stat[m] # "returned"
      BY DEF CInv, Untried
    <3> QED BY <1>6, <2>2, <3>1, <3>2
  <2> QED BY <1>2, <2>3 DEF Untried, Maps
<1>10. Fresh'
  BY <1>1 DEF Fresh
<1>11. Once'
  <2>1. Head(todo) \in Pids /\ "PAT" \in Keys /\ Head(todo) # "PAT"
    BY <1>1, <1>4, TailOnce, KeysOf DEF Keys, Tables
  <2>2. \A i \in listed : pat[i] \in Keys /\ i \in Maps  BY KeysOf DEF CInv, Lists
  <2>3. \A i \in Maps : pat[i] = Head(todo) => stat[i] # "returned"
    <3>1. 1 \in DOMAIN todo /\ Head(todo) = todo[1]  BY <1>1, <1>4 DEF Asking
    <3> QED BY <3>1 DEF CInv, Untried
  <2>4. flt'["PAT"] = flt["PAT"]  BY <1>6, <2>1
  <2>5. \A i \in listed : stat[i] = "returned" => flt'[pat[i]] = flt[pat[i]]  BY <1>6, <2>2, <2>3
  <2> QED BY <1>2, <2>4, <2>5 DEF CInv, Once
<1>12. Budget'
  BY <1>1, <1>2 DEF CInv, Budget
<1>13. Simple'
  BY <1>1, <1>2 DEF CInv, Simple
<1> QED BY <1>7, <1>8, <1>9, <1>10, <1>11, <1>12, <1>13 DEF CInv

(* psi_on_pat takes the PIDs of a PAT of which nothing was received yet.    *)
LEMMA PatCounts == CInv /\ IInv /\ PsiOnPat => CInv'
<1> SUFFICES ASSUME CInv, IInv, PsiOnPat PROVE CInv'
  OBVIOUS
<1> USE DEF Goto
<1>1. /\ UNCHANGED <<scan, made, stop, at, scheme, siev, info>> /\ pc = "wait" /\ at = "PAT"
      /\ pc' \in {"prepare", "nit", "exit"} /\ flags' \subseteq flags \cup {"ABORT"}
  BY DEF PsiOnPat
<1>2. UNCHANGED <<tps, scans, stopSignal, flt, cb, pat, listed, stat, parsed, counter>>
  BY <1>1 DEF scan, siev, info
<1>3. \/ todo' = todo /\ n' = n
      \/ pat # <<>> /\ todo' = Roots(pat) /\ n' = Len(todo')
  BY DEF PsiOnPat
<1>4. Counted' /\ Lists' /\ Fresh' /\ Once'
  BY <1>1, <1>2 DEF CInv, Counted, Lists, Fresh, Once, Maps, Seen, Back
<1>6. ASSUME pat # <<>>, todo' = Roots(pat), n' = Len(todo')
      PROVE  Asking' /\ Untried'
  <2>1. pat \in Pats  BY <1>6 DEF CInv, Lists
  <2>2. Asking'  BY <1>6, <2>1, RootsOnce DEF Asking
  <2>3. \A j \in DOMAIN todo' : todo'[j] \in Pids  BY <2>2 DEF Asking
  <2>4. Untried'  BY <1>1, <1>2, <2>3 DEF CInv, Fresh, Untried, Maps
  <2> QED BY <2>2, <2>4
<1>7. Budget'
  BY <1>1, <1>2 DEF CInv, Budget
<1>8. Simple'
  BY <1>1, <1>2 DEF CInv, Simple
<1>9. Asking' /\ Untried'
  <2>1. CASE todo' = todo /\ n' = n
    BY <1>2, <2>1 DEF CInv, Asking, Untried, Maps
  <2> QED BY <1>3, <1>6, <2>1
<1> QED BY <1>4, <1>7, <1>8, <1>9 DEF CInv

(* The end of psi_search_start.                                             *)
LEMMA ReleaseCounts == CInv /\ IInv /\ Release => CInv'
<1> SUFFICES ASSUME CInv, IInv, Release PROVE CInv'
  OBVIOUS
<1>1. /\ UNCHANGED <<stopSignal, scans, made, siev, info, stop>> /\ pc = "final" /\ pc' = "lock" /\ tps' = tps - 1
      /\ at' = "PAT" /\ scheme' = "programs" /\ todo' = <<>> /\ n' = 0
      /\ flags' \subseteq flags \cup {"RELEASE"}
  BY DEF Release, Cleared
<1>2. UNCHANGED <<flt, cb, pat, listed, stat, parsed, counter>>
  BY <1>1 DEF siev, info
<1>3. Counted' /\ Lists' /\ Fresh' /\ Once'
  BY <1>1, <1>2 DEF CInv, Counted, Lists, Fresh, Once, Maps, Seen, Back
<1>4. Asking' /\ Untried'
  BY <1>1 DEF Asking, Untried
<1>5. Budget'
  <2>1. Tps \in Nat  BY SearchAssumption
  <2> QED BY <1>1, <2>1 DEF CInv, Budget
<1>6. Simple'
  BY <1>1, <1>2 DEF CInv, Simple
<1> QED BY <1>3, <1>4, <1>5, <1>6 DEF CInv

(* Of finitely many programs, finitely many were closed or returned.        *)
LEMMA SetsFinite ==
    CInv => /\ IsFiniteSet(Seen) /\ IsFiniteSet(Back) /\ Cardinality(Seen) \in Nat /\ Cardinality(Back) \in Nat
            /\ Cardinality(Seen) <= Len(pat) /\ Cardinality(Back) <= Len(pat) /\ Len(pat) \in Nat
            /\ IsFiniteSet(Maps)
<1> SUFFICES ASSUME CInv
             PROVE  /\ IsFiniteSet(Seen) /\ IsFiniteSet(Back) /\ Cardinality(Seen) \in Nat /\ Cardinality(Back) \in Nat
                    /\ Cardinality(Seen) <= Len(pat) /\ Cardinality(Back) <= Len(pat) /\ Len(pat) \in Nat
                    /\ IsFiniteSet(Maps)
  OBVIOUS
<1>1. Len(pat) \in Nat /\ Maps = 1 .. Len(pat)
  <2>1. CASE pat = <<>>
    BY <2>1 DEF Maps
  <2>2. CASE pat \in Pats
    <3>1. pat \in Seq(Range(pat))  BY <2>2, SearchAssumption
    <3> QED BY <3>1 DEF Maps
  <2> QED BY <2>1, <2>2 DEF CInv, Lists
<1>2. IsFiniteSet(Maps) /\ Cardinality(Maps) = Len(pat)
  <2>1. IsFiniteSet(1 .. Len(pat)) /\ Cardinality(1 .. Len(pat)) = IF 1 > Len(pat) THEN 0 ELSE Len(pat) - 1 + 1
    BY <1>1, FS_Interval
  <2> QED BY <1>1, <2>1
<1>3. Seen \in SUBSET Maps /\ Back \in SUBSET Maps
  BY DEF Seen, Back
<1>4. IsFiniteSet(Seen) /\ Cardinality(Seen) <= Len(pat) /\ IsFiniteSet(Back) /\ Cardinality(Back) <= Len(pat)
  BY <1>2, <1>3, FS_Subset
<1> QED BY <1>1, <1>2, <1>4, FS_CardinalityType

(* The driver delivers the PAT.                                             *)
LEMMA PatHitCounts == CInv /\ IInv /\ PatHit => CInv'
<1> SUFFICES ASSUME CInv, IInv, PatHit PROVE CInv'
  OBVIOUS
<1>1. /\ UNCHANGED <<tps, scans, stopSignal, pc, made, flags, stop, at, scheme, todo, n, cb, parsed, counter>>
      /\ pat' \in Pats /\ listed' = DOMAIN pat' /\ stat' = [i \in DOMAIN pat' |-> "new"]
  BY DEF PatHit, Driver, scan, search
<1>2. flt \in [Keys -> FilterStates] /\ "PAT" \in Keys
  BY DEF IInv, Types, Keys, Tables
<1>3. flt["PAT"] \in Waiting /\ flt'["PAT"] \in {"hit", "done"} /\ \A k \in Keys \ {"PAT"} : flt'[k] = flt[k]
  BY <1>2 DEF PatHit, Hits, Stopped, Waiting
<1>4. pat = <<>>
  BY <1>3 DEF CInv, Once
<1>5. Seen = {} /\ Back = {} /\ Seen' = {} /\ Back' = {} /\ Maps = {}
  BY <1>1, <1>4 DEF Seen, Back, Maps
<1>6. Counted'
  BY <1>1, <1>5 DEF CInv, Counted
<1>7. Lists'
  <2>1. pc \notin Quiet  BY <1>2, <1>3 DEF IInv, Idle, Waiting
  <2>2. stat' \in [Maps' -> {"new", "closed", "returned"}]  BY <1>1 DEF Maps
  <2> QED BY <1>1, <2>1, <2>2 DEF Lists, Maps
<1>8. Asking' /\ Budget'
  BY <1>1 DEF CInv, Asking, Budget
<1>9. \A p \in Pids : p \in Keys \ {"PAT"}
  BY KeysOf DEF Tables
<1>10. Untried'
  <2>1. \A j \in DOMAIN todo : todo[j] \in Pids  BY DEF CInv, Asking
  <2> QED BY <1>1, <1>3, <1>9, <2>1 DEF CInv, Untried, Maps
<1>11. Fresh'
  BY <1>1, <1>3, <1>9 DEF CInv, Fresh, Maps
<1>12. Once'
  BY <1>1, <1>3 DEF Once, Waiting
<1>13. Simple'
  BY <1>1 DEF CInv, Simple
<1> QED BY <1>6, <1>7, <1>8, <1>10, <1>11, <1>12, <1>13 DEF CInv

(* The driver delivers a PMT: each program is returned once.                *)
LEMMA PmtHitCounts == ASSUME CInv, IInv, NEW i \in Maps, PmtHit(i) PROVE CInv'
<1> DEFINE p == pat[i]
<1>1. /\ UNCHANGED <<tps, scans, stopSignal, pc, made, flags, stop, at, scheme, todo, n, cb, pat>>
      /\ stat' = [stat EXCEPT ![i] = "returned"] /\ counter' = counter + 1 /\ i \in listed
      /\ Hits(p) /\ listed' \subseteq listed
      /\ (listed' = listed \ {i} /\ flt' = flt) \/ (listed' = listed /\ Stopped(p))
  BY DEF PmtHit, Driver, scan, search
<1>2. parsed' \in BOOLEAN
  BY DEF PmtHit, CInv, Simple
<1>3. flt \in [Keys -> FilterStates] /\ p \in Keys /\ flt[p] \in Waiting
  BY <1>1, KeysOf DEF IInv, Types, Hits, Waiting
<1>4. Calm /\ (Stopped(p) => flt'[p] \notin Waiting)
  <2>1. Stopped(p) => flt'[p] \in {"hit", "done"} /\ \A k \in Keys \ {p} : flt'[k] = flt[k]
    BY <1>3 DEF Stopped
  <2>2. flt[p] # "free"  BY <1>3 DEF Waiting
  <2> HIDE DEF p
  <2> QED BY <1>1, <2>1, <2>2 DEF Calm, Waiting
<1>5. stat \in [Maps -> {"new", "closed", "returned"}] /\ stat[i] # "returned"
  BY <1>1, <1>3 DEF CInv, Lists, Once
<1>6. Maps' = Maps /\ \A m \in Maps : stat'[m] = IF m = i THEN "returned" ELSE stat[m]
  BY <1>1, <1>5 DEF Maps
<1>7. Counted'
  <2>1. Seen' = Seen \cup {i} /\ Back' = Back \cup {i} /\ i \notin Back
    BY <1>5, <1>6 DEF Seen, Back
  <2>2. IsFiniteSet(Seen) /\ IsFiniteSet(Back) /\ Cardinality(Seen) \in Nat /\ Cardinality(Back) \in Nat
    BY SetsFinite
  <2>3. Cardinality(Back') = Cardinality(Back) + 1
    BY <2>1, <2>2, FS_AddElement
  <2>4. Cardinality(Seen') = Cardinality(Seen) \/ Cardinality(Seen') = Cardinality(Seen) + 1
    BY <2>1, <2>2, FS_AddElement
  <2> QED BY <1>1, <2>2, <2>3, <2>4 DEF CInv, Counted
<1>8. Lists'
  BY <1>1, <1>5, <1>6 DEF CInv, Lists, Maps
<1>9. Asking' /\ Budget'
  BY <1>1 DEF CInv, Asking, Budget
<1>10. Untried'
  <2>1. \A j \in DOMAIN todo : todo[j] \in Keys /\ todo[j] # p
    BY <1>3, KeysOf DEF CInv, Asking, Untried, Waiting
  <2> QED BY <1>1, <1>4, <1>6, <2>1 DEF CInv, Untried, Calm
<1>11. Fresh'
  <2>1. p \in Pids /\ flt[p] # "free"  BY <1>3, KeysOf DEF Waiting
  <2> HIDE DEF p
  <2> QED BY <1>1, <2>1 DEF CInv, Fresh
<1>12. Once'
  <2>1. pat' # <<>> => flt'["PAT"] \notin Waiting
    BY <1>1, <1>4 DEF CInv, Once, Calm, Keys, Tables
  <2>2. ASSUME NEW m \in listed', stat'[m] = "returned" PROVE flt'[pat[m]] \notin Waiting
    <3>1. m \in Maps /\ pat[m] \in Keys /\ m \in listed  BY <1>1, KeysOf DEF CInv, Lists
    <3>2. CASE m = i
      BY <1>1, <1>4, <3>2
    <3>3. CASE m # i
      <4>1. stat[m] = "returned"  BY <1>6, <2>2, <3>1, <3>3
      <4> QED BY <1>4, <3>1, <4>1 DEF CInv, Once, Calm
    <3> QED BY <3>2, <3>3
  <2> QED BY <1>1, <2>1, <2>2 DEF Once
<1>13. Simple'
  BY <1>1, <1>2 DEF CInv, Simple
<1> QED BY <1>7, <1>8, <1>9, <1>10, <1>11, <1>12, <1>13 DEF CInv

(* The SIE task closes a PMT's filter: what was not counted is counted.     *)
LEMMA PmtCloseCounts == ASSUME CInv, IInv, NEW p \in Pids, PmtClose(p) PROVE CInv'
<1>1. /\ UNCHANGED <<tps, scans, stopSignal, pc, made, stop, at, scheme, todo, n, pat, listed, parsed>>
      /\ cb' = p /\ flags' = flags \cup {"SECTION"} /\ counter' = counter + Cardinality(Uncounted(p))
      /\ stat' = [i \in Maps |-> IF i \in Uncounted(p) THEN "closed" ELSE stat[i]]
      /\ flt' = [flt EXCEPT ![p] = IF @ = "active" THEN "timedout" ELSE "done"] /\ flt[p] \in {"active", "hit"}
  BY DEF PmtClose, Sie, Visit, Due, scan, search
<1>2. flt \in [Keys -> FilterStates] /\ p \in Keys
  BY KeysOf DEF IInv, Types
<1>3. Calm
  <2>1. flt'[p] = "timedout" => flt[p] = "active"  BY <1>1, <1>2
  <2>2. flt'[p] \in {"timedout", "done"} /\ \A k \in Keys \ {p} : flt'[k] = flt[k]  BY <1>1, <1>2
  <2> QED BY <1>1, <2>1, <2>2 DEF Calm, Waiting
<1>4. stat \in [Maps -> {"new", "closed", "returned"}] /\ Maps' = Maps
  BY <1>1 DEF CInv, Lists, Maps
<1>5. Uncounted(p) \subseteq Maps /\ \A i \in Uncounted(p) : stat[i] = "new"
  BY DEF CInv, Lists, Uncounted, Linked
<1>6. \A m \in Maps : stat'[m] = "returned" <=> stat[m] = "returned"
  BY <1>1, <1>4, <1>5
<1>7. Counted'
  <2>1. Seen' = Seen \cup Uncounted(p) /\ Seen \cap Uncounted(p) = {} /\ Back' = Back
    BY <1>1, <1>4, <1>5, <1>6 DEF Seen, Back
  <2>2. /\ IsFiniteSet(Seen) /\ IsFiniteSet(Back) /\ Cardinality(Seen) \in Nat /\ Cardinality(Back) \in Nat
        /\ IsFiniteSet(Maps)
    BY SetsFinite
  <2>3. IsFiniteSet(Uncounted(p))
    BY <1>5, <2>2, FS_Subset
  <2>4. Cardinality(Uncounted(p)) \in Nat
    BY <2>3, FS_CardinalityType
  <2>5. Cardinality(Seen') = Cardinality(Seen) + Cardinality(Uncounted(p)) - Cardinality({})
    BY <2>1, <2>2, <2>3, FS_Union
  <2>6. Cardinality({}) = 0
    BY FS_EmptySet
  <2> QED BY <1>1, <2>1, <2>2, <2>4, <2>5, <2>6 DEF CInv, Counted
<1>8. Lists'
  BY <1>1, <1>4 DEF CInv, Lists
<1>9. Asking' /\ Budget'
  BY <1>1 DEF CInv, Asking, Budget
<1>10. Untried'
  <2>1. \A j \in DOMAIN todo : todo[j] \in Keys
    BY KeysOf DEF CInv, Asking
  <2> QED BY <1>1, <1>3, <1>4, <1>6, <2>1 DEF CInv, Untried, Calm
<1>11. Fresh'
  BY <1>1 DEF CInv, Fresh
<1>12. Once'
  <2>1. pat' # <<>> => flt'["PAT"] \notin Waiting
    BY <1>1, <1>3 DEF CInv, Once, Calm, Keys, Tables
  <2>2. \A m \in listed : m \in Maps /\ pat[m] \in Keys
    BY KeysOf DEF CInv, Lists
  <2> QED BY <1>1, <1>3, <1>6, <2>1, <2>2 DEF CInv, Once, Calm
<1>13. Simple'
  BY <1>1, <1>2 DEF CInv, Simple
<1> QED BY <1>7, <1>8, <1>9, <1>10, <1>11, <1>12, <1>13 DEF CInv

(* What else the driver and the SIE task do leaves the programs alone.      *)
LEMMA TablesCount == CInv /\ IInv /\ ((\E k \in Tables : TableHit(k) \/ TableClose(k)) \/ PmtCheck \/ Freed) => CInv'
<1> SUFFICES ASSUME CInv, IInv, (\E k \in Tables : TableHit(k) \/ TableClose(k)) \/ PmtCheck \/ Freed PROVE CInv'
  OBVIOUS
<1>1. /\ UNCHANGED <<tps, scans, stopSignal, pc, made, stop, at, scheme, todo, n, info>>
      /\ flags' \subseteq flags \cup Tables \cup {"PMTALL"} /\ cb' \in Keys \cup {None}
  BY DEF TableHit, TableClose, PmtCheck, Freed, Driver, Sie, Visit, scan, search, CInv, Simple, Keys
<1>2. flt \in [Keys -> FilterStates] /\ Tables \subseteq Keys
  BY DEF IInv, Types, Keys
<1>3. Calm
  <2>1. ASSUME NEW k \in Tables, TableHit(k) PROVE Calm
    BY <1>2, <2>1 DEF TableHit, Hits, Stopped, Calm, Waiting
  <2>2. ASSUME NEW k \in Tables, TableClose(k) PROVE Calm
    BY <1>2, <2>2 DEF TableClose, Due, Visit, Calm, Waiting
  <2>3. PmtCheck => flt' = flt
    BY DEF PmtCheck
  <2>4. Freed => \A k \in Keys : flt'[k] \in {flt[k], "free"}
    BY <1>2 DEF Freed
  <2> QED BY <2>1, <2>2, <2>3, <2>4 DEF Calm, Waiting
<1>4. parsed' = parsed
  BY <1>1 DEF info
<1>5. Budget' /\ Simple'
  BY <1>1, <1>4 DEF CInv, Budget, Simple
<1>6. pc' \in {"close", "closing", "open", "tables"} => pat = <<>>
  BY <1>1 DEF CInv, Lists
<1> QED BY <1>1, <1>3, <1>5, <1>6, CalmKeeps

(* The second inductive invariant holds when the box starts.                *)
LEMMA InitCounts == Init => CInv
<1> SUFFICES ASSUME Init PROVE CInv
  OBVIOUS
<1> USE DEF Init
<1>1. Maps = {} /\ Seen = {} /\ Back = {}
  BY DEF Maps, Seen, Back
<1>2. Counted
  BY <1>1, FS_EmptySet DEF Counted
<1>3. Lists
  <2>1. <<>> \in [{} -> {"new", "closed", "returned"}]  OBVIOUS
  <2> QED BY <1>1, <2>1 DEF Lists
<1>4. Asking /\ Untried /\ Fresh /\ Once
  BY DEF Asking, Untried, Fresh, Once
<1>5. Budget
  BY SearchAssumption DEF Budget
<1>6. Simple
  <2>1. Scans \in Nat  BY SearchAssumption
  <2>2. {stopSignal, made, parsed} \subseteq BOOLEAN  OBVIOUS
  <2>3. scans \in 0 .. Scans  BY <2>1
  <2> QED BY <2>2, <2>3 DEF Simple
<1> QED BY <1>2, <1>3, <1>4, <1>5, <1>6 DEF CInv

(* Every step keeps it.                                                     *)
LEMMA CountsKept == CInv /\ IInv /\ [Next]_vars => CInv'
<1> SUFFICES ASSUME CInv, IInv, [Next]_vars PROVE CInv'
  OBVIOUS
<1>1. User \/ AsService => CInv'
  BY UserCounts
<1>2. PubTask => CInv'
  BY MovingCounts, CleanCounts, OpenCounts, NextPidCounts, PatCounts, ReleaseCounts DEF PubTask, Moving
<1>3. DmxDriver => CInv'
  BY PatHitCounts, PmtHitCounts, TablesCount DEF DmxDriver
<1>4. SieTask => CInv'
  BY PmtCloseCounts, TablesCount DEF SieTask
<1>5. UNCHANGED vars => CInv'
  <2> SUFFICES ASSUME UNCHANGED vars PROVE CInv'
    OBVIOUS
  <2>1. UNCHANGED <<info, todo, n, flt, tps, scans, stopSignal, pc, made, stop, at, scheme, flags, cb, parsed>>
    BY DEF vars, scan, search, siev, info
  <2>2. Calm
    BY <2>1 DEF Calm
  <2>3. Budget' /\ Simple'
    BY <2>1 DEF CInv, Budget, Simple
  <2>4. pc' \in {"close", "closing", "open", "tables"} => pat = <<>>
    BY <2>1 DEF CInv, Lists
  <2> QED BY <2>1, <2>2, <2>3, <2>4, CalmKeeps
<1> QED BY <1>1, <1>2, <1>3, <1>4, <1>5 DEF Next

(* The search's state is well-typed.  The count of PIDs that are asked for  *)
(* does not go below zero, psi_search_start's transponders do not either,   *)
(* and pmt_counter counts no program more than twice, though the driver may *)
(* deliver a section whose time-out was counted already.                    *)
THEOREM SearchTypes == ASSUME ~StopPreempted PROVE Spec => []TypeOK
<1>1. ASSUME IInv, CInv PROVE TypeOK
  <2>1. engine \in {"closed", "open", "search", "freed"}
    BY <1>1 DEF IInv, Types, Engine
  <2>2. counter \in 0 .. 2 * Len(pat)
    BY <1>1, SetsFinite DEF CInv, Counted
  <2>3. /\ flt \in [Keys -> {"free", "active", "hit", "timedout", "done"}] /\ sie \in {"poll", "check", "free"}
        /\ asInfo \in BOOLEAN /\ held \in BOOLEAN
    BY <1>1 DEF IInv, Types, FilterStates
  <2>4. Simple /\ Lists /\ Asking /\ Budget
    BY <1>1 DEF CInv
  <2> QED BY <2>1, <2>2, <2>3, <2>4 DEF TypeOK, Simple, Lists, Asking, Budget
<1>2. IInv /\ CInv => TypeOK
  BY <1>1
<1> QED BY Invariant, InitCounts, CountsKept, <1>2, PTL DEF Spec
=============================================================================
