--------------------------- MODULE SieEngineProofs ---------------------------
(***************************************************************************)
(* Proofs about SieEngine, for any number of requests, filters and tasks.  *)
(* FiltersOwned is not inductive: a step may re-use a request only because *)
(* of what the tasks that are inside the engine hold and know.  The parts  *)
(* of IInv say that: which call each task is in and who has the mutex      *)
(* (OpsOK, SieOK), which request is RUNNING (RunningOK), that a request    *)
(* between two filters has none (AgainOK), and that no filter points into  *)
(* a table still to come (FreshOK).                                        *)
(***************************************************************************)
EXTENDS MCSieEngine, TLAPS

\* What a task in an API call has in hand.
OpsOK ==
  \A t \in Tasks :
    /\ pc[t] = "lock" => op[t] \in AllocCalls \cup AbortCalls \cup ConfigCalls \cup EnableCalls
    /\ pc[t] = "lock" /\ op[t].call \in {"config", "enable"} => handle[t] # Closed
    /\ pc[t] = "enabled" => /\ op[t].call = "enabled" /\ mutex = t
                            /\ filter[op[t].req] \in FilterNos

\* The SIE task calls the API from a callback only, and never holds the mutex
\* twice.
SieOK ==
  /\ engine = "RELEASED" => spc = "none"
  /\ pc[Sie] # "idle" => spc = "callback"
  /\ spc = "again" => mutex = Sie

\* A request is RUNNING only while its parser is called.
RunningOK ==
  table # 0 => \A i \in Reqs : status[i] = "RUNNING" => spc = "callback" /\ cur = i

\* Between closing a request's filter and asking for one again, the request has
\* none, and nobody else can touch it.
AgainOK ==
  (spc = "again" /\ table # 0) =>
    status[cur] = "ACTIVE" /\ \A f \in FilterNos : ~Owns(f, cur)

\* No hardware filter names a table that has not been allocated yet.
FreshOK == \A f \in FilterNos : owner[f][1] \in 0 .. tables

\* A filter is in the bitmap, or its enabler, who holds the mutex, is about to
\* put it there.
WatchedOK ==
  table # 0 =>
    \A f \in FilterNos, i \in Reqs :
      Owns(f, i) => \/ f \in bitmap
                    \/ \E t \in Tasks : pc[t] = "enabled" /\ f = filter[op[t].req]

IInv == TypeOK /\ OpsOK /\ SieOK /\ RunningOK /\ AgainOK /\ FreshOK /\ FiltersOwned /\ WatchedOK
------------------------------------------------------------------------------
USE DEF Reqs, CallStates, CallbackReturns

\* The engine starts well-typed: sie_module_init leaves no table and no filter.
LEMMA InitType == ASSUME Init PROVE TypeOK
  <1>1. Closed \in Handle
    BY DEF Handle
  <1>2. [call |-> "none"] \in AllCalls
    BY DEF AllCalls
  <1>3. cur \in Reqs
    BY EngineAssumption DEF Init
  <1>4. handle \in [Tasks -> Handle] /\ owner \in [FilterNos -> Handle]
    BY <1>1 DEF Init
  <1>5. op \in [Tasks -> AllCalls]
    BY <1>2 DEF Init
  <1>6. tables \in Nat /\ table \in 0 .. tables
    BY DEF Init
  <1> QED BY <1>3, <1>4, <1>5, <1>6 DEF Init, TypeOK

\* Opening the engine (sie_open_dmx) keeps its state well-typed.
LEMMA OpenType ==
  ASSUME TypeOK, NEW t \in Tasks, Open(t) PROVE TypeOK'
  <1>1. CASE OpenEnter(t)
    BY <1>1, EngineAssumption DEF TypeOK, OpenEnter, requests, hardware, flags, api
  <1>2. CASE OpenTable(t)
    BY <1>2, EngineAssumption DEF TypeOK, OpenTable, requests, hardware, flags, sie
  <1>3. CASE OpenEnable(t)
    BY <1>3, EngineAssumption DEF TypeOK, OpenEnable, requests, hardware, sie
  <1> QED BY <1>1, <1>2, <1>3 DEF Open

\* Closing it (sie_close, sie_close_dmx) does.
LEMMA CloseType ==
  ASSUME TypeOK, NEW t \in Tasks, Close(t) PROVE TypeOK'
  <1>1. Closed \in Handle
    BY DEF Handle
  <1>2. CASE CloseEnter(t)
    BY <1>2 DEF TypeOK, CloseEnter, requests, hardware, flags, sie
  <1>3. CASE CloseFlag(t)
    BY <1>3 DEF TypeOK, CloseFlag, requests, hardware, sie
  <1>4. CASE CloseWake(t)
    BY <1>4 DEF TypeOK, CloseWake, requests, hardware, flags, sie
  <1>5. CASE CloseFree(t)
    BY <1>5 DEF TypeOK, CloseFree, requests, hardware, flags, sie
  <1>6. CASE CloseEnd(t)
    <2>1. /\ pc' = [pc EXCEPT ![t] = "idle"] /\ handle' = [handle EXCEPT ![t] = Closed]
          /\ closed' \in BOOLEAN
      BY <1>6 DEF CloseEnd
    <2>2. /\ handle' \in [Tasks -> Handle]
          /\ pc' \in [Tasks -> CallStates]
      BY <1>1, <2>1 DEF TypeOK
    <2> QED BY <1>6, <2>1, <2>2 DEF TypeOK, CloseEnd, requests, hardware, sie
  <1> QED BY <1>2, <1>3, <1>4, <1>5, <1>6 DEF Close

\* What an API call is allowed to carry.
LEMMA CallsType ==
  ASSUME NEW t \in Tasks, NEW c \in Calls(t) PROVE c \in AllCalls
  BY DEF Calls, AllCalls

\* So does entering an API call, whatever the call.
LEMMA CallType ==
  ASSUME TypeOK, NEW t \in Tasks, Call(t) PROVE TypeOK'
  <1>1. PICK c \in Calls(t) : op' = [op EXCEPT ![t] = c]
    BY DEF Call
  <1>2. op' \in [Tasks -> AllCalls]
    BY <1>1, CallsType DEF TypeOK
  <1>3. wild' \in BOOLEAN
    BY DEF Call
  <1> QED BY <1>2, <1>3 DEF TypeOK, Call, requests, hardware, flags, sie

\* The API calls keep the types; OpsOK says what the call in progress carries.
LEMMA ApiType ==
  ASSUME TypeOK, OpsOK, NEW t \in Tasks, Api(t) PROVE TypeOK'
  <1>1. Closed \in Handle
    BY DEF Handle
  <1>2. CASE GiveUp(t)
    BY <1>1, <1>2 DEF TypeOK, GiveUp, requests, hardware, flags, sie
  <1>3. CASE UseFreed(t)
    BY <1>1, <1>3 DEF TypeOK, UseFreed, requests, hardware, flags, sie
  <1>4. CASE Alloc(t)
    <2>1. op[t].pid \in Pids
      BY <1>4 DEF Alloc, Entered, OpsOK, AllocCalls, AbortCalls, ConfigCalls, EnableCalls
    <2>2. \A i \in Reqs : <<table, i>> \in Handle
      BY DEF Handle, TypeOK
    <2>3. /\ pc' \in [Tasks -> CallStates]
          /\ UNCHANGED <<engine, table, tables, bitmap, hardware, mutex, module, flags,
                         wake, sie, op, wild, calls>>
      BY <1>4 DEF TypeOK, Alloc
    <2>4. CASE UNCHANGED <<requests, handle>>
      BY <2>3, <2>4 DEF TypeOK, requests, hardware, flags, sie
    <2>5. CASE \E i \in Reqs :
                 /\ status' = [status EXCEPT ![i] = "IDLE"]
                 /\ filter' = [filter EXCEPT ![i] = None]
                 /\ pid' = [pid EXCEPT ![i] = op[t].pid]
                 /\ mask' = [mask EXCEPT ![i] = NoMask]
                 /\ hit' = [hit EXCEPT ![i] = FALSE]
                 /\ handle' = [handle EXCEPT ![t] = <<table, i>>]
      <3>1. /\ status' \in [Reqs -> {"FREE", "IDLE", "ACTIVE", "RUNNING"}]
            /\ filter' \in [Reqs -> FilterNos \cup {None}]
            /\ pid' \in [Reqs -> Pids] /\ mask' \in [Reqs -> Masks \cup {NoMask}]
            /\ hit' \in [Reqs -> BOOLEAN] /\ handle' \in [Tasks -> Handle]
        BY <2>1, <2>2, <2>5 DEF TypeOK
      <3> QED BY <2>3, <3>1 DEF TypeOK, hardware, flags, sie
    <2> QED BY <1>4, <2>4, <2>5 DEF Alloc
  <1>5. CASE Config(t)
    <2>1. op[t].mask \in Masks
      BY <1>5 DEF Config, Entered, OpsOK, AllocCalls, AbortCalls, ConfigCalls, EnableCalls
    <2>2. mask' \in [Reqs -> Masks \cup {NoMask}] /\ pc' \in [Tasks -> CallStates]
      BY <1>5, <2>1 DEF TypeOK, Config
    <2> QED BY <1>5, <2>2 DEF TypeOK, Config, hardware, flags, sie
  <1>6. CASE Enable(t)
    <2>1. handle[t][2] \in Reqs
      BY <1>6 DEF Enable, Entered, OpsOK, TypeOK, Handle
    <2>2. /\ <<table, handle[t][2]>> \in Handle
          /\ [call |-> "enabled", req |-> handle[t][2]] \in AllCalls
      BY <2>1 DEF Handle, AllCalls, TypeOK
    <2> QED BY <1>1, <1>6, <2>1, <2>2 DEF TypeOK, Enable, OpenHw, FreeHw, hardware, flags, sie
  <1>7. CASE Enabled(t)
    <2>1. op[t].req \in Reqs
      BY <1>7 DEF Enabled, OpsOK, TypeOK, AllCalls, AllocCalls, AbortCalls, ConfigCalls, EnableCalls
    <2>2. bitmap' \subseteq FilterNos
      BY <1>7, <2>1 DEF TypeOK, Enabled, Watch, OpsOK
    <2>3. mutex' \in Tasks \cup {None} /\ pc' \in [Tasks -> CallStates]
      BY <1>7 DEF TypeOK, Enabled
    <2> QED BY <1>7, <2>2, <2>3 DEF TypeOK, Enabled, requests, hardware, flags, sie
  <1>8. CASE Abort(t)
    <2>1. /\ owner' \in [FilterNos -> Handle] /\ getting' \subseteq FilterNos
          /\ bitmap' \subseteq FilterNos
          /\ status' \in [Reqs -> {"FREE", "IDLE", "ACTIVE", "RUNNING"}]
      BY <1>1, <1>8 DEF TypeOK, Abort, CloseHw, Unwatch, hardware
    <2>2. pc' \in [Tasks -> CallStates]
      BY <1>8 DEF TypeOK, Abort
    <2> QED BY <1>8, <2>1, <2>2 DEF TypeOK, Abort, flags, sie
  <1> QED BY <1>2, <1>3, <1>4, <1>5, <1>6, <1>7, <1>8 DEF Api

\* The outer loop of the SIE task (sie_main) keeps the types.
LEMMA SieMainType ==
  ASSUME TypeOK, SieMain PROVE TypeOK'
  <1>1. CASE WaitEnable
    BY <1>1 DEF TypeOK, WaitEnable, requests, hardware, api
  <1>2. CASE Poll
    BY <1>2 DEF TypeOK, Poll, requests, hardware, flags, api
  <1>3. CASE ClearWake
    BY <1>3 DEF TypeOK, ClearWake, requests, hardware, flags, api
  <1>4. CASE CheckClosing
    <2>1. Closed \in Handle
      BY DEF Handle
    <2>2. owner' \in [FilterNos -> Handle] /\ getting' \subseteq FilterNos
      BY <1>4, <2>1 DEF TypeOK, CheckClosing, CloseHw, hardware
    <2>5. 1 \in Reqs
      BY EngineAssumption
    <2>3. cur' \in Reqs /\ bitmap' \subseteq FilterNos
      BY <1>4, <2>5 DEF TypeOK, CheckClosing
    <2>6. wild' \in BOOLEAN
      BY <1>4 DEF TypeOK, CheckClosing
    <2>4. spc' \in {"leave", "inspect"}
      BY <1>4 DEF CheckClosing
    <2> QED BY <1>4, <2>2, <2>3, <2>4, <2>6 DEF TypeOK, CheckClosing, requests, flags, api
  <1>5. CASE ClearClosing
    BY <1>5 DEF TypeOK, ClearClosing, requests, hardware, api
  <1>6. CASE SetClosed
    BY <1>6 DEF TypeOK, SetClosed, requests, hardware, api
  <1> QED BY <1>1, <1>2, <1>3, <1>4, <1>5, <1>6 DEF SieMain

\* inspect_active's loop stays inside the request table.
LEMMA NextRequestType ==
  ASSUME TypeOK, NextRequest PROVE cur' \in Reqs /\ spc' \in {"inspect", "mask"}
  BY EngineAssumption DEF TypeOK, NextRequest

\* Looking for due requests (inspect_active) keeps the types.
LEMMA InspectType ==
  ASSUME TypeOK, Inspect PROVE TypeOK'
  <1>1. CASE InspectDue
    BY <1>1 DEF TypeOK, InspectDue, hardware, flags, api
  <1>2. CASE InspectIdle
    <2>1. cur' \in Reqs /\ spc' \in {"inspect", "mask"} /\ wild' \in BOOLEAN
      BY <1>2, NextRequestType DEF InspectIdle, TypeOK
    <2> QED BY <1>2, <2>1 DEF TypeOK, InspectIdle, requests, hardware, flags, api
  <1>3. CASE SetMask
    BY <1>3 DEF TypeOK, SetMask, NextMask, requests, hardware, flags, api
  <1> QED BY <1>1, <1>2, <1>3 DEF Inspect

\* Returning from a parser (dispatch_section) keeps the types.
LEMMA CallbackType ==
  ASSUME TypeOK, Callback PROVE TypeOK'
  <1>1. Closed \in Handle
    BY DEF Handle
  <1>2. CASE CallbackAborted
    <2>1. /\ cur' \in Reqs /\ spc' \in {"inspect", "mask"} /\ wild' \in BOOLEAN
          /\ handle' \in [Tasks -> Handle]
      BY <1>1, <1>2, NextRequestType DEF CallbackAborted, TypeOK
    <2> QED BY <1>2, <2>1 DEF TypeOK, CallbackAborted, requests, hardware, flags, api
  <1>3. CASE CallbackStarted
    <2>1. /\ owner' \in [FilterNos -> Handle] /\ getting' \subseteq FilterNos
          /\ bitmap' \subseteq FilterNos /\ hit' \in [Reqs -> BOOLEAN]
          /\ status' \in [Reqs -> {"FREE", "IDLE", "ACTIVE", "RUNNING"}]
      BY <1>1, <1>3 DEF TypeOK, CallbackStarted, HitTaken, CloseHw, Unwatch
    <2>2. mutex' \in Tasks \cup {None} /\ spc' = "again" /\ handle' \in [Tasks -> Handle]
      BY <1>1, <1>3 DEF CallbackStarted, Tasks, TypeOK
    <2> QED BY <1>3, <2>1, <2>2 DEF TypeOK, CallbackStarted, flags, api
  <1>4. CASE RequestAgain
    <2>1. cur' \in Reqs /\ spc' \in {"inspect", "mask"}
      BY <1>4, NextRequestType DEF RequestAgain
    <2>2. <<table, cur>> \in Handle
      BY DEF TypeOK, Handle
    <2>3. /\ owner' \in [FilterNos -> Handle] /\ getting' \subseteq FilterNos
          /\ bitmap' \subseteq FilterNos /\ filter' \in [Reqs -> FilterNos \cup {None}]
          /\ status' \in [Reqs -> {"FREE", "IDLE", "ACTIVE", "RUNNING"}]
      BY <1>4, <2>2 DEF TypeOK, RequestAgain, OpenHw, FreeHw, Watch, hardware
    <2> QED BY <1>4, <2>1, <2>3 DEF TypeOK, RequestAgain, flags, api
  <1>5. CASE CallbackFreed
    <2>1. cur' \in Reqs /\ spc' \in {"inspect", "mask"} /\ handle' \in [Tasks -> Handle]
      BY <1>1, <1>5, NextRequestType DEF CallbackFreed, TypeOK
    <2>2. /\ owner' \in [FilterNos -> Handle] /\ getting' \subseteq FilterNos
          /\ bitmap' \subseteq FilterNos /\ hit' \in [Reqs -> BOOLEAN]
          /\ status' \in [Reqs -> {"FREE", "IDLE", "ACTIVE", "RUNNING"}]
      BY <1>1, <1>5 DEF TypeOK, CallbackFreed, HitTaken, CloseHw, Unwatch
    <2> QED BY <1>5, <2>1, <2>2 DEF TypeOK, CallbackFreed, flags, api
  <1> QED BY <1>2, <1>3, <1>4, <1>5 DEF Callback

\* So does the demux driver's call of on_dmx_event.
LEMMA EventType ==
  ASSUME TypeOK, NEW f \in FilterNos, OnDmxEvent(f) PROVE TypeOK'
  <1>1. hit' \in [Reqs -> BOOLEAN] /\ wild' \in BOOLEAN /\ getting' \subseteq FilterNos
    BY DEF TypeOK, OnDmxEvent
  <1> QED BY <1>1 DEF TypeOK, OnDmxEvent, flags, sie, api

\* Every step keeps the types.
LEMMA TypeStep ==
  ASSUME TypeOK, OpsOK, [Next]_vars PROVE TypeOK'
  <1>1. CASE UNCHANGED vars
    BY <1>1 DEF TypeOK, vars, requests, hardware, flags, sie, api
  <1> QED BY <1>1, EventType, OpenType, CloseType, CallType, ApiType, SieMainType,
             InspectType, CallbackType DEF Next, User
------------------------------------------------------------------------------
(* The other parts of the invariant, one lemma each. *)

\* Nobody is between the driver's answer and the bitmap when the mutex is free.
LEMMA NoneEnabled ==
  ASSUME OpsOK, mutex = None, NEW t \in Tasks PROVE pc[t] # "enabled"
  BY EngineAssumption DEF OpsOK

\* A step leaves every task in an API call with a call it may carry, and only
\* the holder of the mutex between the driver's answer and the bitmap.
LEMMA OpsStep ==
  ASSUME IInv, [Next]_vars PROVE OpsOK'
  <1> USE EngineAssumption, NoneEnabled DEF IInv, OpsOK, TypeOK
  <1>1. CASE UNCHANGED vars
    BY <1>1 DEF vars, requests, api
  <1>2. ASSUME NEW f \in FilterNos, OnDmxEvent(f) PROVE OpsOK'
    BY <1>2 DEF OnDmxEvent, api
  <1>3. ASSUME NEW t \in Tasks, Open(t) PROVE OpsOK'
    <2>1. CASE OpenEnter(t)
      BY <2>1 DEF OpenEnter, requests
    <2>2. CASE OpenTable(t)
      BY <2>2 DEF OpenTable
    <2>3. CASE OpenEnable(t)
      BY <2>3 DEF OpenEnable, requests
    <2> QED BY <1>3, <2>1, <2>2, <2>3 DEF Open
  <1>4. ASSUME NEW t \in Tasks, Close(t) PROVE OpsOK'
    <2>1. CASE CloseEnter(t) \/ CloseFlag(t) \/ CloseWake(t) \/ CloseFree(t)
      BY <2>1 DEF CloseEnter, CloseFlag, CloseWake, CloseFree, requests
    <2>2. CASE CloseEnd(t)
      BY <2>2 DEF CloseEnd, requests
    <2> QED BY <1>4, <2>1, <2>2 DEF Close
  <1>5. ASSUME NEW t \in Tasks, Call(t) PROVE OpsOK'
    <2>1. PICK c \in Calls(t) : op' = [op EXCEPT ![t] = c]
      BY <1>5 DEF Call
    <2>2. /\ c \in AllocCalls \cup AbortCalls \cup ConfigCalls \cup EnableCalls
          /\ c.call \in {"config", "enable"} => handle[t] # Closed
      BY DEF Calls, AllocCalls, AbortCalls, ConfigCalls, EnableCalls
    <2> QED BY <1>5, <2>1, <2>2 DEF Call, requests
  <1>6. ASSUME NEW t \in Tasks, Api(t) PROVE OpsOK'
    <2>1. CASE GiveUp(t) \/ UseFreed(t)
      BY <2>1 DEF GiveUp, UseFreed, requests
    <2>2. CASE Alloc(t)
      BY <2>2 DEF Alloc, Entered, requests
    <2>3. CASE Config(t) \/ Abort(t)
      BY <2>3 DEF Config, Abort, Entered
    <2>4. CASE Enable(t)
      BY <2>4 DEF Enable, Entered, FreeHw, Handle
    <2>5. CASE Enabled(t)
      BY <2>5 DEF Enabled, requests
    <2> QED BY <1>6, <2>1, <2>2, <2>3, <2>4, <2>5 DEF Api
  <1>7. CASE SieMain
    BY <1>7 DEF SieMain, WaitEnable, Poll, ClearWake, CheckClosing, ClearClosing,
                SetClosed, requests, api
  <1>8. CASE Inspect
    BY <1>8 DEF Inspect, InspectDue, InspectIdle, SetMask, requests, api
  <1>9. CASE Callback
    <2>1. CASE CallbackAborted \/ CallbackStarted \/ CallbackFreed
      BY <2>1 DEF CallbackAborted, CallbackStarted, CallbackFreed, requests, api
    <2>2. CASE RequestAgain
      <3>1. \A t \in Tasks : pc[t] # "enabled"
        BY <2>2 DEF RequestAgain, SieOK
      <3> QED BY <2>2, <3>1 DEF RequestAgain, api
    <2> QED BY <1>9, <2>1, <2>2 DEF Callback
  <1> QED BY <1>1, <1>2, <1>3, <1>4, <1>5, <1>6, <1>7, <1>8, <1>9 DEF Next, User

\* A step keeps the SIE task's own API calls inside its callbacks, and its hold
\* on the mutex while it asks for a filter again.
LEMMA SieStep ==
  ASSUME IInv, [Next]_vars PROVE SieOK'
  <1> USE EngineAssumption, NoneEnabled DEF IInv, SieOK, TypeOK
  <1>1. CASE UNCHANGED vars
    BY <1>1 DEF vars, sie, api
  <1>2. ASSUME NEW f \in FilterNos, OnDmxEvent(f) PROVE SieOK'
    BY <1>2 DEF OnDmxEvent, sie, api
  <1>3. ASSUME NEW t \in Tasks, Open(t) PROVE SieOK'
    BY <1>3 DEF Open, OpenEnter, OpenTable, OpenEnable, sie, Tasks
  <1>4. ASSUME NEW t \in Tasks, Close(t) PROVE SieOK'
    BY <1>4 DEF Close, CloseEnter, CloseFlag, CloseWake, CloseFree, CloseEnd, sie, Tasks
  <1>5. ASSUME NEW t \in Tasks, Call(t) PROVE SieOK'
    BY <1>5 DEF Call, sie, Tasks
  <1>6. ASSUME NEW t \in Tasks, Api(t) PROVE SieOK'
    <2>1. CASE GiveUp(t) \/ UseFreed(t) \/ Alloc(t) \/ Config(t) \/ Abort(t)
      <3>1. engine' = engine /\ mutex' = mutex /\ spc' = spc /\ pc' = [pc EXCEPT ![t] = "idle"]
        BY <2>1 DEF GiveUp, UseFreed, Alloc, Config, Abort, sie
      <3> QED BY <3>1 DEF Tasks
    <2>2. CASE Enable(t)
      BY <2>2 DEF Enable, Entered, sie, Tasks
    <2>3. CASE Enabled(t)
      <3>1. spc # "again"
        BY <2>3 DEF Enabled, OpsOK
      <3>2. engine' = engine /\ spc' = spc /\ pc' = [pc EXCEPT ![t] = "idle"]
        BY <2>3 DEF Enabled, sie
      <3> QED BY <3>1, <3>2 DEF Tasks
    <2> QED BY <1>6, <2>1, <2>2, <2>3 DEF Api
  <1>7. CASE SieMain
    BY <1>7 DEF SieMain, WaitEnable, Poll, ClearWake, CheckClosing, ClearClosing,
                SetClosed, api
  <1>8. CASE Inspect
    BY <1>8 DEF Inspect, InspectDue, InspectIdle, SetMask, NextRequest, api
  <1>9. CASE Callback
    BY <1>9 DEF Callback, CallbackAborted, CallbackStarted, CallbackFreed, RequestAgain,
                NextRequest, api
  <1> QED BY <1>1, <1>2, <1>3, <1>4, <1>5, <1>6, <1>7, <1>8, <1>9 DEF Next, User

\* A step leaves at most one request RUNNING: the one whose parser is called.
LEMMA RunningStep ==
  ASSUME IInv, [Next]_vars PROVE RunningOK'
  <1> USE EngineAssumption DEF IInv, RunningOK, TypeOK
  <1>1. CASE UNCHANGED vars
    BY <1>1 DEF vars, sie, requests
  <1>2. ASSUME NEW f \in FilterNos, OnDmxEvent(f) PROVE RunningOK'
    BY <1>2 DEF OnDmxEvent, sie
  <1>3. ASSUME NEW t \in Tasks, Open(t) PROVE RunningOK'
    BY <1>3 DEF Open, OpenEnter, OpenTable, OpenEnable, sie, requests, SieOK
  <1>4. ASSUME NEW t \in Tasks, Close(t) PROVE RunningOK'
    BY <1>4 DEF Close, CloseEnter, CloseFlag, CloseWake, CloseFree, CloseEnd, sie, requests
  <1>5. ASSUME NEW t \in Tasks, Call(t) PROVE RunningOK'
    BY <1>5 DEF Call, sie, requests
  <1>6. ASSUME NEW t \in Tasks, Api(t) PROVE RunningOK'
    <2>1. CASE GiveUp(t) \/ UseFreed(t) \/ Config(t) \/ Enabled(t)
      BY <2>1 DEF GiveUp, UseFreed, Config, Enabled, sie, requests
    <2>2. CASE Alloc(t)
      BY <2>2 DEF Alloc, sie, requests
    <2>3. CASE Enable(t)
      BY <2>3 DEF Enable, sie
    <2>4. CASE Abort(t)
      BY <2>4 DEF Abort, sie
    <2> QED BY <1>6, <2>1, <2>2, <2>3, <2>4 DEF Api
  <1>7. CASE SieMain
    BY <1>7 DEF SieMain, WaitEnable, Poll, ClearWake, CheckClosing, ClearClosing,
                SetClosed, requests
  <1>8. CASE Inspect
    BY <1>8 DEF Inspect, InspectDue, InspectIdle, SetMask, NextRequest, requests
  <1>9. CASE Callback
    BY <1>9 DEF Callback, CallbackAborted, CallbackStarted, CallbackFreed, RequestAgain,
                NextRequest, requests
  <1> QED BY <1>1, <1>2, <1>3, <1>4, <1>5, <1>6, <1>7, <1>8, <1>9 DEF Next, User

\* While dispatch_section holds the mutex between closing a filter and asking
\* for one again, no step gives the request a filter.
LEMMA AgainStep ==
  ASSUME IInv, [Next]_vars PROVE AgainOK'
  <1> USE EngineAssumption DEF IInv, AgainOK, TypeOK, Owns
  <1>1. CASE UNCHANGED <<spc, table, status, cur, owner>>
    BY <1>1
  <1>2. ASSUME NEW t \in Tasks, Open(t) PROVE AgainOK'
    BY <1>2 DEF Open, OpenEnter, OpenTable, OpenEnable, sie, requests, hardware, SieOK, Tasks
  <1>3. ASSUME NEW t \in Tasks, Close(t) PROVE AgainOK'
    BY <1>3 DEF Close, CloseEnter, CloseFlag, CloseWake, CloseFree, CloseEnd, sie, requests,
                hardware
  <1>4. ASSUME NEW t \in Tasks, Alloc(t) \/ Enable(t) \/ Abort(t) PROVE AgainOK'
    <2>1. spc # "again"
      BY <1>4 DEF Alloc, Enable, Abort, Entered, SieOK, Tasks
    <2>2. spc' = spc
      BY <1>4 DEF Alloc, Enable, Abort, sie
    <2> QED BY <2>1, <2>2
  <1>5. CASE SieMain \/ Inspect \/ CallbackAborted \/ RequestAgain \/ CallbackFreed
    <2>1. spc' # "again"
      BY <1>5 DEF SieMain, WaitEnable, Poll, ClearWake, CheckClosing, ClearClosing, SetClosed,
                  Inspect, InspectDue, InspectIdle, SetMask, NextRequest, CallbackAborted,
                  RequestAgain, CallbackFreed
    <2> QED BY <2>1
  <1>6. CASE CallbackStarted
    <2>1. \A f \in FilterNos : Owns(f, cur) => filter[cur] = f
      BY <1>6 DEF CallbackStarted, FiltersOwned
    <2> QED BY <1>6, <2>1 DEF CallbackStarted, CloseHw, Closed
  <1>7. CASE \/ UNCHANGED vars
             \/ \E f \in FilterNos : OnDmxEvent(f)
             \/ \E t \in Tasks : Call(t) \/ GiveUp(t) \/ UseFreed(t) \/ Config(t) \/ Enabled(t)
    <2> UNCHANGED <<spc, table, status, cur, owner>>
      BY <1>7 DEF vars, hardware, requests, sie, OnDmxEvent, Call, GiveUp, UseFreed, Config,
                  Enabled
    <2> QED BY <1>1
  <1> QED BY <1>2, <1>3, <1>4, <1>5, <1>6, <1>7 DEF Next, User, Api, Callback

\* No step gives a filter to a table of the future.
LEMMA FreshStep ==
  ASSUME IInv, [Next]_vars PROVE FreshOK'
  <1> USE DEF IInv, FreshOK, TypeOK
  <1>1. CASE UNCHANGED <<owner, tables>>
    BY <1>1
  <1>2. ASSUME NEW t \in Tasks, OpenTable(t) PROVE FreshOK'
    BY <1>2 DEF OpenTable, hardware
  <1>3. ASSUME NEW t \in Tasks, Enable(t) PROVE FreshOK'
    BY <1>3 DEF Enable, OpenHw, hardware
  <1>4. ASSUME NEW t \in Tasks, Abort(t) PROVE FreshOK'
    BY <1>4 DEF Abort, CloseHw, Closed, hardware
  <1>5. CASE CheckClosing
    BY <1>5 DEF CheckClosing, CloseHw, Closed, hardware
  <1>6. CASE CallbackStarted \/ CallbackFreed
    BY <1>6 DEF CallbackStarted, CallbackFreed, CloseHw, Closed
  <1>7. CASE RequestAgain
    BY <1>7 DEF RequestAgain, OpenHw, hardware
  <1>8. CASE \/ UNCHANGED vars
             \/ \E f \in FilterNos : OnDmxEvent(f)
             \/ \E t \in Tasks : \/ OpenEnter(t) \/ OpenEnable(t) \/ Close(t) \/ Call(t)
                                \/ GiveUp(t) \/ UseFreed(t) \/ Alloc(t) \/ Config(t) \/ Enabled(t)
             \/ WaitEnable \/ Poll \/ ClearWake \/ ClearClosing \/ SetClosed \/ Inspect
             \/ CallbackAborted
    <2> UNCHANGED <<owner, tables>>
      BY <1>8 DEF vars, hardware, OnDmxEvent, OpenEnter, OpenEnable, Close, CloseEnter,
                  CloseFlag, CloseWake, CloseFree, CloseEnd, Call, GiveUp, UseFreed, Alloc,
                  Config, Enabled, WaitEnable, Poll, ClearWake, ClearClosing, SetClosed,
                  Inspect, InspectDue, InspectIdle, SetMask, CallbackAborted
    <2> QED BY <1>1
  <1> QED BY <1>2, <1>3, <1>4, <1>5, <1>6, <1>7, <1>8
          DEF Next, User, Open, Api, SieMain, Callback

\* Steps that leave the hardware, the table and the requests' filters alone.
LEMMA OwnedFrame ==
  ASSUME FiltersOwned, UNCHANGED <<owner, table, status, filter>> PROVE FiltersOwned'
  BY DEF FiltersOwned, Owns

\* A step leaves every filter of the table with the one live request that knows it.
LEMMA OwnedStep ==
  ASSUME IInv, [Next]_vars PROVE FiltersOwned'
  <1> USE DEF IInv, TypeOK, FiltersOwned, Owns, Live
  <1>1. ASSUME NEW t \in Tasks, Open(t) PROVE FiltersOwned'
    <2>1. CASE OpenTable(t)
      BY <2>1 DEF OpenTable, FreshOK, hardware
    <2>2. CASE OpenEnter(t) \/ OpenEnable(t)
      BY <2>2, OwnedFrame DEF OpenEnter, OpenEnable, hardware, requests
    <2> QED BY <1>1, <2>1, <2>2 DEF Open
  <1>2. ASSUME NEW t \in Tasks, Close(t) PROVE FiltersOwned'
    <2>1. CASE CloseFree(t)
      BY <2>1 DEF CloseFree
    <2>2. CASE CloseEnter(t) \/ CloseFlag(t) \/ CloseWake(t) \/ CloseEnd(t)
      BY <2>2, OwnedFrame DEF CloseEnter, CloseFlag, CloseWake, CloseEnd, hardware, requests
    <2> QED BY <1>2, <2>1, <2>2 DEF Close
  <1>3. ASSUME NEW t \in Tasks, Alloc(t) PROVE FiltersOwned'
    <2>1. CASE UNCHANGED <<requests, handle>>
      BY <1>3, <2>1, OwnedFrame DEF Alloc, hardware, requests
    <2>2. ASSUME NEW i \in Reqs, Free(i),
                 status' = [status EXCEPT ![i] = "IDLE"], filter' = [filter EXCEPT ![i] = None]
          PROVE  FiltersOwned'
      BY <1>3, <2>2 DEF Alloc, Free, hardware
    <2> QED BY <1>3, <2>1, <2>2 DEF Alloc
  <1>4. ASSUME NEW t \in Tasks, Enable(t) PROVE FiltersOwned'
    <2>1. handle[t][2] \in Reqs
      BY <1>4 DEF Enable, Entered, OpsOK, Handle
    <2> DEFINE i == handle[t][2]
    <2>2. table' = table /\ \A f \in FilterNos : table # 0 => ~Owns(f, i)
      BY <1>4, <2>1 DEF Enable
    <2>3. ASSUME NEW f \in FreeHw, OpenHw(f, i), status' = [status EXCEPT ![i] = "ACTIVE"],
                 filter' = [filter EXCEPT ![i] = f]
          PROVE  FiltersOwned'
      BY <2>1, <2>2, <2>3 DEF OpenHw, FreeHw
    <2>4. CASE status' = [status EXCEPT ![i] = "FREE"] /\ UNCHANGED <<filter, hardware>>
      BY <2>1, <2>2, <2>4 DEF hardware
    <2> QED BY <1>4, <2>3, <2>4 DEF Enable
  <1>5. ASSUME NEW t \in Tasks, Abort(t) PROVE FiltersOwned'
    <2>1. CASE UNCHANGED <<hardware, bitmap, status>>
      BY <1>5, <2>1, OwnedFrame DEF Abort, hardware
    <2>2. ASSUME NEW i \in Reqs, CloseHw({filter[i]}), status' = [status EXCEPT ![i] = "FREE"]
          PROVE  FiltersOwned'
      BY <1>5, <2>2 DEF Abort, CloseHw, Closed
    <2> QED BY <1>5, <2>1, <2>2 DEF Abort
  <1>6. CASE CheckClosing
    BY <1>6 DEF CheckClosing, CloseHw, Closed, hardware, requests
  <1>7. CASE InspectDue
    BY <1>7 DEF InspectDue, hardware
  <1>8. CASE CallbackStarted
    BY <1>8 DEF CallbackStarted, CloseHw, Closed
  <1>9. CASE RequestAgain
    <2>1. table' = table /\ (table # 0 => \A f \in FilterNos : ~Owns(f, cur))
      BY <1>9 DEF RequestAgain, AgainOK
    <2>2. ASSUME NEW f \in FreeHw, OpenHw(f, cur), filter' = [filter EXCEPT ![cur] = f],
                 UNCHANGED status
          PROVE  FiltersOwned'
      BY <1>9, <2>1, <2>2 DEF RequestAgain, AgainOK, OpenHw, FreeHw
    <2>3. CASE status' = [status EXCEPT ![cur] = "FREE"] /\ UNCHANGED <<filter, hardware>>
      BY <2>1, <2>3 DEF hardware
    <2> QED BY <1>9, <2>2, <2>3 DEF RequestAgain
  <1>10. CASE CallbackFreed
    BY <1>10 DEF CallbackFreed, CloseHw, Closed
  <1>11. CASE \/ UNCHANGED vars
              \/ \E f \in FilterNos : OnDmxEvent(f)
              \/ \E t \in Tasks : Call(t) \/ GiveUp(t) \/ UseFreed(t) \/ Config(t) \/ Enabled(t)
              \/ WaitEnable \/ Poll \/ ClearWake \/ ClearClosing \/ SetClosed
              \/ InspectIdle \/ SetMask \/ CallbackAborted
    <2> UNCHANGED <<owner, table, status, filter>>
      BY <1>11 DEF vars, hardware, requests, OnDmxEvent, Call, GiveUp, UseFreed, Config,
                   Enabled, WaitEnable, Poll, ClearWake, ClearClosing, SetClosed,
                   InspectIdle, SetMask, CallbackAborted
    <2> QED BY OwnedFrame
  <1> QED BY <1>1, <1>2, <1>3, <1>4, <1>5, <1>6, <1>7, <1>8, <1>9, <1>10, <1>11
          DEF Next, User, Api, SieMain, Inspect, Callback
\* Steps that leave the hardware and the bitmap alone, and whoever is about to
\* update it.
LEMMA WatchedFrame ==
  ASSUME WatchedOK, UNCHANGED <<owner, table, bitmap, filter>>,
         \A t \in Tasks : pc[t] = "enabled" => pc'[t] = "enabled" /\ op'[t] = op[t]
  PROVE  WatchedOK'
  BY DEF WatchedOK, Owns

\* With the mutex free, everything owned is in the bitmap.
LEMMA AllWatched ==
  ASSUME IInv, table # 0, \A t \in Tasks : pc[t] # "enabled",
         NEW f \in FilterNos, NEW i \in Reqs, Owns(f, i)
  PROVE  f \in bitmap
  BY DEF IInv, WatchedOK

\* A step leaves every filter of the table in the bitmap or with the task that
\* is about to put it there.
LEMMA WatchedStep ==
  ASSUME IInv, [Next]_vars PROVE WatchedOK'
  <1> USE DEF IInv, TypeOK, Owns
  <1>1. ASSUME NEW t \in Tasks, Open(t) PROVE WatchedOK'
    <2>1. CASE OpenTable(t)
      BY <2>1 DEF OpenTable, FreshOK, WatchedOK, hardware
    <2>2. CASE OpenEnter(t) \/ OpenEnable(t)
      BY <2>2, WatchedFrame DEF OpenEnter, OpenEnable, hardware, requests
    <2> QED BY <1>1, <2>1, <2>2 DEF Open
  <1>2. ASSUME NEW t \in Tasks, Close(t) PROVE WatchedOK'
    <2>1. CASE CloseFree(t)
      BY <2>1 DEF CloseFree, WatchedOK
    <2>2. CASE CloseEnter(t) \/ CloseFlag(t) \/ CloseWake(t) \/ CloseEnd(t)
      BY <2>2, WatchedFrame DEF CloseEnter, CloseFlag, CloseWake, CloseEnd, hardware, requests
    <2> QED BY <1>2, <2>1, <2>2 DEF Close
  <1>3. ASSUME NEW t \in Tasks, Call(t) \/ GiveUp(t) \/ UseFreed(t) \/ Config(t)
        PROVE  WatchedOK'
    <2>1. UNCHANGED <<owner, table, bitmap, filter>>
      BY <1>3 DEF Call, GiveUp, UseFreed, Config, hardware, requests
    <2>2. \A u \in Tasks : pc[u] = "enabled" => pc'[u] = "enabled" /\ op'[u] = op[u]
      BY <1>3 DEF Call, GiveUp, UseFreed, Config, Entered
    <2> QED BY <2>1, <2>2, WatchedFrame
  <1>4. ASSUME NEW t \in Tasks, Alloc(t) PROVE WatchedOK'
    <2>1. \A u \in Tasks : pc[u] # "enabled"
      BY <1>4, NoneEnabled DEF Alloc, Entered
    <2>2. UNCHANGED <<owner, table, bitmap>>
      BY <1>4 DEF Alloc, hardware
    <2> QED BY <2>1, <2>2, AllWatched DEF WatchedOK
  <1>5. ASSUME NEW t \in Tasks, Enable(t) PROVE WatchedOK'
    <2> DEFINE r == handle[t][2]
    <2>1. \A u \in Tasks : pc[u] # "enabled"
      BY <1>5, NoneEnabled DEF Enable, Entered
    <2>2. r \in Reqs /\ UNCHANGED <<table, bitmap>>
      BY <1>5 DEF Enable, Entered, OpsOK, Handle
    <2>3. ASSUME NEW f \in FreeHw, OpenHw(f, r), filter' = [filter EXCEPT ![r] = f],
                 pc' = [pc EXCEPT ![t] = "enabled"],
                 op' = [op EXCEPT ![t] = [call |-> "enabled", req |-> r]]
          PROVE  WatchedOK'
      <3>1. f \in FilterNos /\ pc'[t] = "enabled" /\ f = filter'[op'[t].req]
        BY <2>2, <2>3 DEF FreeHw
      <3>2. ASSUME NEW g \in FilterNos, NEW i \in Reqs, table # 0, Owns(g, i)', g # f
            PROVE  g \in bitmap'
        BY <2>1, <2>2, <2>3, <3>2, AllWatched DEF OpenHw
      <3> QED BY <2>2, <3>1, <3>2 DEF WatchedOK
    <2>4. CASE UNCHANGED hardware
      BY <2>1, <2>2, <2>4, AllWatched DEF WatchedOK, hardware
    <2> QED BY <1>5, <2>3, <2>4 DEF Enable
  <1>6. ASSUME NEW t \in Tasks, Enabled(t) PROVE WatchedOK'
    <2>1. \A u \in Tasks : pc[u] = "enabled" => u = t
      BY <1>6 DEF Enabled, OpsOK
    <2>2. UNCHANGED <<owner, table>> /\ bitmap' = bitmap \cup {filter[op[t].req]}
      BY <1>6 DEF Enabled, Watch, hardware
    <2> QED BY <2>1, <2>2 DEF WatchedOK
  <1>7. ASSUME NEW t \in Tasks, Abort(t) PROVE WatchedOK'
    <2>1. \A u \in Tasks : pc[u] # "enabled"
      BY <1>7, NoneEnabled DEF Abort, Entered
    <2>2. CASE UNCHANGED <<hardware, bitmap>>
      BY <1>7, <2>1, <2>2, AllWatched DEF Abort, WatchedOK, hardware
    <2>3. ASSUME NEW i \in Reqs, CloseHw({filter[i]}), bitmap' = Unwatch(filter[i])
          PROVE  WatchedOK'
      <3>1. ASSUME NEW g \in FilterNos, NEW j \in Reqs, table # 0, Owns(g, j)'
            PROVE  g \in bitmap'
        <4>1. table' = table
          BY <1>7 DEF Abort
        <4>2. g # filter[i] /\ Owns(g, j)
          BY <2>3, <3>1, <4>1 DEF CloseHw, Closed
        <4> QED BY <2>1, <2>3, <3>1, <4>2, AllWatched DEF Unwatch
      <3> QED BY <1>7, <3>1 DEF Abort, WatchedOK
    <2> QED BY <1>7, <2>2, <2>3 DEF Abort
  <1>8. CASE CheckClosing
    <2>1. CASE closing /\ table # 0
      <3>1. ASSUME NEW f \in FilterNos, NEW i \in Reqs, Owns(f, i) PROVE f \in ActiveFilters
        BY <1>8, <2>1, <3>1 DEF CheckClosing, FiltersOwned, RunningOK, ActiveFilters, Live
      <3>2. table' = table /\ CloseHw(ActiveFilters)
        BY <1>8, <2>1 DEF CheckClosing
      <3> QED BY <2>1, <3>1, <3>2 DEF CloseHw, Closed, WatchedOK
    <2>2. CASE closing /\ table = 0
      BY <1>8, <2>2 DEF CheckClosing, WatchedOK
    <2>3. CASE ~closing
      BY <1>8, <2>3, WatchedFrame DEF CheckClosing, hardware, requests, api
    <2> QED BY <2>1, <2>2, <2>3
  <1>9. CASE CallbackStarted \/ CallbackFreed
    <2>1. \A u \in Tasks : pc[u] # "enabled"
      BY <1>9, NoneEnabled DEF CallbackStarted, CallbackFreed
    <2>2. /\ UNCHANGED table /\ table # 0 /\ CloseHw({filter[cur]})
          /\ bitmap' = Unwatch(filter[cur])
      BY <1>9 DEF CallbackStarted, CallbackFreed
    <2>3. ASSUME NEW g \in FilterNos, NEW j \in Reqs, Owns(g, j)' PROVE g \in bitmap'
      <3>1. g # filter[cur] /\ Owns(g, j)
        BY <2>2, <2>3 DEF CloseHw, Closed
      <3> QED BY <2>1, <2>2, <3>1, AllWatched DEF Unwatch
    <2> QED BY <2>3 DEF WatchedOK
  <1>10. CASE RequestAgain
    <2>1. \A u \in Tasks : pc[u] # "enabled"
      BY <1>10, EngineAssumption DEF RequestAgain, OpsOK, SieOK
    <2>2. table' = table
      BY <1>10 DEF RequestAgain
    <2>3. ASSUME NEW f \in FreeHw, OpenHw(f, cur), bitmap' = Watch(f) PROVE WatchedOK'
      BY <2>1, <2>2, <2>3, AllWatched DEF OpenHw, Watch, FreeHw, WatchedOK
    <2>4. CASE UNCHANGED <<filter, bitmap, hardware>>
      BY <2>1, <2>2, <2>4, AllWatched DEF hardware, WatchedOK
    <2> QED BY <1>10, <2>3, <2>4 DEF RequestAgain
  <1>11. CASE \/ UNCHANGED vars
              \/ \E f \in FilterNos : OnDmxEvent(f)
              \/ WaitEnable \/ Poll \/ ClearWake \/ ClearClosing \/ SetClosed
              \/ InspectDue \/ InspectIdle \/ SetMask \/ CallbackAborted
    <2> UNCHANGED <<owner, table, bitmap, filter, pc, op>>
      BY <1>11 DEF vars, hardware, requests, api, OnDmxEvent, WaitEnable, Poll, ClearWake,
                   ClearClosing, SetClosed, InspectDue, InspectIdle, SetMask, CallbackAborted
    <2> QED BY WatchedFrame
  <1> QED BY <1>1, <1>2, <1>3, <1>4, <1>5, <1>6, <1>7, <1>8, <1>9, <1>10, <1>11
          DEF Next, User, Api, SieMain, Inspect, Callback
------------------------------------------------------------------------------
(* The theorems. *)

\* The inductive invariant holds before anybody opens the engine.
LEMMA InitIInv == ASSUME Init PROVE IInv
  <1>1. TypeOK
    BY InitType
  <1>2. OpsOK /\ SieOK /\ RunningOK /\ AgainOK /\ FreshOK /\ FiltersOwned /\ WatchedOK
    BY EngineAssumption DEF Init, OpsOK, SieOK, RunningOK, AgainOK, FreshOK, FiltersOwned,
                            WatchedOK, Closed, Tasks
  <1> QED BY <1>1, <1>2 DEF IInv

\* The inductive invariant: with the mutex, the states of the calls in progress
\* explain why ownership of filters never disagrees with the request table.
THEOREM Invariant == Spec => []IInv
  <1>1. IInv /\ [Next]_vars => IInv'
    BY TypeStep, OpsStep, SieStep, RunningStep, AgainStep, FreshStep, OwnedStep, WatchedStep
       DEF IInv
  <1> QED BY InitIInv, <1>1, PTL DEF Spec

\* The engine's state, and every call in progress, stays well-typed.
THEOREM TypeCorrect == Spec => []TypeOK
  <1>1. IInv => TypeOK
    BY DEF IInv
  <1> QED BY Invariant, <1>1, PTL

\* For every number of requests, filters, users, openers and closers: a demux
\* filter opened by the present table belongs to exactly one request, a live one.
THEOREM FiltersAreOwned == Spec => []FiltersOwned
  <1>1. IInv => FiltersOwned
    BY DEF IInv
  <1> QED BY Invariant, <1>1, PTL

\* While nobody holds the engine's mutex, the SIE task's bitmap misses no filter
\* that was opened.
THEOREM FiltersAreWatched == Spec => []FiltersWatched
  <1>1. IInv => FiltersWatched
    BY EngineAssumption DEF IInv, WatchedOK, FiltersWatched, OpsOK
  <1> QED BY Invariant, <1>1, PTL
-----------------------------------------------------------------------------
(* Proofs about opening and closing the engine of SieEngine when one task, *)
(* besides the parsers, uses it, for any number of requests and filters    *)
(* and any number of calls: nothing reaches a table that sie_close freed.  *)
(*                                                                         *)
(* The handshake is between two tasks and goes through two flags: Phase    *)
(* says, for every state of the user's call, where the SIE task can be,    *)
(* which flag is set and whether there is a table.  The other parts relate *)
(* the filters, the bitmap and the callers' pointers to the table that     *)
(* Phase says is there.                                                    *)

\* The SIE task serves the engine, or is about to be let in.
Serving == spc \notin {"none", "leave", "leave2"} /\ (spc = "waitenable" <=> enable)

\* Nobody closes the engine.
NotClosing ==
  /\ ~closing /\ ~closed
  /\ engine = "OPENED" => table # 0
  /\ engine # "OPENED" => table = 0 /\ ~enable /\ spc = IF engine = "INITED" THEN "waitenable" ELSE "none"

\* The SIE task has not seen CLOSING, has cleared it, or has answered CLOSED.
Answering ==
  \/ closing /\ ~closed /\ spc \notin {"none", "leave2"} /\ (spc = "waitenable" <=> enable)
  \/ ~closing /\ ~closed /\ spc = "leave2" /\ ~enable
  \/ ~closing /\ closed /\ spc = "waitenable" /\ ~enable

Phase(t) ==
  /\ pc[t] \in {"idle", "lock", "enabled"} => NotClosing /\ (engine = "OPENED" => Serving)
  /\ pc[t] \in {"lock", "enabled"} => engine = "OPENED"
  /\ pc[t] = "open" => NotClosing /\ engine = "INITED"
  /\ pc[t] = "openenable" => NotClosing /\ engine = "OPENED" /\ spc = "waitenable" /\ ~enable
  /\ pc[t] \in {"close", "closewake", "closewait"} => engine = "INITED" /\ table # 0
  /\ pc[t] = "close" => ~closing /\ ~closed /\ Serving
  /\ pc[t] \in {"closewake", "closewait"} => Answering
  /\ pc[t] = "closeend" => /\ engine = "INITED" /\ table = 0 /\ ~closing /\ closed
                           /\ spc = "waitenable" /\ ~enable

Handshake == \A t \in Users : Phase(t)

\* A parser neither opens nor closes the engine.
ParserCalls == pc[Sie] \in {"idle", "lock", "enabled"}

\* A caller's pointer is into the present table; a parser's, only while it runs.
HandlesOK ==
  /\ \A t \in Users : handle[t] # Closed =>
       pc[t] = "closeend" \/ (table # 0 /\ handle[t][1] = table)
  /\ handle[Sie] # Closed => spc = "callback" /\ handle[Sie][1] = table

\* Once the SIE task has left the engine, and while there is no table, every filter
\* is closed; otherwise it points into the present table.
Left == spc \in {"leave", "leave2"} \/ closed \/ table = 0
OwnersOK == \A f \in FilterNos : owner[f] # Closed => ~Left /\ owner[f][1] = table

\* A filter that is getting a section, in the bitmap or about to be put there is open.
OpenOnly ==
  /\ \A f \in getting \cup bitmap : owner[f] # Closed
  /\ \A t \in Tasks : pc[t] = "enabled" => owner[filter[op[t].req]] # Closed

\* A live request has its filter, except between two.
LiveOwned ==
  ~Left => \A i \in Reqs : status[i] \in Live =>
             (filter[i] \in FilterNos /\ Owns(filter[i], i)) \/ (spc = "again" /\ cur = i)

JInv == Handshake /\ ParserCalls /\ HandlesOK /\ OwnersOK /\ OpenOnly /\ LiveOwned /\ NoFreedTableUse
------------------------------------------------------------------------------

\* The places of the SIE task between sie_main's poll and its next.
Turns == {"poll", "clear", "check", "inspect", "callback", "again", "mask"}

\* What the handshake says to the two tasks: there is a table while one of them
\* is inside the engine, and the filters are not closed yet.
LEMMA TableThere ==
  ASSUME NEW u, Users = {u}, IInv, Handshake
  PROVE  /\ spc \in Turns => ~Left
         /\ \A t \in Tasks : pc[t] \in {"lock", "enabled"} => ~Left
         /\ engine = "OPENED" => ~Left /\ ~closing /\ ~closed
  <1>1. pc[u] \in CallStates /\ pc[Sie] \in CallStates /\ Phase(u) /\ engine \in {"RELEASED", "INITED", "OPENED"}
    BY DEF IInv, TypeOK, Handshake, Tasks
  <1>2. spc \in Turns => ~Left
    BY <1>1 DEF Phase, NotClosing, Answering, Serving, Left, Turns
  <1>3. pc[u] \in {"lock", "enabled"} => ~Left
    BY <1>1 DEF Phase, NotClosing, Serving, Left
  <1>4. pc[Sie] \in {"lock", "enabled"} => ~Left
    BY <1>2 DEF IInv, SieOK, Turns
  <1>5. engine = "OPENED" => ~Left /\ ~closing /\ ~closed
    BY <1>1 DEF Phase, NotClosing, Serving, Left
  <1> QED
    BY <1>2, <1>3, <1>4, <1>5 DEF Tasks

\* Steps inside a call and turns of the SIE task do not disturb the handshake.
LEMMA PhaseFrame ==
  ASSUME NEW u, Users = {u}, Handshake, UNCHANGED <<engine, table, flags>>,
         \/ pc'[u] = pc[u]
         \/ pc[u] \in {"idle", "lock", "enabled"} /\ pc'[u] = "idle"
         \/ pc[u] \in {"idle", "lock"} /\ pc'[u] \in {"lock", "enabled"} /\ engine = "OPENED",
         spc' = spc \/ (spc \in Turns /\ spc' \in Turns)
  PROVE  Handshake'
  <1>1. Phase(u)
    BY DEF Handshake
  <1>2. (NotClosing' <=> NotClosing) \/ spc' # spc
    BY DEF NotClosing, flags
  <1>3. spc \in Turns /\ spc' \in Turns => (NotClosing => NotClosing') /\ (Serving => Serving') /\ (Answering => Answering')
    BY DEF NotClosing, Serving, Answering, flags, Turns
  <1>4. spc' = spc => (NotClosing => NotClosing') /\ (Serving => Serving') /\ (Answering => Answering')
    BY DEF NotClosing, Serving, Answering, flags
  <1>5. Phase(u)'
    BY <1>1, <1>3, <1>4 DEF Phase, flags, Turns
  <1> QED
    BY <1>5 DEF Handshake

\* Only user tasks open and close the engine.
LEMMA ParserStep ==
  ASSUME IInv, ParserCalls, [Next]_vars PROVE ParserCalls'
  <1>0. pc \in [Tasks -> CallStates] /\ Sie \in Tasks
    BY DEF IInv, TypeOK, Tasks
  <1> USE EngineAssumption, <1>0 DEF ParserCalls
  <1>1. ASSUME NEW t \in Tasks, Open(t) \/ Close(t) PROVE ParserCalls'
    <2>1. t # Sie
      BY <1>1 DEF Open, OpenEnter, OpenTable, OpenEnable, Close, CloseEnter, CloseFlag, CloseWake, CloseFree,
                  CloseEnd
    <2>2. pc'[Sie] = pc[Sie]
      BY <1>1, <2>1 DEF Open, OpenEnter, OpenTable, OpenEnable, Close, CloseEnter, CloseFlag, CloseWake, CloseFree,
                  CloseEnd
    <2> QED
      BY <2>2
  <1>2. ASSUME NEW t \in Tasks, Call(t) \/ Api(t) PROVE ParserCalls'
    <2>1. \/ pc' = [pc EXCEPT ![t] = "idle"] \/ pc' = [pc EXCEPT ![t] = "lock"]
          \/ pc' = [pc EXCEPT ![t] = "enabled"]
      BY <1>2 DEF Call, Api, GiveUp, UseFreed, Alloc, Config, Enable, Enabled, Abort
    <2> QED
      BY <2>1
  <1>3. CASE UNCHANGED vars \/ SieMain \/ Inspect \/ Callback \/ \E f \in FilterNos : OnDmxEvent(f)
    <2> UNCHANGED pc
      BY <1>3 DEF vars, api, SieMain, WaitEnable, Poll, ClearWake, CheckClosing, ClearClosing, SetClosed,
                  Inspect, InspectDue, InspectIdle, SetMask, Callback, CallbackAborted, CallbackStarted,
                  RequestAgain, CallbackFreed, OnDmxEvent
    <2> QED
      OBVIOUS
  <1> QED
    BY <1>1, <1>2, <1>3 DEF Next, User

\* A step takes the handshake to its next phase, if anywhere.
LEMMA PhaseStep ==
  ASSUME NEW u, Users = {u}, IInv, Handshake, ParserCalls, [Next]_vars PROVE Handshake'
  <1>0. /\ pc[u] \in CallStates /\ Phase(u) /\ engine \in {"RELEASED", "INITED", "OPENED"}
        /\ Sie # u /\ Tasks = {u, Sie} /\ Openers \subseteq {u} /\ Closers \subseteq {u}
    BY EngineAssumption DEF IInv, TypeOK, Handshake, Tasks
  <1> USE <1>0
  <1>a. pc \in [Tasks -> CallStates] /\ tables \in Nat /\ table \in 0 .. tables
    BY DEF IInv, TypeOK
  <1>1. CASE UNCHANGED vars
    BY <1>1, PhaseFrame DEF vars, sie, api, flags
  <1>2. ASSUME NEW f \in FilterNos, OnDmxEvent(f) PROVE Handshake'
    BY <1>2, PhaseFrame DEF OnDmxEvent, sie, api
  <1>3. ASSUME NEW t \in Tasks, OpenEnter(t) PROVE Phase(u)' \/ Handshake'
    <2>1. t = u /\ pc[u] = "idle" /\ UNCHANGED <<table, flags>>
      BY <1>3 DEF OpenEnter
    <2>2. CASE engine = "OPENED"
      BY <1>3, <2>1, <2>2, PhaseFrame DEF OpenEnter
    <2>3. CASE engine # "OPENED"
      <3>1. pc'[u] = "open" /\ engine' = "INITED" /\ spc' = "waitenable"
        BY <1>a, <1>3, <2>1, <2>3 DEF OpenEnter, Phase, NotClosing
      <3> QED
        BY <2>1, <2>3, <3>1 DEF Phase, NotClosing, flags
    <2> QED
      BY <2>2, <2>3
  <1>4. ASSUME NEW t \in Tasks, OpenTable(t) PROVE Phase(u)'
    <2>1. t = u
      BY <1>4 DEF OpenTable, ParserCalls
    <2>2. pc[u] = "open" /\ pc'[u] = "openenable" /\ table' # 0 /\ engine' = "OPENED" /\ UNCHANGED <<flags, spc>>
      BY <1>a, <1>4, <2>1 DEF OpenTable, sie
    <2> QED
      BY <2>2 DEF Phase, NotClosing, flags
  <1>5. ASSUME NEW t \in Tasks, OpenEnable(t) PROVE Phase(u)'
    <2>1. t = u
      BY <1>5 DEF OpenEnable, ParserCalls
    <2>2. pc[u] = "openenable" /\ pc'[u] = "idle" /\ enable' /\ UNCHANGED <<engine, table, closing, closed, spc>>
      BY <1>a, <1>5, <2>1 DEF OpenEnable, sie
    <2> QED
      BY <2>2 DEF Phase, NotClosing, Serving
  <1>6. ASSUME NEW t \in Tasks, CloseEnter(t) PROVE Phase(u)'
    <2>1. /\ pc[u] = "idle" /\ pc'[u] = "close" /\ engine = "OPENED" /\ engine' = "INITED"
          /\ UNCHANGED <<table, flags, spc>>
      BY <1>a, <1>6 DEF CloseEnter, sie
    <2> QED
      BY <2>1 DEF Phase, NotClosing, Serving, flags
  <1>7. ASSUME NEW t \in Tasks, CloseFlag(t) PROVE Phase(u)'
    <2>1. t = u
      BY <1>7 DEF CloseFlag, ParserCalls
    <2>2. pc[u] = "close" /\ pc'[u] = "closewake" /\ closing' /\ UNCHANGED <<engine, table, enable, closed, spc>>
      BY <1>a, <1>7, <2>1 DEF CloseFlag, sie
    <2> QED
      BY <2>2 DEF Phase, Serving, Answering
  <1>8. ASSUME NEW t \in Tasks, CloseWake(t) PROVE Phase(u)'
    <2>1. t = u
      BY <1>8 DEF CloseWake, ParserCalls
    <2>2. pc[u] = "closewake" /\ pc'[u] = "closewait" /\ UNCHANGED <<engine, table, flags, spc>>
      BY <1>a, <1>8, <2>1 DEF CloseWake, sie
    <2> QED
      BY <2>2 DEF Phase, Answering, flags
  <1>9. ASSUME NEW t \in Tasks, CloseFree(t) PROVE Phase(u)'
    <2>1. t = u
      BY <1>9 DEF CloseFree, ParserCalls
    <2>2. /\ pc[u] = "closewait" /\ pc'[u] = "closeend" /\ closed /\ table' = 0
          /\ UNCHANGED <<engine, flags, spc>>
      BY <1>a, <1>9, <2>1 DEF CloseFree, FiltersClosed, sie
    <2> QED
      BY <2>2 DEF Phase, Answering, flags
  <1>10. ASSUME NEW t \in Tasks, CloseEnd(t) PROVE Phase(u)'
    <2>1. t = u
      BY <1>10 DEF CloseEnd, ParserCalls
    <2>2. pc[u] = "closeend" /\ pc'[u] = "idle" /\ ~closed' /\ UNCHANGED <<engine, table, enable, closing, spc>>
      BY <1>a, <1>10, <2>1 DEF CloseEnd, sie
    <2> QED
      BY <2>2 DEF Phase, NotClosing
  <1>11. ASSUME NEW t \in Tasks, Call(t) \/ Api(t) PROVE Handshake'
    <2>1. UNCHANGED <<engine, table, flags, spc>>
      BY <1>11 DEF Call, Api, GiveUp, UseFreed, Alloc, Config, Enable, Enabled, Abort, sie
    <2>2. CASE t = Sie
      <3>1. pc'[u] = pc[u]
        BY <1>a, <1>11, <2>2 DEF Call, Api, GiveUp, UseFreed, Alloc, Config, Enable, Enabled, Abort
      <3> QED
        BY <2>1, <3>1, PhaseFrame
    <2>3. CASE t = u
      <3>1. CASE Call(t)
        BY <1>a, <2>1, <2>3, <3>1, PhaseFrame DEF Call
      <3>2. CASE Api(t)
        <4>1. pc[u] \in {"lock", "enabled"} /\ (pc'[u] = "idle" \/ (pc[u] = "lock" /\ pc'[u] = "enabled"))
          BY <1>a, <2>3, <3>2 DEF Api, GiveUp, UseFreed, Alloc, Config, Enable, Enabled, Abort, Entered
        <4>2. engine = "OPENED"
          BY <4>1 DEF Phase
        <4> QED
          BY <2>1, <4>1, <4>2, PhaseFrame
      <3> QED
        BY <1>11, <3>1, <3>2
    <2> QED
      BY <2>2, <2>3
  <1>12. ASSUME WaitEnable PROVE Phase(u)'
    <2>1. spc = "waitenable" /\ enable /\ spc' = "poll" /\ ~enable' /\ UNCHANGED <<engine, table, closing, closed, pc>>
      BY <1>12 DEF WaitEnable, api
    <2> QED
      BY <2>1 DEF Phase, NotClosing, Serving, Answering
  <1>13. ASSUME CheckClosing PROVE Phase(u)' \/ Handshake'
    <2>1. UNCHANGED <<engine, table, flags, pc>> /\ spc = "check"
      BY <1>13 DEF CheckClosing, api
    <2>2. CASE ~closing
      BY <1>13, <2>1, <2>2, PhaseFrame DEF CheckClosing, Turns
    <2>3. CASE closing
      <3>1. spc' = "leave"
        BY <1>13, <2>3 DEF CheckClosing
      <3> QED
        BY <2>1, <2>3, <3>1 DEF Phase, NotClosing, Answering, flags
    <2> QED
      BY <2>2, <2>3
  <1>14. ASSUME ClearClosing PROVE Phase(u)'
    <2>1. spc = "leave" /\ spc' = "leave2" /\ ~closing' /\ UNCHANGED <<engine, table, enable, closed, pc>>
      BY <1>14 DEF ClearClosing, api
    <2> QED
      BY <2>1 DEF Phase, NotClosing, Serving, Answering
  <1>15. ASSUME SetClosed PROVE Phase(u)'
    <2>1. spc = "leave2" /\ spc' = "waitenable" /\ closed' /\ UNCHANGED <<engine, table, enable, closing, pc>>
      BY <1>15 DEF SetClosed, api
    <2> QED
      BY <2>1 DEF Phase, NotClosing, Serving, Answering
  <1>16. CASE Poll \/ ClearWake \/ Inspect \/ Callback
    <2>1. UNCHANGED <<engine, table, flags, pc>> /\ spc \in Turns /\ spc' \in Turns
      BY <1>16 DEF Poll, ClearWake, Inspect, InspectDue, InspectIdle, SetMask, Callback, CallbackAborted,
                   CallbackStarted, RequestAgain, CallbackFreed, NextRequest, api, Turns
    <2> QED
      BY <2>1, PhaseFrame
  <1> QED
    BY <1>1, <1>2, <1>3, <1>4, <1>5, <1>6, <1>7, <1>8, <1>9, <1>10, <1>11, <1>12, <1>13, <1>14, <1>15, <1>16
       DEF Next, User, Open, Close, SieMain, Handshake
------------------------------------------------------------------------------
(* Pointers. *)

\* A step leaves every caller with a pointer into the present table, or with none.
LEMMA HandleStep ==
  ASSUME NEW u, Users = {u}, IInv, Handshake, ParserCalls, HandlesOK, [Next]_vars PROVE HandlesOK'
  <1>0. /\ Phase(u) /\ Sie # u /\ Tasks = {u, Sie} /\ u \in Tasks /\ Sie \in Tasks
        /\ Openers \subseteq {u} /\ Closers \subseteq {u}
        /\ pc \in [Tasks -> CallStates] /\ handle \in [Tasks -> Handle]
        /\ tables \in Nat /\ table \in 0 .. tables
    BY EngineAssumption DEF IInv, TypeOK, Handshake, Tasks
  <1> USE <1>0
  <1>1. ASSUME UNCHANGED <<table, handle, pc, spc>> PROVE HandlesOK'
    BY <1>1 DEF HandlesOK
  <1>2. CASE UNCHANGED vars \/ (\E f \in FilterNos : OnDmxEvent(f)) \/ Poll \/ ClearWake \/ ClearClosing
             \/ SetClosed \/ WaitEnable \/ CheckClosing \/ SetMask \/ InspectIdle \/ InspectDue \/ RequestAgain
    <2>1. UNCHANGED <<table, handle, pc>> /\ (spc' = spc \/ spc # "callback")
      BY <1>2 DEF vars, api, sie, OnDmxEvent, Poll, ClearWake, ClearClosing, SetClosed, WaitEnable, CheckClosing,
                  SetMask, InspectIdle, InspectDue, RequestAgain
    <2> QED
      BY <2>1 DEF HandlesOK
  <1>3. ASSUME NEW t \in Tasks, OpenEnter(t) \/ OpenEnable(t) \/ CloseEnter(t) \/ CloseFlag(t) \/ CloseWake(t)
        PROVE  HandlesOK'
    <2>1. /\ UNCHANGED <<table, handle>> /\ pc[u] # "closeend" /\ (spc' = spc \/ spc # "callback")
      BY <1>3, EngineAssumption DEF OpenEnter, OpenEnable, CloseEnter, CloseFlag, CloseWake, ParserCalls, sie, Phase,
                  NotClosing
    <2> QED
      BY <2>1 DEF HandlesOK
  <1>4. ASSUME NEW t \in Tasks, OpenTable(t) PROVE HandlesOK'
    <2>1. /\ pc[u] = "open" /\ table = 0 /\ spc # "callback" /\ UNCHANGED <<handle, spc>>
      BY <1>4 DEF OpenTable, ParserCalls, Phase, NotClosing, sie
    <2> QED
      BY <2>1 DEF HandlesOK
  <1>5. ASSUME NEW t \in Tasks, CloseFree(t) PROVE HandlesOK'
    <2>1. /\ pc[u] = "closewait" /\ pc'[u] = "closeend" /\ spc # "callback" /\ UNCHANGED <<handle, spc>>
      BY <1>5 DEF CloseFree, FiltersClosed, ParserCalls, Phase, Answering, sie
    <2> QED
      BY <2>1 DEF HandlesOK
  <1>6. ASSUME NEW t \in Tasks, CloseEnd(t) PROVE HandlesOK'
    <2>1. /\ t = u /\ handle'[u] = Closed /\ handle'[Sie] = handle[Sie] /\ UNCHANGED <<table, spc>>
      BY <1>6 DEF CloseEnd, ParserCalls, sie
    <2> QED
      BY <2>1 DEF HandlesOK
  <1>7. ASSUME NEW t \in Tasks, Call(t) \/ Api(t) PROVE HandlesOK'
    <2>1. /\ UNCHANGED <<table, spc>>
          /\ pc[u] = "closeend" => t # u
          /\ \A s \in Tasks : s # t => handle'[s] = handle[s] /\ pc'[s] = pc[s]
          /\ handle'[t] \in {handle[t], Closed} \/ (table # 0 /\ \E i \in Reqs : handle'[t] = <<table, i>>)
      BY <1>7 DEF Call, Api, GiveUp, UseFreed, Alloc, Config, Enable, Enabled, Abort, Entered, sie
    <2>2. t = Sie => spc = "callback"
      BY <1>7 DEF Call, Api, GiveUp, UseFreed, Alloc, Config, Enable, Enabled, Abort, Entered, IInv, SieOK
    <2> QED
      BY <2>1, <2>2 DEF HandlesOK
  <1>8. CASE CallbackAborted \/ CallbackStarted \/ CallbackFreed
    <2>1. handle'[Sie] = Closed /\ handle'[u] = handle[u] /\ UNCHANGED <<table, pc>>
      BY <1>8 DEF CallbackAborted, CallbackStarted, CallbackFreed
    <2> QED
      BY <2>1 DEF HandlesOK
  <1> QED
    BY <1>2, <1>3, <1>4, <1>5, <1>6, <1>7, <1>8 DEF Next, User, Open, Close, SieMain, Inspect, Callback

\* With a table and a pointer into it no step reaches for another.
LEMMA WildStep ==
  ASSUME NEW u, Users = {u}, IInv, Handshake, ParserCalls, HandlesOK, OwnersOK, OpenOnly, NoFreedTableUse,
         [Next]_vars
  PROVE  NoFreedTableUse'
  <1>0. Phase(u) /\ Tasks = {u, Sie}
    BY DEF Handshake, Tasks
  <1> USE <1>0 DEF NoFreedTableUse
  <1>1. ASSUME NEW f \in FilterNos, OnDmxEvent(f) PROVE ~wild'
    BY <1>1 DEF OnDmxEvent, OpenOnly, OwnersOK
  <1>2. ASSUME NEW t \in Tasks, Call(t) PROVE ~wild'
    <2>1. handle[t] # Closed => handle[t][1] = table
      BY <1>2 DEF Call, HandlesOK
    <2> QED
      BY <1>2, <2>1 DEF Call
  <1>3. ASSUME NEW t \in Tasks, UseFreed(t) PROVE FALSE
    <2>1. pc[t] = "lock" /\ table # 0
      BY <1>3, TableThere DEF UseFreed, Left
    <2>2. op[t].call \in {"config", "enable"} => handle[t] # Closed
      BY <2>1 DEF IInv, OpsOK
    <2> QED
      BY <1>3, <2>1, <2>2 DEF UseFreed, HandlesOK
  <1>4. CASE CheckClosing \/ InspectIdle \/ CallbackAborted
    <2>1. table # 0
      BY <1>4, TableThere DEF CheckClosing, InspectIdle, CallbackAborted, Left, Turns
    <2> QED
      BY <1>4, <2>1 DEF CheckClosing, InspectIdle, CallbackAborted
  <1>5. CASE UNCHANGED wild
    BY <1>5
  <1>6. UNCHANGED vars => UNCHANGED wild
    BY DEF vars
  <1>7. \A t \in Tasks : Open(t) \/ Close(t) \/ GiveUp(t) \/ Alloc(t) \/ Config(t) \/ Enable(t) \/ Enabled(t)
                         \/ Abort(t) => UNCHANGED wild
    BY DEF Open, OpenEnter, OpenTable, OpenEnable, Close, CloseEnter, CloseFlag, CloseWake, CloseFree, CloseEnd,
           GiveUp, Alloc, Config, Enable, Enabled, Abort
  <1>8. WaitEnable \/ Poll \/ ClearWake \/ ClearClosing \/ SetClosed \/ InspectDue \/ SetMask
        \/ CallbackStarted \/ RequestAgain \/ CallbackFreed => UNCHANGED wild
    BY DEF WaitEnable, Poll, ClearWake, ClearClosing, SetClosed, InspectDue, SetMask, CallbackStarted, RequestAgain,
           CallbackFreed
  <1> QED
    BY <1>1, <1>2, <1>3, <1>4, <1>5, <1>6, <1>7, <1>8 DEF Next, User, Api, SieMain, Inspect, Callback
------------------------------------------------------------------------------
(* The demux filters. *)

\* The SIE task finds every open filter when it closes them: no request is RUNNING.
LEMMA CloseAll ==
  ASSUME IInv, OwnersOK, spc = "check", NEW f \in FilterNos, owner[f] # Closed
  PROVE  f \in ActiveFilters
  <1>1. owner[f] \in Handle /\ owner[f][1] = table /\ table # 0
    BY DEF IInv, TypeOK, OwnersOK, Left
  <1>2. PICK i \in Reqs : Owns(f, i)
    BY <1>1 DEF Handle, Owns
  <1>3. status[i] \in Live /\ filter[i] = f /\ status[i] # "RUNNING"
    BY <1>1, <1>2 DEF IInv, FiltersOwned, RunningOK
  <1> QED
    BY <1>3 DEF ActiveFilters, Live

\* The steps that open no filter and do not end the SIE task's turns.
LEMMA OwnersFrame ==
  ASSUME OwnersOK, table' = table, closed' = closed, spc' = spc \/ spc' \in Turns \cup {"waitenable"},
         \A f \in FilterNos : owner'[f] \in {owner[f], Closed}
  PROVE  OwnersOK'
  BY DEF OwnersOK, Left, Turns

\* A step leaves no filter open that does not point into the present table.
LEMMA OwnersStep ==
  ASSUME NEW u, Users = {u}, IInv, Handshake, ParserCalls, OwnersOK, [Next]_vars PROVE OwnersOK'
  <1>0. Phase(u) /\ Tasks = {u, Sie} /\ owner \in [FilterNos -> Handle]
    BY DEF Handshake, Tasks, IInv, TypeOK
  <1> USE <1>0
  <1>1. CASE UNCHANGED vars \/ \E f \in FilterNos : OnDmxEvent(f)
    BY <1>1, OwnersFrame DEF vars, hardware, flags, sie, OnDmxEvent
  <1>2. ASSUME NEW t \in Tasks,
               OpenEnter(t) \/ OpenEnable(t) \/ CloseEnter(t) \/ CloseFlag(t) \/ CloseWake(t) \/ Call(t)
               \/ GiveUp(t) \/ UseFreed(t) \/ Alloc(t) \/ Config(t) \/ Enabled(t) \/ Abort(t)
        PROVE  OwnersOK'
    <2>1. table' = table /\ closed' = closed /\ spc' \in {spc, "waitenable"}
      BY <1>2 DEF OpenEnter, OpenEnable, CloseEnter, CloseFlag, CloseWake, Call, GiveUp, UseFreed, Alloc, Config,
                  Enabled, Abort, flags, sie
    <2>2. \A f \in FilterNos : owner'[f] \in {owner[f], Closed}
      BY <1>2 DEF OpenEnter, OpenEnable, CloseEnter, CloseFlag, CloseWake, Call, GiveUp, UseFreed, Alloc, Config,
                  Enabled, Abort, hardware, CloseHw
    <2> QED
      BY <2>1, <2>2, OwnersFrame
  <1>3. ASSUME NEW t \in Tasks, OpenTable(t) \/ CloseFree(t) \/ CloseEnd(t) PROVE OwnersOK'
    <2>1. Left /\ owner' = owner
      BY <1>3 DEF OpenTable, CloseFree, CloseEnd, FiltersClosed, ParserCalls, Phase, NotClosing, Left, hardware
    <2> QED
      BY <2>1 DEF OwnersOK
  <1>4. ASSUME NEW t \in Tasks, Enable(t) PROVE OwnersOK'
    <2>1. ~Left /\ UNCHANGED <<table, closed, spc>>
      BY <1>4, TableThere DEF Enable, Entered, flags, sie
    <2>2. \A f \in FilterNos : owner'[f] = owner[f] \/ owner'[f][1] = table
      BY <1>4 DEF Enable, OpenHw, hardware
    <2> QED
      BY <2>1, <2>2 DEF OwnersOK, Left
  <1>5. CASE CheckClosing
    <2>1. UNCHANGED <<table, closed>> /\ spc = "check" /\ table # 0
      BY <1>5, TableThere DEF CheckClosing, flags, Left, Turns
    <2>2. CASE closing
      <3>1. \A f \in FilterNos : owner'[f] = Closed
        BY <1>5, <2>1, <2>2, CloseAll DEF CheckClosing, CloseHw
      <3> QED
        BY <3>1 DEF OwnersOK
    <2>3. CASE ~closing
      BY <1>5, <2>1, <2>3, OwnersFrame DEF CheckClosing, hardware, Turns
    <2> QED
      BY <2>2, <2>3
  <1>6. CASE ClearClosing \/ SetClosed
    <2>1. Left /\ owner' = owner
      BY <1>6 DEF ClearClosing, SetClosed, Left, hardware
    <2> QED
      BY <2>1 DEF OwnersOK
  <1>7. CASE WaitEnable \/ Poll \/ ClearWake \/ Inspect \/ CallbackAborted \/ CallbackStarted \/ CallbackFreed
    <2>1. table' = table /\ closed' = closed /\ spc' \in Turns
      BY <1>7 DEF WaitEnable, Poll, ClearWake, Inspect, InspectDue, InspectIdle, SetMask, CallbackAborted,
                  CallbackStarted, CallbackFreed, NextRequest, flags, Turns
    <2>2. \A f \in FilterNos : owner'[f] \in {owner[f], Closed}
      BY <1>7 DEF WaitEnable, Poll, ClearWake, Inspect, InspectDue, InspectIdle, SetMask, CallbackAborted,
                  CallbackStarted, CallbackFreed, CloseHw, hardware
    <2> QED
      BY <2>1, <2>2, OwnersFrame
  <1>8. CASE RequestAgain
    <2>1. ~Left /\ UNCHANGED <<table, closed>> /\ spc' \in Turns
      BY <1>8, TableThere DEF RequestAgain, NextRequest, flags, Turns
    <2>2. \A f \in FilterNos : owner'[f] = owner[f] \/ owner'[f][1] = table
      BY <1>8 DEF RequestAgain, OpenHw, hardware
    <2> QED
      BY <2>1, <2>2 DEF OwnersOK, Left, Turns
  <1> QED
    BY <1>1, <1>2, <1>3, <1>4, <1>5, <1>6, <1>7, <1>8 DEF Next, User, Open, Close, Api, SieMain, Callback
------------------------------------------------------------------------------
(* The bitmap and the requests. *)

\* Between two tasks' uses of the mutex nobody is about to update the bitmap.
LEMMA NoneEnabledAgain ==
  ASSUME IInv, mutex = None \/ spc = "again", NEW t \in Tasks PROVE pc[t] # "enabled"
  BY EngineAssumption DEF IInv, OpsOK, SieOK

\* A step puts only open filters in the bitmap, and takes closed ones out.
LEMMA OpenOnlyStep ==
  ASSUME IInv, OpenOnly, [Next]_vars PROVE OpenOnly'
  <1>0. /\ owner \in [FilterNos -> Handle] /\ getting \subseteq FilterNos /\ bitmap \subseteq FilterNos
        /\ filter \in [Reqs -> FilterNos \cup {None}] /\ pc \in [Tasks -> CallStates] /\ handle \in [Tasks -> Handle]
        /\ op \in [Tasks -> AllCalls] /\ cur \in Reqs
    BY DEF IInv, TypeOK
  <1> USE <1>0
  <1>1. ASSUME UNCHANGED <<owner, bitmap>>, getting' \subseteq getting,
               \A t \in Tasks : pc'[t] = "enabled" =>
                 pc[t] = "enabled" /\ op'[t] = op[t] /\ filter'[op[t].req] = filter[op[t].req]
        PROVE  OpenOnly'
    BY <1>1 DEF OpenOnly
  <1>2. ASSUME \A t \in Tasks : pc'[t] # "enabled", NEW F, owner' = [f \in FilterNos |-> IF f \in F THEN Closed ELSE owner[f]],
               getting' \subseteq getting \ F, bitmap' \subseteq bitmap \ F
        PROVE  OpenOnly'
    BY <1>2 DEF OpenOnly
  <1>3. CASE UNCHANGED vars \/ \E f \in FilterNos : OnDmxEvent(f)
    BY <1>1, <1>3 DEF vars, hardware, requests, api, OnDmxEvent
  <1>4. ASSUME NEW t \in Tasks, Open(t) PROVE OpenOnly'
    <2>1. CASE OpenTable(t)
      <3>1. \A s \in Tasks : pc'[s] # "enabled"
        BY <2>1, NoneEnabledAgain DEF OpenTable
      <3> QED
        BY <1>1, <2>1, <3>1 DEF OpenTable, hardware
    <2>2. CASE OpenEnter(t) \/ OpenEnable(t)
      BY <1>1, <2>2 DEF OpenEnter, OpenEnable, hardware, requests
    <2> QED
      BY <1>4, <2>1, <2>2 DEF Open
  <1>5. ASSUME NEW t \in Tasks, Close(t) PROVE OpenOnly'
    BY <1>1, <1>5 DEF Close, CloseEnter, CloseFlag, CloseWake, CloseFree, CloseEnd, hardware, requests
  <1>6. ASSUME NEW t \in Tasks, Call(t) \/ GiveUp(t) \/ UseFreed(t) \/ Config(t) PROVE OpenOnly'
    BY <1>1, <1>6 DEF Call, GiveUp, UseFreed, Config, Entered, hardware, requests
  <1>7. ASSUME NEW t \in Tasks, Alloc(t) PROVE OpenOnly'
    <2>1. \A s \in Tasks : pc'[s] # "enabled"
      BY <1>7, NoneEnabledAgain DEF Alloc, Entered
    <2> QED
      BY <1>1, <1>7, <2>1 DEF Alloc, hardware
  <1>8. ASSUME NEW t \in Tasks, Enable(t) PROVE OpenOnly'
    <2>1. \A s \in Tasks : pc[s] # "enabled"
      BY <1>8, NoneEnabledAgain DEF Enable, Entered
    <2>2. handle[t][2] \in Reqs /\ bitmap' = bitmap
      BY <1>8 DEF Enable, Entered, IInv, OpsOK, Handle
    <2>3. ASSUME NEW f \in FreeHw, OpenHw(f, handle[t][2]), filter' = [filter EXCEPT ![handle[t][2]] = f],
                 pc' = [pc EXCEPT ![t] = "enabled"],
                 op' = [op EXCEPT ![t] = [call |-> "enabled", req |-> handle[t][2]]]
          PROVE  OpenOnly'
      <3>1. f \in FilterNos /\ <<table, handle[t][2]>> # Closed
        BY <2>2, <2>3 DEF FreeHw, Closed
      <3>2. owner'[f] # Closed /\ (\A g \in FilterNos : g # f => owner'[g] = owner[g]) /\ getting' = getting \cup {f}
        BY <2>3, <3>1 DEF OpenHw
      <3>3. \A s \in Tasks : pc'[s] = "enabled" => filter'[op'[s].req] = f
        BY <2>1, <2>2, <2>3
      <3> QED
        BY <2>2, <3>1, <3>2, <3>3 DEF OpenOnly
    <2>4. CASE pc' = [pc EXCEPT ![t] = "idle"] /\ UNCHANGED <<filter, hardware, mutex, op>>
      BY <1>1, <2>1, <2>2, <2>4 DEF hardware
    <2> QED
      BY <1>8, <2>3, <2>4 DEF Enable
  <1>9. ASSUME NEW t \in Tasks, Enabled(t) PROVE OpenOnly'
    <2>1. /\ UNCHANGED <<owner, getting, op, filter>> /\ bitmap' = bitmap \cup {filter[op[t].req]}
          /\ pc[t] = "enabled" /\ pc' = [pc EXCEPT ![t] = "idle"]
      BY <1>9 DEF Enabled, Watch, hardware, requests
    <2> QED
      BY <2>1 DEF OpenOnly
  <1>10. ASSUME NEW t \in Tasks, Abort(t) PROVE OpenOnly'
    <2>1. \A s \in Tasks : pc'[s] # "enabled"
      BY <1>10, NoneEnabledAgain DEF Abort, Entered
    <2>2. CASE UNCHANGED <<hardware, bitmap, status>>
      BY <1>1, <2>1, <2>2 DEF hardware
    <2>3. ASSUME NEW i \in Reqs, CloseHw({filter[i]}), bitmap' = Unwatch(filter[i]) PROVE OpenOnly'
      BY <1>2, <2>1, <2>3 DEF CloseHw, Unwatch
    <2> QED
      BY <1>10, <2>2, <2>3 DEF Abort
  <1>11. CASE CheckClosing
    <2>1. CASE closing
      <3>1. \A s \in Tasks : pc'[s] # "enabled"
        BY <1>11, <2>1, NoneEnabledAgain DEF CheckClosing, api
      <3>2. CASE table = 0
        BY <1>2, <1>11, <2>1, <3>1, <3>2 DEF CheckClosing, hardware, OpenOnly
      <3>3. CASE table # 0
        BY <1>2, <1>11, <2>1, <3>1, <3>3 DEF CheckClosing, CloseHw
      <3> QED
        BY <3>2, <3>3
    <2>2. CASE ~closing
      BY <1>1, <1>11, <2>2 DEF CheckClosing, hardware, requests, api
    <2> QED
      BY <2>1, <2>2
  <1>12. CASE CallbackStarted \/ CallbackFreed
    <2>1. \A s \in Tasks : pc'[s] # "enabled"
      BY <1>12, NoneEnabledAgain DEF CallbackStarted, CallbackFreed
    <2> QED
      BY <1>2, <1>12, <2>1 DEF CallbackStarted, CallbackFreed, CloseHw, Unwatch
  <1>13. CASE RequestAgain
    <2>1. \A s \in Tasks : pc'[s] # "enabled"
      BY <1>13, NoneEnabledAgain DEF RequestAgain, api
    <2>2. ASSUME NEW f \in FreeHw, OpenHw(f, cur), bitmap' = Watch(f) PROVE OpenOnly'
      <3>1. f \in FilterNos /\ <<table, cur>> # Closed
        BY <2>2 DEF FreeHw, Closed
      <3>2. owner'[f] # Closed /\ (\A g \in FilterNos : g # f => owner'[g] = owner[g]) /\ getting' = getting \cup {f}
        BY <2>2, <3>1 DEF OpenHw
      <3> QED
        BY <2>1, <2>2, <3>1, <3>2 DEF OpenOnly, Watch
    <2>3. CASE UNCHANGED <<filter, bitmap, hardware>>
      BY <1>1, <2>1, <2>3 DEF hardware
    <2> QED
      BY <1>13, <2>2, <2>3 DEF RequestAgain
  <1>14. CASE WaitEnable \/ Poll \/ ClearWake \/ ClearClosing \/ SetClosed \/ Inspect \/ CallbackAborted
    BY <1>1, <1>14 DEF WaitEnable, Poll, ClearWake, ClearClosing, SetClosed, Inspect, InspectDue, InspectIdle,
                SetMask, CallbackAborted, hardware, requests, api
  <1> QED
    BY <1>3, <1>4, <1>5, <1>6, <1>7, <1>8, <1>9, <1>10, <1>11, <1>12, <1>13, <1>14
       DEF Next, User, Api, SieMain, Callback

\* A request that was live with its filter keeps it while its filter stays as it is.
LEMMA LiveFrame ==
  ASSUME LiveOwned, table' = table, ~Left' => ~Left,
         \A i \in Reqs : status'[i] \in Live =>
           \/ spc' = "again" /\ cur' = i
           \/ filter'[i] \in FilterNos /\ owner'[filter'[i]] = <<table, i>>
           \/ /\ status[i] \in Live /\ filter'[i] = filter[i] /\ ~(spc = "again" /\ cur = i)
              /\ filter[i] \in FilterNos /\ Owns(filter[i], i) => owner'[filter[i]] = owner[filter[i]]
  PROVE  LiveOwned'
  BY DEF LiveOwned, Owns

\* No step but the start of an exchange of filters takes a live request's filter away.
LEMMA LiveStep ==
  ASSUME NEW u, Users = {u}, IInv, Handshake, ParserCalls, OwnersOK, LiveOwned, [Next]_vars PROVE LiveOwned'
  <1>0. /\ owner \in [FilterNos -> Handle] /\ filter \in [Reqs -> FilterNos \cup {None}] /\ cur \in Reqs
        /\ status \in [Reqs -> {"FREE", "IDLE", "ACTIVE", "RUNNING"}] /\ handle \in [Tasks -> Handle]
        /\ mutex = None => spc # "again"
    BY EngineAssumption DEF IInv, TypeOK, SieOK, Tasks
  <1> USE <1>0
  <1>1. CASE UNCHANGED vars
    BY <1>1 DEF vars, requests, hardware, flags, sie, LiveOwned, Left, Owns
  <1>2. ASSUME UNCHANGED <<table, status, filter, owner, cur, closed>>,
               spc' = spc \/ (spc = "none" /\ spc' = "waitenable") \/ (spc \in Turns \ {"again"} /\ spc' \in Turns)
                 \/ (spc = "waitenable" /\ spc' = "poll")
        PROVE  LiveOwned'
    BY <1>2 DEF LiveOwned, Left, Owns, Turns
  <1>3. ASSUME NEW f \in FilterNos, OnDmxEvent(f) PROVE LiveOwned'
    BY <1>2, <1>3 DEF OnDmxEvent, flags, sie
  <1>4. ASSUME NEW t \in Tasks,
               OpenEnter(t) \/ OpenEnable(t) \/ CloseEnter(t) \/ CloseFlag(t) \/ CloseWake(t) \/ Call(t)
               \/ GiveUp(t) \/ UseFreed(t) \/ Config(t) \/ Enabled(t)
        PROVE  LiveOwned'
    BY <1>2, <1>4 DEF OpenEnter, OpenEnable, CloseEnter, CloseFlag, CloseWake, Call, GiveUp, UseFreed, Config,
                      Enabled, requests, hardware, flags, sie, IInv, SieOK
  <1>5. ASSUME NEW t \in Tasks, OpenTable(t) PROVE LiveOwned'
    BY <1>5 DEF OpenTable, LiveOwned, Live
  <1>6. ASSUME NEW t \in Tasks, CloseFree(t) \/ CloseEnd(t) PROVE LiveOwned'
    <2>1. Left'
      BY <1>6 DEF CloseFree, CloseEnd, ParserCalls, Phase, Handshake, Tasks, Left, FiltersClosed
    <2> QED
      BY <2>1 DEF LiveOwned
  <1>7. ASSUME NEW t \in Tasks, Alloc(t) PROVE LiveOwned'
    <2>1. UNCHANGED <<table, owner, spc, cur, closed>> /\ spc # "again"
      BY <1>7 DEF Alloc, Entered, hardware, flags, sie
    <2>2. \A i \in Reqs : status'[i] \in Live => status'[i] = status[i] /\ filter'[i] = filter[i]
      BY <1>7 DEF Alloc, requests, Live
    <2> QED
      BY <2>1, <2>2, LiveFrame DEF Left
  <1>8. ASSUME NEW t \in Tasks, Enable(t) PROVE LiveOwned'
    <2>1. UNCHANGED <<table, spc, cur, closed>> /\ spc # "again" /\ handle[t][2] \in Reqs
      BY <1>8 DEF Enable, Entered, flags, sie, IInv, OpsOK, Handle
    <2>2. ASSUME NEW f \in FreeHw, OpenHw(f, handle[t][2]), status' = [status EXCEPT ![handle[t][2]] = "ACTIVE"],
                 filter' = [filter EXCEPT ![handle[t][2]] = f]
          PROVE  LiveOwned'
      <3>1. f \in FilterNos /\ owner[f] = Closed /\ \A i \in Reqs : <<table, i>> # Closed
        BY <2>2 DEF FreeHw, Closed
      <3>2. filter'[handle[t][2]] = f /\ owner'[f] = <<table, handle[t][2]>>
            /\ \A g \in FilterNos : g # f => owner'[g] = owner[g]
        BY <2>1, <2>2, <3>1 DEF OpenHw
      <3>3. \A i \in Reqs : i # handle[t][2] => status'[i] = status[i] /\ filter'[i] = filter[i]
        BY <2>1, <2>2
      <3> QED
        BY <2>1, <3>1, <3>2, <3>3, LiveFrame DEF Left, Owns
    <2>3. CASE status' = [status EXCEPT ![handle[t][2]] = "FREE"] /\ UNCHANGED <<filter, hardware>>
      BY <2>1, <2>3, LiveFrame DEF Left, hardware, Live
    <2> QED
      BY <1>8, <2>2, <2>3 DEF Enable
  <1>9. ASSUME NEW i \in Reqs, CloseHw({filter[i]}), status' = [status EXCEPT ![i] = "FREE"], mutex = None,
               UNCHANGED <<table, filter, closed>>, ~Left' => ~Left, status[i] \in Live, ~Left
        PROVE  LiveOwned'
    <2>1. Owns(filter[i], i) /\ filter[i] \in FilterNos
      BY <1>9 DEF LiveOwned
    <2>2. \A j \in Reqs : j # i /\ filter[j] \in FilterNos /\ Owns(filter[j], j) => filter[j] # filter[i]
      BY <2>1 DEF Owns
    <2>3. \A f \in FilterNos : f # filter[i] => owner'[f] = owner[f]
      BY <1>9 DEF CloseHw
    <2>4. status'[i] \notin Live /\ \A j \in Reqs : j # i => status'[j] = status[j]
      BY <1>9 DEF Live
    <2> QED
      BY <1>9, <2>2, <2>3, <2>4, LiveFrame
  <1>10. ASSUME NEW t \in Tasks, Abort(t) PROVE LiveOwned'
    <2>1. mutex = None /\ ~Left /\ UNCHANGED <<table, filter, closed, spc, cur>>
      BY <1>10, TableThere DEF Abort, Entered, flags, sie
    <2>2. CASE UNCHANGED <<hardware, bitmap, status>>
      BY <1>2, <2>1, <2>2 DEF hardware
    <2>3. ASSUME NEW i \in Reqs, Matches(i, op[t]), CloseHw({filter[i]}), status' = [status EXCEPT ![i] = "FREE"]
          PROVE  LiveOwned'
      BY <1>9, <2>1, <2>3 DEF Matches
    <2> QED
      BY <1>10, <2>2, <2>3 DEF Abort
  <1>11. CASE CallbackFreed
    <2>1. mutex = None /\ ~Left /\ UNCHANGED <<table, filter, closed>>
      BY <1>11, TableThere DEF CallbackFreed, flags, Turns
    <2> QED
      BY <1>9, <1>11, <2>1 DEF CallbackFreed, Live
  <1>12. CASE CallbackStarted
    <2>1. mutex = None /\ ~Left /\ UNCHANGED <<table, filter, closed, cur>> /\ spc' = "again" /\ status[cur] \in Live
      BY <1>12, TableThere DEF CallbackStarted, flags, Turns, Live
    <2>2. Owns(filter[cur], cur) /\ filter[cur] \in FilterNos
      BY <2>1 DEF LiveOwned
    <2>3. \A j \in Reqs : j # cur /\ filter[j] \in FilterNos /\ Owns(filter[j], j) => filter[j] # filter[cur]
      BY <2>2 DEF Owns
    <2>4. \A f \in FilterNos : f # filter[cur] => owner'[f] = owner[f]
      BY <1>12 DEF CallbackStarted, CloseHw
    <2>5. \A j \in Reqs : j # cur => status'[j] = status[j]
      BY <1>12 DEF CallbackStarted
    <2> QED
      BY <2>1, <2>3, <2>4, <2>5, LiveFrame
  <1>13. CASE RequestAgain
    <2>1. ~Left /\ UNCHANGED <<table, closed>> /\ spc = "again" /\ spc' \in {"inspect", "mask"}
      BY <1>13, TableThere DEF RequestAgain, NextRequest, flags, Turns
    <2>2. ASSUME NEW f \in FreeHw, OpenHw(f, cur), filter' = [filter EXCEPT ![cur] = f], status' = status
          PROVE  LiveOwned'
      <3>1. f \in FilterNos /\ owner[f] = Closed /\ \A i \in Reqs : <<table, i>> # Closed
        BY <2>2 DEF FreeHw, Closed
      <3>2. filter'[cur] = f /\ owner'[f] = <<table, cur>> /\ \A g \in FilterNos : g # f => owner'[g] = owner[g]
        BY <2>2, <3>1 DEF OpenHw
      <3> QED
        BY <2>1, <2>2, <3>1, <3>2, LiveFrame DEF Owns
    <2>3. CASE status' = [status EXCEPT ![cur] = "FREE"] /\ UNCHANGED <<filter, hardware>>
      BY <2>1, <2>3, LiveFrame DEF hardware, Live
    <2> QED
      BY <1>13, <2>2, <2>3 DEF RequestAgain
  <1>14. CASE InspectDue
    <2>1. UNCHANGED <<table, filter, owner, cur, closed>> /\ spc = "inspect" /\ spc' = "callback"
          /\ \A i \in Reqs : status'[i] \in Live => status[i] \in Live
      BY <1>14 DEF InspectDue, hardware, flags, Live
    <2> QED
      BY <2>1, LiveFrame DEF Left
  <1>15. CASE CheckClosing
    <2>1. CASE closing
      BY <1>15, <2>1 DEF CheckClosing, LiveOwned, Left
    <2>2. CASE ~closing
      <3>1. UNCHANGED <<table, filter, owner, status, closed>> /\ spc = "check" /\ spc' = "inspect"
        BY <1>15, <2>2 DEF CheckClosing, requests, hardware, flags
      <3> QED
        BY <3>1, LiveFrame DEF Left
    <2> QED
      BY <2>1, <2>2
  <1>16. CASE ClearClosing \/ SetClosed
    BY <1>16 DEF ClearClosing, SetClosed, LiveOwned, Left
  <1>17. CASE WaitEnable \/ Poll \/ ClearWake \/ SetMask
    BY <1>2, <1>17 DEF WaitEnable, Poll, ClearWake, SetMask, requests, hardware, flags, Turns
  <1>18. CASE InspectIdle \/ CallbackAborted
    <2>1. UNCHANGED <<table, filter, owner, status, closed>> /\ spc \in {"inspect", "callback"}
          /\ spc' \in {"inspect", "mask"}
      BY <1>18 DEF InspectIdle, CallbackAborted, NextRequest, requests, hardware, flags
    <2> QED
      BY <2>1, LiveFrame DEF Left
  <1> QED
    BY <1>1, <1>3, <1>4, <1>5, <1>6, <1>7, <1>8, <1>10, <1>11, <1>12, <1>13, <1>14, <1>15, <1>16, <1>17, <1>18
       DEF Next, User, Open, Close, Api, SieMain, Inspect, Callback
------------------------------------------------------------------------------
(* The theorems. *)

\* The handshake's invariant holds before anybody opens the engine.
LEMMA InitJInv == ASSUME NEW u, Users = {u}, Init PROVE JInv
  <1>1. Handshake /\ ParserCalls /\ HandlesOK
    BY EngineAssumption DEF Init, Handshake, Phase, NotClosing, ParserCalls, HandlesOK, Tasks
  <1>2. OwnersOK /\ OpenOnly /\ LiveOwned /\ NoFreedTableUse
    BY DEF Init, OwnersOK, OpenOnly, LiveOwned, Left, NoFreedTableUse
  <1> QED BY <1>1, <1>2 DEF JInv

\* The states of the two tasks, the two flags and the table stay in step.
THEOREM HandshakeInvariant == ASSUME NEW u, Users = {u} PROVE Spec => []JInv
  <1>1. IInv /\ JInv /\ [Next]_vars => JInv'
    BY PhaseStep, ParserStep, HandleStep, OwnersStep, OpenOnlyStep, LiveStep, WildStep DEF JInv
  <1>2. Init => JInv
    BY InitJInv
  <1> QED BY <1>1, <1>2, Invariant, PTL DEF Spec

\* With one task besides the parsers, and however often it opens and closes the
\* engine: no step of the driver, the API or the SIE task uses a freed table.
THEOREM NoFreedTable == ASSUME NEW u, Users = {u} PROVE Spec => []NoFreedTableUse
  <1>1. JInv => NoFreedTableUse
    BY DEF JInv
  <1> QED BY HandshakeInvariant, <1>1, PTL

\* Nor does a demux filter outlive the table its sections would be delivered to.
THEOREM NoFilterOutlives == ASSUME NEW u, Users = {u} PROVE Spec => []NoFilterLeft
  <1>1. JInv => NoFilterLeft
    BY DEF JInv, OwnersOK, Left, NoFilterLeft
  <1> QED BY HandshakeInvariant, <1>1, PTL

\* While the engine is open and nobody holds its mutex the bitmap is the set of
\* open filters, and every live request has one of them.
THEOREM BitmapIsExact == ASSUME NEW u, Users = {u} PROVE Spec => []BitmapExact
  <1>1. ASSUME IInv, JInv PROVE BitmapExact
    <2> SUFFICES ASSUME engine = "OPENED", mutex = None
                 PROVE  /\ bitmap = {f \in FilterNos : owner[f] # Closed}
                        /\ \A i \in Reqs : status[i] \in Live => Owns(filter[i], i)
      BY DEF BitmapExact
    <2>1. ~Left /\ spc # "again" /\ bitmap \subseteq FilterNos /\ owner \in [FilterNos -> Handle]
      BY <1>1, TableThere, EngineAssumption DEF JInv, IInv, TypeOK, SieOK, Tasks
    <2>2. \A f \in bitmap : owner[f] # Closed
      BY <1>1 DEF JInv, OpenOnly
    <2>3. ASSUME NEW f \in FilterNos, owner[f] # Closed PROVE f \in bitmap
      <3>1. PICK i \in Reqs : Owns(f, i)
        BY <1>1, <2>1, <2>3 DEF JInv, OwnersOK, Owns, Handle
      <3>2. \A t \in Tasks : pc[t] # "enabled"
        BY <1>1, NoneEnabledAgain
      <3> QED
        BY <1>1, <2>1, <3>1, <3>2 DEF IInv, WatchedOK, Left
    <2>4. \A i \in Reqs : status[i] \in Live => Owns(filter[i], i)
      BY <1>1, <2>1 DEF JInv, LiveOwned
    <2> QED
      BY <2>1, <2>2, <2>3, <2>4
  <1> QED BY <1>1, HandshakeInvariant, Invariant, PTL
=============================================================================
