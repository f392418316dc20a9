------------------------------ MODULE SieEngine ------------------------------
(***************************************************************************)
(* The SI engine of one demux (sie.c): the request table, the SIE task     *)
(* that serves it, the API other tasks - and the SIE task's own callbacks - *)
(* call, and the handshake by which the engine is opened and closed.       *)
(*                                                                         *)
(* Requests here have no ring buffer (SieRing models that part): one       *)
(* section stops the demux filter, the parser is called, and the filter is *)
(* requested again.  The demux driver is external: it has a set of         *)
(* hardware filters, and calls on_dmx_event for the request that owns one. *)
(***************************************************************************)
EXTENDS Integers, FiniteSets

CONSTANTS
  Users,       \* tasks that call the API
  Openers,     \* those of them that open the engine
  Closers,     \* those of them that close it
  Sie,         \* the SIE task
  NReq,        \* info->request_nr
  FilterNos,   \* the demux's hardware filters
  Pids,
  Masks,       \* values of fparam.mask_value
  NoMask,      \* mask_value == NULL
  Timed,       \* do the requests have a finite fparam.timeout?
  MaxCalls     \* bound: API calls in one behaviour

Reqs  == 1 .. NReq
Tasks == Users \cup {Sie}
None  == 0     \* no task, no filter, no handle

ASSUME EngineAssumption ==
  /\ Openers \subseteq Users /\ Closers \subseteq Users
  /\ Sie \notin Users /\ None \notin Tasks
  /\ NReq \in Nat \ {0}
  /\ None \notin FilterNos
  /\ NoMask \notin Masks
  /\ Timed \in BOOLEAN
  /\ MaxCalls \in Nat

VARIABLES
  engine,    \* info->status
  table,     \* info->addr: 0 is NULL, n > 0 the n-th table allocated
  tables,    \* history: tables allocated so far
  status,    \* request[i].status
  filter,    \* request[i].dmx_filter
  pid,       \* request[i].gsp.pid
  mask,      \* request[i].fparam.mask_value
  hit,       \* request[i].write # request[i].read
  bitmap,    \* info->filter
  owner,     \* hardware filter -> the request that opened it
  getting,   \* the hardware filters that are looking for a section
  mutex,     \* info->mutex_task
  module,    \* holder of sie_module_flag's mutex
  enable,    \* SIE_FLAG_ENGINE_ENABLE
  closing,   \* SIE_FLAG_ENGINE_CLOSING
  closed,    \* SIE_FLAG_ENGINE_CLOSED
  wake,      \* DMX_WAKEUP_SIAE
  pmask,     \* poll.mask of sie_main
  spc,       \* where the SIE task is
  cur,       \* the request inspect_active is looking at
  reason,    \* dispatch_reason: why its parser is called
  pc,        \* where a task is in an API call
  op,        \* the API call it makes
  handle,    \* the filter pointer it got from sie_alloc_filter: <<table, i>>
  wild,      \* a step used a request table that is NULL or was freed
  calls      \* API calls made so far

requests == <<status, filter, pid, mask, hit>>
hardware == <<owner, getting>>
flags    == <<enable, closing, closed>>
sie      == <<pmask, spc, cur, reason>>
api      == <<pc, op, handle, calls>>
vars == <<engine, table, tables, requests, bitmap, hardware, mutex, module,
          flags, wake, sie, api, wild>>

Live == {"ACTIVE", "RUNNING"}
Closed == <<0, 0>>                       \* no owner
FreeNotActive(i) == status[i] # "ACTIVE"

Free(i) == status[i] = "FREE"

OpenHw(f, i) ==      \* dmx_async_req_section
  /\ owner' = [owner EXCEPT ![f] = <<table, i>>]
  /\ getting' = getting \cup {f}

CloseHw(F) ==        \* IO_ASYNC_CLOSE
  /\ owner' = [f \in FilterNos |-> IF f \in F THEN Closed ELSE owner[f]]
  /\ getting' = getting \ F

FreeHw == {f \in FilterNos : owner[f] = Closed}

WatchOnly(f)  == {f}
UnwatchNot(f) == bitmap

Watch(f)   == bitmap \cup {f}            \* info->filter |= 1 << f
Unwatch(f) == bitmap \ {f}
------------------------------------------------------------------------------
(* The demux driver: on_dmx_event, without a ring. *)

OnDmxEvent(f) ==
  /\ f \in getting
  /\ getting' = getting \ {f}            \* continue_get_sec = 0
  /\ LET i == owner[f][2] IN
       IF owner[f][1] # table
       THEN wild' = TRUE /\ UNCHANGED hit
       ELSE /\ hit' = [hit EXCEPT ![i] = @ \/ status[i] \in Live]
            /\ UNCHANGED wild
  /\ UNCHANGED <<engine, table, tables, status, filter, pid, mask, bitmap, owner,
                 mutex, module, flags, wake, sie, api>>
------------------------------------------------------------------------------
(* Opening: sie_open_dmx, under the module's mutex. *)

\* The first open creates the SIE task.
OpenEnter(t) ==
  /\ t \in Openers /\ pc[t] = "idle" /\ calls < MaxCalls
  /\ module = None
  /\ IF engine = "OPENED"
     THEN UNCHANGED <<engine, module, spc, pc>>
     ELSE /\ module' = t
          /\ pc' = [pc EXCEPT ![t] = "open"]
          /\ IF engine = "RELEASED"
             THEN engine' = "INITED" /\ spc' = "waitenable"
             ELSE UNCHANGED <<engine, spc>>
  /\ calls' = calls + 1
  /\ UNCHANGED <<table, tables, requests, bitmap, hardware, mutex, flags, wake,
                 pmask, cur, reason, op, handle, wild>>

OpenTable(t) ==
  /\ pc[t] = "open" /\ mutex = None
  /\ tables' = tables + 1
  /\ table' = tables'
  /\ status' = [i \in Reqs |-> "FREE"]
  /\ filter' = [i \in Reqs |-> None]
  /\ hit' = [i \in Reqs |-> FALSE]
  /\ engine' = "OPENED"
  /\ pc' = [pc EXCEPT ![t] = "openenable"]
  /\ UNCHANGED <<pid, mask, bitmap, hardware, mutex, module, flags, wake, sie,
                 op, handle, wild, calls>>

OpenEnable(t) ==
  /\ pc[t] = "openenable"
  /\ enable' = TRUE
  /\ module' = None
  /\ pc' = [pc EXCEPT ![t] = "idle"]
  /\ UNCHANGED <<engine, table, tables, requests, bitmap, hardware, mutex, closing,
                 closed, wake, sie, op, handle, wild, calls>>

Open(t) == OpenEnter(t) \/ OpenTable(t) \/ OpenEnable(t)
------------------------------------------------------------------------------
(* Closing: sie_close_dmx, which gives the mutex back before it tells the SIE *)
(* task, and sie_close, which does so after.                                 *)

CloseEnter(t) ==
  /\ t \in Closers /\ pc[t] = "idle" /\ calls < MaxCalls
  /\ mutex = None /\ engine = "OPENED"
  /\ engine' = "INITED"
  /\ mutex' \in {None, t}
  /\ pc' = [pc EXCEPT ![t] = "close"]
  /\ calls' = calls + 1
  /\ UNCHANGED <<table, tables, requests, bitmap, hardware, module, flags,
                 wake, sie, op, handle, wild>>

CloseFlag(t) ==
  /\ pc[t] = "close"
  /\ closing' = TRUE
  /\ pc' = [pc EXCEPT ![t] = "closewake"]
  /\ UNCHANGED <<engine, table, tables, requests, bitmap, hardware, mutex, module,
                 enable, closed, wake, sie, op, handle, wild, calls>>

CloseWakeNot(t) ==
  /\ pc[t] = "closewake"
  /\ mutex' = IF mutex = t THEN None ELSE mutex
  /\ pc' = [pc EXCEPT ![t] = "closewait"]
  /\ UNCHANGED <<engine, table, tables, requests, bitmap, hardware, module,
                 flags, wake, sie, op, handle, wild, calls>>

CloseWake(t) ==
  /\ pc[t] = "closewake"
  /\ wake' = TRUE
  /\ mutex' = IF mutex = t THEN None ELSE mutex
  /\ pc' = [pc EXCEPT ![t] = "closewait"]
  /\ UNCHANGED <<engine, table, tables, requests, bitmap, hardware, module,
                 flags, sie, op, handle, wild, calls>>

\* The SIE task has closed its filters: free the table.
FiltersClosing == closing

FiltersClosed == closed

CloseFree(t) ==
  /\ pc[t] = "closewait" /\ FiltersClosed
  /\ table' = 0
  /\ pc' = [pc EXCEPT ![t] = "closeend"]
  /\ UNCHANGED <<engine, tables, requests, bitmap, hardware, mutex, module, flags,
                 wake, sie, op, handle, wild, calls>>

CloseEnd(t) ==
  /\ pc[t] = "closeend"
  /\ closed' = FALSE
  /\ pc' = [pc EXCEPT ![t] = "idle"]
  /\ handle' = [handle EXCEPT ![t] = Closed]
  /\ UNCHANGED <<engine, table, tables, requests, bitmap, hardware, mutex, module,
                 enable, closing, wake, sie, op, wild, calls>>

Close(t) == CloseEnter(t) \/ CloseFlag(t) \/ CloseWake(t) \/ CloseFree(t) \/ CloseEnd(t)
------------------------------------------------------------------------------
(* The filter API.  A task looks at info->status without the mutex, then    *)
(* takes the mutex and acts; the SIE task calls it from a callback.         *)

AllocCalls  == [call : {"alloc"}, pid : Pids]
AbortCalls  == [call : {"abort"}, pid : Pids, mask : Masks \cup {NoMask}]
ConfigCalls == [call : {"config"}, mask : Masks]
EnableCalls == [call : {"enable"}]

\* A caller configures the filter it allocated before it enables it.
Calls(t) ==
  IF handle[t] = Closed THEN AllocCalls \cup AbortCalls
  ELSE IF mask[handle[t][2]] = NoMask THEN ConfigCalls ELSE EnableCalls

Call(t) ==
  /\ pc[t] = "idle" /\ calls < MaxCalls
  /\ t = Sie => spc = "callback"
  /\ engine = "OPENED"
  /\ \E c \in Calls(t) : op' = [op EXCEPT ![t] = c]
  /\ pc' = [pc EXCEPT ![t] = "lock"]
  /\ calls' = calls + 1
  /\ wild' = (wild \/ (handle[t] # Closed /\ handle[t][1] # table))
  /\ UNCHANGED <<engine, table, tables, requests, bitmap, hardware, mutex, module,
                 flags, wake, sie, handle>>

Entered(t, c) == pc[t] = "lock" /\ mutex = None /\ op[t].call = c

\* alloc and the filter operations give up while the engine is being closed.
Shutting == closing \/ closed

GiveUp(t) ==
  /\ pc[t] = "lock" /\ mutex = None /\ op[t].call # "abort" /\ Shutting
  /\ pc' = [pc EXCEPT ![t] = "idle"]
  /\ handle' = [handle EXCEPT ![t] = Closed]
  /\ UNCHANGED <<engine, table, tables, requests, bitmap, hardware, mutex, module,
                 flags, wake, sie, op, wild, calls>>

\* The call reaches for a table that is gone: the OPENED it read is stale.
UseFreed(t) ==
  /\ pc[t] = "lock" /\ mutex = None
  /\ \/ op[t].call = "abort" /\ table = 0
     \/ op[t].call = "alloc" /\ ~Shutting /\ table = 0
     \/ op[t].call \in {"config", "enable"} /\ ~Shutting /\ handle[t][1] # table
  /\ wild' = TRUE
  /\ pc' = [pc EXCEPT ![t] = "idle"]
  /\ handle' = [handle EXCEPT ![t] = Closed]
  /\ UNCHANGED <<engine, table, tables, requests, bitmap, hardware, mutex, module,
                 flags, wake, sie, op, calls>>

Alloc(t) ==          \* __alloc_filter: the first free request
  /\ Entered(t, "alloc") /\ ~Shutting /\ table # 0
  /\ IF \E i \in Reqs : Free(i)
     THEN \E i \in Reqs :
            /\ Free(i) /\ \A j \in 1 .. i - 1 : ~Free(j)
            /\ status' = [status EXCEPT ![i] = "IDLE"]
            /\ filter' = [filter EXCEPT ![i] = None]
            /\ pid' = [pid EXCEPT ![i] = op[t].pid]
            /\ mask' = [mask EXCEPT ![i] = NoMask]
            /\ hit' = [hit EXCEPT ![i] = FALSE]
            /\ handle' = [handle EXCEPT ![t] = <<table, i>>]
     ELSE UNCHANGED <<requests, handle>>
  /\ pc' = [pc EXCEPT ![t] = "idle"]
  /\ UNCHANGED <<engine, table, tables, bitmap, hardware, mutex, module, flags, wake,
                 sie, op, wild, calls>>

Config(t) ==         \* __config_filter
  LET i == handle[t][2] IN
  /\ Entered(t, "config") /\ ~Shutting /\ handle[t][1] = table
  /\ status[i] # "FREE"
  /\ mask' = [mask EXCEPT ![i] = op[t].mask]
  /\ pc' = [pc EXCEPT ![t] = "idle"]
  /\ UNCHANGED <<engine, table, tables, status, filter, pid, hit, bitmap, hardware,
                 mutex, module, flags, wake, sie, op, handle, wild, calls>>

\* __enable_filter: the request is ACTIVE before the driver is asked, which may
\* refuse: users outside the engine share its filters and channels.  The caller
\* keeps the mutex until the bitmap is up to date.
Enable(t) ==
  LET i == handle[t][2] IN
  /\ Entered(t, "enable") /\ ~Shutting /\ handle[t][1] = table
  /\ status[i] = "IDLE"
  /\ handle' = [handle EXCEPT ![t] = Closed]
  /\ \/ \E f \in FreeHw :
          /\ OpenHw(f, i)
          /\ status' = [status EXCEPT ![i] = "ACTIVE"]
          /\ filter' = [filter EXCEPT ![i] = f]
          /\ mutex' = t
          /\ pc' = [pc EXCEPT ![t] = "enabled"]
          /\ op' = [op EXCEPT ![t] = [call |-> "enabled", req |-> i]]
     \/ /\ status' = [status EXCEPT ![i] = "FREE"]
        /\ pc' = [pc EXCEPT ![t] = "idle"]
        /\ UNCHANGED <<filter, hardware, mutex, op>>
  /\ UNCHANGED <<engine, table, tables, pid, mask, hit, bitmap, module, flags, wake,
                 sie, wild, calls>>

Enabled(t) ==
  /\ pc[t] = "enabled"
  /\ bitmap' = Watch(filter[op[t].req])
  /\ wake' = TRUE
  /\ mutex' = None
  /\ pc' = [pc EXCEPT ![t] = "idle"]
  /\ UNCHANGED <<engine, table, tables, requests, hardware, module, flags, sie,
                 op, handle, wild, calls>>

\* _sie_abort: the first live request of that pid and mask.
Matches(i, c) ==
  status[i] \in Live /\ pid[i] = c.pid /\ c.mask \in {NoMask, mask[i]}

Abort(t) ==
  /\ Entered(t, "abort") /\ table # 0
  /\ IF \E i \in Reqs : Matches(i, op[t])
     THEN \E i \in Reqs :
            /\ Matches(i, op[t]) /\ \A j \in 1 .. i - 1 : ~Matches(j, op[t])
            /\ CloseHw({filter[i]})
            /\ bitmap' = Unwatch(filter[i])
            /\ status' = [status EXCEPT ![i] = "FREE"]
     ELSE UNCHANGED <<hardware, bitmap, status>>
  /\ pc' = [pc EXCEPT ![t] = "idle"]
  /\ UNCHANGED <<engine, table, tables, filter, pid, mask, hit, mutex, module, flags,
                 wake, sie, op, handle, wild, calls>>

Api(t) == GiveUp(t) \/ UseFreed(t) \/ Alloc(t) \/ Config(t) \/ Enable(t)
          \/ Enabled(t) \/ Abort(t)
------------------------------------------------------------------------------
(* The SIE task: sie_task and sie_main. *)

WaitEnable ==
  /\ spc = "waitenable" /\ enable
  /\ enable' = FALSE
  /\ pmask' = FilterNos
  /\ spc' = "poll"
  /\ UNCHANGED <<engine, table, tables, requests, bitmap, hardware, mutex, module,
                 closing, closed, wake, cur, reason, api, wild>>

\* IO_ASYNC_POLL: woken by the trigger, a filter of the mask that stopped, or
\* the timeout of some request.
Poll ==
  /\ spc = "poll"
  /\ \/ wake
     \/ \E f \in pmask : owner[f] # Closed /\ f \notin getting
     \/ Timed /\ \E i \in Reqs : table # 0 /\ status[i] = "ACTIVE"
  /\ spc' = "clear"
  /\ UNCHANGED <<engine, table, tables, requests, bitmap, hardware, mutex, module,
                 flags, wake, pmask, cur, reason, api, wild>>

ClearWake ==
  /\ spc = "clear"
  /\ wake' = FALSE
  /\ spc' = "check"
  /\ UNCHANGED <<engine, table, tables, requests, bitmap, hardware, mutex, module,
                 flags, pmask, cur, reason, api, wild>>

RunningFilters == {filter[i] : i \in {j \in Reqs : status[j] = "RUNNING"}}

ActiveFilters == {filter[i] : i \in {j \in Reqs : status[j] = "ACTIVE"}}

CheckClosing ==
  /\ spc = "check"
  /\ IF closing
     THEN /\ mutex = None
          /\ IF table = 0
             THEN wild' = TRUE /\ UNCHANGED hardware
             ELSE CloseHw(ActiveFilters)
                  /\ UNCHANGED wild
          /\ bitmap' = {}
          /\ spc' = "leave"
          /\ UNCHANGED cur
     ELSE /\ spc' = "inspect" /\ cur' = 1
          /\ UNCHANGED <<bitmap, hardware, wild>>
  /\ UNCHANGED <<engine, table, tables, requests, mutex, module, flags, wake, pmask, reason, api>>

ClearClosing ==
  /\ spc = "leave"
  /\ closing' = FALSE
  /\ spc' = "leave2"
  /\ UNCHANGED <<engine, table, tables, requests, bitmap, hardware, mutex, module,
                 enable, closed, wake, pmask, cur, reason, api, wild>>

SetClosed ==
  /\ spc = "leave2"
  /\ closed' = TRUE
  /\ spc' = "waitenable"
  /\ UNCHANGED <<engine, table, tables, requests, bitmap, hardware, mutex, module,
                 enable, closing, wake, pmask, cur, reason, api, wild>>
------------------------------------------------------------------------------
(* inspect_active and dispatch_section. *)

NextRequestPast ==
  IF cur <= NReq THEN cur' = cur + 1 /\ spc' = "inspect"
                 ELSE spc' = "mask" /\ UNCHANGED cur

NextRequest ==
  IF cur < NReq THEN cur' = cur + 1 /\ spc' = "inspect"
                ELSE spc' = "mask" /\ UNCHANGED cur

\* A request timed out, or its filter was hit: call its parser, unlocked.
InspectDue ==
  /\ spc = "inspect" /\ mutex = None
  /\ table # 0 /\ engine = "OPENED" /\ status[cur] = "ACTIVE"
  /\ \/ hit[cur] /\ reason' = "HIT"
     \/ Timed /\ reason' = "TIMEOUT"
  /\ status' = [status EXCEPT ![cur] = "RUNNING"]
  /\ spc' = "callback"
  /\ UNCHANGED <<engine, table, tables, filter, pid, mask, hit, bitmap, hardware,
                 mutex, module, flags, wake, pmask, cur, api, wild>>

InspectIdle ==
  /\ spc = "inspect" /\ mutex = None
  /\ IF table = 0
     THEN wild' = TRUE
     ELSE /\ status[cur] = "ACTIVE" /\ engine = "OPENED" => ~hit[cur]
          /\ UNCHANGED wild
  /\ NextRequest
  /\ UNCHANGED <<engine, table, tables, requests, bitmap, hardware, mutex, module,
                 flags, wake, pmask, reason, api>>

\* The callback returned and the mutex is taken again: the request may have
\* been aborted, even allocated anew, meanwhile.  A parser that allocates a filter
\* enables it or gives it up before it returns: none keeps the pointer.
CallbackReturns ==
  /\ spc = "callback" /\ pc[Sie] = "idle" /\ mutex = None
  /\ handle' = [handle EXCEPT ![Sie] = Closed]
  /\ UNCHANGED <<pc, op, calls>>

CallbackAborted ==
  /\ CallbackReturns
  /\ IF table = 0 THEN wild' = TRUE ELSE status[cur] # "RUNNING" /\ UNCHANGED wild
  /\ NextRequest
  /\ UNCHANGED <<engine, table, tables, requests, bitmap, hardware, mutex, module,
                 flags, wake, pmask, reason>>

\* The section is consumed; a call for a timeout leaves it.
HitTaken == IF reason = "HIT" THEN [hit EXCEPT ![cur] = FALSE] ELSE hit

\* sie_started: the filter is closed and requested again.
CallbackStarted ==
  /\ CallbackReturns
  /\ table # 0 /\ status[cur] = "RUNNING"
  /\ hit' = HitTaken
  /\ status' = [status EXCEPT ![cur] = "ACTIVE"]
  /\ CloseHw({filter[cur]})
  /\ bitmap' = Unwatch(filter[cur])
  /\ mutex' = Sie
  /\ spc' = "again"
  /\ UNCHANGED <<engine, table, tables, filter, pid, mask, module, flags, wake,
                 pmask, cur, reason, wild>>

RequestAgain ==
  /\ spc = "again"
  /\ \/ \E f \in FreeHw :
          /\ OpenHw(f, cur)
          /\ filter' = [filter EXCEPT ![cur] = f]
          /\ bitmap' = Watch(f)
          /\ UNCHANGED status
     \/ /\ status' = [status EXCEPT ![cur] = "FREE"]
        /\ UNCHANGED <<filter, bitmap, hardware>>
  /\ mutex' = None
  /\ NextRequest
  /\ UNCHANGED <<engine, table, tables, pid, mask, hit, module, flags, wake, pmask, reason,
                 api, wild>>

\* sie_freed
CallbackFreed ==
  /\ CallbackReturns
  /\ table # 0 /\ status[cur] = "RUNNING"
  /\ hit' = HitTaken
  /\ status' = [status EXCEPT ![cur] = "FREE"]
  /\ CloseHw({filter[cur]})
  /\ bitmap' = Unwatch(filter[cur])
  /\ NextRequest
  /\ UNCHANGED <<engine, table, tables, filter, pid, mask, mutex, module, flags,
                 wake, pmask, reason, wild>>

\* poll.mask = info->filter, read without the mutex.
NextMaskOld == bitmap \cap pmask

NextMask == bitmap

SetMask ==
  /\ spc = "mask"
  /\ pmask' = NextMask
  /\ spc' = "poll"
  /\ UNCHANGED <<engine, table, tables, requests, bitmap, hardware, mutex, module,
                 flags, wake, cur, reason, api, wild>>

SieMain == WaitEnable \/ Poll \/ ClearWake \/ CheckClosing \/ ClearClosing \/ SetClosed
Inspect == InspectDue \/ InspectIdle \/ SetMask
Callback == CallbackAborted \/ CallbackStarted \/ RequestAgain \/ CallbackFreed
------------------------------------------------------------------------------
Init ==
  /\ engine = "RELEASED" /\ table = 0 /\ tables = 0
  /\ status = [i \in Reqs |-> "FREE"]
  /\ filter = [i \in Reqs |-> None]
  /\ pid \in [Reqs -> Pids]
  /\ mask = [i \in Reqs |-> NoMask]
  /\ hit = [i \in Reqs |-> FALSE]
  /\ bitmap = {}
  /\ owner = [f \in FilterNos |-> Closed] /\ getting = {}
  /\ mutex = None /\ module = None
  /\ enable = FALSE /\ closing = FALSE /\ closed = FALSE
  /\ wake = FALSE
  /\ pmask = {} /\ spc = "none" /\ cur = 1 /\ reason = "HIT"
  /\ pc = [t \in Tasks |-> "idle"]
  /\ op = [t \in Tasks |-> [call |-> "none"]]
  /\ handle = [t \in Tasks |-> Closed]
  /\ wild = FALSE /\ calls = 0

User(t) == Open(t) \/ Close(t) \/ Call(t) \/ Api(t)

Next ==
  \/ \E f \in FilterNos : OnDmxEvent(f)
  \/ \E t \in Tasks : User(t)
  \/ SieMain \/ Inspect \/ Callback

Spec == Init /\ [][Next]_vars

SieTask == SieMain \/ Inspect \/ Callback \/ Api(Sie)

\* Every task that is inside the engine goes on; nobody is obliged to call it,
\* and the stream need not carry a section.
FairSpec ==
  /\ Spec
  /\ WF_vars(SieTask)
  /\ \A t \in Users : WF_vars(Api(t)) /\ WF_vars(OpenTable(t) \/ OpenEnable(t))
                     /\ WF_vars(CloseFlag(t) \/ CloseWake(t) \/ CloseFree(t) \/ CloseEnd(t))
==============================================================================
