------------------------------- MODULE AdvDmx -------------------------------
(***************************************************************************)
(* The advanced demux of hld/dmx/dmx_adv.c: channels that collect sections *)
(* in nodes of one shared pool, the demux driver's callback that fills     *)
(* them, the task that submits them to the application, and the API.       *)
(*                                                                         *)
(* Every list operation (node_get, node_return, ...) switches dispatching  *)
(* off and is one step.  The API calls hold adv_dmx_mutex - unless the     *)
(* caller is adv_dmx_task itself, inside a callback - and drain a list one *)
(* node at a time; adv_dmx_task, adv_dmx_sec_cb and adv_dmx_rel_sec do not *)
(* take the mutex.  adv_dmx_sec_cb runs in the demux driver, which outranks *)
(* the callers' tasks and adv_dmx_task, and is one step.                   *)
(***************************************************************************)
EXTENDS Integers, Sequences, FiniteSets

CONSTANTS
  Users,      \* tasks that call the API
  Adm,        \* adv_dmx_task
  NCh,        \* total_channel_num
  NNodes,     \* section buffers adv_dmx_init made of its memory
  NFlt,       \* MAX_MASK_NUM
  Kinds,      \* the calls the callers make
  Reentrant,  \* do callbacks call the API?
  Results,    \* what app_sec_cb may return: TRUE is RET_SUCCESS
  Refuses,    \* may the demux driver refuse a filter?
  MaxSec,     \* bound: sections the stream delivers in one behaviour
  Endless,    \* ... or their numbers start over, and the stream never ends
  MaxCalls    \* bound: API calls in one behaviour

Ch    == 1 .. NCh
Nodes == 1 .. NNodes
Flts  == 1 .. NFlt
Tasks == Users \cup {Adm}
Pool  == 0                  \* BUF_NODE_HEAD
Lists == {Pool} \cup Ch     \* the pool, and the sec_list of every channel
None  == 0                  \* no node
AnyFlt == 0                 \* a list is drained whatever the filter
NoFlt == NFlt + 1           \* it is not drained at all

ASSUME AdvAssumption ==
  /\ Adm \notin Users /\ None \notin Tasks
  /\ Tasks \cap Ch = {}
  /\ NCh \in Nat \ {0} /\ NNodes \in Nat /\ NNodes > 1 /\ NFlt \in Nat \ {0}
  /\ {Reentrant, Refuses, Endless} \subseteq BOOLEAN /\ Results \subseteq BOOLEAN
  /\ MaxSec \in Nat /\ MaxCalls \in Nat

VARIABLES
  queue,      \* list head -> its nodes
  wk_buf,     \* a channel's wk_buf, and the node a task has in hand
  flt,        \* node -> flt_id
  sec,        \* node -> the section in its buffer
  allocated,  \* channels that are
  enabled,
  filtering,  \* channels the demux driver has a filter for
  sec_flt_msk,\* channel -> its allocated filters
  mask_en,    \* channel -> its filters that are set
  mutex,      \* holder of adv_dmx_mutex
  pc, op,     \* where a task is in an API call, and in which
  apc, ach,   \* where adv_dmx_task is, and its i
  peeked,     \* its wk_buf: a node it found at the head of a list
  shown,      \* the section its callback is given
  stored,     \* history: sections stored so far
  calls       \* API calls made so far

channels == <<allocated, enabled, filtering, sec_flt_msk, mask_en>>
nodes    == <<queue, wk_buf, flt, sec>>
api      == <<mutex, pc, op, calls>>
adm      == <<apc, ach, peeked, shown>>
vars == <<nodes, channels, api, adm, stored>>
------------------------------------------------------------------------------
(* The lists. *)

Unlink(s, i) ==                                            \* list_del
  [j \in 1 .. Len(s) - 1 |-> IF j < i THEN s[j] ELSE s[j + 1]]

\* list_add_tail, and list_add
ListAddTail(n, s) == Append(s, n)
ListAdd(n, s)     == <<n>> \o s

\* What is left of a list when a node is returned to it.
ReturnedFirst(n, s) == ListAdd(n, s)
Returned(n, s) == ListAddTail(n, s)

Wanted(n, f) == f = AnyFlt \/ flt[n] = f

\* node_get(l) for AnyFlt, node_get_one(l, f) for a filter: i is the place of the
\* node they find.
Found(l, f, i) ==
  /\ i \in 1 .. Len(queue[l])
  /\ Wanted(queue[l][i], f)
  /\ \A j \in 1 .. i - 1 : ~Wanted(queue[l][j], f)

Empty(l, f) == \A i \in 1 .. Len(queue[l]) : ~Wanted(queue[l][i], f)

NodeGet(l, i, h) ==                                        \* ... and h keeps it
  /\ queue' = [queue EXCEPT ![l] = Unlink(@, i)]
  /\ wk_buf' = [wk_buf EXCEPT ![h] = queue[l][i]]

NodeReturn(l, h) ==
  /\ queue' = [queue EXCEPT ![l] = Returned(wk_buf[h], @)]
  /\ wk_buf' = [wk_buf EXCEPT ![h] = None]
------------------------------------------------------------------------------
(* adv_dmx_sec_cb: the driver has a section for filter f of channel c. *)

\* The test of a filter, and one that forgets mask_en.
FilterAllocated(c, f) == f \in sec_flt_msk[c]
FilterSet(c, f) == f \in sec_flt_msk[c] /\ f \in mask_en[c]

SecCb(c, f) ==
  /\ c \in filtering /\ (stored < MaxSec \/ Endless)
  /\ c \in allocated /\ c \in enabled
  /\ FilterSet(c, f)
  /\ queue[Pool] # <<>>
  /\ stored' = IF stored < MaxSec THEN stored + 1 ELSE 1
  /\ LET n == queue[Pool][1]
     IN  /\ queue' = [queue EXCEPT ![Pool] = Unlink(@, 1), ![c] = Returned(n, @)]
         /\ flt' = [flt EXCEPT ![n] = f]
         /\ sec' = [sec EXCEPT ![n] = stored']
  /\ UNCHANGED <<wk_buf, channels, api, adm>>
------------------------------------------------------------------------------
(* adv_dmx_task *)

AdmGoes(to) ==
  /\ apc' = to
  /\ UNCHANGED ach

\* i < total_channel_num, and loops that go past it or stop short of it.
AfterPast(i)  == IF i <= NCh THEN i + 1 ELSE 1
AfterShort(i) == IF i + 1 < NCh THEN i + 1 ELSE 1
After(i) == IF i < NCh THEN i + 1 ELSE 1

NextChannel ==
  /\ apc' = "scan" /\ ach' = After(ach)
  /\ peeked' = None /\ shown' = 0

AdmScan ==
  /\ apc = "scan"
  /\ IF ach \in allocated /\ ach \in enabled
     THEN AdmGoes("peek") /\ UNCHANGED <<peeked, shown>>
     ELSE NextChannel
  /\ UNCHANGED <<nodes, channels, api, stored>>

AdmPeek ==
  /\ apc = "peek"
  /\ IF queue[ach] = <<>>
     THEN NextChannel
     ELSE peeked' = queue[ach][1] /\ AdmGoes("call") /\ UNCHANGED shown
  /\ UNCHANGED <<nodes, channels, api, stored>>

AdmCall ==
  /\ apc = "call"
  /\ shown' = sec[peeked]
  /\ AdmGoes("callback")
  /\ UNCHANGED <<nodes, channels, api, peeked, stored>>

\* The application says the section is dealt with, or that it will fetch it.
AdmReturn ==
  /\ apc = "callback" /\ pc[Adm] = "idle"
  /\ \E r \in Results : IF r THEN AdmGoes("take") /\ UNCHANGED <<peeked, shown>>
                              ELSE NextChannel
  /\ UNCHANGED <<nodes, channels, api, stored>>

\* Is it the node that was shown?
SameAlways(n) == TRUE
SameNever(n) == FALSE

Same(n) == n = peeked

AdmTake ==
  /\ apc = "take"
  /\ IF queue[ach] = <<>>
     THEN AdmGoes("peek") /\ UNCHANGED <<queue, wk_buf>>
     ELSE /\ queue' = [queue EXCEPT ![ach] = Unlink(@, 1)]
          /\ IF Same(queue[ach][1])
             THEN wk_buf' = [wk_buf EXCEPT ![Adm] = peeked] /\ AdmGoes("put")
             ELSE UNCHANGED wk_buf /\ AdmGoes("peek")
  /\ UNCHANGED <<flt, sec, channels, api, peeked, shown, stored>>

AdmPut ==
  /\ apc = "put"
  /\ NodeReturn(Pool, Adm)
  /\ AdmGoes("peek")
  /\ UNCHANGED <<flt, sec, channels, api, peeked, shown, stored>>

AdmTask == AdmScan \/ AdmPeek \/ AdmCall \/ AdmReturn \/ AdmTake \/ AdmPut
------------------------------------------------------------------------------
(* The API.  A call that finds its guard false returns without effect and is  *)
(* not a step.  A call drains its channel for the filter op.flt.              *)

May(t, kind) ==
  /\ kind \in Kinds /\ calls < MaxCalls
  /\ pc[t] = "idle" /\ (t = Adm => Reentrant /\ apc = "callback")

\* adv_dmx_mutex, and one that never locks.
Unlocked(t) == FALSE
Locked(t)  == t # Adm

Lock(t)    == IF Locked(t) THEN mutex = None /\ mutex' = t ELSE UNCHANGED mutex
Unlock(t)  == IF Locked(t) THEN mutex' = None ELSE UNCHANGED mutex

NoCall == [call |-> "none", ch |-> 1, flt |-> NoFlt, again |-> FALSE]

Enters(t, kind, c, f) ==
  /\ May(t, kind)
  /\ Lock(t)
  /\ pc' = [pc EXCEPT ![t] = "drain"]
  /\ op' = [op EXCEPT ![t] = [call |-> kind, ch |-> c, flt |-> f, again |-> c \in enabled]]
  /\ calls' = calls + 1
  /\ UNCHANGED <<nodes, allocated, enabled, adm, stored>>

BeginAllocChannel(t) ==
  \E c \in Ch \ allocated :
    /\ \A d \in 1 .. c - 1 : d \in allocated
    /\ Enters(t, "alloc_channel", c, NoFlt)
    /\ UNCHANGED <<filtering, sec_flt_msk, mask_en>>

\* adv_dmx_free_channel, adv_dmx_set_pid, adv_dmx_get_pid
BeginDrain(t) ==
  \E kind \in {"free_channel", "set_pid", "get_pid"}, c \in allocated :
    /\ kind # "get_pid" => c \notin enabled
    /\ Enters(t, kind, c, AnyFlt)
    /\ UNCHANGED <<filtering, sec_flt_msk, mask_en>>

BeginEnable(t) ==
  \E c \in allocated :
    /\ c \notin enabled
    /\ Enters(t, "en_channel", c, NoFlt)
    /\ UNCHANGED <<filtering, sec_flt_msk, mask_en>>

BeginDisable(t) ==
  \E c \in allocated :
    /\ c \in enabled
    /\ Enters(t, "dis_channel", c, NoFlt)
    /\ filtering' = filtering \ {c}
    /\ UNCHANGED <<sec_flt_msk, mask_en>>

BeginReset(t) ==
  \E c \in allocated :
    /\ Enters(t, "rst_channel", c, AnyFlt)
    /\ filtering' = IF c \in enabled THEN filtering \ {c} ELSE filtering
    /\ UNCHANGED <<sec_flt_msk, mask_en>>

BeginAllocFilter(t) ==
  \E c \in allocated, f \in Flts :
    /\ f \notin sec_flt_msk[c] /\ \A g \in 1 .. f - 1 : g \in sec_flt_msk[c]
    /\ Enters(t, "alloc_filter", c, NoFlt)
    /\ sec_flt_msk' = [sec_flt_msk EXCEPT ![c] = @ \cup {f}]
    /\ UNCHANGED <<filtering, mask_en>>

BeginFreeFilter(t) ==
  \E c \in allocated, f \in Flts :
    /\ f \in sec_flt_msk[c]
    /\ Enters(t, "free_filter", c, f)
    /\ sec_flt_msk' = [sec_flt_msk EXCEPT ![c] = @ \ {f}]
    /\ mask_en' = [mask_en EXCEPT ![c] = @ \ {f}]
    /\ UNCHANGED filtering

\* A filter is set for the first time, or set again.
BeginSetFilter(t) ==
  \E c \in allocated, f \in Flts :
    /\ f \in sec_flt_msk[c]
    /\ Enters(t, IF f \in mask_en[c] THEN "reset_filter" ELSE "set_filter", c, f)
    /\ mask_en' = [mask_en EXCEPT ![c] = @ \ {f}]
    /\ UNCHANGED <<filtering, sec_flt_msk>>

Begin(t) ==
  \/ BeginAllocChannel(t) \/ BeginDrain(t) \/ BeginEnable(t) \/ BeginDisable(t)
  \/ BeginReset(t) \/ BeginAllocFilter(t) \/ BeginFreeFilter(t) \/ BeginSetFilter(t)

\* One turn of: while ((node = node_get...)) node_return(node, BUF_NODE_HEAD);
DrainGet(t) ==
  /\ pc[t] = "drain"
  /\ \E i \in 1 .. NNodes :
       Found(op[t].ch, op[t].flt, i) /\ NodeGet(op[t].ch, i, t)
  /\ pc' = [pc EXCEPT ![t] = "return"]
  /\ UNCHANGED <<flt, sec, channels, mutex, op, calls, adm, stored>>

DrainPut(t) ==
  /\ pc[t] = "return"
  /\ NodeReturn(Pool, t)
  /\ IF op[t].call = "rel_sec"
     THEN pc' = [pc EXCEPT ![t] = "idle"] /\ op' = [op EXCEPT ![t] = NoCall]
     ELSE pc' = [pc EXCEPT ![t] = "drain"] /\ UNCHANGED op
  /\ UNCHANGED <<flt, sec, channels, mutex, calls, adm, stored>>

Leaves(t) ==
  /\ pc' = [pc EXCEPT ![t] = "idle"]
  /\ op' = [op EXCEPT ![t] = NoCall]
  /\ Unlock(t)

Ends(t, kinds) ==
  /\ pc[t] = "drain" /\ op[t].call \in kinds /\ Empty(op[t].ch, op[t].flt)
  /\ Leaves(t)
  /\ UNCHANGED <<flt, sec, calls, adm, stored>>

\* Without a node for its working buffer the channel stays free.
EndAllocChannel(t) ==
  LET c == op[t].ch IN
  /\ Ends(t, {"alloc_channel"})
  /\ IF queue[Pool] = <<>>
     THEN UNCHANGED <<queue, wk_buf, allocated>>
     ELSE NodeGet(Pool, 1, c) /\ allocated' = allocated \cup {c}
  /\ UNCHANGED <<enabled, filtering, sec_flt_msk, mask_en>>

\* The pool once a channel gave its working buffer back, or forgot to.
WorkBufferKept(c) == queue[Pool]
WorkBufferReturned(c) == Returned(wk_buf[c], queue[Pool])

\* The working buffer goes back to the pool, and the channel still points to it.
\* Without one adv_dmx_free_channel ends in ASSERT(0) and goes no further.
FreeWorkBuffer(t) ==
  LET c == op[t].ch IN
  /\ pc[t] = "drain" /\ op[t].call = "free_channel" /\ Empty(c, AnyFlt)
  /\ wk_buf[c] # None
  /\ queue' = [queue EXCEPT ![Pool] = WorkBufferReturned(c)]
  /\ pc' = [pc EXCEPT ![t] = "init"]
  /\ UNCHANGED <<wk_buf, flt, sec, channels, mutex, op, calls, adm, stored>>

\* adv_dmx_init_channel resets wk_buf, or forgets to; it empties the list head too.
FormerBuffer(c) == wk_buf[c]
InitialBuffer(c) == None

EndFreeChannel(t) ==
  LET c == op[t].ch IN
  /\ pc[t] = "init"
  /\ queue' = [queue EXCEPT ![c] = <<>>]
  /\ wk_buf' = [wk_buf EXCEPT ![c] = InitialBuffer(c)]
  /\ allocated' = allocated \ {c}
  /\ enabled' = enabled \ {c}
  /\ sec_flt_msk' = [sec_flt_msk EXCEPT ![c] = {}]
  /\ mask_en' = [mask_en EXCEPT ![c] = {}]
  /\ Leaves(t)
  /\ UNCHANGED <<flt, sec, filtering, calls, adm, stored>>

\* The calls that drained all they had to, and alloc_filter.
EndPlain(t) ==
  /\ Ends(t, {"set_pid", "get_pid", "free_filter", "alloc_filter"})
  /\ UNCHANGED <<queue, wk_buf, channels>>

EndSetFilter(t) ==
  /\ Ends(t, {"set_filter", "reset_filter"})
  /\ mask_en' = [mask_en EXCEPT ![op[t].ch] = @ \cup {op[t].flt}]
  /\ UNCHANGED <<queue, wk_buf, allocated, enabled, filtering, sec_flt_msk>>

EndEnable(t) ==
  /\ Ends(t, {"en_channel"})
  /\ \/ filtering' = filtering \cup {op[t].ch} /\ enabled' = enabled \cup {op[t].ch}
     \/ Refuses /\ UNCHANGED <<filtering, enabled>>
  /\ UNCHANGED <<queue, wk_buf, allocated, sec_flt_msk, mask_en>>

EndDisable(t) ==
  /\ Ends(t, {"dis_channel"})
  /\ enabled' = enabled \ {op[t].ch}
  /\ UNCHANGED <<queue, wk_buf, allocated, filtering, sec_flt_msk, mask_en>>

\* A reset restarts the channel it stopped, unless the driver refuses.
RestartFilter(t) ==
  \/ filtering' = IF op[t].again THEN filtering \cup {op[t].ch} ELSE filtering
  \/ Refuses /\ op[t].again /\ UNCHANGED filtering

EndReset(t) ==
  /\ Ends(t, {"rst_channel"})
  /\ RestartFilter(t)
  /\ UNCHANGED <<queue, wk_buf, allocated, enabled, sec_flt_msk, mask_en>>

End(t) ==
  \/ EndAllocChannel(t) \/ EndFreeChannel(t) \/ EndPlain(t) \/ EndSetFilter(t)
  \/ EndEnable(t) \/ EndDisable(t) \/ EndReset(t)

\* adv_dmx_rel_sec, also at the end of adv_dmx_retrieve_sec: it takes no mutex,
\* and tests the channel in a step of its own.
RelTest(t) ==
  \E c \in allocated, f \in {AnyFlt} \cup Flts :
    /\ May(t, "rel_sec")
    /\ f # AnyFlt => FilterSet(c, f)
    /\ pc' = [pc EXCEPT ![t] = "release"]
    /\ op' = [op EXCEPT ![t] = [call |-> "rel_sec", ch |-> c, flt |-> f, again |-> FALSE]]
    /\ calls' = calls + 1
    /\ UNCHANGED <<nodes, channels, mutex, adm, stored>>

\* It takes a section, if there is one.
RelTake(t) ==
  /\ pc[t] = "release"
  /\ \/ /\ \E i \in 1 .. NNodes :
             Found(op[t].ch, op[t].flt, i) /\ NodeGet(op[t].ch, i, t)
        /\ pc' = [pc EXCEPT ![t] = "return"]
        /\ UNCHANGED op
     \/ /\ Empty(op[t].ch, op[t].flt)
        /\ pc' = [pc EXCEPT ![t] = "idle"] /\ op' = [op EXCEPT ![t] = NoCall]
        /\ UNCHANGED <<queue, wk_buf>>
  /\ UNCHANGED <<flt, sec, channels, mutex, calls, adm, stored>>

Api(t) == DrainGet(t) \/ DrainPut(t) \/ RelTake(t) \/ FreeWorkBuffer(t) \/ End(t)
------------------------------------------------------------------------------
Init ==          \* adv_dmx_init
  /\ queue = [l \in Lists |-> IF l = Pool THEN [i \in Nodes |-> i] ELSE <<>>]
  /\ wk_buf = [h \in Ch \cup Tasks |-> None]
  /\ flt = [n \in Nodes |-> 1] /\ sec = [n \in Nodes |-> 0]
  /\ allocated = {} /\ enabled = {} /\ filtering = {}
  /\ sec_flt_msk = [c \in Ch |-> {}] /\ mask_en = [c \in Ch |-> {}]
  /\ mutex = None
  /\ pc = [t \in Tasks |-> "idle"]
  /\ op = [t \in Tasks |-> NoCall]
  /\ apc = "scan" /\ ach = 1 /\ peeked = None /\ shown = 0
  /\ stored = 0 /\ calls = 0

Next ==
  \/ \E c \in Ch, f \in Flts : SecCb(c, f)
  \/ AdmTask
  \/ \E t \in Tasks : Begin(t) \/ Api(t) \/ RelTest(t)

Spec == Init /\ [][Next]_vars

\* adv_dmx_task waits at most 20 ms for a wake-up, so it always goes round again;
\* a call that was begun goes on.
FairSpec == Spec /\ WF_vars(AdmTask) /\ \A t \in Tasks : WF_vars(Api(t))
==============================================================================
