------------------------------ MODULE MCAdvDmx ------------------------------
(***************************************************************************)
(* Properties of AdvDmx, and the calls its instances make.                 *)
(***************************************************************************)
EXTENDS AdvDmx, TLC

UserSymmetry == Permutations(Users)

SubmitCalls == {"alloc_channel", "alloc_filter", "set_filter", "en_channel"}
SharedCalls == SubmitCalls \cup {"free_channel", "dis_channel", "free_filter", "reset_filter"}
AllCalls    == SharedCalls \cup {"set_pid", "get_pid", "rst_channel", "rel_sec"}
DrainCalls  == SubmitCalls \cup {"rst_channel"}

Calls == [call : AllCalls \cup {"none"}, ch : Ch, flt : 0 .. NFlt + 1, again : BOOLEAN]

\* Types of the lists, the channels, the calls in progress and the task.
TypeOK ==
  /\ queue \in [Lists -> Seq(Nodes)]
  /\ wk_buf \in [Ch \cup Tasks -> Nodes \cup {None}]
  /\ flt \in [Nodes -> Flts] /\ sec \in [Nodes -> Nat] /\ stored \in Nat
  /\ allocated \subseteq Ch /\ enabled \subseteq Ch /\ filtering \subseteq Ch
  /\ sec_flt_msk \in [Ch -> SUBSET Flts] /\ mask_en \in [Ch -> SUBSET Flts]
  /\ mutex \in Tasks \cup {None} /\ calls \in Nat
  /\ pc \in [Tasks -> {"idle", "drain", "return", "init", "release"}] /\ op \in [Tasks -> Calls]
  /\ apc \in {"scan", "peek", "call", "callback", "take", "put"}
  /\ ach \in Ch /\ peeked \in Nodes \cup {None} /\ shown \in Nat

\* adv_dmx_free_channel has returned the working buffer it still points to.
Freed(h) == \E t \in Tasks : pc[t] = "init" /\ op[t].ch = h

Holds(h, n) == wk_buf[h] = n /\ ~Freed(h)

\* A section buffer is in one place: on one list, once, or in the hand of one
\* task, or the working buffer of one channel. The demux driver, adv_dmx_task and
\* the API move buffers at any time; list operations exclude each other, and the
\* mutex the API calls, but adv_dmx_task and adv_dmx_rel_sec do not take it.
NodeOnce ==
  /\ \A l, k \in Lists : \A i \in 1 .. Len(queue[l]), j \in 1 .. Len(queue[k]) :
       queue[l][i] = queue[k][j] => l = k /\ i = j
  /\ \A h, g \in Ch \cup Tasks, n \in Nodes : Holds(h, n) /\ Holds(g, n) => h = g
  /\ \A h \in Ch \cup Tasks, l \in Lists : \A i \in 1 .. Len(queue[l]) : ~Holds(h, queue[l][i])

Drains(c, f) ==
  \E t \in Tasks : /\ pc[t] # "idle" /\ op[t].call # "rel_sec"
                   /\ op[t].ch = c /\ op[t].flt \in {AnyFlt, f}

\* What adv_dmx_task and adv_dmx_get_sec find on a channel's list is of a filter in
\* use, or of one some call is draining: a filter that is freed or set anew leaves
\* nothing there once the call has returned, though the driver stores between the
\* steps of the draining. It says nothing of a section adv_dmx_task peeked at before.
QueuedEnabled ==
  \A c \in Ch : \A i \in 1 .. Len(queue[c]) :
    LET f == flt[queue[c][i]] IN f \in mask_en[c] \/ Drains(c, f)

\* A filter is in use only if it is allocated: adv_dmx_free_filter's ASSERT(0) at
\* dmx_adv.c:787 is not reached.
EnabledAllocated == \A c \in Ch : mask_en[c] \subseteq sec_flt_msk[c]

\* A channel has a working buffer exactly while it is allocated:
\* adv_dmx_free_channel's ASSERT(0) at dmx_adv.c:592 is not reached.
WorkBuffer == \A c \in Ch : c \in allocated <=> wk_buf[c] # None

\* dmx_adv.c:436 counts the section buffers made at initialisation: each stays in
\* the pool, on a list, a channel's working buffer or in a task's hand for ever:
\* what is taken off a list while the application is called is put somewhere.
NodesKept ==
  \A n \in Nodes : \/ \E l \in Lists : \E i \in 1 .. Len(queue[l]) : queue[l][i] = n
                   \/ \E h \in Ch \cup Tasks : Holds(h, n)

On(n, c) == \E i \in 1 .. Len(queue[c]) : queue[c][i] = n

\* When all sections are submitted and nothing drains a list, a section leaves its
\* channel only after the application was given it.
TakenWasShown ==
  [][\A c \in Ch, n \in Nodes :
       On(n, c) /\ ~On(n, c)' => apc = "take" /\ n = peeked /\ sec[n] = shown]_vars

\* ... and in particular adv_dmx_task gives its callback no section of a filter that
\* was freed or set anew. False: it peeks, the filter is freed, and it presents.
PresentedEnabled ==
  apc = "callback" => flt[peeked] \in mask_en[ach] \/ Drains(ach, flt[peeked])

Waits(n, c) == On(n, c) /\ c \in enabled
Fed(c) == Len(queue'[c]) > Len(queue[c])

\* A section on an enabled channel's list is taken in the end, however many more its
\* own channel receives, once the other channels receive no more: adv_dmx_task
\* comes to every channel, and drains it from its oldest section.
SectionsServed ==
  \A c \in Ch : <>[][\A d \in Ch \ {c} : ~Fed(d)]_vars =>
                   \A n \in Nodes : Waits(n, c) ~> ~Waits(n, c)

\* ... whatever the other channels receive. False: the loop at dmx_adv.c:349 stays
\* with a channel that receives as fast as it is drained.
AlwaysServed == \A c \in Ch, n \in Nodes : Waits(n, c) ~> ~Waits(n, c)
=============================================================================
