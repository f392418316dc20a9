---------------------------- MODULE AdvDmxProofs ----------------------------
(***************************************************************************)
(* Proofs about AdvDmx for any number of channels, section buffers,        *)
(* filters and tasks, when no callback calls the API.                      *)
(*                                                                         *)
(* NodeOnce needs to know who is in the API.  The parts of IInv say what a *)
(* task in a call has in hand (Hands), that a call other than              *)
(* adv_dmx_rel_sec has the mutex (Exclusive), which call is about to reset *)
(* a channel and which filter is being set (Targets), and that             *)
(* adv_dmx_task is in no call (AdmOutside).  A move of a buffer is a       *)
(* removal, an insertion or both: the lemmas on Once say what each does to *)
(* any lists and hands.                                                    *)
(***************************************************************************)
EXTENDS MCAdvDmx, TLAPS

Places == Ch \cup Tasks

\* A task between taking a buffer and returning it has one.
Hands ==
  /\ \A t \in Tasks : pc[t] = "return" => wk_buf[t] # None
  /\ apc = "put" => wk_buf[Adm] # None
  /\ apc = "call" => peeked # None

\* A call other than adv_dmx_rel_sec has the mutex.
Exclusive == \A t \in Tasks : pc[t] # "idle" /\ op[t].call # "rel_sec" => mutex = t

\* Only adv_dmx_free_channel resets a channel, only adv_dmx_rel_sec releases a
\* section, and adv_dmx_set_filter is at a filter.
Targets ==
  \A t \in Tasks :
    /\ pc[t] = "init" => op[t].call = "free_channel"
    /\ pc[t] = "release" => op[t].call = "rel_sec"
    /\ op[t].call \in {"set_filter", "reset_filter"} => op[t].flt \in Flts

\* adv_dmx_task is in no call.
AdmOutside == pc[Adm] = "idle"

IInv == TypeOK /\ Hands /\ Exclusive /\ Targets /\ AdmOutside /\ NodeOnce
------------------------------------------------------------------------------
(* Lists and hands in general. *)

\* What a place holds, the working buffer being freed aside.
Held == [h \in Places |-> IF Freed(h) THEN None ELSE wk_buf[h]]

\* No node is in two places, for any lists q and hands w.
Once(q, w) ==
  /\ \A l, k \in Lists : \A i \in 1 .. Len(q[l]), j \in 1 .. Len(q[k]) :
       q[l][i] = q[k][j] => l = k /\ i = j
  /\ \A h, g \in Places, n \in Nodes : w[h] = n /\ w[g] = n => h = g
  /\ \A h \in Places, l \in Lists : \A i \in 1 .. Len(q[l]) : w[h] # q[l][i]

\* A node is nowhere.
Absent(q, w, n) ==
  /\ \A l \in Lists : \A i \in 1 .. Len(q[l]) : q[l][i] # n
  /\ \A h \in Places : w[h] # n

\* What Unlink, which node_get and node_get_one share, leaves of a list.
LEMMA UnlinkProperties ==
  ASSUME NEW S, NEW s \in Seq(S), NEW i \in 1 .. Len(s)
  PROVE  /\ Unlink(s, i) \in Seq(S)
         /\ Len(Unlink(s, i)) = Len(s) - 1
         /\ \A j \in 1 .. Len(s) - 1 :
              Unlink(s, i)[j] = IF j < i THEN s[j] ELSE s[j + 1]
  <1>1. Len(s) \in Nat /\ Len(s) - 1 \in Nat
    OBVIOUS
  <1>2. \A j \in 1 .. Len(s) - 1 : (IF j < i THEN s[j] ELSE s[j + 1]) \in S
    OBVIOUS
  <1> QED
    BY <1>1, <1>2 DEF Unlink

\* What appending a node, node_return's list_add_tail, makes of a list.
LEMMA AppendPlaces ==
  ASSUME NEW S, NEW s \in Seq(S), NEW n \in S
  PROVE  /\ Append(s, n) \in Seq(S)
         /\ \A j \in 1 .. Len(Append(s, n)) :
              \/ j \in 1 .. Len(s) /\ Append(s, n)[j] = s[j]
              \/ j = Len(s) + 1 /\ Append(s, n)[j] = n
  OBVIOUS

\* Taking a node off its list leaves every node in one place and this one nowhere.
LEMMA OnceUnlink ==
  ASSUME NEW q \in [Lists -> Seq(Nodes)], NEW w \in [Places -> Nodes \cup {None}],
         Once(q, w), NEW l \in Lists, NEW i \in 1 .. Len(q[l])
  PROVE  LET r == [q EXCEPT ![l] = Unlink(@, i)]
         IN  /\ r \in [Lists -> Seq(Nodes)] /\ q[l][i] \in Nodes
             /\ Once(r, w) /\ Absent(r, w, q[l][i])
  <1> DEFINE r == [q EXCEPT ![l] = Unlink(@, i)]
             Was(k, j) == IF k # l \/ j < i THEN j ELSE j + 1
  <1>1. q[l] \in Seq(Nodes) /\ q[l][i] \in Nodes
    OBVIOUS
  <1>2. r \in [Lists -> Seq(Nodes)]
    BY <1>1, UnlinkProperties
  <1>3. \A k \in Lists : \A j \in 1 .. Len(r[k]) :
          Was(k, j) \in 1 .. Len(q[k]) /\ r[k][j] = q[k][Was(k, j)] /\ (k = l => Was(k, j) # i)
    <2> TAKE k \in Lists
    <2>1. CASE k = l
      <3>1. r[k] = Unlink(q[l], i)
        BY <2>1
      <3>2. Len(r[k]) = Len(q[l]) - 1 /\ \A j \in 1 .. Len(q[l]) - 1 :
               r[k][j] = IF j < i THEN q[l][j] ELSE q[l][j + 1]
        BY <3>1, <1>1, UnlinkProperties
      <3> QED
        BY <3>2, <2>1, <1>1
    <2>2. CASE k # l
      BY <2>2
    <2> QED
      BY <2>1, <2>2
  <1>4. \A k, m \in Lists : \A j \in 1 .. Len(r[k]), o \in 1 .. Len(r[m]) :
          r[k][j] = r[m][o] => k = m /\ j = o
    <2> TAKE k, m \in Lists
    <2> TAKE j \in 1 .. Len(r[k]), o \in 1 .. Len(r[m])
    <2> HAVE r[k][j] = r[m][o]
    <2>1. k = m /\ Was(k, j) = Was(m, o)
      BY <1>3 DEF Once
    <2>2. r[k] \in Seq(Nodes) /\ r[m] \in Seq(Nodes)
      BY <1>2
    <2>3. j \in Nat /\ o \in Nat
      BY <2>2
    <2> QED
      BY <2>1, <2>3
  <1>5. \A h \in Places, k \in Lists : \A j \in 1 .. Len(r[k]) : w[h] # r[k][j]
    BY <1>3 DEF Once
  <1>6. Absent(r, w, q[l][i])
    BY <1>3 DEF Once, Absent
  <1> QED
    BY <1>1, <1>2, <1>4, <1>5, <1>6 DEF Once

\* Appending a node that is nowhere.
LEMMA OnceAppend ==
  ASSUME NEW q \in [Lists -> Seq(Nodes)], NEW w \in [Places -> Nodes \cup {None}],
         Once(q, w), NEW l \in Lists, NEW n \in Nodes, Absent(q, w, n)
  PROVE  LET r == [q EXCEPT ![l] = Append(@, n)]
         IN  r \in [Lists -> Seq(Nodes)] /\ Once(r, w)
  <1> DEFINE r == [q EXCEPT ![l] = Append(@, n)]
  <1>1. r \in [Lists -> Seq(Nodes)]
    BY AppendPlaces
  <1>2. \A k \in Lists : \A j \in 1 .. Len(r[k]) :
          \/ j \in 1 .. Len(q[k]) /\ r[k][j] = q[k][j]
          \/ k = l /\ j = Len(q[l]) + 1 /\ r[k][j] = n
    <2> TAKE k \in Lists
    <2>1. CASE k = l
      BY <2>1, AppendPlaces
    <2>2. CASE k # l
      BY <2>2
    <2> QED
      BY <2>1, <2>2
  <1>3. \A k, m \in Lists : \A j \in 1 .. Len(r[k]), o \in 1 .. Len(r[m]) :
          r[k][j] = r[m][o] => k = m /\ j = o
    BY <1>2 DEF Once, Absent
  <1>4. \A h \in Places, k \in Lists : \A j \in 1 .. Len(r[k]) : w[h] # r[k][j]
    BY <1>2 DEF Once, Absent
  <1> QED
    BY <1>1, <1>3, <1>4 DEF Once

\* Emptying a list.
LEMMA OnceEmpty ==
  ASSUME NEW q \in [Lists -> Seq(Nodes)], NEW w \in [Places -> Nodes \cup {None}],
         Once(q, w), NEW l \in Lists
  PROVE  LET r == [q EXCEPT ![l] = <<>>]
         IN  r \in [Lists -> Seq(Nodes)] /\ Once(r, w)
  <1> DEFINE r == [q EXCEPT ![l] = <<>>]
  <1>1. r \in [Lists -> Seq(Nodes)]
    OBVIOUS
  <1>2. \A k \in Lists : \A j \in 1 .. Len(r[k]) : j \in 1 .. Len(q[k]) /\ r[k][j] = q[k][j]
    OBVIOUS
  <1> QED
    BY <1>1, <1>2 DEF Once

\* A hand takes a node that is nowhere.
LEMMA OnceHold ==
  ASSUME NEW q \in [Lists -> Seq(Nodes)], NEW w \in [Places -> Nodes \cup {None}],
         Once(q, w), NEW h \in Places, NEW n \in Nodes, Absent(q, w, n)
  PROVE  Once(q, [w EXCEPT ![h] = n])
  BY DEF Once, Absent

\* A hand lets a node go.
LEMMA OnceRelease ==
  ASSUME NEW q \in [Lists -> Seq(Nodes)], NEW w \in [Places -> Nodes \cup {None}],
         Once(q, w), NEW h \in Places, w[h] # None
  PROVE  LET v == [w EXCEPT ![h] = None]
         IN  w[h] \in Nodes /\ v \in [Places -> Nodes \cup {None}]
             /\ Once(q, v) /\ Absent(q, v, w[h])
  <1> DEFINE v == [w EXCEPT ![h] = None]
  <1>1. w[h] \in Nodes /\ v \in [Places -> Nodes \cup {None}] /\ None \notin Nodes
    BY DEF None, Nodes
  <1>2. \A g \in Places : v[g] = IF g = h THEN None ELSE w[g]
    OBVIOUS
  <1>3. \A l \in Lists : \A i \in 1 .. Len(q[l]) : q[l][i] \in Nodes
    OBVIOUS
  <1>4. Once(q, v)
    BY <1>1, <1>2, <1>3 DEF Once
  <1>5. Absent(q, v, w[h])
    BY <1>1, <1>2, <1>3 DEF Once, Absent
  <1> QED
    BY <1>1, <1>4, <1>5

\* NodeOnce says of the state what Once says of any lists and hands.
LEMMA NodeOnceIsOnce ==
  ASSUME TypeOK
  PROVE  NodeOnce <=> Once(queue, Held)
  <1>1. \A h \in Places, n \in Nodes : Holds(h, n) <=> Held[h] = n
    BY DEF Holds, Held, None, Nodes
  <1>2. \A l \in Lists : \A i \in 1 .. Len(queue[l]) : queue[l][i] \in Nodes
    BY DEF TypeOK
  <1> QED
    BY <1>1, <1>2 DEF NodeOnce, Once, Places
------------------------------------------------------------------------------
(* Types. *)

\* adv_dmx_init leaves a well-typed state.
LEMMA InitType == ASSUME Init PROVE TypeOK
  <1>1. queue \in [Lists -> Seq(Nodes)]
    <2>1. [i \in Nodes |-> i] \in Seq(Nodes)
      BY AdvAssumption DEF Nodes
    <2> QED
      BY <2>1 DEF Init
  <1>2. 1 \in Flts /\ 1 \in Ch
    BY AdvAssumption DEF Flts, Ch
  <1>3. NoCall \in Calls
    BY <1>2, AdvAssumption DEF NoCall, Calls, NoFlt
  <1> QED
    BY <1>1, <1>2, <1>3 DEF Init, TypeOK, None

\* A task in no call is well-typed too.
LEMMA NoCallType == NoCall \in Calls
  BY AdvAssumption DEF NoCall, Calls, NoFlt, Ch

\* Taking a node, as node_get does, keeps lists and hands well-typed.
LEMMA NodeGetType ==
  ASSUME TypeOK, NEW l \in Lists, NEW i \in 1 .. Len(queue[l]), NEW h \in Places, NodeGet(l, i, h)
  PROVE  /\ queue' \in [Lists -> Seq(Nodes)]
         /\ wk_buf' \in [Places -> Nodes \cup {None}]
         /\ queue[l][i] \in Nodes
  <1>1. queue[l] \in Seq(Nodes) /\ queue[l][i] \in Nodes
    BY DEF TypeOK
  <1>2. Unlink(queue[l], i) \in Seq(Nodes)
    BY <1>1, UnlinkProperties
  <1> QED
    BY <1>1, <1>2 DEF TypeOK, NodeGet, Places

\* ... and so does returning one.
LEMMA NodeReturnType ==
  ASSUME TypeOK, NEW l \in Lists, NEW h \in Places, wk_buf[h] # None, NodeReturn(l, h)
  PROVE  /\ queue' \in [Lists -> Seq(Nodes)]
         /\ wk_buf' \in [Places -> Nodes \cup {None}]
  BY AppendPlaces DEF TypeOK, NodeReturn, Places, Returned, ListAddTail

\* The demux driver's callback keeps the types.
LEMMA SecCbType ==
  ASSUME TypeOK, NEW c \in Ch, NEW f \in Flts, SecCb(c, f) PROVE TypeOK'
  <1> DEFINE n == queue[Pool][1]
             q == Unlink(queue[Pool], 1)
  <1>1. Pool \in Lists /\ c \in Lists /\ c # Pool
    BY DEF Lists, Pool, Ch
  <1>2. n \in Nodes /\ q \in Seq(Nodes)
    <2>1. queue[Pool] \in Seq(Nodes) /\ queue[Pool] # <<>>
      BY <1>1 DEF TypeOK, SecCb
    <2>2. 1 \in 1 .. Len(queue[Pool])
      BY <2>1
    <2> QED
      BY <2>1, <2>2, UnlinkProperties
  <1>3. Append(queue[c], n) \in Seq(Nodes)
    BY <1>1, <1>2 DEF TypeOK
  <1>4. queue' \in [Lists -> Seq(Nodes)]
    BY <1>1, <1>2, <1>3 DEF TypeOK, SecCb, Returned, ListAddTail
  <1>5. flt' \in [Nodes -> Flts] /\ sec' \in [Nodes -> Nat] /\ stored' \in Nat
    BY <1>2 DEF TypeOK, SecCb
  <1> QED
    BY <1>4, <1>5 DEF TypeOK, SecCb, channels, api, adm

\* adv_dmx_task keeps the types.
LEMMA AdmTaskType ==
  ASSUME TypeOK, Hands, AdmTask PROVE TypeOK'
  <1>1. After(ach) \in Ch
    BY AdvAssumption DEF TypeOK, Ch, After
  <1>2. ach \in Lists /\ Pool \in Lists /\ Adm \in Places
    BY DEF TypeOK, Lists, Places, Tasks
  <1>3. CASE AdmScan
    BY <1>1, <1>3 DEF AdmScan, AdmGoes, NextChannel, TypeOK, nodes, channels, api
  <1>4. CASE AdmPeek
    <2>1. queue[ach] # <<>> => queue[ach][1] \in Nodes
      BY <1>2 DEF TypeOK
    <2> QED
      BY <1>1, <1>4, <2>1 DEF AdmPeek, AdmGoes, NextChannel, TypeOK, nodes, channels, api
  <1>5. CASE AdmCall
    <2>1. sec[peeked] \in Nat
      BY <1>5 DEF AdmCall, Hands, TypeOK
    <2> QED
      BY <1>5, <2>1 DEF AdmCall, AdmGoes, TypeOK, nodes, channels, api
  <1>6. CASE AdmReturn
    BY <1>1, <1>6 DEF AdmReturn, AdmGoes, NextChannel, TypeOK, nodes, channels, api
  <1>7. CASE AdmTake
    <2>1. CASE queue[ach] = <<>>
      BY <1>7, <2>1 DEF AdmTake, AdmGoes, TypeOK, channels, api
    <2>2. CASE queue[ach] # <<>>
      <3>1. queue[ach] \in Seq(Nodes) /\ 1 \in 1 .. Len(queue[ach]) /\ queue[ach][1] \in Nodes
        BY <1>2, <2>2 DEF TypeOK
      <3>2. Unlink(queue[ach], 1) \in Seq(Nodes)
        BY <3>1, UnlinkProperties
      <3>3. queue' \in [Lists -> Seq(Nodes)]
        BY <1>7, <2>2, <3>2 DEF AdmTake, TypeOK
      <3>4. wk_buf' \in [Ch \cup Tasks -> Nodes \cup {None}]
        BY <1>7, <2>2, <3>1 DEF AdmTake, Same, TypeOK
      <3> QED
        BY <1>7, <2>2, <3>3, <3>4 DEF AdmTake, AdmGoes, TypeOK, channels, api
    <2> QED
      BY <2>1, <2>2
  <1>8. CASE AdmPut
    <2>1. queue' \in [Lists -> Seq(Nodes)] /\ wk_buf' \in [Places -> Nodes \cup {None}]
      BY <1>2, <1>8, NodeReturnType DEF AdmPut, Hands
    <2> QED
      BY <1>8, <2>1 DEF AdmPut, AdmGoes, TypeOK, channels, api, Places
  <1> QED
    BY <1>3, <1>4, <1>5, <1>6, <1>7, <1>8 DEF AdmTask

\* Entering a call keeps the types.
LEMMA EntersType ==
  ASSUME TypeOK, NEW t \in Tasks, NEW kind \in AllCalls, NEW c \in Ch, NEW f \in 0 .. NFlt + 1,
         Enters(t, kind, c, f),
         filtering' \subseteq Ch, sec_flt_msk' \in [Ch -> SUBSET Flts], mask_en' \in [Ch -> SUBSET Flts]
  PROVE  TypeOK'
  <1>1. [call |-> kind, ch |-> c, flt |-> f, again |-> c \in enabled] \in Calls
    BY DEF Calls
  <1>2. op' \in [Tasks -> Calls] /\ pc' \in [Tasks -> {"idle", "drain", "return", "init", "release"}]
    BY <1>1 DEF Enters, TypeOK
  <1>3. mutex' \in Tasks \cup {None}
    BY DEF Enters, Lock, TypeOK
  <1> QED
    BY <1>2, <1>3 DEF Enters, TypeOK, nodes, adm

\* The first step of every call keeps the types.
LEMMA BeginType ==
  ASSUME TypeOK, NEW t \in Tasks, Begin(t) PROVE TypeOK'
  <1>1. NoFlt \in 0 .. NFlt + 1 /\ AnyFlt \in 0 .. NFlt + 1 /\ Flts \subseteq 0 .. NFlt + 1
    BY AdvAssumption DEF NoFlt, AnyFlt, Flts
  <1>2. CASE BeginAllocChannel(t)
    BY <1>1, <1>2, EntersType DEF BeginAllocChannel, TypeOK, AllCalls, SharedCalls, SubmitCalls
  <1>3. CASE BeginDrain(t)
    BY <1>1, <1>3, EntersType DEF BeginDrain, TypeOK, AllCalls, SharedCalls
  <1>4. CASE BeginEnable(t)
    BY <1>1, <1>4, EntersType DEF BeginEnable, TypeOK, AllCalls, SharedCalls, SubmitCalls
  <1>5. CASE BeginDisable(t)
    BY <1>1, <1>5, EntersType DEF BeginDisable, TypeOK, AllCalls, SharedCalls
  <1>6. CASE BeginReset(t)
    BY <1>1, <1>6, EntersType DEF BeginReset, TypeOK, AllCalls
  <1>7. CASE BeginAllocFilter(t)
    <2>1. PICK c \in allocated, f \in Flts :
            /\ Enters(t, "alloc_filter", c, NoFlt)
            /\ sec_flt_msk' = [sec_flt_msk EXCEPT ![c] = @ \cup {f}]
            /\ UNCHANGED <<filtering, mask_en>>
      BY <1>7 DEF BeginAllocFilter
    <2>2. "alloc_filter" \in AllCalls
      BY DEF AllCalls, SharedCalls, SubmitCalls
    <2>3. c \in Ch /\ sec_flt_msk' \in [Ch -> SUBSET Flts]
      BY <2>1 DEF TypeOK
    <2>4. filtering' \subseteq Ch /\ mask_en' \in [Ch -> SUBSET Flts]
      BY <2>1 DEF TypeOK
    <2> QED
      BY <1>1, <2>1, <2>2, <2>3, <2>4, EntersType
  <1>8. CASE BeginFreeFilter(t)
    BY <1>1, <1>8, EntersType DEF BeginFreeFilter, TypeOK, AllCalls, SharedCalls
  <1>9. CASE BeginSetFilter(t)
    BY <1>1, <1>9, EntersType DEF BeginSetFilter, TypeOK, AllCalls, SharedCalls, SubmitCalls
  <1> QED
    BY <1>2, <1>3, <1>4, <1>5, <1>6, <1>7, <1>8, <1>9 DEF Begin

\* Leaving a call keeps the types.
LEMMA LeavesType ==
  ASSUME TypeOK, NEW t \in Tasks, Leaves(t)
  PROVE  /\ pc' \in [Tasks -> {"idle", "drain", "return", "init", "release"}]
         /\ op' \in [Tasks -> Calls] /\ mutex' \in Tasks \cup {None}
  BY NoCallType DEF Leaves, Unlock, TypeOK

\* The last step of a call keeps the types.
LEMMA EndType ==
  ASSUME TypeOK, Targets, NEW t \in Tasks, End(t) PROVE TypeOK'
  <1>0. op[t].ch \in Ch /\ op[t].flt \in 0 .. NFlt + 1 /\ op[t].ch \in Lists /\ Pool \in Lists
    BY DEF TypeOK, Calls, Lists
  <1>1. Leaves(t)
    BY DEF End, EndAllocChannel, EndFreeChannel, EndPlain, EndSetFilter, EndEnable, EndDisable, EndReset, Ends
  <1>2. /\ pc' \in [Tasks -> {"idle", "drain", "return", "init", "release"}]
        /\ op' \in [Tasks -> Calls] /\ mutex' \in Tasks \cup {None}
    BY <1>1, LeavesType
  <1>3. CASE EndAllocChannel(t)
    <2>1. CASE queue[Pool] = <<>>
      BY <1>2, <1>3, <2>1 DEF EndAllocChannel, Ends, TypeOK, adm
    <2>2. CASE queue[Pool] # <<>>
      <3>1. 1 \in 1 .. Len(queue[Pool]) /\ op[t].ch \in Places
        BY <1>0, <2>2 DEF TypeOK, Places
      <3>2. NodeGet(Pool, 1, op[t].ch)
        BY <1>3, <2>2 DEF EndAllocChannel
      <3>3. queue' \in [Lists -> Seq(Nodes)] /\ wk_buf' \in [Places -> Nodes \cup {None}]
        BY <1>0, <3>1, <3>2, NodeGetType
      <3> QED
        BY <1>0, <1>2, <1>3, <2>2, <3>3 DEF EndAllocChannel, Ends, TypeOK, adm, Places
    <2> QED
      BY <2>1, <2>2
  <1>4. CASE EndFreeChannel(t)
    <2>1. queue' \in [Lists -> Seq(Nodes)]
      BY <1>0, <1>4 DEF EndFreeChannel, TypeOK
    <2> QED
      BY <1>0, <1>2, <1>4, <2>1 DEF EndFreeChannel, InitialBuffer, TypeOK, adm
  <1>5. CASE EndPlain(t)
    BY <1>2, <1>5 DEF EndPlain, Ends, TypeOK, adm, channels
  <1>6. CASE EndSetFilter(t)
    <2>1. op[t].flt \in Flts
      BY <1>6 DEF EndSetFilter, Ends, Targets
    <2> QED
      BY <1>0, <1>2, <1>6, <2>1 DEF EndSetFilter, Ends, TypeOK, adm
  <1>7. CASE EndEnable(t)
    BY <1>0, <1>2, <1>7 DEF EndEnable, Ends, TypeOK, adm
  <1>8. CASE EndDisable(t)
    BY <1>0, <1>2, <1>8 DEF EndDisable, Ends, TypeOK, adm
  <1>9. CASE EndReset(t)
    BY <1>0, <1>2, <1>9 DEF EndReset, RestartFilter, Ends, TypeOK, adm
  <1> QED
    BY <1>3, <1>4, <1>5, <1>6, <1>7, <1>8, <1>9 DEF End

\* Draining, freeing a working buffer and adv_dmx_rel_sec keep the types.
LEMMA MoveType ==
  ASSUME TypeOK, Hands, NEW t \in Tasks,
         DrainGet(t) \/ DrainPut(t) \/ FreeWorkBuffer(t) \/ RelTest(t) \/ RelTake(t)
  PROVE  TypeOK'
  <1>0. op[t].ch \in Ch /\ op[t].ch \in Lists /\ op[t].ch \in Places /\ Pool \in Lists /\ t \in Places
    BY DEF TypeOK, Calls, Lists, Places
  <1>1. CASE DrainGet(t)
    <2>1. PICK i \in 1 .. NNodes : Found(op[t].ch, op[t].flt, i) /\ NodeGet(op[t].ch, i, t)
      BY <1>1 DEF DrainGet
    <2>2. queue' \in [Lists -> Seq(Nodes)] /\ wk_buf' \in [Places -> Nodes \cup {None}]
      BY <1>0, <2>1, NodeGetType DEF Found
    <2> QED
      BY <1>1, <2>2 DEF DrainGet, TypeOK, channels, adm, Places
  <1>2. CASE DrainPut(t)
    <2>1. wk_buf[t] # None /\ NodeReturn(Pool, t)
      BY <1>2 DEF DrainPut, Hands
    <2>2. queue' \in [Lists -> Seq(Nodes)] /\ wk_buf' \in [Places -> Nodes \cup {None}]
      BY <1>0, <2>1, NodeReturnType
    <2> QED
      BY <1>2, <2>2, NoCallType DEF DrainPut, TypeOK, channels, adm, Places
  <1>3. CASE FreeWorkBuffer(t)
    <2>1. wk_buf[op[t].ch] \in Nodes /\ queue[Pool] \in Seq(Nodes)
      BY <1>0, <1>3 DEF FreeWorkBuffer, TypeOK
    <2>2. queue' \in [Lists -> Seq(Nodes)]
      BY <1>0, <1>3, <2>1, AppendPlaces DEF FreeWorkBuffer, WorkBufferReturned, Returned, ListAddTail, TypeOK
    <2> QED
      BY <1>3, <2>2 DEF FreeWorkBuffer, TypeOK, channels, adm
  <1>4. CASE RelTest(t)
    <2>1. PICK c \in allocated, f \in {AnyFlt} \cup Flts :
            /\ pc' = [pc EXCEPT ![t] = "release"]
            /\ op' = [op EXCEPT ![t] = [call |-> "rel_sec", ch |-> c, flt |-> f, again |-> FALSE]]
            /\ calls' = calls + 1
            /\ UNCHANGED <<nodes, channels, mutex, adm, stored>>
      BY <1>4 DEF RelTest
    <2>2. [call |-> "rel_sec", ch |-> c, flt |-> f, again |-> FALSE] \in Calls
      BY AdvAssumption DEF TypeOK, Calls, AllCalls, AnyFlt, Flts
    <2>3. op' \in [Tasks -> Calls] /\ pc' \in [Tasks -> {"idle", "drain", "return", "init", "release"}]
      BY <2>1, <2>2 DEF TypeOK
    <2>4. UNCHANGED <<mutex, stored, nodes, channels, adm>> /\ calls' \in Nat
      BY <2>1 DEF TypeOK
    <2> QED
      BY <2>3, <2>4 DEF TypeOK, nodes, channels, adm
  <1>5. CASE RelTake(t)
    <2>1. queue' \in [Lists -> Seq(Nodes)] /\ wk_buf' \in [Places -> Nodes \cup {None}]
      <3>1. CASE UNCHANGED <<queue, wk_buf>>
        BY <3>1 DEF TypeOK, Places
      <3>2. CASE \E i \in 1 .. NNodes : Found(op[t].ch, op[t].flt, i) /\ NodeGet(op[t].ch, i, t)
        BY <1>0, <3>2, NodeGetType DEF Found
      <3> QED
        BY <1>5, <3>1, <3>2 DEF RelTake
    <2>2. pc' \in [Tasks -> {"idle", "drain", "return", "init", "release"}] /\ op' \in [Tasks -> Calls]
      BY <1>5, NoCallType DEF RelTake, TypeOK
    <2> QED
      BY <1>5, <2>1, <2>2 DEF RelTake, TypeOK, channels, adm, Places
  <1> QED
    BY <1>1, <1>2, <1>3, <1>4, <1>5

\* Every step keeps the types.
LEMMA TypeStep ==
  ASSUME TypeOK, Hands, Targets, [Next]_vars PROVE TypeOK'
  <1>1. CASE Next
    <2>1. CASE \E c \in Ch, f \in Flts : SecCb(c, f)
      BY <2>1, SecCbType
    <2>2. CASE AdmTask
      BY <2>2, AdmTaskType
    <2>3. CASE \E t \in Tasks : Begin(t) \/ Api(t) \/ RelTest(t)
      BY <2>3, BeginType, EndType, MoveType DEF Api
    <2> QED
      BY <1>1, <2>1, <2>2, <2>3 DEF Next
  <1>2. CASE UNCHANGED vars
    BY <1>2 DEF TypeOK, vars, nodes, channels, api, adm
  <1> QED
    BY <1>1, <1>2
------------------------------------------------------------------------------
(* Who is in which call. *)

Control == Hands /\ Exclusive /\ Targets /\ AdmOutside

\* No task is in a call after adv_dmx_init.
LEMMA InitControl == ASSUME Init PROVE Control
  BY DEF Init, Control, Hands, Exclusive, Targets, AdmOutside, NoCall, Tasks

\* A call is entered with the mutex, at a filter if it sets one.
LEMMA EntersControl ==
  ASSUME ~Reentrant, TypeOK, Control, NEW t \in Tasks, NEW kind, NEW c, NEW f, Enters(t, kind, c, f),
         kind \in {"set_filter", "reset_filter"} => f \in Flts
  PROVE  Control'
  <1>1. t # Adm /\ mutex = None /\ mutex' = t
    BY DEF Enters, May, Lock, Locked
  <1>2. op'[t].call = kind /\ op'[t].flt = f /\ pc'[t] = "drain"
    BY DEF Enters, TypeOK
  <1>3. \A s \in Tasks : s # t => op'[s] = op[s] /\ pc'[s] = pc[s]
    BY DEF Enters, TypeOK
  <1>4. Hands'
    BY <1>2, <1>3 DEF Enters, Control, Hands, nodes, adm
  <1>5. Exclusive'
    BY <1>1, <1>2, <1>3, AdvAssumption DEF Control, Exclusive
  <1>6. Targets'
    BY <1>2, <1>3 DEF Control, Targets
  <1>7. AdmOutside'
    BY <1>1, <1>3 DEF Control, AdmOutside, Tasks
  <1> QED
    BY <1>4, <1>5, <1>6, <1>7 DEF Control

\* The first step of every call keeps Control.
LEMMA BeginControl ==
  ASSUME ~Reentrant, TypeOK, Control, NEW t \in Tasks, Begin(t) PROVE Control'
  <1>1. CASE BeginAllocFilter(t)
    <2>1. PICK c \in allocated : Enters(t, "alloc_filter", c, NoFlt)
      BY <1>1 DEF BeginAllocFilter
    <2> QED
      BY <2>1, EntersControl
  <1>2. CASE BeginAllocChannel(t)
    BY <1>2, EntersControl DEF BeginAllocChannel
  <1>3. CASE BeginDrain(t) \/ BeginEnable(t) \/ BeginDisable(t) \/ BeginReset(t)
    BY <1>3, EntersControl DEF BeginDrain, BeginEnable, BeginDisable, BeginReset
  <1>4. CASE BeginFreeFilter(t)
    BY <1>4, EntersControl DEF BeginFreeFilter
  <1>5. CASE BeginSetFilter(t)
    BY <1>5, EntersControl DEF BeginSetFilter
  <1> QED
    BY <1>1, <1>2, <1>3, <1>4, <1>5 DEF Begin

\* The last step of a call lets the mutex go.
LEMMA EndControl ==
  ASSUME TypeOK, Control, NEW t \in Tasks, End(t) PROVE Control'
  <1>1. Leaves(t) /\ pc[t] # "idle" /\ op[t].call # "rel_sec"
    BY DEF End, EndAllocChannel, EndFreeChannel, EndPlain, EndSetFilter, EndEnable, EndDisable, EndReset,
           Ends, Control, Targets
  <1>2. t # Adm /\ mutex = t
    BY <1>1 DEF Control, AdmOutside, Exclusive
  <1>3. pc'[t] = "idle" /\ op'[t].call = "none"
    BY <1>1 DEF Leaves, TypeOK, NoCall
  <1>4. \A s \in Tasks : s # t => op'[s] = op[s] /\ pc'[s] = pc[s]
    BY <1>1 DEF Leaves, TypeOK
  <1>5. \A s \in Tasks : wk_buf'[s] = wk_buf[s]
    <2>1. op[t].ch \notin Tasks
      BY AdvAssumption DEF TypeOK, Calls
    <2> QED
      BY <2>1 DEF End, EndAllocChannel, EndFreeChannel, EndPlain, EndSetFilter, EndEnable, EndDisable,
                  EndReset, NodeGet, TypeOK
  <1>6. UNCHANGED adm
    BY DEF End, EndAllocChannel, EndFreeChannel, EndPlain, EndSetFilter, EndEnable, EndDisable, EndReset, Ends
  <1>7. Hands'
    BY <1>3, <1>4, <1>5, <1>6 DEF Control, Hands, adm, Tasks
  <1>8. Exclusive'
    BY <1>1, <1>2, <1>3, <1>4 DEF Control, Exclusive
  <1>9. Targets' /\ AdmOutside'
    BY <1>2, <1>3, <1>4 DEF Control, Targets, AdmOutside, Tasks
  <1> QED
    BY <1>7, <1>8, <1>9 DEF Control

\* Draining, freeing a working buffer and adv_dmx_rel_sec keep Control.
LEMMA MoveControl ==
  ASSUME ~Reentrant, TypeOK, Control, NEW t \in Tasks,
         DrainGet(t) \/ DrainPut(t) \/ FreeWorkBuffer(t) \/ RelTest(t) \/ RelTake(t)
  PROVE  Control'
  <1>0. None \notin Nodes /\ t \in Places
    BY DEF None, Nodes, Places
  <1>1. CASE DrainGet(t)
    <2>1. PICK i \in 1 .. NNodes : Found(op[t].ch, op[t].flt, i) /\ NodeGet(op[t].ch, i, t)
      BY <1>1 DEF DrainGet
    <2>2. op[t].ch \in Lists /\ i \in 1 .. Len(queue[op[t].ch])
      BY <2>1 DEF TypeOK, Calls, Lists, Found
    <2>3. wk_buf'[t] # None /\ \A s \in Tasks : s # t => wk_buf'[s] = wk_buf[s]
      BY <1>0, <2>1, <2>2, NodeGetType DEF NodeGet, TypeOK
    <2>4. /\ pc[t] = "drain" /\ pc' = [pc EXCEPT ![t] = "return"]
          /\ UNCHANGED <<mutex, op>> /\ UNCHANGED adm
      BY <1>1 DEF DrainGet
    <2>5. Hands'
      BY <2>3, <2>4 DEF Control, Hands, AdmOutside, TypeOK, adm, Tasks
    <2> QED
      BY <2>4, <2>5 DEF Control, Exclusive, Targets, AdmOutside, TypeOK
  <1>2. CASE DrainPut(t)
    <2>1. t # Adm /\ \A s \in Tasks : s # t => wk_buf'[s] = wk_buf[s]
      BY <1>2 DEF DrainPut, NodeReturn, TypeOK, Control, AdmOutside
    <2>2. UNCHANGED mutex /\ UNCHANGED adm /\ pc[t] = "return"
      BY <1>2 DEF DrainPut
    <2>3. \A s \in Tasks : s # t => op'[s] = op[s] /\ pc'[s] = pc[s]
      BY <1>2 DEF DrainPut, TypeOK
    <2>4. \/ op[t].call = "rel_sec" /\ pc'[t] = "idle" /\ op'[t].call = "none"
          \/ op[t].call # "rel_sec" /\ pc'[t] = "drain" /\ op'[t] = op[t]
      BY <1>2 DEF DrainPut, TypeOK, NoCall
    <2>5. Hands'
      BY <2>1, <2>2, <2>3, <2>4 DEF Control, Hands, adm, Tasks
    <2> QED
      BY <2>1, <2>2, <2>3, <2>4, <2>5 DEF Control, Exclusive, Targets, AdmOutside, Tasks
  <1>3. CASE FreeWorkBuffer(t)
    BY <1>3 DEF FreeWorkBuffer, Control, Hands, Exclusive, Targets, AdmOutside, TypeOK, adm, Tasks
  <1>4. CASE RelTest(t)
    <2>1. /\ May(t, "rel_sec") /\ UNCHANGED <<wk_buf, mutex, apc, peeked>>
          /\ pc' = [pc EXCEPT ![t] = "release"]
          /\ \E c, f : op' = [op EXCEPT ![t] = [call |-> "rel_sec", ch |-> c, flt |-> f, again |-> FALSE]]
      BY <1>4 DEF RelTest, nodes, adm
    <2>2. t # Adm /\ pc'[t] = "release" /\ op'[t].call = "rel_sec"
      BY <2>1 DEF May, TypeOK
    <2>3. \A s \in Tasks : s # t => op'[s] = op[s] /\ pc'[s] = pc[s]
      BY <2>1 DEF TypeOK
    <2> QED
      BY <2>1, <2>2, <2>3 DEF Control, Hands, Exclusive, Targets, AdmOutside, Tasks
  <1>5. CASE RelTake(t)
    <2>1. /\ pc[t] = "release" /\ UNCHANGED mutex /\ UNCHANGED adm /\ t # Adm
          /\ op[t].call = "rel_sec"
      BY <1>5 DEF RelTake, Control, AdmOutside, Targets
    <2>2. \A s \in Tasks : s # t => op'[s] = op[s] /\ pc'[s] = pc[s]
      BY <1>5 DEF RelTake, TypeOK
    <2>3. \/ pc'[t] = "return" /\ op'[t] = op[t] /\ wk_buf'[t] # None
          \/ pc'[t] = "idle" /\ op'[t].call = "none"
      <3>1. ASSUME NEW i \in 1 .. NNodes, Found(op[t].ch, op[t].flt, i), NodeGet(op[t].ch, i, t)
            PROVE  wk_buf'[t] # None
        <4>1. op[t].ch \in Lists /\ i \in 1 .. Len(queue[op[t].ch])
          BY <3>1 DEF TypeOK, Calls, Lists, Found
        <4> QED
          BY <1>0, <3>1, <4>1, NodeGetType DEF NodeGet, TypeOK
      <3> QED
        BY <1>5, <3>1 DEF RelTake, TypeOK, NoCall
    <2>4. \A s \in Tasks : s # t => wk_buf'[s] = wk_buf[s]
      BY <1>5 DEF RelTake, NodeGet, TypeOK
    <2>5. Hands'
      BY <2>1, <2>2, <2>3, <2>4 DEF Control, Hands, adm, Tasks
    <2> QED
      BY <2>1, <2>2, <2>3, <2>5 DEF Control, Exclusive, Targets, AdmOutside, Tasks
  <1> QED
    BY <1>1, <1>2, <1>3, <1>4, <1>5

\* The head of a list that is not empty is a node.
LEMMA HeadIsNode ==
  ASSUME TypeOK, NEW l \in Lists, queue[l] # <<>>
  PROVE  1 \in 1 .. Len(queue[l]) /\ queue[l][1] \in Nodes /\ queue[l][1] # None
  <1>1. queue[l] \in Seq(Nodes)
    BY DEF TypeOK
  <1>2. 1 \in 1 .. Len(queue[l]) /\ queue[l][1] \in Nodes
    BY <1>1
  <1> QED
    BY <1>2 DEF Nodes, None

\* adv_dmx_task takes what it has seen and returns what it has taken.
LEMMA AdmControl ==
  ASSUME TypeOK, Control, AdmTask PROVE Control'
  <1>1. UNCHANGED <<mutex, pc, op>>
    BY DEF AdmTask, AdmScan, AdmPeek, AdmCall, AdmReturn, AdmTake, AdmPut, api
  <1>2. Exclusive' /\ Targets' /\ AdmOutside'
    BY <1>1 DEF Control, Exclusive, Targets, AdmOutside
  <1>3. \A t \in Tasks : t # Adm => wk_buf'[t] = wk_buf[t]
    BY DEF AdmTask, AdmScan, AdmPeek, AdmCall, AdmReturn, AdmTake, AdmPut, NodeReturn, TypeOK, nodes
  <1>4. \A t \in Tasks : pc'[t] = "return" => wk_buf'[t] # None
    BY <1>1, <1>3 DEF Control, Hands, AdmOutside
  <1>5. apc' = "put" => wk_buf'[Adm] # None
    <2>1. CASE AdmTake
      <3>1. queue[ach] # <<>> => queue[ach][1] \in Nodes /\ queue[ach][1] # None
        BY HeadIsNode DEF TypeOK, Lists
      <3>2. apc' = "put" => queue[ach] # <<>> /\ queue[ach][1] = peeked
                             /\ wk_buf' = [wk_buf EXCEPT ![Adm] = peeked]
        BY <2>1 DEF AdmTake, Same, AdmGoes
      <3>3. apc' = "put" => wk_buf'[Adm] = peeked
        BY <3>2 DEF TypeOK, Tasks
      <3> HAVE apc' = "put"
      <3> QED
        BY <3>1, <3>2, <3>3
    <2>2. CASE AdmScan \/ AdmPeek \/ AdmCall \/ AdmReturn \/ AdmPut
      BY <2>2 DEF AdmScan, AdmPeek, AdmCall, AdmReturn, AdmPut, AdmGoes, NextChannel
    <2> QED
      BY <2>1, <2>2 DEF AdmTask
  <1>6. apc' = "call" => peeked' # None
    <2>1. queue[ach] # <<>> => queue[ach][1] \in Nodes /\ queue[ach][1] # None
      BY HeadIsNode DEF TypeOK, Lists
    <2>2. CASE AdmPeek
      BY <2>1, <2>2 DEF AdmPeek, AdmGoes, NextChannel
    <2>3. CASE AdmTake
      BY <2>3, Zenon DEF AdmTake, AdmGoes
    <2>4. CASE AdmScan \/ AdmCall \/ AdmReturn \/ AdmPut
      BY <2>4 DEF AdmScan, AdmCall, AdmReturn, AdmPut, AdmGoes, NextChannel
    <2> QED
      BY <2>2, <2>3, <2>4 DEF AdmTask
  <1> QED
    BY <1>2, <1>4, <1>5, <1>6 DEF Control, Hands

\* Every step keeps Control.
LEMMA ControlStep ==
  ASSUME ~Reentrant, TypeOK, Control, [Next]_vars PROVE Control'
  <1>1. CASE Next
    <2>1. CASE \E c \in Ch, f \in Flts : SecCb(c, f)
      BY <2>1 DEF SecCb, Control, Hands, Exclusive, Targets, AdmOutside, api, adm
    <2>2. CASE AdmTask
      BY <2>2, AdmControl
    <2>3. CASE \E t \in Tasks : Begin(t) \/ Api(t) \/ RelTest(t)
      BY <2>3, BeginControl, EndControl, MoveControl DEF Api
    <2> QED
      BY <1>1, <2>1, <2>2, <2>3 DEF Next
  <1>2. CASE UNCHANGED vars
    BY <1>2 DEF Control, Hands, Exclusive, Targets, AdmOutside, vars, nodes, api, adm
  <1> QED
    BY <1>1, <1>2
------------------------------------------------------------------------------
(* Every node in one place. *)

\* The hands of a well-typed state.
LEMMA HeldType ==
  ASSUME TypeOK PROVE Held \in [Places -> Nodes \cup {None}]
  BY DEF TypeOK, Held, Places

\* ... and so it is after a step.
LEMMA NodeOnceNext ==
  ASSUME TypeOK', Once(queue', Held') PROVE NodeOnce'
  <1>1. \A h \in Places, n \in Nodes : Holds(h, n)' <=> Held'[h] = n
    BY DEF Holds, Held, None, Nodes
  <1>2. \A l \in Lists : \A i \in 1 .. Len(queue'[l]) : queue'[l][i] \in Nodes
    BY DEF TypeOK
  <1> QED
    BY <1>1, <1>2 DEF NodeOnce, Once, Places

\* A step that leaves lists and hands alone leaves NodeOnce alone.
LEMMA OnceSame ==
  ASSUME TypeOK, TypeOK', NodeOnce, UNCHANGED <<queue, Held>> PROVE NodeOnce'
  <1>1. Once(queue', Held')
    BY NodeOnceIsOnce
  <1> QED
    BY <1>1, NodeOnceNext

\* adv_dmx_init deals the nodes out to the pool, once each.
LEMMA InitOnce == ASSUME Init PROVE NodeOnce
  <1>1. queue[Pool] = [i \in Nodes |-> i] /\ \A l \in Lists : l # Pool => queue[l] = <<>>
    BY DEF Init, Lists
  <1>2. Len(queue[Pool]) = NNodes /\ \A i \in 1 .. NNodes : queue[Pool][i] = i
    <2>1. Len([i \in 1 .. NNodes |-> i]) = NNodes
      BY AdvAssumption
    <2>2. queue[Pool] = [i \in 1 .. NNodes |-> i]
      BY <1>1 DEF Nodes
    <2> QED
      BY <2>1, <2>2
  <1>3. \A l \in Lists : \A i \in 1 .. Len(queue[l]) : l = Pool /\ i \in Nodes /\ queue[l][i] = i
    <2> TAKE l \in Lists
    <2>1. CASE l = Pool
      BY <1>2, <2>1 DEF Nodes
    <2>2. CASE l # Pool
      BY <1>1, <2>2
    <2> QED
      BY <2>1, <2>2
  <1>4. \A h \in Places : wk_buf[h] = None
    BY DEF Init, Places
  <1>5. \A h \in Places, n \in Nodes : ~Holds(h, n)
    BY <1>4 DEF Holds, Nodes, None
  <1> QED
    BY <1>3, <1>5 DEF NodeOnce, Places

\* What the step of a task does to Held, when the task is not resetting a channel.
LEMMA HeldAlone ==
  ASSUME TypeOK, NEW t \in Tasks, pc[t] # "init", pc'[t] # "init",
         \A s \in Tasks : s # t => op'[s] = op[s] /\ pc'[s] = pc[s]
  PROVE  /\ \A h \in Places : Freed(h)' <=> Freed(h)
         /\ Held' = [h \in Places |-> IF Freed(h) THEN None ELSE wk_buf'[h]]
  <1>1. \A h \in Places : Freed(h)' <=> Freed(h)
    BY DEF Freed
  <1> QED
    BY <1>1 DEF Held

\* The hands are those of wk_buf: only channels are reset.
LEMMA TaskHolds ==
  ASSUME TypeOK, NEW t \in Tasks
  PROVE  ~Freed(t) /\ Held[t] = wk_buf[t]
  <1>1. ~Freed(t)
    BY AdvAssumption DEF TypeOK, Calls, Freed
  <1> QED
    BY <1>1 DEF Held, Places

\* No channel is being reset while a call other than adv_dmx_free_channel's reset
\* has the mutex.
LEMMA NoneFreed ==
  ASSUME TypeOK, Control, NEW t \in Tasks, pc[t] \notin {"idle", "init"}, op[t].call # "rel_sec"
  PROVE  \A h \in Places : ~Freed(h)
  <1>1. mutex = t
    BY DEF Control, Exclusive
  <1>2. \A s \in Tasks : pc[s] = "init" => mutex = s
    BY DEF Control, Exclusive, Targets
  <1> QED
    BY <1>1, <1>2 DEF Freed

\* Taking a node from a list into a hand.
LEMMA GetOnce ==
  ASSUME TypeOK, TypeOK', NodeOnce, NEW l \in Lists, NEW i \in 1 .. Len(queue[l]), NEW h \in Places,
         queue' = [queue EXCEPT ![l] = Unlink(@, i)], Held' = [Held EXCEPT ![h] = queue[l][i]]
  PROVE  NodeOnce'
  <1>1. Held \in [Places -> Nodes \cup {None}] /\ queue \in [Lists -> Seq(Nodes)] /\ Once(queue, Held)
    BY HeldType, NodeOnceIsOnce DEF TypeOK
  <1>2. queue' \in [Lists -> Seq(Nodes)] /\ queue[l][i] \in Nodes
        /\ Once(queue', Held) /\ Absent(queue', Held, queue[l][i])
    BY <1>1, OnceUnlink
  <1>3. Once(queue', [Held EXCEPT ![h] = queue[l][i]])
    BY <1>1, <1>2, OnceHold
  <1> QED
    BY <1>3, NodeOnceNext

\* Returning a node from a hand to a list.
LEMMA PutOnce ==
  ASSUME TypeOK, TypeOK', NodeOnce, NEW l \in Lists, NEW h \in Places, Held[h] # None,
         queue' = [queue EXCEPT ![l] = Append(@, Held[h])], Held' = [Held EXCEPT ![h] = None]
  PROVE  NodeOnce'
  <1>1. Held \in [Places -> Nodes \cup {None}] /\ queue \in [Lists -> Seq(Nodes)] /\ Once(queue, Held)
    BY HeldType, NodeOnceIsOnce DEF TypeOK
  <1>2. /\ Held[h] \in Nodes /\ Held' \in [Places -> Nodes \cup {None}]
        /\ Once(queue, Held') /\ Absent(queue, Held', Held[h])
    BY <1>1, OnceRelease
  <1>3. Once(queue', Held')
    BY <1>1, <1>2, OnceAppend
  <1> QED
    BY <1>3, NodeOnceNext

\* The demux driver's callback moves a node from the pool to a channel.
LEMMA SecCbOnce ==
  ASSUME TypeOK, TypeOK', NodeOnce, NEW c \in Ch, NEW f \in Flts, SecCb(c, f) PROVE NodeOnce'
  <1> DEFINE n == queue[Pool][1]
             q == [queue EXCEPT ![Pool] = Unlink(@, 1)]
  <1>1. Held \in [Places -> Nodes \cup {None}] /\ queue \in [Lists -> Seq(Nodes)] /\ Once(queue, Held)
    BY HeldType, NodeOnceIsOnce DEF TypeOK
  <1>2. Pool \in Lists /\ c \in Lists /\ c # Pool
    BY DEF Lists, Pool, Ch
  <1>3. 1 \in 1 .. Len(queue[Pool])
    BY <1>2, HeadIsNode DEF SecCb
  <1>4. q \in [Lists -> Seq(Nodes)] /\ n \in Nodes /\ Once(q, Held) /\ Absent(q, Held, n)
    BY <1>1, <1>2, <1>3, OnceUnlink
  <1>5. queue' = [q EXCEPT ![c] = Append(@, n)]
    BY <1>2 DEF SecCb, Returned, ListAddTail, TypeOK
  <1>6. Once(queue', Held)
    BY <1>1, <1>2, <1>4, <1>5, OnceAppend
  <1>7. Held' = Held
    BY DEF SecCb, api, Held, Freed
  <1> QED
    BY <1>6, <1>7, NodeOnceNext

\* adv_dmx_task moves a node it was shown through its hand, and drops another.
LEMMA AdmOnce ==
  ASSUME TypeOK, TypeOK', NodeOnce, Control, AdmTask PROVE NodeOnce'
  <1>1. ach \in Lists /\ Pool \in Lists /\ Adm \in Tasks /\ Adm \in Places
    BY DEF TypeOK, Lists, Tasks, Places
  <1>2. Held' = [h \in Places |-> IF Freed(h) THEN None ELSE wk_buf'[h]] /\ ~Freed(Adm)
    <2>1. UNCHANGED <<pc, op>>
      BY DEF AdmTask, AdmScan, AdmPeek, AdmCall, AdmReturn, AdmTake, AdmPut, api
    <2>2. \A h \in Places : Freed(h)' <=> Freed(h)
      BY <2>1 DEF Freed
    <2> QED
      BY <1>1, <2>2, TaskHolds DEF Held
  <1>3. CASE AdmScan \/ AdmPeek \/ AdmCall \/ AdmReturn
    <2>1. UNCHANGED <<queue, wk_buf>>
      BY <1>3 DEF AdmScan, AdmPeek, AdmCall, AdmReturn, nodes
    <2> QED
      BY <1>2, <2>1, OnceSame DEF Held
  <1>4. CASE AdmTake
    <2>1. CASE UNCHANGED <<queue, wk_buf>>
      BY <1>2, <2>1, OnceSame DEF Held
    <2>2. CASE queue[ach] # <<>> /\ queue[ach][1] = peeked
      <3>1. 1 \in 1 .. Len(queue[ach])
        BY <1>1, <2>2, HeadIsNode
      <3>2. queue' = [queue EXCEPT ![ach] = Unlink(@, 1)] /\ wk_buf' = [wk_buf EXCEPT ![Adm] = queue[ach][1]]
        BY <1>4, <2>2 DEF AdmTake, Same
      <3>3. Held' = [Held EXCEPT ![Adm] = queue[ach][1]]
        BY <1>1, <1>2, <3>2 DEF Held, TypeOK, Places
      <3> QED
        BY <1>1, <3>1, <3>2, <3>3, GetOnce
    <2>3. CASE queue[ach] # <<>> /\ queue[ach][1] # peeked
      <3>1. 1 \in 1 .. Len(queue[ach])
        BY <1>1, <2>3, HeadIsNode
      <3>2. queue' = [queue EXCEPT ![ach] = Unlink(@, 1)] /\ wk_buf' = wk_buf
        BY <1>4, <2>3 DEF AdmTake, Same
      <3>3. Held \in [Places -> Nodes \cup {None}] /\ queue \in [Lists -> Seq(Nodes)] /\ Once(queue, Held)
        BY HeldType, NodeOnceIsOnce DEF TypeOK
      <3>4. Once(queue', Held)
        BY <1>1, <3>1, <3>2, <3>3, OnceUnlink
      <3>5. Held' = Held
        BY <1>2, <3>2 DEF Held
      <3> QED
        BY <3>4, <3>5, NodeOnceNext
    <2>4. CASE queue[ach] = <<>>
      BY <1>4, <2>1, <2>4 DEF AdmTake
    <2> QED
      BY <2>2, <2>3, <2>4
  <1>5. CASE AdmPut
    <2>1. Held[Adm] = wk_buf[Adm] /\ wk_buf[Adm] # None
      BY <1>1, <1>5, TaskHolds DEF AdmPut, Control, Hands
    <2>2. queue' = [queue EXCEPT ![Pool] = Append(@, Held[Adm])] /\ wk_buf' = [wk_buf EXCEPT ![Adm] = None]
      BY <1>5, <2>1 DEF AdmPut, NodeReturn, Returned, ListAddTail
    <2>3. Held' = [Held EXCEPT ![Adm] = None]
      BY <1>1, <1>2, <2>2 DEF Held, TypeOK, Places
    <2> QED
      BY <1>1, <2>1, <2>2, <2>3, PutOnce
  <1> QED
    BY <1>3, <1>4, <1>5 DEF AdmTask

\* Entering a call moves nothing.
LEMMA BeginOnce ==
  ASSUME TypeOK, TypeOK', NodeOnce, NEW t \in Tasks, Begin(t) PROVE NodeOnce'
  <1>1. /\ UNCHANGED <<queue, wk_buf>> /\ pc[t] = "idle" /\ pc' = [pc EXCEPT ![t] = "drain"]
        /\ \E o : op' = [op EXCEPT ![t] = o]
    <2>1. \E kind, c, f : Enters(t, kind, c, f)
      BY DEF Begin, BeginAllocChannel, BeginDrain, BeginEnable, BeginDisable, BeginReset,
             BeginAllocFilter, BeginFreeFilter, BeginSetFilter
    <2> QED
      BY <2>1 DEF Enters, May, nodes
  <1>2. pc'[t] = "drain" /\ \A s \in Tasks : s # t => op'[s] = op[s] /\ pc'[s] = pc[s]
    BY <1>1 DEF TypeOK
  <1>3. Held' = Held
    BY <1>1, <1>2, HeldAlone DEF Held
  <1> QED
    BY <1>1, <1>3, OnceSame

\* Draining and adv_dmx_rel_sec move a node from a list into the task's hand and on
\* to the pool; adv_dmx_free_channel moves the channel's working buffer.
LEMMA MoveOnce ==
  ASSUME TypeOK, TypeOK', NodeOnce, Control, NEW t \in Tasks,
         DrainGet(t) \/ DrainPut(t) \/ FreeWorkBuffer(t) \/ RelTest(t) \/ RelTake(t)
  PROVE  NodeOnce'
  <1>1. op[t].ch \in Ch /\ op[t].ch \in Lists /\ op[t].ch \in Places /\ Pool \in Lists /\ t \in Places
    BY DEF TypeOK, Calls, Lists, Places
  <1>2. ~Freed(t) /\ Held[t] = wk_buf[t]
    BY TaskHolds
  <1>3. CASE DrainGet(t)
    <2>1. PICK i \in 1 .. NNodes : Found(op[t].ch, op[t].flt, i) /\ NodeGet(op[t].ch, i, t)
      BY <1>3 DEF DrainGet
    <2>2. i \in 1 .. Len(queue[op[t].ch])
      BY <2>1 DEF Found
    <2>3. Held' = [h \in Places |-> IF Freed(h) THEN None ELSE wk_buf'[h]]
      BY <1>3, HeldAlone DEF DrainGet, TypeOK
    <2>4. Held' = [Held EXCEPT ![t] = queue[op[t].ch][i]]
      BY <1>1, <1>2, <2>1, <2>3 DEF NodeGet, Held, TypeOK, Places
    <2> QED
      BY <1>1, <2>1, <2>2, <2>4, GetOnce DEF NodeGet
  <1>4. CASE DrainPut(t)
    <2>1. Held[t] # None
      BY <1>2, <1>4 DEF DrainPut, Control, Hands
    <2>2. pc[t] # "init" /\ pc'[t] # "init" /\ \A s \in Tasks : s # t => op'[s] = op[s] /\ pc'[s] = pc[s]
      BY <1>4 DEF DrainPut, TypeOK
    <2>3. Held' = [h \in Places |-> IF Freed(h) THEN None ELSE wk_buf'[h]]
      BY <2>2, HeldAlone
    <2>4. queue' = [queue EXCEPT ![Pool] = Append(@, Held[t])] /\ wk_buf' = [wk_buf EXCEPT ![t] = None]
      BY <1>2, <1>4 DEF DrainPut, NodeReturn, Returned, ListAddTail
    <2>5. Held' = [Held EXCEPT ![t] = None]
      BY <1>1, <1>2, <2>3, <2>4 DEF Held, TypeOK, Places
    <2> QED
      BY <1>1, <2>1, <2>4, <2>5, PutOnce
  <1>5. CASE FreeWorkBuffer(t)
    <2> DEFINE c == op[t].ch
    <2>1. pc[t] = "drain" /\ op[t].call = "free_channel" /\ wk_buf[c] # None
          /\ pc' = [pc EXCEPT ![t] = "init"] /\ UNCHANGED <<op, wk_buf>>
      BY <1>5 DEF FreeWorkBuffer
    <2>2. \A h \in Places : ~Freed(h)
      BY <2>1, NoneFreed
    <2>3. Held[c] = wk_buf[c]
      BY <1>1, <2>2 DEF Held
    <2>4. queue' = [queue EXCEPT ![Pool] = Append(@, Held[c])]
      BY <1>5, <2>3 DEF FreeWorkBuffer, WorkBufferReturned, Returned, ListAddTail
    <2>5. \A h \in Places : Freed(h)' <=> h = c
      <3>1. pc'[t] = "init" /\ \A s \in Tasks : s # t => pc'[s] = pc[s]
        BY <2>1 DEF TypeOK
      <3> QED
        BY <2>1, <2>2, <3>1 DEF Freed
    <2>6. Held' = [Held EXCEPT ![c] = None]
      BY <1>1, <2>1, <2>2, <2>5 DEF Held
    <2> QED
      BY <1>1, <2>1, <2>3, <2>4, <2>6, PutOnce
  <1>6. CASE RelTest(t)
    <2>1. /\ UNCHANGED <<queue, wk_buf>> /\ pc[t] = "idle" /\ pc' = [pc EXCEPT ![t] = "release"]
          /\ \E o : op' = [op EXCEPT ![t] = o]
      BY <1>6 DEF RelTest, May, nodes
    <2>2. pc'[t] = "release" /\ \A s \in Tasks : s # t => op'[s] = op[s] /\ pc'[s] = pc[s]
      BY <2>1 DEF TypeOK
    <2>3. Held' = Held
      BY <2>1, <2>2, HeldAlone DEF Held
    <2> QED
      BY <2>1, <2>3, OnceSame
  <1>7. CASE RelTake(t)
    <2>1. pc[t] # "init" /\ pc'[t] # "init" /\ \A s \in Tasks : s # t => op'[s] = op[s] /\ pc'[s] = pc[s]
      BY <1>7 DEF RelTake, TypeOK
    <2>2. Held' = [h \in Places |-> IF Freed(h) THEN None ELSE wk_buf'[h]]
      BY <2>1, HeldAlone
    <2>3. CASE UNCHANGED <<queue, wk_buf>>
      <3>1. Held' = Held
        BY <2>2, <2>3 DEF Held
      <3> QED
        BY <2>3, <3>1, OnceSame
    <2>4. CASE \E i \in 1 .. NNodes : Found(op[t].ch, op[t].flt, i) /\ NodeGet(op[t].ch, i, t)
      <3>1. PICK i \in 1 .. NNodes : Found(op[t].ch, op[t].flt, i) /\ NodeGet(op[t].ch, i, t)
        BY <2>4
      <3>2. i \in 1 .. Len(queue[op[t].ch])
        BY <3>1 DEF Found
      <3>3. Held' = [Held EXCEPT ![t] = queue[op[t].ch][i]]
        BY <1>1, <1>2, <2>2, <3>1 DEF NodeGet, Held, TypeOK, Places
      <3> QED
        BY <1>1, <3>1, <3>2, <3>3, GetOnce DEF NodeGet
    <2> QED
      BY <1>7, <2>3, <2>4 DEF RelTake
  <1> QED
    BY <1>3, <1>4, <1>5, <1>6, <1>7

\* The last step of a call gives a channel its working buffer, resets a channel or
\* moves nothing.
LEMMA EndOnce ==
  ASSUME TypeOK, TypeOK', NodeOnce, Control, NEW t \in Tasks, End(t) PROVE NodeOnce'
  <1>1. op[t].ch \in Ch /\ op[t].ch \in Lists /\ op[t].ch \in Places /\ Pool \in Lists
    BY DEF TypeOK, Calls, Lists, Places
  <1>2. Leaves(t)
    BY DEF End, EndAllocChannel, EndFreeChannel, EndPlain, EndSetFilter, EndEnable, EndDisable, EndReset, Ends
  <1>3. pc'[t] = "idle" /\ \A s \in Tasks : s # t => op'[s] = op[s] /\ pc'[s] = pc[s]
    BY <1>2 DEF Leaves, TypeOK
  <1>4. CASE UNCHANGED <<queue, wk_buf>> /\ pc[t] # "init"
    <2>1. Held' = Held
      BY <1>3, <1>4, HeldAlone DEF Held
    <2> QED
      BY <1>4, <2>1, OnceSame
  <1>5. CASE EndPlain(t) \/ EndSetFilter(t) \/ EndEnable(t) \/ EndDisable(t) \/ EndReset(t)
    BY <1>4, <1>5 DEF EndPlain, EndSetFilter, EndEnable, EndDisable, EndReset, Ends
  <1>6. CASE EndAllocChannel(t)
    <2>1. pc[t] = "drain" /\ op[t].call = "alloc_channel"
      BY <1>6 DEF EndAllocChannel, Ends
    <2>2. CASE queue[Pool] = <<>>
      BY <1>4, <1>6, <2>1, <2>2 DEF EndAllocChannel
    <2>3. CASE queue[Pool] # <<>>
      <3>1. 1 \in 1 .. Len(queue[Pool])
        BY <1>1, <2>3, HeadIsNode
      <3>2. NodeGet(Pool, 1, op[t].ch)
        BY <1>6, <2>3 DEF EndAllocChannel
      <3>3. \A h \in Places : ~Freed(h)
        BY <2>1, NoneFreed
      <3>4. Held' = [h \in Places |-> IF Freed(h) THEN None ELSE wk_buf'[h]]
        BY <1>3, <2>1, HeldAlone
      <3>5. Held' = [Held EXCEPT ![op[t].ch] = queue[Pool][1]]
        BY <1>1, <3>2, <3>3, <3>4 DEF NodeGet, Held, TypeOK, Places
      <3> QED
        BY <1>1, <3>1, <3>2, <3>5, GetOnce DEF NodeGet
    <2> QED
      BY <2>2, <2>3
  <1>7. CASE EndFreeChannel(t)
    <2> DEFINE c == op[t].ch
    <2>1. pc[t] = "init" /\ queue' = [queue EXCEPT ![c] = <<>>] /\ wk_buf' = [wk_buf EXCEPT ![c] = None]
      BY <1>7 DEF EndFreeChannel, InitialBuffer
    <2>2. \A h \in Places : h # c => (Freed(h)' <=> Freed(h))
      BY <1>3 DEF Freed
    <2>3. Freed(c)
      BY <2>1 DEF Freed
    <2>4. wk_buf'[c] = None /\ \A h \in Places : h # c => wk_buf'[h] = wk_buf[h]
      BY <1>1, <2>1 DEF TypeOK, Places
    <2>5. Held' = Held
      BY <1>1, <2>2, <2>3, <2>4 DEF Held
    <2>6. Once(queue', Held)
      <3>1. Held \in [Places -> Nodes \cup {None}] /\ queue \in [Lists -> Seq(Nodes)] /\ Once(queue, Held)
        BY HeldType, NodeOnceIsOnce DEF TypeOK
      <3> QED
        BY <1>1, <2>1, <3>1, OnceEmpty
    <2> QED
      BY <2>5, <2>6, NodeOnceNext
  <1> QED
    BY <1>5, <1>6, <1>7 DEF End
------------------------------------------------------------------------------
(* The theorems. *)

\* IInv is inductive as long as no callback calls the API.
LEMMA Inductive ==
  ASSUME ~Reentrant, IInv, [Next]_vars PROVE IInv'
  <1>1. TypeOK /\ Control /\ NodeOnce
    BY DEF IInv, Control
  <1>2. TypeOK'
    BY <1>1, TypeStep DEF Control
  <1>3. Control'
    BY <1>1, ControlStep
  <1>4. NodeOnce'
    <2>1. CASE Next
      <3>1. CASE \E c \in Ch, f \in Flts : SecCb(c, f)
        BY <1>1, <1>2, <3>1, SecCbOnce
      <3>2. CASE AdmTask
        BY <1>1, <1>2, <3>2, AdmOnce
      <3>3. CASE \E t \in Tasks : Begin(t) \/ Api(t) \/ RelTest(t)
        BY <1>1, <1>2, <3>3, BeginOnce, MoveOnce, EndOnce DEF Api
      <3> QED
        BY <2>1, <3>1, <3>2, <3>3 DEF Next
    <2>2. CASE UNCHANGED vars
      <3>1. UNCHANGED <<queue, Held>>
        BY <2>2 DEF vars, nodes, api, Held, Freed
      <3> QED
        BY <1>1, <1>2, <3>1, OnceSame
    <2> QED
      BY <2>1, <2>2
  <1> QED
    BY <1>2, <1>3, <1>4 DEF IInv, Control

\* The inductive invariant holds from the start.
LEMMA Invariant == ASSUME ~Reentrant PROVE Spec => []IInv
  <1>1. Init => IInv
    BY InitType, InitControl, InitOnce DEF IInv, Control
  <1>2. IInv /\ [Next]_vars => IInv'
    BY Inductive
  <1> QED
    BY <1>1, <1>2, PTL DEF Spec

\* The lists, channels and calls of dmx_adv.c stay well-typed, whatever the number
\* of channels, buffers, filters and tasks.
THEOREM TypeCorrect == ASSUME ~Reentrant PROVE Spec => []TypeOK
  <1>1. IInv => TypeOK
    BY DEF IInv
  <1> QED
    BY <1>1, Invariant, PTL

\* A section buffer is never in two places, whatever the number of channels, buffers,
\* filters and tasks: no list is corrupted by the driver, adv_dmx_task and the API.
THEOREM NodesAreOnce == ASSUME ~Reentrant PROVE Spec => []NodeOnce
  <1>1. IInv => NodeOnce
    BY DEF IInv
  <1> QED
    BY <1>1, Invariant, PTL
------------------------------------------------------------------------------
(***************************************************************************)
(* The filters and the working buffers stand on the invariant above: its   *)
(* Exclusive says that no two calls change a channel's filters at once,    *)
(* its NodeOnce that the buffer the driver's callback fills is on no       *)
(* channel's list.                                                         *)
(***************************************************************************)
\* adv_dmx_set_filter is at a filter that is still allocated when it says it is set.
Setting ==
  \A t \in Tasks :
    pc[t] # "idle" /\ op[t].call \in {"set_filter", "reset_filter"}
      => op[t].flt \in sec_flt_msk[op[t].ch]

InUse(c, f) == f \in mask_en[c] \/ Drains(c, f)

\* The sections on a channel's list are of filters in use.
ListedInUse == \A c \in Ch, n \in Nodes : On(n, c) => InUse(c, flt[n])

FInv == WorkBuffer /\ EnabledAllocated /\ Setting /\ ListedInUse
------------------------------------------------------------------------------
\* The nodes left on a list from which one was taken were on it.
LEMMA UnlinkOn ==
  ASSUME TypeOK, NEW l \in Lists, NEW i \in 1 .. Len(queue[l]),
         queue' = [queue EXCEPT ![l] = Unlink(@, i)]
  PROVE  \A c \in Ch, n \in Nodes : On(n, c)' => On(n, c)
  <1> SUFFICES ASSUME NEW c \in Ch, NEW n \in Nodes, NEW j \in 1 .. Len(queue'[c]), queue'[c][j] = n
               PROVE  On(n, c)
    BY DEF On
  <1>1. c \in Lists /\ queue[c] \in Seq(Nodes) /\ queue[l] \in Seq(Nodes)
    BY DEF TypeOK, Lists
  <1>2. CASE c # l
    BY <1>1, <1>2 DEF On, TypeOK
  <1>3. CASE c = l
    <2>1. queue'[c] = Unlink(queue[c], i)
      BY <1>1, <1>3 DEF TypeOK
    <2>2. /\ Len(Unlink(queue[c], i)) = Len(queue[c]) - 1
          /\ \A k \in 1 .. Len(queue[c]) - 1 :
               Unlink(queue[c], i)[k] = IF k < i THEN queue[c][k] ELSE queue[c][k + 1]
      BY <1>1, <1>3, UnlinkProperties
    <2>3. j \in 1 .. Len(queue[c]) - 1 /\ j \in 1 .. Len(queue[c]) /\ j + 1 \in 1 .. Len(queue[c])
      BY <1>1, <2>1, <2>2
    <2>4. n = queue[c][j] \/ n = queue[c][j + 1]
      BY <2>1, <2>2, <2>3
    <2> QED
      BY <2>3, <2>4 DEF On
  <1> QED
    BY <1>2, <1>3

\* What happens to the pool puts no node on a channel's list.
LEMMA PoolOn ==
  ASSUME TypeOK, NEW q, queue' = [queue EXCEPT ![Pool] = q]
  PROVE  \A c \in Ch, n \in Nodes : On(n, c)' => On(n, c)
  <1>1. \A c \in Ch : queue'[c] = queue[c]
    BY DEF TypeOK, Lists, Pool, Ch
  <1> QED
    BY <1>1 DEF On

\* The steps that are not the driver's callback put no node on a channel's list
\* and leave the filters of the sections alone.
LEMMA ListsShrink ==
  ASSUME TypeOK, AdmTask \/ \E t \in Tasks : Begin(t) \/ Api(t) \/ RelTest(t)
  PROVE  flt' = flt /\ \A c \in Ch, n \in Nodes : On(n, c)' => On(n, c)
  <1>0. Pool \in Lists /\ ach \in Lists /\ \A t \in Tasks : op[t].ch \in Lists
    BY DEF TypeOK, Calls, Lists
  <1>1. CASE AdmTask
    <2>1. flt' = flt
      BY <1>1 DEF AdmTask, AdmScan, AdmPeek, AdmCall, AdmReturn, AdmTake, AdmPut, nodes
    <2>2. CASE AdmPut
      BY <2>1, <2>2, PoolOn DEF AdmPut, NodeReturn
    <2>3. CASE AdmTake
      <3>1. CASE queue[ach] = <<>>
        BY <2>1, <2>3, <3>1 DEF AdmTake, On
      <3>2. CASE queue[ach] # <<>>
        BY <1>0, <2>1, <2>3, <3>2, HeadIsNode, UnlinkOn DEF AdmTake
      <3> QED
        BY <3>1, <3>2
    <2>4. CASE AdmScan \/ AdmPeek \/ AdmCall \/ AdmReturn
      BY <2>1, <2>4 DEF AdmScan, AdmPeek, AdmCall, AdmReturn, nodes, On
    <2> QED
      BY <1>1, <2>2, <2>3, <2>4 DEF AdmTask
  <1>2. CASE \E t \in Tasks : Begin(t)
    <2>1. UNCHANGED <<queue, flt>>
      BY <1>2 DEF Begin, BeginAllocChannel, BeginDrain, BeginEnable, BeginDisable, BeginReset,
             BeginAllocFilter, BeginFreeFilter, BeginSetFilter, Enters, nodes
    <2> QED
      BY <2>1 DEF On
  <1>3. ASSUME NEW t \in Tasks, DrainGet(t) PROVE flt' = flt /\ \A c \in Ch, n \in Nodes : On(n, c)' => On(n, c)
    BY <1>0, <1>3, UnlinkOn DEF DrainGet, Found, NodeGet
  <1>4. ASSUME NEW t \in Tasks, RelTest(t) \/ RelTake(t)
        PROVE  flt' = flt /\ \A c \in Ch, n \in Nodes : On(n, c)' => On(n, c)
    <2>1. flt' = flt /\ (queue' = queue \/ \E i \in 1 .. NNodes :
            i \in 1 .. Len(queue[op[t].ch]) /\ queue' = [queue EXCEPT ![op[t].ch] = Unlink(@, i)])
      BY <1>4 DEF RelTest, RelTake, Found, NodeGet, nodes
    <2> QED
      BY <1>0, <2>1, UnlinkOn DEF On
  <1>5. ASSUME NEW t \in Tasks, DrainPut(t) PROVE flt' = flt /\ \A c \in Ch, n \in Nodes : On(n, c)' => On(n, c)
    BY <1>5, PoolOn DEF DrainPut, NodeReturn
  <1>6. ASSUME NEW t \in Tasks, FreeWorkBuffer(t) PROVE flt' = flt /\ \A c \in Ch, n \in Nodes : On(n, c)' => On(n, c)
    BY <1>6, PoolOn DEF FreeWorkBuffer
  <1>7. ASSUME NEW t \in Tasks, EndAllocChannel(t) PROVE flt' = flt /\ \A c \in Ch, n \in Nodes : On(n, c)' => On(n, c)
    <2>1. flt' = flt /\ (queue' = queue \/ queue' = [queue EXCEPT ![Pool] = Unlink(@, 1)])
      BY <1>7 DEF EndAllocChannel, Ends, NodeGet
    <2>2. queue' = [queue EXCEPT ![Pool] = Unlink(@, 1)] => queue' = [queue EXCEPT ![Pool] = Unlink(queue[Pool], 1)]
      BY <1>0 DEF TypeOK
    <2> QED
      BY <2>1, <2>2, PoolOn DEF On
  <1>8. ASSUME NEW t \in Tasks, EndFreeChannel(t) PROVE flt' = flt /\ \A c \in Ch, n \in Nodes : On(n, c)' => On(n, c)
    <2>1. flt' = flt /\ queue' = [queue EXCEPT ![op[t].ch] = <<>>]
      BY <1>8 DEF EndFreeChannel
    <2>2. \A c \in Ch : queue'[c] = queue[c] \/ queue'[c] = <<>>
      BY <2>1, <1>0 DEF TypeOK, Lists
    <2> QED
      BY <2>1, <2>2 DEF On
  <1>9. ASSUME NEW t \in Tasks,
               EndPlain(t) \/ EndSetFilter(t) \/ EndEnable(t) \/ EndDisable(t) \/ EndReset(t)
        PROVE  flt' = flt /\ \A c \in Ch, n \in Nodes : On(n, c)' => On(n, c)
    BY <1>9 DEF EndPlain, EndSetFilter, EndEnable, EndDisable, EndReset, Ends, On
  <1> QED
    BY <1>1, <1>2, <1>3, <1>4, <1>5, <1>6, <1>7, <1>8, <1>9 DEF Api, End
------------------------------------------------------------------------------
(* The driver's callback and adv_dmx_task. *)

\* A step of adv_dmx_task keeps FInv.
LEMMA AdmFilters ==
  ASSUME TypeOK, FInv, AdmTask PROVE FInv'
  <1>1. UNCHANGED <<pc, op, allocated, sec_flt_msk, mask_en>>
    BY DEF AdmTask, AdmScan, AdmPeek, AdmCall, AdmReturn, AdmTake, AdmPut, api, channels
  <1>2. \A c \in Ch : wk_buf'[c] = wk_buf[c]
    BY AdvAssumption DEF AdmTask, AdmScan, AdmPeek, AdmCall, AdmReturn, AdmTake, AdmPut, NodeReturn, nodes,
                         TypeOK, Tasks
  <1>3. ListedInUse'
    BY <1>1, ListsShrink DEF FInv, ListedInUse, InUse, Drains
  <1> QED
    BY <1>1, <1>2, <1>3 DEF FInv, WorkBuffer, EnabledAllocated, Setting

\* The demux driver's callback fills a buffer that no channel has, for a filter that is set.
LEMMA SecCbFilters ==
  ASSUME TypeOK, TypeOK', NodeOnce, FInv, NEW c \in Ch, NEW f \in Flts, SecCb(c, f) PROVE FInv'
  <1> DEFINE n == queue[Pool][1]
  <1>0. Pool \in Lists /\ c \in Lists /\ c # Pool
    BY DEF Lists, Pool, Ch
  <1>1. UNCHANGED <<wk_buf, pc, op, allocated, sec_flt_msk, mask_en>>
    BY DEF SecCb, api, channels
  <1>2. 1 \in 1 .. Len(queue[Pool]) /\ n \in Nodes /\ queue[c] \in Seq(Nodes)
    BY <1>0, HeadIsNode DEF SecCb, TypeOK
  <1>3. \A d \in Ch : d \in Lists /\ d # Pool
    BY DEF Lists, Pool, Ch
  <1>4. flt'[n] = f /\ \A m \in Nodes : m # n => flt'[m] = flt[m]
    BY <1>2 DEF SecCb, TypeOK
  <1>5. queue'[c] = Append(queue[c], n) /\ \A d \in Ch : d # c => queue'[d] = queue[d]
    BY <1>0, <1>3 DEF SecCb, Returned, ListAddTail, TypeOK
  <1>6. \A d \in Ch, m \in Nodes : On(m, d)' => On(m, d) \/ (m = n /\ d = c)
    BY <1>2, <1>5, AppendPlaces DEF On
  <1>7. f \in mask_en[c]
    BY DEF SecCb, FilterSet
  <1>8. \A d \in Ch : ~On(n, d)
    BY <1>0, <1>2, <1>3 DEF On, NodeOnce
  <1>9. ListedInUse'
    BY <1>1, <1>4, <1>6, <1>7, <1>8 DEF FInv, ListedInUse, InUse, Drains
  <1> QED
    BY <1>1, <1>9 DEF FInv, WorkBuffer, EnabledAllocated, Setting
------------------------------------------------------------------------------
(* The API. *)

\* Entering a call: a filter that is taken out of use is drained by the call.
LEMMA EntersFilters ==
  ASSUME TypeOK, FInv, NEW t \in Tasks, NEW kind \in AllCalls, NEW c \in Ch, NEW f \in 0 .. NFlt + 1,
         Enters(t, kind, c, f), kind # "rel_sec",
         \A d \in Ch, g \in Flts : g \in mask_en[d] => g \in mask_en'[d] \/ (d = c /\ f = g)
  PROVE  WorkBuffer' /\ ListedInUse'
  <1>1. pc[t] = "idle" /\ pc'[t] = "drain" /\ op'[t].call = kind /\ op'[t].ch = c /\ op'[t].flt = f
    BY DEF Enters, May, TypeOK
  <1>2. \A s \in Tasks : s # t => op'[s] = op[s] /\ pc'[s] = pc[s]
    BY DEF Enters, TypeOK
  <1>3. UNCHANGED <<queue, flt, wk_buf, allocated>>
    BY DEF Enters, nodes
  <1>4. \A d \in Ch, g \in Flts : Drains(d, g) => Drains(d, g)'
    BY <1>1, <1>2 DEF Drains
  <1>5. f \in Flts => Drains(c, f)'
    BY <1>1 DEF Drains
  <1>6. \A d \in Ch, g \in Flts : InUse(d, g) => InUse(d, g)'
    BY <1>4, <1>5 DEF InUse
  <1>7. \A n \in Nodes : flt[n] \in Flts
    BY DEF TypeOK
  <1> QED
    BY <1>3, <1>6, <1>7 DEF FInv, WorkBuffer, ListedInUse, On

\* Nobody is setting a filter when a call takes the mutex.
LEMMA NoneSetting ==
  ASSUME Control, NEW t \in Tasks, NEW kind, NEW c, NEW f, Enters(t, kind, c, f), ~Reentrant
  PROVE  \A s \in Tasks : pc[s] # "idle" => op[s].call = "rel_sec"
  BY AdvAssumption DEF Enters, Lock, Locked, May, Control, Exclusive

\* The first step of every call keeps FInv.
LEMMA BeginFilters ==
  ASSUME ~Reentrant, TypeOK, TypeOK', Control, FInv, NEW t \in Tasks, Begin(t) PROVE FInv'
  <1>0. NoFlt \in 0 .. NFlt + 1 /\ AnyFlt \in 0 .. NFlt + 1 /\ Flts \subseteq 0 .. NFlt + 1
    BY AdvAssumption DEF NoFlt, AnyFlt, Flts
  <1>1. \A s \in Tasks : s # t => op'[s] = op[s] /\ pc'[s] = pc[s]
    BY DEF Begin, BeginAllocChannel, BeginDrain, BeginEnable, BeginDisable, BeginReset,
           BeginAllocFilter, BeginFreeFilter, BeginSetFilter, Enters, TypeOK
  <1>2. \A s \in Tasks : pc[s] # "idle" => op[s].call = "rel_sec"
    BY NoneSetting DEF Begin, BeginAllocChannel, BeginDrain, BeginEnable, BeginDisable, BeginReset,
           BeginAllocFilter, BeginFreeFilter, BeginSetFilter
  <1>3. \A s \in Tasks : s # t => ~(pc'[s] # "idle" /\ op'[s].call \in {"set_filter", "reset_filter"})
    BY <1>1, <1>2
  <1>4. CASE BeginAllocChannel(t) \/ BeginDrain(t) \/ BeginEnable(t) \/ BeginDisable(t) \/ BeginReset(t)
    <2>1. PICK kind \in AllCalls \ {"rel_sec", "set_filter", "reset_filter"}, c \in Ch, f \in 0 .. NFlt + 1 :
            Enters(t, kind, c, f) /\ UNCHANGED <<sec_flt_msk, mask_en>>
      BY <1>0, <1>4 DEF BeginAllocChannel, BeginDrain, BeginEnable, BeginDisable, BeginReset, TypeOK,
                  AllCalls, SharedCalls, SubmitCalls
    <2>2. WorkBuffer' /\ ListedInUse'
      BY <2>1, EntersFilters
    <2>3. Setting'
      BY <1>3, <2>1 DEF Setting, Enters, TypeOK
    <2> QED
      BY <2>1, <2>2, <2>3 DEF FInv, EnabledAllocated
  <1>5. CASE BeginAllocFilter(t)
    <2>1. PICK c \in allocated, f \in Flts :
            /\ Enters(t, "alloc_filter", c, NoFlt)
            /\ sec_flt_msk' = [sec_flt_msk EXCEPT ![c] = @ \cup {f}]
            /\ UNCHANGED mask_en
      BY <1>5 DEF BeginAllocFilter
    <2>2. c \in Ch /\ "alloc_filter" \in AllCalls
      BY DEF TypeOK, AllCalls, SharedCalls, SubmitCalls
    <2>3. WorkBuffer' /\ ListedInUse'
      BY <1>0, <2>1, <2>2, EntersFilters
    <2>4. Setting'
      BY <1>3, <2>1 DEF Setting, Enters, TypeOK
    <2>5. EnabledAllocated'
      BY <2>1 DEF FInv, EnabledAllocated, TypeOK
    <2> QED
      BY <2>3, <2>4, <2>5 DEF FInv
  <1>6. CASE BeginFreeFilter(t)
    <2>1. PICK c \in allocated, f \in Flts :
            /\ Enters(t, "free_filter", c, f)
            /\ sec_flt_msk' = [sec_flt_msk EXCEPT ![c] = @ \ {f}]
            /\ mask_en' = [mask_en EXCEPT ![c] = @ \ {f}]
      BY <1>6 DEF BeginFreeFilter
    <2>2. c \in Ch /\ "free_filter" \in AllCalls /\ f \in 0 .. NFlt + 1
      BY <1>0 DEF TypeOK, AllCalls, SharedCalls
    <2>3. \A d \in Ch : mask_en'[d] = IF d = c THEN mask_en[d] \ {f} ELSE mask_en[d]
      BY <2>1 DEF TypeOK
    <2>4. WorkBuffer' /\ ListedInUse'
      BY <2>1, <2>2, <2>3, EntersFilters
    <2>5. Setting'
      BY <1>3, <2>1 DEF Setting, Enters, TypeOK
    <2>6. EnabledAllocated'
      BY <2>1 DEF FInv, EnabledAllocated, TypeOK
    <2> QED
      BY <2>4, <2>5, <2>6 DEF FInv
  <1>7. CASE BeginSetFilter(t)
    <2>1. PICK c \in allocated, f \in Flts, kind \in {"set_filter", "reset_filter"} :
            /\ f \in sec_flt_msk[c] /\ Enters(t, kind, c, f)
            /\ mask_en' = [mask_en EXCEPT ![c] = @ \ {f}] /\ UNCHANGED sec_flt_msk
      BY <1>7 DEF BeginSetFilter
    <2>2. c \in Ch /\ kind \in AllCalls /\ f \in 0 .. NFlt + 1
      BY <1>0 DEF TypeOK, AllCalls, SharedCalls, SubmitCalls
    <2>3. \A d \in Ch : mask_en'[d] = IF d = c THEN mask_en[d] \ {f} ELSE mask_en[d]
      BY <2>1 DEF TypeOK
    <2>4. WorkBuffer' /\ ListedInUse'
      BY <2>1, <2>2, <2>3, EntersFilters
    <2>5. Setting'
      <3>1. op'[t].ch = c /\ op'[t].flt = f
        BY <2>1 DEF Enters, TypeOK
      <3> QED
        BY <1>3, <2>1, <3>1 DEF Setting
    <2>6. EnabledAllocated'
      BY <2>1, <2>3 DEF FInv, EnabledAllocated
    <2> QED
      BY <2>4, <2>5, <2>6 DEF FInv
  <1> QED
    BY <1>4, <1>5, <1>6, <1>7 DEF Begin

\* Draining, freeing a working buffer and adv_dmx_rel_sec keep FInv.
LEMMA MoveFilters ==
  ASSUME TypeOK, Control, FInv, NEW t \in Tasks,
         DrainGet(t) \/ DrainPut(t) \/ FreeWorkBuffer(t) \/ RelTest(t) \/ RelTake(t)
  PROVE  FInv'
  <1>1. UNCHANGED <<allocated, sec_flt_msk, mask_en>>
    BY DEF DrainGet, DrainPut, FreeWorkBuffer, RelTest, RelTake, channels
  <1>2. \A c \in Ch : wk_buf'[c] = wk_buf[c]
    BY AdvAssumption DEF DrainGet, DrainPut, FreeWorkBuffer, RelTest, RelTake, NodeGet, NodeReturn, TypeOK, Tasks, nodes
  <1>3. \A s \in Tasks : s # t => op'[s] = op[s] /\ pc'[s] = pc[s]
    BY DEF DrainGet, DrainPut, FreeWorkBuffer, RelTest, RelTake, TypeOK
  <1>4. \/ pc[t] # "idle" /\ op'[t] = op[t] /\ pc'[t] # "idle"
        \/ (pc[t] = "idle" \/ op[t].call = "rel_sec") /\ op'[t].call \in {"rel_sec", "none"}
    <2>1. CASE DrainGet(t) \/ FreeWorkBuffer(t)
      BY <2>1 DEF DrainGet, FreeWorkBuffer, TypeOK
    <2>2. CASE DrainPut(t)
      BY <2>2 DEF DrainPut, NoCall, TypeOK
    <2>3. CASE RelTest(t)
      BY <2>3 DEF RelTest, May, TypeOK
    <2>4. CASE RelTake(t)
      BY <2>4 DEF RelTake, NoCall, TypeOK, Control, Targets
    <2> QED
      BY <2>1, <2>2, <2>3, <2>4
  <1>5. Setting'
    BY <1>1, <1>3, <1>4 DEF FInv, Setting
  <1>6. \A d \in Ch, g \in Flts : Drains(d, g) => Drains(d, g)'
    BY <1>3, <1>4 DEF Drains
  <1>7. flt' = flt /\ (\A c \in Ch, n \in Nodes : On(n, c)' => On(n, c)) /\ \A n \in Nodes : flt[n] \in Flts
    BY ListsShrink DEF Api, TypeOK
  <1>8. ListedInUse'
    BY <1>1, <1>6, <1>7 DEF FInv, ListedInUse, InUse
  <1> QED
    BY <1>1, <1>2, <1>5, <1>8 DEF FInv, WorkBuffer, EnabledAllocated

\* A call that ended has left none of the sections it drained.
LEMMA EndsFilters ==
  ASSUME TypeOK, FInv, NEW t \in Tasks, NEW kinds, Ends(t, kinds),
         flt' = flt, \A c \in Ch, n \in Nodes : On(n, c)' => On(n, c),
         \A c \in Ch : mask_en[c] \subseteq mask_en'[c]
  PROVE  ListedInUse'
  <1> SUFFICES ASSUME NEW c \in Ch, NEW n \in Nodes, On(n, c)' PROVE InUse(c, flt[n])'
    BY DEF ListedInUse
  <1>1. On(n, c) /\ InUse(c, flt[n])
    BY DEF FInv, ListedInUse
  <1>2. \A s \in Tasks : s # t => op'[s] = op[s] /\ pc'[s] = pc[s]
    BY DEF Ends, Leaves, TypeOK
  <1>3. op[t].ch = c => op[t].flt \notin {AnyFlt, flt[n]}
    BY <1>1 DEF On, Ends, Empty, Wanted
  <1>4. Drains(c, flt[n]) => Drains(c, flt[n])'
    BY <1>2, <1>3 DEF Drains
  <1> QED
    BY <1>1, <1>4 DEF InUse

\* The last step of a call keeps FInv: adv_dmx_alloc_channel gives the channel its
\* working buffer, adv_dmx_free_channel leaves a channel with no filter and no section.
LEMMA EndFilters ==
  ASSUME TypeOK, Control, FInv, NEW t \in Tasks, End(t) PROVE FInv'
  <1>0. op[t].ch \in Ch /\ op[t].ch \in Lists /\ Pool \in Lists
    BY DEF TypeOK, Calls, Lists
  <1>1. pc'[t] = "idle" /\ \A s \in Tasks : s # t => op'[s] = op[s] /\ pc'[s] = pc[s]
    BY DEF End, EndAllocChannel, EndFreeChannel, EndPlain, EndSetFilter, EndEnable, EndDisable, EndReset,
           Ends, Leaves, TypeOK
  <1>2. flt' = flt /\ \A c \in Ch, n \in Nodes : On(n, c)' => On(n, c)
    BY ListsShrink DEF Api
  <1>3. CASE EndAllocChannel(t)
    <2>1. UNCHANGED <<sec_flt_msk, mask_en>> /\ Ends(t, {"alloc_channel"})
      BY <1>3 DEF EndAllocChannel
    <2>2. WorkBuffer'
      <3>1. CASE queue[Pool] = <<>>
        BY <1>3, <3>1 DEF EndAllocChannel, FInv, WorkBuffer
      <3>2. CASE queue[Pool] # <<>>
        <4>1. queue[Pool][1] # None
          BY <1>0, <3>2, HeadIsNode
        <4>2. wk_buf' = [wk_buf EXCEPT ![op[t].ch] = queue[Pool][1]] /\ allocated' = allocated \cup {op[t].ch}
          BY <1>3, <3>2 DEF EndAllocChannel, NodeGet
        <4> QED
          BY <1>0, <4>1, <4>2 DEF FInv, WorkBuffer, TypeOK
      <3> QED
        BY <3>1, <3>2
    <2>3. ListedInUse'
      BY <1>2, <2>1, EndsFilters
    <2> QED
      BY <1>1, <2>1, <2>2, <2>3 DEF FInv, EnabledAllocated, Setting
  <1>4. CASE EndFreeChannel(t)
    <2> DEFINE c == op[t].ch
    <2>1. /\ pc[t] = "init" /\ allocated' = allocated \ {c} /\ wk_buf' = [wk_buf EXCEPT ![c] = None]
          /\ sec_flt_msk' = [sec_flt_msk EXCEPT ![c] = {}] /\ mask_en' = [mask_en EXCEPT ![c] = {}]
          /\ queue' = [queue EXCEPT ![c] = <<>>]
      BY <1>4 DEF EndFreeChannel, InitialBuffer
    <2>2. WorkBuffer'
      BY <1>0, <2>1 DEF FInv, WorkBuffer, TypeOK
    <2>3. EnabledAllocated'
      BY <2>1 DEF FInv, EnabledAllocated, TypeOK
    <2>4. mutex = t
      BY <2>1 DEF Control, Exclusive, Targets
    <2>5. \A s \in Tasks : ~(pc'[s] # "idle" /\ op'[s].call \in {"set_filter", "reset_filter"})
      BY <1>1, <2>4 DEF Control, Exclusive
    <2>6. ListedInUse'
      <3> SUFFICES ASSUME NEW d \in Ch, NEW n \in Nodes, On(n, d)' PROVE InUse(d, flt[n])'
        BY DEF ListedInUse
      <3>1. queue'[c] = <<>>
        BY <1>0, <2>1 DEF TypeOK
      <3>2. d # c /\ On(n, d) /\ InUse(d, flt[n])
        BY <1>2, <3>1 DEF On, FInv, ListedInUse
      <3>3. mask_en'[d] = mask_en[d]
        BY <2>1, <3>2 DEF TypeOK
      <3>4. Drains(d, flt[n]) => Drains(d, flt[n])'
        BY <1>1, <1>2, <3>2 DEF Drains
      <3> QED
        BY <1>2, <3>2, <3>3, <3>4 DEF InUse
    <2> QED
      BY <2>2, <2>3, <2>5, <2>6 DEF FInv, Setting
  <1>5. CASE EndSetFilter(t)
    <2> DEFINE c == op[t].ch
    <2>1. /\ Ends(t, {"set_filter", "reset_filter"}) /\ UNCHANGED <<wk_buf, allocated, sec_flt_msk>>
          /\ mask_en' = [mask_en EXCEPT ![c] = @ \cup {op[t].flt}]
      BY <1>5 DEF EndSetFilter
    <2>2. op[t].flt \in sec_flt_msk[c]
      BY <2>1 DEF Ends, FInv, Setting
    <2>3. \A d \in Ch : mask_en'[d] = IF d = c THEN mask_en[d] \cup {op[t].flt} ELSE mask_en[d]
      BY <2>1 DEF TypeOK
    <2>4. ListedInUse'
      BY <1>2, <2>1, <2>3, EndsFilters
    <2> QED
      BY <1>1, <2>1, <2>2, <2>3, <2>4 DEF FInv, WorkBuffer, EnabledAllocated, Setting
  <1>6. CASE EndPlain(t) \/ EndEnable(t) \/ EndDisable(t) \/ EndReset(t)
    <2>1. UNCHANGED <<wk_buf, allocated, sec_flt_msk, mask_en>> /\ \E kinds : Ends(t, kinds)
      BY <1>6 DEF EndPlain, EndEnable, EndDisable, EndReset, channels
    <2>2. ListedInUse'
      BY <1>2, <2>1, EndsFilters
    <2> QED
      BY <1>1, <2>1, <2>2 DEF FInv, WorkBuffer, EnabledAllocated, Setting
  <1> QED
    BY <1>3, <1>4, <1>5, <1>6 DEF End
------------------------------------------------------------------------------
(* The theorems. *)

\* FInv is inductive beside IInv as long as no callback calls the API.
LEMMA FiltersStep ==
  ASSUME ~Reentrant, IInv, IInv', FInv, [Next]_vars PROVE FInv'
  <1>1. TypeOK /\ TypeOK' /\ Control /\ NodeOnce
    BY DEF IInv, Control
  <1>2. CASE Next
    <2>1. CASE \E c \in Ch, f \in Flts : SecCb(c, f)
      BY <1>1, <2>1, SecCbFilters
    <2>2. CASE AdmTask
      BY <1>1, <2>2, AdmFilters
    <2>3. CASE \E t \in Tasks : Begin(t) \/ Api(t) \/ RelTest(t)
      BY <1>1, <2>3, BeginFilters, MoveFilters, EndFilters DEF Api
    <2> QED
      BY <1>2, <2>1, <2>2, <2>3 DEF Next
  <1>3. CASE UNCHANGED vars
    BY <1>3 DEF vars, nodes, channels, api, FInv, WorkBuffer, EnabledAllocated, Setting, ListedInUse, On,
                InUse, Drains
  <1> QED
    BY <1>2, <1>3

\* adv_dmx_init leaves no channel allocated, no filter and no section.
LEMMA InitFilters == ASSUME Init PROVE FInv
  <1>1. \A c \in Ch : queue[c] = <<>>
    BY DEF Init, Lists, Pool, Ch
  <1>2. ListedInUse
    BY <1>1 DEF ListedInUse, On
  <1>3. WorkBuffer /\ EnabledAllocated /\ Setting
    BY DEF Init, WorkBuffer, EnabledAllocated, Setting
  <1> QED
    BY <1>2, <1>3 DEF FInv

\* The filters' invariant holds from the start.
LEMMA FilterInvariant == ASSUME ~Reentrant PROVE Spec => []FInv
  <1>1. Init => FInv
    BY InitFilters
  <1>2. IInv /\ IInv' /\ FInv /\ [Next]_vars => FInv'
    BY FiltersStep
  <1>3. Spec => []IInv
    BY Invariant
  <1> QED
    BY <1>1, <1>2, <1>3, PTL DEF Spec

\* The assertions of adv_dmx_free_channel and adv_dmx_free_filter never fail: a
\* channel has a working buffer exactly while it is allocated.
THEOREM WorkBuffersMatch == ASSUME ~Reentrant PROVE Spec => []WorkBuffer
  <1>1. FInv => WorkBuffer
    BY DEF FInv
  <1> QED
    BY <1>1, FilterInvariant, PTL

\* ... and a filter is set only while it is allocated, however the calls interleave.
THEOREM SetIsAllocated == ASSUME ~Reentrant PROVE Spec => []EnabledAllocated
  <1>1. FInv => EnabledAllocated
    BY DEF FInv
  <1> QED
    BY <1>1, FilterInvariant, PTL

\* No section of a filter that was freed or set anew is left on a channel's list
\* when the call that did so returns, though the driver stores sections meanwhile.
THEOREM QueuedIsEnabled == ASSUME ~Reentrant PROVE Spec => []QueuedEnabled
  <1>1. IInv /\ FInv => QueuedEnabled
    <2> SUFFICES ASSUME IInv, FInv, NEW c \in Ch, NEW i \in 1 .. Len(queue[c])
                 PROVE  flt[queue[c][i]] \in mask_en[c] \/ Drains(c, flt[queue[c][i]])
      BY DEF QueuedEnabled
    <2>1. queue[c] \in Seq(Nodes)
      BY DEF IInv, TypeOK, Lists
    <2>2. queue[c][i] \in Nodes /\ On(queue[c][i], c)
      BY <2>1 DEF On
    <2> QED
      BY <2>2 DEF FInv, ListedInUse, InUse
  <1> QED
    BY <1>1, FilterInvariant, Invariant, PTL
-----------------------------------------------------------------------------
(* Proofs about adv_dmx_task at its plain work, for any number of          *)
(* channels, buffers, filters and tasks: callbacks take their section, and *)
(* tasks set channels and filters up without draining any.  The task looks *)
(* at a buffer, calls the application and only then takes the buffer off   *)
(* its list.  No buffer is lost because the driver's callback, which runs  *)
(* meanwhile, adds behind the buffer the task is looking at, and because a *)
(* filter that is being set has no section to drain.                       *)

\* Calls only set up: adv_dmx_set_filter is at a filter not set before, and
\* adv_dmx_alloc_channel at a channel not allocated before.
Submitting ==
  \A t \in Tasks :
    /\ pc[t] \in {"idle", "drain"}
    /\ pc[t] = "drain" =>
         /\ op[t].call \in SubmitCalls
         /\ \/ op[t].flt = NoFlt
            \/ op[t].call = "set_filter" /\ op[t].flt \in Flts \ mask_en[op[t].ch]
         /\ op[t].call = "alloc_channel" => op[t].ch \notin allocated

\* The sections on a channel's list are of filters that are set.
ListedSet == \A c \in Ch, n \in Nodes : On(n, c) => flt[n] \in mask_en[c]

\* What adv_dmx_task peeked at is still the head of its list, and what it showed
\* is still in it.
PeekedIsHead ==
  apc \in {"call", "callback", "take"} =>
    /\ queue[ach] # <<>> /\ queue[ach][1] = peeked
    /\ apc # "call" => shown = sec[peeked]

\* adv_dmx_task has a buffer in hand only to return it.
EmptyHand == apc # "put" => wk_buf[Adm] = None

Listed(n) == \E l \in Lists : \E i \in 1 .. Len(queue[l]) : queue[l][i] = n
InHand(n) == \E h \in Places : wk_buf[h] = n
Kept == \A n \in Nodes : Listed(n) \/ InHand(n)

KInv == Submitting /\ ListedSet /\ PeekedIsHead /\ EmptyHand /\ Kept
------------------------------------------------------------------------------
(* Which nodes a move leaves where they were. *)

\* Taking the head off a list leaves the others on it.
LEMMA UnlinkKeeps ==
  ASSUME NEW S, NEW s \in Seq(S), s # <<>>, NEW j \in 1 .. Len(s), j # 1
  PROVE  \E k \in 1 .. Len(Unlink(s, 1)) : Unlink(s, 1)[k] = s[j]
  <1>1. 1 \in 1 .. Len(s) /\ j - 1 \in 1 .. Len(s) - 1 /\ ~(j - 1 < 1) /\ (j - 1) + 1 = j
    OBVIOUS
  <1>2. Len(Unlink(s, 1)) = Len(s) - 1 /\ Unlink(s, 1)[j - 1] = s[(j - 1) + 1]
    BY <1>1, UnlinkProperties
  <1> QED
    BY <1>1, <1>2

\* Appending to a list leaves all its nodes on it.
LEMMA AppendKeeps ==
  ASSUME NEW s \in Seq(Nodes), NEW n \in Nodes
  PROVE  /\ \A j \in 1 .. Len(s) : j \in 1 .. Len(Append(s, n)) /\ Append(s, n)[j] = s[j]
         /\ \E k \in 1 .. Len(Append(s, n)) : Append(s, n)[k] = n
  <1>1. Len(s) + 1 \in 1 .. Len(Append(s, n)) /\ Append(s, n)[Len(s) + 1] = n
    OBVIOUS
  <1>2. \A j \in 1 .. Len(s) : j \in 1 .. Len(Append(s, n)) /\ Append(s, n)[j] = s[j]
    OBVIOUS
  <1> QED
    BY <1>1, <1>2

\* When the head of list l goes to a hand that was empty, no node is lost.
LEMMA TakeKeeps ==
  ASSUME TypeOK, Kept, NEW l \in Lists, queue[l] # <<>>, NEW h \in Places, wk_buf[h] = None,
         queue' = [queue EXCEPT ![l] = Unlink(@, 1)], wk_buf' = [wk_buf EXCEPT ![h] = queue[l][1]]
  PROVE  /\ Kept'
         /\ \A k \in Lists, n \in Nodes : n # queue[l][1] /\ (\E i \in 1 .. Len(queue[k]) : queue[k][i] = n) =>
                \E i \in 1 .. Len(queue'[k]) : queue'[k][i] = n
  <1>1. queue[l] \in Seq(Nodes) /\ queue'[l] = Unlink(queue[l], 1)
        /\ \A k \in Lists : k # l => queue'[k] = queue[k]
    BY DEF TypeOK
  <1>2. wk_buf'[h] = queue[l][1] /\ \A g \in Places : g # h => wk_buf'[g] = wk_buf[g]
    BY DEF TypeOK, Places
  <1>3. ASSUME NEW k \in Lists, NEW n \in Nodes, n # queue[l][1],
               NEW i \in 1 .. Len(queue[k]), queue[k][i] = n
        PROVE  \E j \in 1 .. Len(queue'[k]) : queue'[k][j] = n
    <2>1. CASE k # l
      BY <1>1, <1>3, <2>1
    <2>2. CASE k = l
      BY <1>1, <1>3, <2>2, UnlinkKeeps
    <2> QED
      BY <2>1, <2>2
  <1>4. ASSUME NEW n \in Nodes PROVE Listed(n)' \/ InHand(n)'
    <2>1. CASE n = queue[l][1]
      BY <1>2, <2>1 DEF InHand
    <2>2. CASE n # queue[l][1] /\ Listed(n)
      BY <1>3, <2>2 DEF Listed
    <2>3. CASE InHand(n)
      <3>1. PICK g \in Places : wk_buf[g] = n
        BY <2>3 DEF InHand
      <3>2. g # h
        BY <3>1 DEF None, Nodes
      <3> QED
        BY <1>2, <3>1, <3>2 DEF InHand
    <2> QED
      BY <2>1, <2>2, <2>3 DEF Kept
  <1> QED
    BY <1>3, <1>4 DEF Kept
------------------------------------------------------------------------------
(* The demux driver's callback. *)

\* The driver's callback moves a buffer of the pool behind what a channel has.
LEMMA SecCbServe ==
  ASSUME TypeOK, Hands, NodeOnce, KInv, NEW c \in Ch, NEW f \in Flts, SecCb(c, f)
  PROVE  KInv' /\ \A d \in Ch, m \in Nodes : On(m, d) => On(m, d)'
  <1> DEFINE n == queue[Pool][1]
  <1>0. Pool \in Lists /\ c \in Lists /\ c # Pool /\ ach \in Ch /\ ach \in Lists /\ ach # Pool
    BY DEF Lists, Pool, Ch, TypeOK
  <1>1. UNCHANGED <<wk_buf, pc, op, allocated, mask_en, apc, ach, peeked, shown>>
    BY DEF SecCb, api, channels, adm
  <1>2. 1 \in 1 .. Len(queue[Pool]) /\ n \in Nodes /\ queue[c] \in Seq(Nodes) /\ queue[Pool] \in Seq(Nodes)
        /\ queue[Pool] # <<>>
    BY <1>0, HeadIsNode DEF SecCb, TypeOK
  <1>3. \A d \in Ch : d \in Lists /\ d # Pool
    BY DEF Lists, Pool, Ch
  <1>4. flt'[n] = f /\ \A m \in Nodes : m # n => flt'[m] = flt[m] /\ sec'[m] = sec[m]
    BY <1>2 DEF SecCb, TypeOK
  <1>5. /\ queue'[c] = Append(queue[c], n) /\ queue'[Pool] = Unlink(queue[Pool], 1)
        /\ \A d \in Lists : d # c /\ d # Pool => queue'[d] = queue[d]
    BY <1>0, <1>3 DEF SecCb, Returned, ListAddTail, TypeOK
  <1>6. \A d \in Ch, m \in Nodes : On(m, d)' => On(m, d) \/ (m = n /\ d = c)
    <2> SUFFICES ASSUME NEW d \in Ch, NEW m \in Nodes, NEW j \in 1 .. Len(queue'[d]), queue'[d][j] = m
                 PROVE  On(m, d) \/ (m = n /\ d = c)
      BY DEF On
    <2>1. CASE d = c
      <3>1. j \in 1 .. Len(Append(queue[c], n)) /\ Append(queue[c], n)[j] = m
        BY <1>5, <2>1
      <3>2. (j \in 1 .. Len(queue[c]) /\ queue[c][j] = m) \/ m = n
        BY <1>2, <3>1, AppendPlaces
      <3> QED
        BY <2>1, <3>2 DEF On
    <2>2. CASE d # c
      BY <1>3, <1>5, <2>2 DEF On
    <2> QED
      BY <2>1, <2>2
  <1>7. \A d \in Ch : ~On(n, d)
    BY <1>0, <1>2, <1>3 DEF On, NodeOnce
  <1>8. /\ \A j \in 1 .. Len(queue[c]) : j \in 1 .. Len(queue'[c]) /\ queue'[c][j] = queue[c][j]
        /\ \E k \in 1 .. Len(queue'[c]) : queue'[c][k] = n
    <2>1. /\ \A j \in 1 .. Len(queue[c]) :
                j \in 1 .. Len(Append(queue[c], n)) /\ Append(queue[c], n)[j] = queue[c][j]
          /\ \E k \in 1 .. Len(Append(queue[c], n)) : Append(queue[c], n)[k] = n
      BY <1>2, AppendKeeps
    <2> QED
      BY <1>5, <2>1
  <1>9. \A d \in Ch, m \in Nodes : On(m, d) => On(m, d)'
    <2> SUFFICES ASSUME NEW d \in Ch, NEW m \in Nodes, NEW j \in 1 .. Len(queue[d]), queue[d][j] = m
                 PROVE  On(m, d)'
      BY DEF On
    <2>1. CASE d = c
      <3>1. j \in 1 .. Len(queue'[d]) /\ queue'[d][j] = m
        BY <1>8, <2>1
      <3> QED
        BY <3>1 DEF On
    <2>2. CASE d # c
      BY <1>3, <1>5, <2>2 DEF On
    <2> QED
      BY <2>1, <2>2
  <1>10. Submitting' /\ EmptyHand'
    BY <1>1 DEF KInv, Submitting, EmptyHand
  <1>11. ListedSet'
    <2>1. f \in mask_en[c]
      BY DEF SecCb, FilterSet
    <2> QED
      BY <1>1, <1>4, <1>6, <1>7, <2>1 DEF KInv, ListedSet
  <1>12. PeekedIsHead'
    <2> SUFFICES ASSUME apc \in {"call", "callback", "take"} PROVE PeekedIsHead'
      BY <1>1 DEF PeekedIsHead
    <2>1. queue[ach] # <<>> /\ queue[ach][1] = peeked /\ (apc # "call" => shown = sec[peeked])
      BY DEF KInv, PeekedIsHead
    <2>2. 1 \in 1 .. Len(queue[ach]) /\ peeked \in Nodes /\ queue[ach] \in Seq(Nodes)
      BY <1>0, <2>1, HeadIsNode DEF TypeOK
    <2>3. On(peeked, ach)
      BY <2>1, <2>2 DEF On
    <2>4. sec'[peeked] = sec[peeked]
      BY <1>0, <1>4, <1>7, <2>2, <2>3
    <2>5. queue'[ach] # <<>> /\ queue'[ach][1] = queue[ach][1]
      <3>1. CASE ach = c
        BY <1>2, <1>5, <2>2, <3>1
      <3>2. CASE ach # c
        BY <1>0, <1>5, <2>1, <3>2
      <3> QED
        BY <3>1, <3>2
    <2> QED
      BY <1>1, <2>1, <2>4, <2>5 DEF PeekedIsHead
  <1>13. Kept'
    <2> SUFFICES ASSUME NEW m \in Nodes PROVE Listed(m)' \/ InHand(m)'
      BY DEF Kept
    <2>1. CASE InHand(m)
      BY <1>1, <2>1 DEF InHand
    <2>2. CASE m = n
      BY <1>0, <1>8, <2>2 DEF Listed
    <2>3. CASE m # n /\ Listed(m)
      <3>1. PICK l \in Lists : \E i \in 1 .. Len(queue[l]) : queue[l][i] = m
        BY <2>3 DEF Listed
      <3>2. CASE l = Pool
        BY <1>0, <1>2, <1>5, <2>3, <3>1, <3>2, UnlinkKeeps DEF Listed
      <3>3. CASE l = c
        BY <1>0, <1>8, <3>1, <3>3 DEF Listed
      <3>4. CASE l # Pool /\ l # c
        BY <1>5, <3>1, <3>4 DEF Listed
      <3> QED
        BY <3>2, <3>3, <3>4
    <2> QED
      BY <2>1, <2>2, <2>3 DEF KInv, Kept
  <1> QED
    BY <1>9, <1>10, <1>11, <1>12, <1>13 DEF KInv
------------------------------------------------------------------------------
(* adv_dmx_task. *)

\* What a step of adv_dmx_task takes off a channel's list it has shown.
ShownOnly ==
  \A c \in Ch, n \in Nodes :
    On(n, c) /\ ~On(n, c)' => apc = "take" /\ n = peeked /\ sec[n] = shown

\* adv_dmx_task takes the buffer it has shown, and puts it back into the pool.
LEMMA AdmServe ==
  ASSUME TypeOK, Hands, KInv, AdmTask PROVE KInv' /\ ShownOnly
  <1>0. ach \in Ch /\ ach \in Lists /\ Pool \in Lists /\ Adm \in Places /\ \A d \in Ch : d \in Lists /\ d # Pool
    BY DEF TypeOK, Lists, Places, Tasks, Pool, Ch
  <1>1. UNCHANGED <<pc, op, allocated, mask_en, flt, sec>>
    BY DEF AdmTask, AdmScan, AdmPeek, AdmCall, AdmReturn, AdmTake, AdmPut, api, channels, nodes
  <1>2. \A c \in Ch, n \in Nodes : On(n, c)' => On(n, c)
    BY ListsShrink
  <1>3. Submitting' /\ ListedSet'
    BY <1>1, <1>2 DEF KInv, Submitting, ListedSet
  <1>4. CASE AdmScan \/ AdmPeek \/ AdmCall \/ AdmReturn
    <2>1. UNCHANGED <<queue, wk_buf>>
      BY <1>4 DEF AdmScan, AdmPeek, AdmCall, AdmReturn, nodes
    <2>2. Kept' /\ ShownOnly
      BY <2>1 DEF KInv, Kept, Listed, InHand, ShownOnly, On
    <2>3. apc # "put" /\ EmptyHand'
      BY <1>4, <2>1 DEF AdmScan, AdmPeek, AdmCall, AdmReturn, KInv, EmptyHand
    <2>4. PeekedIsHead'
      BY <1>1, <1>4, <2>1 DEF AdmScan, AdmPeek, AdmCall, AdmReturn, AdmGoes, NextChannel, KInv, PeekedIsHead
    <2> QED
      BY <1>3, <2>2, <2>3, <2>4 DEF KInv
  <1>5. CASE AdmTake
    <2>1. queue[ach] # <<>> /\ queue[ach][1] = peeked /\ shown = sec[peeked] /\ apc = "take"
      BY <1>5 DEF AdmTake, KInv, PeekedIsHead
    <2>2. /\ queue' = [queue EXCEPT ![ach] = Unlink(@, 1)]
          /\ wk_buf' = [wk_buf EXCEPT ![Adm] = queue[ach][1]] /\ apc' = "put"
      BY <1>5, <2>1 DEF AdmTake, Same, AdmGoes
    <2>3. wk_buf[Adm] = None
      BY <2>1 DEF KInv, EmptyHand
    <2>4. Kept' /\ \A k \in Lists, n \in Nodes : n # queue[ach][1] /\ (\E i \in 1 .. Len(queue[k]) : queue[k][i] = n) =>
                \E i \in 1 .. Len(queue'[k]) : queue'[k][i] = n
      BY <1>0, <2>1, <2>2, <2>3, TakeKeeps DEF KInv
    <2>5. ShownOnly
      BY <1>0, <2>1, <2>4 DEF ShownOnly, On
    <2>6. PeekedIsHead' /\ EmptyHand'
      BY <2>2 DEF PeekedIsHead, EmptyHand
    <2> QED
      BY <1>3, <2>4, <2>5, <2>6 DEF KInv
  <1>6. CASE AdmPut
    <2>1. wk_buf[Adm] # None /\ wk_buf[Adm] \in Nodes /\ queue[Pool] \in Seq(Nodes)
      BY <1>0, <1>6 DEF AdmPut, Hands, TypeOK, Places
    <2>2. queue'[Pool] = Append(queue[Pool], wk_buf[Adm]) /\ \A l \in Lists : l # Pool => queue'[l] = queue[l]
      BY <1>0, <1>6 DEF AdmPut, NodeReturn, Returned, ListAddTail, TypeOK
    <2>3. wk_buf'[Adm] = None /\ \A h \in Places : h # Adm => wk_buf'[h] = wk_buf[h]
      BY <1>0, <1>6 DEF AdmPut, NodeReturn, TypeOK, Places
    <2>4. /\ \A j \in 1 .. Len(queue[Pool]) :
                j \in 1 .. Len(queue'[Pool]) /\ queue'[Pool][j] = queue[Pool][j]
          /\ \E k \in 1 .. Len(queue'[Pool]) : queue'[Pool][k] = wk_buf[Adm]
      BY <2>1, <2>2, AppendKeeps
    <2>5. Kept'
      <3> SUFFICES ASSUME NEW m \in Nodes PROVE Listed(m)' \/ InHand(m)'
        BY DEF Kept
      <3>1. CASE m = wk_buf[Adm]
        BY <1>0, <2>4, <3>1 DEF Listed
      <3>2. CASE m # wk_buf[Adm] /\ InHand(m)
        BY <2>3, <3>2 DEF InHand
      <3>3. CASE Listed(m)
        <4>1. PICK l \in Lists : \E i \in 1 .. Len(queue[l]) : queue[l][i] = m
          BY <3>3 DEF Listed
        <4>2. CASE l = Pool
          BY <1>0, <2>4, <4>1, <4>2 DEF Listed
        <4>3. CASE l # Pool
          BY <2>2, <4>1, <4>3 DEF Listed
        <4> QED
          BY <4>2, <4>3
      <3> QED
        BY <3>1, <3>2, <3>3 DEF KInv, Kept
    <2>6. ShownOnly
      BY <1>0, <2>2 DEF ShownOnly, On
    <2>7. PeekedIsHead' /\ EmptyHand'
      BY <1>6, <2>3 DEF AdmPut, AdmGoes, PeekedIsHead, EmptyHand
    <2> QED
      BY <1>3, <2>5, <2>6, <2>7 DEF KInv
  <1> QED
    BY <1>4, <1>5, <1>6 DEF AdmTask
------------------------------------------------------------------------------
(* The API. *)

\* Only the calls that set up are made, and none of them finds anything to drain.
LEMMA SubmitSteps ==
  ASSUME Kinds \subseteq SubmitCalls, TypeOK, KInv, NEW t \in Tasks, Begin(t) \/ Api(t) \/ RelTest(t)
  PROVE  \/ BeginAllocChannel(t) \/ BeginEnable(t) \/ BeginAllocFilter(t) \/ BeginSetFilter(t)
         \/ EndAllocChannel(t) \/ EndPlain(t) \/ EndSetFilter(t) \/ EndEnable(t)
  <1>1. pc[t] \in {"idle", "drain"} /\ (pc[t] = "drain" => op[t].call \in SubmitCalls)
    BY DEF KInv, Submitting
  <1>2. ~RelTest(t) /\ ~BeginDrain(t) /\ ~BeginDisable(t) /\ ~BeginReset(t) /\ ~BeginFreeFilter(t)
    BY DEF RelTest, BeginDrain, BeginDisable, BeginReset, BeginFreeFilter, Enters, May, SubmitCalls
  <1>3. ~RelTake(t) /\ ~DrainPut(t) /\ ~FreeWorkBuffer(t) /\ ~EndFreeChannel(t) /\ ~EndDisable(t) /\ ~EndReset(t)
    BY <1>1 DEF RelTake, DrainPut, FreeWorkBuffer, EndFreeChannel, EndDisable, EndReset, Ends, SubmitCalls
  <1>4. ~DrainGet(t)
    <2> SUFFICES ASSUME DrainGet(t) PROVE FALSE
      OBVIOUS
    <2> DEFINE c == op[t].ch
    <2>1. PICK i \in 1 .. NNodes : Found(c, op[t].flt, i)
      BY DEF DrainGet
    <2>2. c \in Ch /\ c \in Lists /\ queue[c] \in Seq(Nodes)
      BY DEF TypeOK, Calls, Lists
    <2>3. i \in 1 .. Len(queue[c]) /\ queue[c][i] \in Nodes
      BY <2>1, <2>2 DEF Found
    <2>4. flt[queue[c][i]] \in Flts /\ flt[queue[c][i]] \in mask_en[c]
      BY <2>2, <2>3 DEF TypeOK, KInv, ListedSet, On
    <2>5. op[t].flt = NoFlt \/ op[t].flt \in Flts \ mask_en[c]
      BY DEF DrainGet, KInv, Submitting
    <2>6. NoFlt # AnyFlt /\ NoFlt \notin Flts /\ AnyFlt \notin Flts
      BY AdvAssumption DEF NoFlt, AnyFlt, Flts
    <2> QED
      BY <2>1, <2>4, <2>5, <2>6 DEF Found, Wanted
  <1> QED
    BY <1>2, <1>3, <1>4 DEF Begin, Api, End

\* Entering a call that sets up moves nothing.
LEMMA BeginServe ==
  ASSUME Kinds \subseteq SubmitCalls, TypeOK, KInv, NEW t \in Tasks,
         BeginAllocChannel(t) \/ BeginEnable(t) \/ BeginAllocFilter(t) \/ BeginSetFilter(t)
  PROVE  KInv' /\ UNCHANGED queue
  <1>1. PICK kind \in SubmitCalls, c \in Ch, f \in Flts \cup {NoFlt} :
          /\ Enters(t, kind, c, f)
          /\ UNCHANGED mask_en
          /\ f # NoFlt => kind = "set_filter" /\ f \in Flts \ mask_en[c]
          /\ kind = "alloc_channel" => c \notin allocated
    <2>1. CASE BeginAllocChannel(t)
      BY <2>1 DEF BeginAllocChannel, SubmitCalls
    <2>2. CASE BeginEnable(t)
      BY <2>2 DEF BeginEnable, SubmitCalls, TypeOK
    <2>3. CASE BeginAllocFilter(t)
      BY <2>3 DEF BeginAllocFilter, SubmitCalls, TypeOK
    <2>4. CASE BeginSetFilter(t)
      <3>1. PICK c \in allocated, f \in Flts :
              /\ Enters(t, IF f \in mask_en[c] THEN "reset_filter" ELSE "set_filter", c, f)
              /\ mask_en' = [mask_en EXCEPT ![c] = @ \ {f}]
        BY <2>4 DEF BeginSetFilter
      <3>2. f \notin mask_en[c]
        BY <3>1 DEF Enters, May, SubmitCalls
      <3>3. mask_en' = mask_en
        BY <3>1, <3>2 DEF TypeOK
      <3>4. c \in Ch /\ "set_filter" \in SubmitCalls
        BY DEF TypeOK, SubmitCalls
      <3> QED
        BY <3>1, <3>2, <3>3, <3>4
    <2> QED
      BY <2>1, <2>2, <2>3, <2>4
  <1>2. UNCHANGED <<queue, wk_buf, flt, sec, allocated, apc, ach, peeked, shown>>
    BY <1>1 DEF Enters, nodes, adm
  <1>3. /\ pc'[t] = "drain" /\ op'[t].call = kind /\ op'[t].ch = c /\ op'[t].flt = f
        /\ \A s \in Tasks : s # t => op'[s] = op[s] /\ pc'[s] = pc[s]
    BY <1>1 DEF Enters, TypeOK
  <1>4. Submitting'
    BY <1>1, <1>2, <1>3 DEF KInv, Submitting
  <1> QED
    BY <1>1, <1>2, <1>4 DEF KInv, ListedSet, On, PeekedIsHead, EmptyHand, Kept, Listed, InHand

\* The last step of such a call: adv_dmx_alloc_channel takes a buffer of the pool for a
\* channel that had none, the others leave the lists alone.
LEMMA EndServe ==
  ASSUME TypeOK, Exclusive, FInv, KInv, NEW t \in Tasks,
         EndAllocChannel(t) \/ EndPlain(t) \/ EndSetFilter(t) \/ EndEnable(t)
  PROVE  KInv' /\ \A c \in Ch : queue'[c] = queue[c]
  <1> DEFINE c == op[t].ch
  <1>0. c \in Ch /\ c \in Places /\ c # Adm /\ Pool \in Lists /\ Adm \in Places
        /\ \A d \in Ch : d \in Lists /\ d # Pool
    BY AdvAssumption DEF TypeOK, Calls, Places, Tasks, Lists, Pool, Ch
  <1>1. pc[t] = "drain" /\ pc'[t] = "idle" /\ \A s \in Tasks : s # t => op'[s] = op[s] /\ pc'[s] = pc[s]
    BY DEF EndAllocChannel, EndPlain, EndSetFilter, EndEnable, Ends, Leaves, TypeOK
  <1>2. UNCHANGED <<flt, sec, apc, ach, peeked, shown>>
    BY DEF EndAllocChannel, EndPlain, EndSetFilter, EndEnable, Ends, adm
  <1>3. \A s \in Tasks : s # t => pc[s] = "idle"
    <2>1. \A s \in Tasks : pc[s] # "idle" => pc[s] = "drain" /\ op[s].call # "rel_sec"
      BY DEF KInv, Submitting, SubmitCalls
    <2> QED
      BY <1>1, <2>1 DEF Exclusive
  <1>4. Submitting'
    BY <1>1, <1>3 DEF Submitting
  <1>5. \A d \in Ch : mask_en[d] \subseteq mask_en'[d]
    BY DEF EndAllocChannel, EndPlain, EndSetFilter, EndEnable, channels, TypeOK
  <1>6. CASE UNCHANGED <<queue, wk_buf>>
    BY <1>2, <1>4, <1>5, <1>6 DEF KInv, ListedSet, On, PeekedIsHead, EmptyHand, Kept, Listed, InHand
  <1>7. CASE EndAllocChannel(t) /\ queue[Pool] # <<>>
    <2>1. queue' = [queue EXCEPT ![Pool] = Unlink(@, 1)] /\ wk_buf' = [wk_buf EXCEPT ![c] = queue[Pool][1]]
      BY <1>7 DEF EndAllocChannel, NodeGet
    <2>2. wk_buf[c] = None
      BY <1>0, <1>1, <1>7 DEF EndAllocChannel, Ends, KInv, Submitting, FInv, WorkBuffer
    <2>3. Kept'
      BY <1>0, <1>7, <2>1, <2>2, TakeKeeps DEF KInv
    <2>4. \A d \in Ch : queue'[d] = queue[d]
      BY <1>0, <2>1 DEF TypeOK
    <2>5. EmptyHand'
      BY <1>0, <1>2, <2>1 DEF KInv, EmptyHand, TypeOK
    <2>6. ListedSet'
      BY <1>2, <1>5, <2>4 DEF KInv, ListedSet, On
    <2>7. PeekedIsHead'
      BY <1>2, <2>4 DEF KInv, PeekedIsHead, TypeOK
    <2> QED
      BY <1>4, <2>3, <2>4, <2>5, <2>6, <2>7 DEF KInv
  <1>8. CASE EndAllocChannel(t) /\ queue[Pool] = <<>>
    BY <1>6, <1>8 DEF EndAllocChannel
  <1>9. CASE EndPlain(t) \/ EndSetFilter(t) \/ EndEnable(t)
    BY <1>6, <1>9 DEF EndPlain, EndSetFilter, EndEnable
  <1> QED
    BY <1>7, <1>8, <1>9
------------------------------------------------------------------------------
(* The theorems. *)

\* KInv is inductive beside IInv and FInv, and a step takes only what was shown.
LEMMA ServeStep ==
  ASSUME Kinds \subseteq SubmitCalls, IInv, FInv, KInv, [Next]_vars PROVE KInv' /\ ShownOnly
  <1>1. TypeOK /\ Hands /\ Exclusive /\ NodeOnce
    BY DEF IInv
  <1>2. CASE Next
    <2>1. CASE \E c \in Ch, f \in Flts : SecCb(c, f)
      BY <1>1, <2>1, SecCbServe DEF ShownOnly
    <2>2. CASE AdmTask
      BY <1>1, <2>2, AdmServe
    <2>3. CASE \E t \in Tasks : Begin(t) \/ Api(t) \/ RelTest(t)
      <3>1. KInv' /\ \A c \in Ch : queue'[c] = queue[c]
        BY <1>1, <2>3, SubmitSteps, BeginServe, EndServe
      <3> QED
        BY <3>1 DEF ShownOnly, On
    <2> QED
      BY <1>2, <2>1, <2>2, <2>3 DEF Next
  <1>3. CASE UNCHANGED vars
    BY <1>3 DEF vars, nodes, channels, api, adm, KInv, Submitting, ListedSet, On, PeekedIsHead, EmptyHand,
                Kept, Listed, InHand, ShownOnly
  <1> QED
    BY <1>2, <1>3

\* adv_dmx_init puts every buffer into the pool.
LEMMA InitServe == ASSUME Init PROVE KInv
  <1>1. \A c \in Ch : queue[c] = <<>>
    BY DEF Init, Lists, Pool, Ch
  <1>2. Kept
    <2> SUFFICES ASSUME NEW n \in Nodes PROVE Listed(n)
      BY DEF Kept
    <2>1. Pool \in Lists /\ queue[Pool] = [i \in Nodes |-> i]
      BY DEF Init, Lists
    <2>2. n \in 1 .. Len(queue[Pool]) /\ queue[Pool][n] = n
      BY <2>1, AdvAssumption DEF Nodes
    <2> QED
      BY <2>1, <2>2 DEF Listed
  <1>3. ListedSet
    BY <1>1 DEF ListedSet, On
  <1> QED
    BY <1>2, <1>3 DEF Init, KInv, Submitting, PeekedIsHead, EmptyHand, Tasks

\* The invariant of the plain work holds from the start.
LEMMA ServeInvariant == ASSUME ~Reentrant, Kinds \subseteq SubmitCalls PROVE Spec => []KInv
  <1>1. Init => KInv
    BY InitServe
  <1>2. IInv /\ FInv /\ KInv /\ [Next]_vars => KInv'
    BY ServeStep
  <1> QED
    BY <1>1, <1>2, Invariant, FilterInvariant, PTL DEF Spec

\* No section buffer is ever lost, however many channels, buffers and tasks there are
\* and however the driver stores sections while the application is being called.
THEOREM BuffersAreKept == ASSUME ~Reentrant, Kinds \subseteq SubmitCalls PROVE Spec => []NodesKept
  <1>1. KInv => NodesKept
    <2> SUFFICES ASSUME KInv, NEW n \in Nodes
                 PROVE  Listed(n) \/ \E h \in Ch \cup Tasks : Holds(h, n)
      BY DEF NodesKept, Listed
    <2>1. \A h : ~Freed(h)
      BY DEF KInv, Submitting, Freed
    <2> QED
      BY <2>1 DEF KInv, Kept, InHand, Places, Holds
  <1> QED
    BY <1>1, ServeInvariant, PTL

\* ... and a section leaves its channel only after the application was given it.
THEOREM TakenIsShown == ASSUME ~Reentrant, Kinds \subseteq SubmitCalls PROVE Spec => TakenWasShown
  <1>1. IInv /\ FInv /\ KInv /\ [Next]_vars =>
          [\A c \in Ch, n \in Nodes :
             On(n, c) /\ ~On(n, c)' => apc = "take" /\ n = peeked /\ sec[n] = shown]_vars
    BY ServeStep DEF ShownOnly
  <1> QED
    BY <1>1, Invariant, FilterInvariant, ServeInvariant, PTL DEF Spec, TakenWasShown
=============================================================================
