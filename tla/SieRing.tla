------------------------------- MODULE SieRing -------------------------------
(***************************************************************************)
(* The section ring buffer of one SI-engine request in ring_buffer_mode 0  *)
(* (sie.c): the demux driver stores sections with on_dmx_event(), the SIE  *)
(* task takes them with dispatch_section(), called from inspect_active().  *)
(*                                                                         *)
(* The driver's task outranks the SIE task (SIE_MODULE_TASK_PRIORITY is    *)
(* OSAL_PRI_NORMAL), so on_dmx_event runs to completion between any two    *)
(* steps of the reader and is one action; mode 0 takes no lock that could  *)
(* suspend it.  Every access the reader makes to the shared cursors is a   *)
(* step of its own.  Offsets and lengths are bytes, as in the code; memory *)
(* is kept per 4-byte word, the alignment of every entry.                  *)
(***************************************************************************)
EXTENDS Integers, FiniteSets

CONSTANTS
  BufLen,       \* request->buf_len
  MaxSec,       \* request->max_sec_length (= reserved_len)
  SectionLens,  \* lengths of the sections the stream carries
  Timeouts,     \* may fparam.timeout be finite (TRUE), endless (FALSE)?
  OnTimeout,    \* what its parser may return for SIE_REASON_FILTER_TIMEOUT
  Burst,        \* sections that may arrive while the reader settles its cursors
  MaxSent       \* bound: sections the stream delivers in one behaviour

HdrLen == 4     \* sizeof(struct sect_buffer)

ASSUME RingAssumption ==
  /\ MaxSec \in Nat /\ MaxSec > 0 /\ MaxSec % 4 = 0
  /\ BufLen \in Nat /\ BufLen % 4 = 0 /\ BufLen > 3 * MaxSec
  /\ SectionLens \subseteq 1 .. MaxSec
  /\ Timeouts \subseteq BOOLEAN /\ OnTimeout \subseteq {"started", "freed"}
  /\ Burst \in Nat
  /\ MaxSent \in Nat

VARIABLES
  mem,       \* ring memory, by word: the header of an entry, or part of its body
  read,      \* request->read
  write,     \* request->write
  status,    \* request->status
  timed,     \* is request->fparam.timeout finite?
  hw,        \* demux filter: "getting", "stopped" (continue_get_sec = 0) or "closed"
  wake,      \* DMX_WAKEUP_SIAE trigger of the SIE task
  rpc,       \* where the SIE task is
  buffer,    \* dispatch_section's local: offset of the entry in hand, or None
  cnt,       \* dispatch_section's local section_cnt
  ret,       \* dispatch_section's local ret
  tmp,       \* which section is in info->tmp_buffer (0: a torn one)
  burst,     \* sections stored since the last callback returned
  sent,      \* history: sections the driver has stored
  got        \* history: the last section the parser accepted (or that Open dropped)

vars == <<mem, read, write, status, timed, hw, wake, rpc, buffer, cnt, ret, tmp, burst, sent, got>>
reader == <<rpc, buffer, cnt, ret, tmp, burst>>

None  == -1
Words == 0 .. (BufLen \div 4) - 1
Blank == [sec |-> 0, len |-> 0, full |-> FALSE]

\* Space an entry takes: 4-byte aligned header and section.
EntryUnaligned(len) == HdrLen + len

Entry(len) == ((3 + HdrLen + len) \div 4) * 4

\* No entry may start beyond this offset: a header, a section of the maximum
\* length and the driver's working buffer must still fit.
Beyond(offset) == offset + HdrLen + MaxSec + MaxSec > BufLen

At(offset) == IF offset \div 4 \in Words THEN mem[offset \div 4] ELSE Blank

BodyWords(offset, len) == (offset \div 4) + 1 .. (offset + Entry(len)) \div 4 - 1

Intact(offset) ==
  LET h == At(offset)
  IN  /\ h.len > 0
      /\ \A w \in BodyWords(offset, h.len) : w \in Words /\ mem[w].sec = h.sec

Stored(offset, len, full) ==
  [w \in Words |->
     IF w = offset \div 4 THEN [sec |-> sent + 1, len |-> len, full |-> full]
     ELSE IF w \in BodyWords(offset, len)
          THEN [sec |-> sent + 1, len |-> 0, full |-> FALSE]
          ELSE mem[w]]
------------------------------------------------------------------------------
(* The driver's side. *)

\* Where the next entry would go, before the full test.
NextWriteAlways(len) ==
  LET w == write + Entry(len)
  IN  IF Beyond(w) THEN 0 ELSE w

NextWrite(len) ==
  LET w == write + Entry(len)
  IN  IF Beyond(w) /\ read > 0 THEN 0 ELSE w

RingFullShort(w) ==
  \/ Beyond(w)
  \/ w < read /\ w + HdrLen >= read

\* ring_buffer_full, or no space left below the read pointer.
RingFull(w) ==
  \/ Beyond(w)
  \/ w < read /\ w + HdrLen + MaxSec >= read

\* The stretch of dispatch_section between a callback and the next.
Settling == rpc \in {"advance", "rewind", "rewindw", "loop", "left", "tail"}

\* A section that passed the CRC and section_event() is stored.
OnDmxEvent ==
  /\ hw = "getting"
  /\ status \in {"ACTIVE", "RUNNING"}
  /\ sent < MaxSent
  /\ IF Settling THEN burst < Burst /\ burst' = burst + 1 ELSE UNCHANGED burst
  /\ \E len \in SectionLens :
       LET w == NextWrite(len)
       IN  /\ mem' = Stored(write, len, RingFull(w))
           /\ write' = w
           /\ hw' = IF RingFull(w) THEN "stopped" ELSE "getting"
  /\ wake' = TRUE
  /\ sent' = sent + 1
  /\ UNCHANGED <<timed, read, status, rpc, buffer, cnt, ret, tmp, got>>
------------------------------------------------------------------------------
(* The SIE task: sie_main, inspect_active, dispatch_section. *)

Poll ==          \* IO_ASYNC_POLL returns on a trigger, a stopped filter or a timeout
  /\ rpc = "poll"
  /\ wake \/ hw = "stopped" \/ (timed /\ status = "ACTIVE")
  /\ rpc' = "clear"
  /\ UNCHANGED <<timed, mem, read, write, status, hw, wake, buffer, cnt, ret, tmp, burst, sent, got>>

Clear ==
  /\ rpc = "clear"
  /\ wake' = FALSE
  /\ rpc' = "inspect"
  /\ UNCHANGED <<timed, mem, read, write, status, hw, buffer, cnt, ret, tmp, burst, sent, got>>

\* inspect_active finds the request's timeout expired: the parser is called
\* with SIE_REASON_FILTER_TIMEOUT and no buffer.
InspectTimeout ==
  /\ rpc = "inspect" /\ status = "ACTIVE" /\ timed
  /\ status' = "RUNNING"
  /\ rpc' = "parse"
  /\ buffer' = None /\ cnt' = 0
  /\ UNCHANGED <<timed, mem, read, write, hw, wake, ret, tmp, burst, sent, got>>

InspectHit ==
  /\ rpc = "inspect" /\ status = "ACTIVE" /\ read # write
  /\ rpc' = "take"
  /\ buffer' = None /\ cnt' = 2
  /\ UNCHANGED <<timed, mem, read, write, status, hw, wake, ret, tmp, burst, sent, got>>

InspectNothing ==
  /\ rpc = "inspect"
  /\ status # "ACTIVE" \/ read = write
  /\ rpc' = "poll"
  /\ UNCHANGED <<timed, mem, read, write, status, hw, wake, buffer, cnt, ret, tmp, burst, sent, got>>

\* Copy the section at the read pointer into tmp_buffer and drop the mutex.
Take ==
  /\ rpc = "take"
  /\ buffer' = read
  /\ tmp' = IF Intact(read) THEN At(read).sec ELSE 0
  /\ status' = "RUNNING"
  /\ rpc' = "parse"
  /\ UNCHANGED <<timed, mem, read, write, hw, wake, cnt, ret, burst, sent, got>>

\* The callback returns while the request is still RUNNING.
ParserReturns(r) ==
  /\ rpc = "parse" /\ status = "RUNNING"
  /\ buffer = None => r \in OnTimeout
  /\ status' = "ACTIVE"
  /\ ret' = r
  /\ rpc' = IF buffer = None THEN "tail"
            ELSE IF r = "started" THEN "advance" ELSE "left"
  /\ burst' = 0
  /\ UNCHANGED <<timed, mem, read, write, hw, wake, buffer, cnt, tmp, sent, got>>

\* It was aborted meanwhile: dispatch_section returns sie_freed at once.
ParserReturnsAborted ==
  /\ rpc = "parse" /\ status # "RUNNING"
  /\ rpc' = "poll"
  /\ UNCHANGED <<timed, mem, read, write, status, hw, wake, buffer, cnt, ret, tmp, burst, sent, got>>

\* read moves by the length found, again, in the entry's header.
Advance ==
  /\ rpc = "advance"
  /\ read' = read + Entry(At(buffer).len)
  /\ cnt' = cnt - 1
  /\ rpc' = IF Beyond(read') THEN "rewind" ELSE "loop"
  /\ got' = tmp
  /\ UNCHANGED <<timed, mem, write, status, hw, wake, buffer, ret, tmp, burst, sent>>

Rewind ==
  /\ rpc = "rewind"
  /\ read' = 0
  /\ rpc' = "rewindw"
  /\ UNCHANGED <<timed, mem, write, status, hw, wake, buffer, cnt, ret, tmp, burst, sent, got>>

RewindWrite ==
  /\ rpc = "rewindw"
  /\ write' = IF At(buffer).full /\ Beyond(write) THEN 0 ELSE write
  /\ rpc' = "loop"
  /\ UNCHANGED <<timed, mem, read, status, hw, wake, buffer, cnt, ret, tmp, burst, sent, got>>

Loop ==
  /\ rpc = "loop"
  /\ rpc' = IF read # write /\ cnt > 0 THEN "take" ELSE "left"
  /\ UNCHANGED <<timed, mem, read, write, status, hw, wake, buffer, cnt, ret, tmp, burst, sent, got>>

\* Sections are left unread: the task wakes itself.
UnfinishedNever == FALSE

Unfinished == read # write

Left ==
  /\ rpc = "left"
  /\ wake' = (wake \/ Unfinished)
  /\ rpc' = "tail"
  /\ UNCHANGED <<timed, mem, read, write, status, hw, buffer, cnt, ret, tmp, burst, sent, got>>

\* Is the filter requested again?
RestartAlways  == TRUE
RestartTimeout == buffer = None

Restart == buffer = None \/ At(buffer).full

\* End of dispatch_section: request the filter again when the driver stopped
\* it, close it when the parser freed it.
Finish ==
  /\ rpc = "tail"
  /\ \/ /\ ret = "started"
        /\ hw' = IF Restart THEN "getting" ELSE hw
        /\ UNCHANGED status
     \/ /\ ret = "freed"
        /\ hw' = "closed"
        /\ status' = "FREE"
  /\ rpc' = "poll"
  /\ UNCHANGED <<timed, mem, read, write, wake, buffer, cnt, ret, tmp, burst, sent, got>>
------------------------------------------------------------------------------
(* Other tasks.  Both calls take the engine's mutex, which the SIE task    *)
(* holds except while it waits and while a callback runs.                  *)

MutexFree == rpc \in {"poll", "clear", "inspect", "parse"}

Abort ==         \* sie_abort
  /\ MutexFree
  /\ status \in {"ACTIVE", "RUNNING"}
  /\ status' = "FREE"
  /\ hw' = "closed"
  /\ UNCHANGED <<timed, mem, read, write, wake, reader, sent, got>>

Open ==          \* sie_alloc_filter, sie_config_filter, sie_enable_filter
  /\ MutexFree
  /\ status = "FREE"
  /\ read' = 0 /\ write' = 0
  /\ status' = "ACTIVE"
  /\ hw' = "getting"
  /\ wake' = TRUE
  /\ got' = sent
  /\ timed' \in Timeouts
  /\ UNCHANGED <<mem, reader, sent>>
------------------------------------------------------------------------------
Init ==
  /\ mem = [w \in Words |-> Blank]
  /\ read = 0 /\ write = 0
  /\ status = "FREE" /\ timed = FALSE /\ hw = "closed"
  /\ wake = FALSE
  /\ rpc = "poll" /\ buffer = None /\ cnt = 0 /\ ret = "started" /\ tmp = 0
  /\ burst = 0 /\ sent = 0 /\ got = 0

Inspect  == InspectTimeout \/ InspectHit \/ InspectNothing
Return   == ParserReturnsAborted \/ \E r \in {"started", "freed"} : ParserReturns(r)
Dispatch == Take \/ Advance \/ Rewind \/ RewindWrite \/ Loop \/ Left \/ Finish

SieTask == Poll \/ Clear \/ Inspect \/ Return \/ Dispatch

Next == OnDmxEvent \/ SieTask \/ Abort \/ Open

Spec == Init /\ [][Next]_vars

\* The SIE task is never starved: it is the only consumer of its trigger.
FairSpec == Spec /\ WF_vars(SieTask)
==============================================================================
