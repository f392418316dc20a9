------------------------------ MODULE MCSieRing ------------------------------
(***************************************************************************)
(* Properties of SieRing and their model-checking instances.               *)
(***************************************************************************)
EXTENDS SieRing, Sequences

\* Types; the cursors stay inside the buffer and 4-byte aligned, as the header
\* the code overlays on them needs.
TypeOK ==
  /\ mem \in [Words -> [sec : 0 .. MaxSent, len : {0} \cup SectionLens, full : BOOLEAN]]
  /\ read \in 0 .. BufLen /\ write \in 0 .. BufLen
  /\ read % 4 = 0 /\ write % 4 = 0
  /\ status \in {"FREE", "ACTIVE", "RUNNING"} /\ timed \in BOOLEAN
  /\ hw \in {"getting", "stopped", "closed"}
  /\ wake \in BOOLEAN
  /\ rpc \in {"poll", "clear", "inspect", "take", "parse", "advance",
              "rewind", "rewindw", "loop", "left", "tail"}
  /\ buffer \in {None} \cup 0 .. BufLen
  /\ cnt \in 0 .. 2 /\ ret \in {"started", "freed"}
  /\ tmp \in 0 .. MaxSent /\ sent \in 0 .. MaxSent /\ got \in 0 .. MaxSent

\* There is room for a section of the maximum length at the write pointer: it
\* neither reaches the driver's working buffer at the end nor the oldest unread
\* section.
Room ==
  /\ write + HdrLen + MaxSec + MaxSec <= BufLen
  /\ write >= read \/ write + HdrLen + MaxSec < read

\* As long as the demux filter is getting sections there is room for the next
\* one: on_dmx_event copies a section without looking whether it fits.
RoomWhileGetting == hw = "getting" => Room

\* The write pointer as the reader will leave it: between the two stores of a
\* rewind the code's cursors disagree.
SettledWrite ==
  IF rpc = "rewindw" /\ At(buffer).full /\ Beyond(write) THEN 0 ELSE write

Settled(offset) == IF offset # SettledWrite /\ Beyond(offset) THEN 0 ELSE offset

\* The unread sections, from the read pointer to the write pointer.
Behind(offset) == Settled(offset + Entry(At(offset).len))

Unread ==
  LET from[k \in 0 .. MaxSent] ==
        [offset \in 0 .. BufLen |->
           IF offset = SettledWrite \/ k = 0 THEN <<>>
           ELSE <<At(offset).sec>> \o from[k - 1][Behind(offset)]]
  IN  from[MaxSent][Settled(read)]

Queue == INSTANCE SectionQueue WITH queue <- Unread, last <- got, count <- sent

\* Sections reach the parser once each, whole and in order, while driver and
\* SIE task move the cursors without a lock: the ring implements SectionQueue.
FifoDelivery == Queue!Spec

\* dispatch_section requests a stopped filter again only when the ring has room,
\* whichever entry made it do so.
RestartsWithRoom == [][hw = "stopped" /\ hw' = "getting" => Room']_vars

\* A filter that on_dmx_event stopped for want of room does not stay stopped:
\* the entry that carries SIE_REASON_RINGBUF_FULL is reached, or the filter is
\* aborted.
StoppedResumes == hw = "stopped" ~> hw # "stopped"

\* Stored sections do not linger: though dispatch_section takes two at a time and
\* the trigger is cleared before the ring is inspected, no wake-up is lost.
SectionsTaken == (status = "ACTIVE" /\ read # write) ~> (read = write \/ status = "FREE")
==============================================================================
