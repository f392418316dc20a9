---------------------------- MODULE SectionQueue ----------------------------
(***************************************************************************)
(* What a ring buffer in mode 0 promises its user: the sections the driver *)
(* stored reach the parser once each, whole, and in the order they came.   *)
(* Sections are numbered in order of arrival.                              *)
(***************************************************************************)
EXTENDS Naturals, Sequences

VARIABLES
  queue,   \* stored sections the parser has not accepted yet
  last,    \* the last section accepted (or dropped by Drop)
  count    \* sections that have arrived

qvars == <<queue, last, count>>

Init == queue = <<>> /\ last = 0 /\ count = 0

Put ==
  /\ count' = count + 1
  /\ queue' = Append(queue, count')
  /\ UNCHANGED last

Accept ==
  /\ queue # <<>>
  /\ last' = Head(queue)
  /\ queue' = Tail(queue)
  /\ UNCHANGED count

\* The filter is aborted or freed and allocated again.
Drop ==
  /\ queue' = <<>>
  /\ last' = count
  /\ UNCHANGED count

Next == Put \/ Accept \/ Drop

Spec == Init /\ [][Next]_qvars
=============================================================================
