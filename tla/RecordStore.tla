---------------------------- MODULE RecordStore ----------------------------
(***************************************************************************)
(* What libstbinfo promises: one record, replaced as a whole by a newer    *)
(* one.  Power may fail, and a replacement may fail, at any time.          *)
(***************************************************************************)
EXTENDS Naturals

CONSTANT Records   \* numbers from 1, in the order they are saved

NoRecord == 0

VARIABLES
  stored,   \* the record that a restart finds
  pending,  \* records newer than it whose saves began and may still take effect
  ret       \* the save in progress, or what the last one returned

vars == <<stored, pending, ret>>

Init == stored = NoRecord /\ pending = {} /\ ret = "none"

Begin ==
  \E r \in Records :
    /\ ret # "busy" /\ r > stored /\ \A p \in pending : r > p
    /\ pending' = pending \cup {r} /\ ret' = "busy" /\ UNCHANGED stored

TakesEffect ==
  \E r \in pending : stored' = r /\ pending' = {p \in pending : p > r}

Commit == TakesEffect /\ UNCHANGED ret

\* A save that succeeds has stored its record, the newest.
Succeed ==
  /\ ret = "busy" /\ ret' = "ok"
  /\ TakesEffect \/ UNCHANGED <<stored, pending>>
  /\ pending' = {}

\* One that fails, or that power interrupts, may have.
Fail == ret = "busy" /\ ret' = "failed" /\ UNCHANGED <<stored, pending>>

PowerOff == ret' = "none" /\ (TakesEffect \/ UNCHANGED <<stored, pending>>)

\* After a restart what did not take effect never will.
Restart == pending' = {} /\ UNCHANGED <<stored, ret>>

Next == Begin \/ Commit \/ Succeed \/ Fail \/ PowerOff \/ Restart

Spec == Init /\ [][Next]_vars
=============================================================================
