----------------------------- MODULE MCStbInfo -----------------------------
(***************************************************************************)
(* Properties of StbInfo and its refinement of RecordStore.                *)
(***************************************************************************)
EXTENDS StbInfo

\* Types; no address leaves the two sectors, and the flash holds only words that
\* were saved.
TypeOK ==
  /\ flash \in [Sectors -> [Words -> {Blank, Junk, StartId, EndId} \cup {Data(v) : v \in 1 .. MaxSaves}]]
  /\ f_addr \in Unknown .. 2 * S /\ addr \in 0 .. 2 * S /\ at \in 0 .. 2 * S
  /\ copy \in {"first", "mirror"} /\ field \in DOMAIN Fields
  /\ pc \in {"off", "idle", "scan", "room", "write", "erase"} /\ call \in {"save", "load", "restart"}
  /\ saves \in 0 .. MaxSaves /\ since \in 0 .. saves /\ ret \in {"none", "busy", "ok", "failed"}
  /\ crashes \in 0 .. MaxCrashes

\* Saves that began since the restart and are newer than what one would find now.
Pending == {r \in since + 1 .. saves : r > Recovered(flash)}

Store == INSTANCE RecordStore
           WITH Records <- 1 .. MaxSaves, stored <- Recovered(flash), pending <- Pending

\* Whenever power fails - between two writes, or in an erase, also an erase of the
\* recovery itself - a restart finds, whole, the last record saved or one whose save
\* had begun and not succeeded, and never one that was replaced.  A save that
\* returns success has stored its record.
SavedSurvives == Store!Spec

\* No write of a save needs an erase: a sector is erased before the free address
\* enters it, and what a failure left behind is skipped.
NeverRefused == pc = "write" => Writable

\* load_stbinfo is "looking for ending ID from tail to the position where only 1
\* valid entry could write": after a save that succeeded it finds that record.
LoadsLast == pc = "idle" /\ ret = "ok" /\ f_addr # Unknown => Load(flash, f_addr) = saves
=============================================================================
