---------------------------- MODULE MCSieEngine ----------------------------
(***************************************************************************)
(* Properties of SieEngine and the values its instances give to None.      *)
(***************************************************************************)
EXTENDS SieEngine, TLC

UserSymmetry == Permutations(Users)

Handle   == {Closed} \cup (Nat \X Reqs)
AllCalls == AllocCalls \cup AbortCalls \cup ConfigCalls \cup EnableCalls
            \cup [call : {"enabled"}, req : Reqs] \cup [call : {"none"}]

CallStates == {"idle", "open", "openenable", "close", "closewake", "closewait",
               "closeend", "lock", "enabled"}

\* Types of the engine's state and of the calls in progress.
TypeOK ==
  /\ engine \in {"RELEASED", "INITED", "OPENED"}
  /\ tables \in Nat /\ table \in 0 .. tables
  /\ status \in [Reqs -> {"FREE", "IDLE", "ACTIVE", "RUNNING"}]
  /\ filter \in [Reqs -> FilterNos \cup {None}]
  /\ pid \in [Reqs -> Pids] /\ mask \in [Reqs -> Masks \cup {NoMask}]
  /\ hit \in [Reqs -> BOOLEAN]
  /\ bitmap \subseteq FilterNos /\ pmask \subseteq FilterNos
  /\ owner \in [FilterNos -> Handle] /\ getting \subseteq FilterNos
  /\ mutex \in Tasks \cup {None} /\ module \in Users \cup {None}
  /\ enable \in BOOLEAN /\ closing \in BOOLEAN /\ closed \in BOOLEAN
  /\ wake \in BOOLEAN /\ wild \in BOOLEAN /\ calls \in Nat
  /\ spc \in {"none", "waitenable", "poll", "clear", "check", "leave", "leave2",
              "inspect", "callback", "again", "mask"}
  /\ cur \in Reqs /\ reason \in {"HIT", "TIMEOUT"}
  /\ handle \in [Tasks -> Handle] /\ op \in [Tasks -> AllCalls]
  /\ pc \in [Tasks -> CallStates]

Owns(f, i) == owner[f] = <<table, i>>

\* on_dmx_event is called with a pointer into a live request, never a request
\* that is free or idle: a hardware filter of the current table belongs to a live request, and is
\* the one that request knows of.
FiltersOwned ==
  table # 0 => \A f \in FilterNos, i \in Reqs :
                 Owns(f, i) => status[i] \in Live /\ filter[i] = f

\* Whenever the mutex is free, every filter the table owns is in the bitmap the
\* SIE task polls.
FiltersWatched ==
  (table # 0 /\ mutex = None) =>
     \A f \in FilterNos, i \in Reqs : Owns(f, i) => f \in bitmap

\* While the engine is open and not being closed, the bitmap is exact, and no
\* live request has lost its filter.
BitmapExact ==
  (engine = "OPENED" /\ mutex = None /\ ~closing /\ ~closed) =>
     /\ bitmap = {f \in FilterNos : owner[f] # Closed}
     /\ \A i \in Reqs : status[i] \in Live => Owns(filter[i], i)

\* No step of the API, the SIE task or the driver reaches into a request table
\* that sie_close freed.
NoFreedTableUse == ~wild

\* No hardware filter outlives the table it would be delivered to.
NoFilterLeft ==
  \A f \in FilterNos : owner[f] # Closed => owner[f][1] = table /\ table # 0

\* A section a filter has got is handed to its parser, unless the request is
\* aborted or the engine closed: the task's poll mask is read without the mutex
\* and its trigger cleared late, and still no hit is overlooked.
HitServed ==
  \A i \in Reqs : (hit[i] /\ status[i] = "ACTIVE") ~> (~hit[i] \/ status[i] = "FREE" \/ engine # "OPENED")

\* The close handshake ends: CLOSING and its wake-up reach the SIE task wherever
\* it is, also inside a callback that itself calls the engine.
CloseTerminates == \A t \in Closers : pc[t] = "closewait" ~> pc[t] = "idle"
=============================================================================
