--------------------------- MODULE MCUpgradeFlow ---------------------------
(***************************************************************************)
(* Instances and properties of UpgradeFlow.                                *)
(***************************************************************************)
EXTENDS UpgradeFlow

Flags(l, m, r) == [id \in {"loader", "main", "rsc"} |-> CASE id = "loader" -> l [] id = "main" -> m [] id = "rsc" -> r]
All(v) == [sw |-> v, mode |-> "all", flag |-> Flags(0, 0, 0)]
ByChunk(v, l) == [sw |-> v, mode |-> "chunk", flag |-> Flags(l, 1, 2)]

\* The stream changes while the box is being upgraded.
Changing == {All(1), ByChunk(2, 0), ByChunk(2, 1)}
OneStream == {All(1)}
SameLen == [v \in Versions |-> 2]
Growing == [v \in Versions |-> 2 + v]

Chunk == [id : Ids, ver : Versions \cup {Mine}]
Record == [state : {"normal", "preburn", "reset"}, needbackup : BOOLEAN, forbidden : BOOLEAN,
           trigger : {"none", "bootfail", "interrupt", "bootkey", "appota"}, sw : Versions, table : Seq(Chunk)]
Content == [id : Ids \cup {"blank", "junk"}, ver : Versions \cup {Mine}, part : 0 .. NorSize]

\* A table that passes the size check before a burn (lib_upg4_com.c 586-597) ends
\* below the backup loader: one that lists each chunk once does, one that lists
\* them twice is longer than the flash.
TableBelow ==
  pc = "burn" /\ Size(stb.table) <= NorSize => Size(stb.table) \in 1 .. BackupAt - 1

\* Types of the flash, the settings and the program's state.
TypeOK ==
  /\ TableBelow
  /\ flash \in [1 .. NorSize -> Content]
  /\ (stored = NoRecord \/ stored \in Record) /\ stb \in Record /\ own \in BOOLEAN
  /\ pc \in {"off", "flagged", "decide", "enter", "restored", "spare", "start", "main", "loader", "completed",
             "run", "ota", "prompt", "begin", "download", "burn", "chunks", "burnt", "done", "dead", "write"}
  /\ job.src \in Seq(Content) /\ (pc = "write" => job.n \in DOMAIN job.src /\ Here \in DOMAIN flash)
  /\ seen \in [bad : BOOLEAN, differ : BOOLEAN, whole : BOOLEAN, back : BOOLEAN]
  /\ offer \in Streams \cup {NoOffer}
  /\ crashes \in 0 .. MaxCrashes /\ keys \in 0 .. MaxKeys /\ refusals \in 0 .. MaxRefusals

\* Whatever is being written, the upgrade loader or its backup is whole, so that
\* boot_enter_upgloader never has to forbid upgrades.
LoaderSafe == (LoaderWhole \/ BackupWhole) /\ ~stb.forbidden

\* No power failure leaves the box in the boot loader's shell or a loader's halt.
NeverDead == pc # "dead"

\* The main application only runs with all chunks whole and of the same upgrade.
RunsOneVersion ==
  pc = "run" => CrcOk /\ flash[Found(flash, "main")].ver = flash[Found(flash, "rsc")].ver

\* The owner's data outlive an upgrade, however often it is interrupted.
PrivateKept ==
  pc = "run" => LET a == Found(flash, "user")
                IN [n \in 1 .. UserLen |-> flash[a + n - 1]] = Sectors("user", Mine)

\* The settings list every chunk of the flash once.
TableOnce == (pc = "run" /\ own) => stb.table = Scanned(<<>>)

\* An upgrade that was begun ends with the main application running; what run
\* flow_table shows of the table can only prevent it once the key was held.
TableFits == stored # NoRecord => Size(stored.table) <= NorSize
Finishes ==
  ([](keys = 0) \/ []TableFits) =>
    ((stored # NoRecord /\ stored.state = "preburn") ~> (pc = "run"))
=============================================================================
