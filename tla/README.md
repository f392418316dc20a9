# Formal models of the 3202C set-top-box software

This directory holds TLA+ models of the software in this repository: the ALi
M3202C software development kit for DVB-C receivers (`SRC/`, `inc/`) and its
demo application (`prj/app/demo/dvbc/jade_demo_new_geeya`). TLC checks the
models on small instances; the TLA+ proof system (TLAPS) proves some of their
theorems for every instance. All definitions are translated from the C sources;
`PROJECT.json` maps each one to the lines it stands for.

## The system

A receiver tunes to a transport stream, filters sections out of it with the
demultiplexer, and builds from them a programme database, an event guide and so
on. The code runs as a handful of tasks on a small real-time kernel (OSAL,
delivered as headers and a binary): the application task `ap`, the key task, the
SI engine's task, the demux driver's interrupt and tasks, monitors, the
`libpub` task, conditional access tasks. Tasks share memory and synchronise with
event flags, semaphores, message queues and by switching dispatching off. The
boot loader and the upgrade loader are programs of their own, with one task;
what they share with the application is the flash.

| Part | State it keeps | Operations | Shares state with |
|---|---|---|---|
| SI engine (`libtsi3/engine/sie.c`) | request table, poll bitmap, status, flags; a ring buffer per request | open, close, allocate / configure / enable / abort a filter; the SIE task's inspect and dispatch; the driver's `on_dmx_event` | every user task, the demux driver, its own task |
| SI plug-ins (`libtsi3/plugin`) | search and monitor state machines | start, stop, pause, parser callbacks | the SI engine, the database |
| Advanced demux (`hld/dmx/dmx_adv*.c`) | pools of section nodes, channels, filters, 64 slots of 8 callbacks | allocate, set, enable, disable, free; interrupt and task | CAS users |
| Settings (`libstbinfo`) | two alternating 64 KB flash sectors of records, a cached free address; in the record the state of an upgrade and a table of the flash's chunks | load, save, scan and erase; complete, update, check | power may fail between any two flash operations |
| Other storage (`sto_flash.c`, `libchunk`) | flash sectors, a chain of chunks | read, write, erase; look a chunk up | every user of the flash |
| Boot upgrade over UART (`libbootupg3`) | packet index, last status and error, image buffer | a host's commands and data packets | the flash |
| Flash upgrade (`libupg4`), boot loader, upgrade loader | the settings' state and flags, the loader and its backup, the chunks being burnt | receive, compare, reorganise, burn; back up, restore, choose what to start | the flash and the settings, over power failures |
| OTA download (`libota_dvbc`) | modules being assembled | sections from the air | the upgrade loader |
| Programme database (`libdb4`) | nodes, views | add, delete, sort, save | search, user interface, flash |
| EPG (`libepg`), NVOD, data broadcast (`libdbc`) | heaps and caches of events or blocks | section handlers and queries | SI engine, user interface |
| Auto-scan, channel change (`libpub`) | scan loop, tuning state | start, stop, callbacks | SI engine, search, database, front end |
| Allocators (`libc/alloc.c`, `__alloc.c`) | free lists | malloc, free, coalesce | every task |
| Drivers (smart card, UART, I2C, IR, panel, tuner) | registers, small ring buffers | interrupt handlers, read, write | their HLD layers |
| Conditional access (`libcas`), iPanel port (`udi/ipanel`) | adapters to vendor binaries | | |

What makes them hard: nearly all of the state is shared between tasks and is
protected partly by a mutex, partly by task priority and partly by nothing;
callbacks run with locks released; storage must survive power loss; protocols
must survive lost and repeated packets. `PROJECT.json` lists the hazards at
their lines.

## What makes each part correct

| Part | Hard behaviour | Properties |
|---|---|---|
| Ring of a section request | the driver stores and the SIE task reads with no lock; the cursors wrap in two steps; a full ring stops the filter | sections are delivered once, whole and in order; never stored without room; a stopped filter resumes; no stored section is left lying |
| SI engine | API calls read the engine's status without the mutex; parsers run with the mutex released and call the API; the task's poll mask is a copy; open and close are a handshake of three flags | a filter belongs to one live request of the current table, and is watched; the bitmap is exact; every hit is served; close ends, leaves no filter and no use of the freed table |
| Advanced demux | the driver, the submit task and `adv_dmx_rel_sec` take nodes off the lists without the mutex the API holds; the submit task compares what it takes with what it showed | a section buffer is in one place, and none is lost; a channel's list keeps no section of a filter that was freed or set anew; what is taken was shown; a section is served once the other channels are quiet; the code's `ASSERT(0)`s are not reached |
| Settings store | two sectors that may differ after a power failure, a recovery that erases, a cached address | the last saved record survives any power failure; a save that succeeds can be loaded; no write needs an erase |
| Boot upgrade | packets lost, spoilt and repeated; commands whose answer was lost; a host that starts over; power failure in a copy; a key that the burn takes from the flash and puts into what it burns | no piece is put into the image twice or left out; a place in the flash only ever holds what it held, what was sent for it, or the CI+ key where it was; what is confirmed is whole; the host is told the outcome |
| Flash upgrade | five saves around one burn; two copies of the loader, each the other's only rescue; headers that are torn; a stream that changes in the middle | an upgrade loader can always be started; the application runs on one whole version only; the owner's data stay; an upgrade that began ends |
| Program search | parsers count down what the task waits for; the filter table is full; a stop may come at any point of a search | stopping ends; the engine is handed back open, with no filter of the search in it; no program is counted more than twice |

## Modules

| Module | Models |
|---|---|
| `SieRing` | one request's ring buffer in `ring_buffer_mode` 0, between the driver (`on_dmx_event`) and the SIE task (`inspect_active`, `dispatch_section`) |
| `SectionQueue` | what the ring promises: an abstract queue of sections |
| `MCSieRing` | properties of the ring, and the refinement mapping to `SectionQueue` |
| `SieRingProofs` | its inductive invariant and theorems, the refinement among them |
| `SieEngine` | the engine's request table, API, SIE task, and open/close handshake |
| `MCSieEngine` | properties of the engine |
| `SieEngineProofs` | its inductive invariants and theorems: ownership of filters with any tasks; the close handshake and the bitmap with one user task |
| `AdvDmx` | channels, filters and section buffers of `dmx_adv.c`: the API, `adv_dmx_task`, the driver's callback |
| `MCAdvDmx` | properties of it, and which calls an instance makes |
| `AdvDmxProofs` | its inductive invariants and theorems: the lists; the filters and working buffers, and the submission of sections |
| `StbInfo` | saving, scanning and loading settings in `stb_info.c`, with power failures |
| `RecordStore` | what the settings store promises: one record, replaced as a whole |
| `MCStbInfo` | properties of the store, and the refinement mapping to `RecordStore` |
| `StbInfoProofs` | its inductive invariant and theorems, the refinement among them |
| `BootUpgrade` | the shell of `libbootupg3` and its packet protocol, a host, the line between them and the burning of the image |
| `MCBootUpgrade` | the host's scripts, what they mean, and properties |
| `BootUpgradeProofs` | types, and what a finished burn has written, whatever host drives the device |
| `BootSessionProofs` | the inductive invariant of a host's session, and the theorems of everything `upgrade` checks for safety |
| `UpgradeFlow` | an upgrade over the air from the request to the new software: boot loader, upgrade loader, `libupg4`, the settings' states, power failures |
| `MCUpgradeFlow` | the streams on air, and properties |
| `UpgradeFlowProofs` | that the upgrade loader or its backup is whole, whatever the lengths of chunks; and where chunks keep their places, the inductive invariant and the theorems of everything else `upgrade_flow` checks for safety |
| `PsiSearch` | the scan loop of `lib_as.c` around a search of `si_search.c`, with the SIE task, the driver and the user; and its properties |
| `MCPsiSearch` | the PATs on air |
| `PsiSearchProofs` | its inductive invariant and theorems |

`SieRing` and `SieEngine` look at the same functions from two sides: the first
keeps a request's memory and cursors and has one request, the second keeps the
table, the filters and the locks and forgets what a section holds. `PsiSearch` is
a user of the engine: its calls are one step each, and `sie_close` waits for the
SIE task, as `SieEngine` shows of them. `UpgradeFlow` replaces the settings as a
whole, as `RecordStore` promises of `StbInfo`.

### How they correspond to the code

* **SieRing.** `mem` is the ring by 4-byte words, an entry a header and a body
  (136-140); `read` and `write` are the request's cursors; `hw` is whether the
  driver is getting sections. `OnDmxEvent` is one call of the driver's callback.
  The SIE task is one action per piece of code between two points where the
  driver, which outranks it, or another task can run: `Poll`, `Clear`, `Inspect`,
  `Take`, the parser's return, `Advance`, `Rewind`, `RewindWrite`, `Loop`,
  `Left`, `Finish`.
* **SieEngine.** `status`, `filter`, `pid`, `mask` are the request table's fields
  and `table` numbers the tables that were allocated, so that a freed one can be
  told from the current; `owner` and `getting` are the driver's filters. A call
  is `Call` (the unlocked test of the status), then, with the mutex, one action;
  `__enable_filter` has a second, for the driver may deliver before the bit is set.
  `pc`, `op`, `handle` are a task's place, call and the table it has read. A
  parser may do anything the API allows and then returns (`CallbackReturns`); it
  keeps no filter pointer after that.
* **AdvDmx.** `queue` holds the pool and the channels' `sec_list`s, `wk_buf` the
  working buffers and the node a task has in hand. Each list operation is one
  step, for it runs with dispatching off; a call is `Begin...`, a drain of one
  node at a time, and `End...`. `adv_dmx_rel_sec`, which takes no mutex, is `RelTest`
  (the channel and the filter are in use) and `RelTake` (a node is taken), with any
  call between them. `adv_dmx_task` is `AdmScan`, `AdmPeek`, `AdmCall`,
  `AdmReturn`, `AdmTake`, `AdmPut`.
* **StbInfo.** `flash` is two sectors by 4-byte words; `f_addr` is
  `stbinfo_f_addr`. `Scan` is `_get_stbinfo_free_addr`, `MakeRoom` the choice of
  a sector, `Put` one of the three writes of a copy, `EraseOld` the erase between
  the copies, `BeginLoad` with `Scan` the loading. `Crash` may happen before every
  flash operation and in the middle of an erase.
* **BootUpgrade.** `toDev` and `toHost` are the line. The device runs one loop and
  handles one packet at a time, so a packet and its answer are one step:
  `Shell` is `lib_ash_process_new` with a disjunct per command, `TransferLoop` and
  `DumpLoop` the loops of `cmd_transfer` and `cmd_dump`; the burning is cut at
  every sector and within it (`BurnErase`, `BurnNoErase`, `BurnCopy`, `BurnPoll`,
  `BurnSkip`, `BurnFinish`). `index`, `last_status` and `last_error` are the globals that decide
  whether a packet is a repetition. A data packet is one block and addresses
  count blocks; `image` is the buffer up to `image_free`, `part` what a transfer
  has put behind it; `memory` is what the buffer's memory held when `image_free` was
  null, which a burn then writes. `Burn` first puts the CI+ key's chunk into the buffer, as
  `cmd_burn` does (763-779): `KeyOf` finds the chunk in flash by the walk of
  `sto_chunk_goto` from header to header, and `WithKey` copies its blocks to their
  flash offset, in a buffer that begins at the start address. Which contents are
  headers, how long their chunks are, and which is the key's are constants (`Offset`, `KeyHeads`).
  The host, external, is `HostSend` (again and again until an
  answer comes), `HostRequest`, `HostReceive`, `HostAbort`, `HostGivesUp`.
* **UpgradeFlow.** `flash` is the chunks sector by sector, from the upgrade loader
  to its backup at the end; `stored` is the settings record in flash, `stb` and
  `own` the copy in memory and whether there is one; `pc` is where the box is, and
  `seen` what `boot_enter_upgloader` found before it repaired anything. All copies
  to flash (`backup_burn_flash`, `upg_burn_part`, `upg_burn_norflash`) have the same
  loop, which is `Verified`, `Erase`, `Fill`; `job` is the copy in progress and
  what follows it. One action is what a program does between two changes of the
  flash or the settings. `PowerOff` may happen anywhere, and a sector being
  filled may then hold a header on other data.
* **PsiSearch.** `pc` and `at` are where the `libpub` task is in `as_main`,
  `psi_search_start` and its post functions; `flags` is `psi_flag`, which it waits
  for; `flt` the engine's requests by what they are for; `pat`, `listed`, `stat`,
  `counter` the list of programs in `psi_info`, which the driver's hits and the
  SIE task's closes count down. `stop` is where `as_service_stop` is. `engine` tells
  an engine opened with the search's buffers from the system's own. The driver may refuse a
  filter: that of a PMT is asked for again (`si_search.c` 891-895), those of the PAT, the SDT
  and the NIT are not (`Enabled`). `NitReceived` also has a store that is full, which ends the scan.

## What each run checks

| Run | Instance and bounds | Shows |
|---|---|---|
| `sie_ring` | ring of 44 bytes, sections of 1 and 8 bytes, 5 sections, requests with and without a time-out, whose parser frees | `FifoDelivery` (refinement of `SectionQueue`), `RoomWhileGetting`, `RestartsWithRoom`, `StoppedResumes`, `SectionsTaken` |
| `sie_engine` | one user task that opens and closes, 2 requests, 2 filters, callbacks that call the API, 8 calls | `NoFreedTableUse`, `NoFilterLeft`, `BitmapExact`, `CloseTerminates`, `HitServed` |
| `sie_engine_contended` | two tasks that open, close and use the engine, time-outs, 7 calls | `FiltersOwned`, `FiltersWatched` |
| `adv_shared` | two tasks, 2 channels, 4 buffers, 1 filter, 3 sections, 8 calls, all kinds of calls | `NodeOnce`, `QueuedEnabled`, `EnabledAllocated`, `WorkBuffer` |
| `adv_submit` | one task, 2 channels, 4 buffers, 9 calls, callbacks that take the section, nothing that drains a list; sections numbered 1 to 3, over and over, so that the stream never ends | `NodesKept`, `TakenWasShown`, `SectionsServed` |
| `stb_crash` | sectors of 21 words, records of 6, 8 saves, 2 power failures | `SavedSurvives` (refinement of `RecordStore`), `LoadsLast`, `NeverRefused` |
| `stb_fill` | sectors of two records exactly, no power failure | fails `LoadsLast`: finding |
| `upgrade` | 3 sectors of 2 blocks, the CI+ key in the fourth block behind a chunk of three, seven scripts (an upgrade in two pieces, a moved chunk, a dump, four that are refused), 2 packets on the line, 2 faults, 1 abort, 1 power failure | `ImageExact`, `FlashOurs`, `BurnedWhole`, `HostEnds` |
| `upgrade_flow` | chunks of 2, 2, 1 and 2 sectors in a flash of 10; on air an upgrade of everything, then one by chunks, with or without the loader; 2 power failures, 1 key, 1 refusal | `LoaderSafe`, `NeverDead`, `RunsOneVersion`, `PrivateKept`, `Finishes` |
| `flow_table` | one upgrade of everything, 1 power failure, no key | fails `TableOnce`: finding |
| `psi_search` | PATs of two programs with one PMT PID, of two PIDs one of them reserved, of one PID that is invalid; 3 requests, all schemes, 2 transponders, a driver that refuses filters, sections that come during a time-out | `LeavesEngineOpen`, `StopEnds` |
| `psi_hang` | a PAT of an invalid and a valid PID, 5 requests | fails `SearchEnds`: finding |

`TypeOK` is checked once per model. `PROJECT.json` gives for every property a change of the
code's model that breaks it.

**Bounds.** A ring of 44 bytes and sections of at most 8 hold the documented minimum
of three maximal sections and a little more, so that the ring wraps, becomes full,
has short entries at its end and, with three short sections, more unread than one
visit of the SIE task takes, all within five sections. `MaxCalls` 7 is two times
allocate, configure, enable and an open; what another task does to those is then
within the bound. Two channels make the submit task go round, four buffers are
two working buffers and two to queue, so the pool runs empty; one filter is
shared by both channels' masks. In `adv_submit` at most three sections wait at a time, so three numbers
tell them apart, and the ninth call is a second try at what the driver refused. A sector of 21 words is left after three records
with a rest that is too short: eight saves change sectors twice, and two power
failures can hit a save and its recovery. In that instance fragments and records
never fill a sector to its last word; `stb_fill` shows what happens when they do.
`StbAssumption` asks for room for two records in a sector; the only record that
`stb_info.c` is used for, `STB_INFO_DATA` (`stb_info_data.h` 162), takes some 3 KB of 64.
The upgrade script starts within a sector, so that the block before the start
has to be kept and the image ends within one too; two faults can lose a packet
and its repetition's answer, and the abort and the power failure come on top. In
`upgrade_flow` two power failures can hit an upgrade and its resumption, or the
backup and its repair; every chunk but one has a sector that is not its header;
the second stream comes while the first is being resumed. Three requests are
one fewer than the tables and PMTs of the longest PAT need at once, so the search
meets a full table; two transponders show what one search leaves to the next.

`CHECK_DEADLOCK FALSE` is set throughout, for an instance ends when its bounded
sections, calls, saves or commands are used up, and a receiver may also do nothing
for ever.

**Fairness.** The ring's and the engine's liveness assume weak fairness of the SIE
task: it is its trigger's only consumer and waits with a time-out (533-545). The
close handshake also needs the calls in progress to go on, which hold a mutex for
a bounded time. `SectionsServed` assumes weak fairness of `adv_dmx_task`, whose
wait ends after 20 ms at the latest (`dmx_adv.c` 343), and of API calls in
progress. It promises a section on a channel only once the *other* channels receive no more: the loop
over a channel (349) ends when its list is empty, so one that receives as fast as it is
drained keeps the task, and `MCAdvDmxStarve` shows another channel's section waiting for ever. That
the section's own channel goes on receiving does not matter, and the stream of `adv_submit` does not end. `HostEnds` assumes that the device's loop and the host's sending,
receiving and giving up go on; the faults of the line are bounded. `Finishes`
assumes that the programs run on, and that a user at the upgrade loader's prompt
leaves it in the end when nothing newer is on air (`SF_vars(Cancel)`): the prompt
waits for the user (`boot_ota_input.c` 264-289), so without that the box may stay
there. `StopEnds` and `SearchEnds` assume that the stopping task, the `libpub` task and the
SIE task run on, and that a PMT filter the driver refuses is granted in the end: the
search asks again every 20 ms (`si_search.c` 891-895). A refused filter of the PAT, the SDT or the NIT is
only reported (1330, 1371), and the search waits until it is stopped; the model has
it so. `StopEnds` then names one exception (`StopLost`): a stop that comes before `psi_flag` is made
sets no `ABORT`, and the search waits for a PAT or NIT it has no filter for. No fairness is assumed of the stream, of callers, of the line
or of time-outs.

## Assumptions about what is outside the models

The kernel and the demux driver are binaries. From how the code uses them:

* the driver outranks the SIE task and `adv_dmx_task`; `on_dmx_event` and
  `adv_dmx_sec_cb` are not interrupted by them;
* the driver delivers nothing for a filter once a close of it has returned; it may
  refuse to open one;
* between two statements of the reader of a ring at most one section arrives
  (`Burst` = 1);
* callers configure and enable only what they have allocated; users of a ring
  install a `section_event`, and their parsers free a request that timed out;
  a parser keeps no filter pointer after it returns;
* submit callbacks of `dmx_adv.c` do not call its API (`Reentrant` = FALSE): the
  slot layer's do not. The code allows it (195), and lets them run without the
  mutex; `EnabledAllocated` then fails.

Of the flash and the power:

* a flash write that clears bits only succeeds, and one that needs an erase is
  refused, for nothing sets `STO_FLAG_AUTO_ERASE` around a save of the settings;
  power fails between flash operations, or in an erase, which leaves the sector
  unreadable; a settings sector is a flash sector;
* in `BootUpgrade` a copy that fails or loses power leaves a beginning of what was
  meant for the sector, and the rest as it was.

Of an upgrade over the air:

* the settings are saved as a whole; only the limited modes on NOR flash are used,
  and a stream is taken when its version is larger (`STB_INFO_SW_VER_LARGE`); the backup lies in the flash's last sectors, as long as the loader; images end
  below it, and are longer than half the flash, so that a table that lists every
  chunk twice does not fit; all loaders have one length (`UpgradeFlowAssumption`);
* the image buffer is the mirror buffer (`sys_config.h` 148), so what was read of
  the flash is what is looked through for the user data;
* the part definitions of a device are external, and the `LIMIT` state cannot be
  reached, for nothing sets it.

Of the program search: `sie_close` returns when the SIE task has left, and calls of
the engine are one step, as `SieEngine` shows; the driver stops when it is told to
(`IO_STOP_GET_SECTION`); a parser's part that runs as the driver's callback is not
interrupted by tasks; `as_service_stop` is not preempted between seeing
`RELEASE` and `sie_open` (`StopPreempted` = FALSE).

## Proofs

TLAPS checks, for any values of the constants that meet the named assumptions:

* **`SieRingProofs!RingTypes`, `RoomForNext`, `RequestedWithRoom`, `RingIsQueue`**, for
  buffers and sections of any lengths and any number of them. Assumed: `RingAssumption` and
  `Settles`: a parser answers a time-out by freeing the request, and at most one
  section arrives between the parser's answer and the end of `dispatch_section`.
  Both are needed, as `MCSieRingTimeout` and `MCSieRingBurst` show. The cursors alone
  say little: `RInv` says that there are offsets `o` of the unread sections
  (`Queued`), the first where the reader will look, each behind the one before or,
  when no entry may start there, at 0 (`Chain`); each section whole (`Holds`) and outside
  the space from the write pointer on (`Apart`). The driver then appends to this chain
  (`ChainPut`), which needs only that what is written is outside the entries, and
  the reader drops its first element (`ChainNext`). Between the two stores of a
  rewind the cursors disagree; `Settled` and `SettledWrite` are where they will be. Hard is
  the header of the accepted entry: `dispatch_section` reads it after `read` has passed it,
  in space the driver may use again. `Passed` says that it is still there: the entry is
  full and the driver stopped, or the write pointer is a whole section below it or
  above it, so that the one section that may come does not reach it. That
  `Unread`, a recursion over the memory, is the sequence `got + 1 .. sent` follows by
  least elements (`UnreadNumbers`), and the refinement from that.
* **`SieEngineProofs!TypeCorrect`, `FiltersAreOwned`, `FiltersAreWatched`**, each
  from `Invariant == Spec => []IInv`. `FiltersOwned` is not inductive: a step may
  use a request again only because of what the tasks inside the engine hold. `IInv`
  adds to `TypeOK` and `FiltersOwned` what a task in a call has in hand (`OpsOK`);
  that the SIE task calls the API from a callback only and never holds the mutex
  twice (`SieOK`); that a request is RUNNING only while its parser is called
  (`RunningOK`); that one between two filters has none (`AgainOK`); that no filter
  names a table still to be allocated (`FreshOK`); and that a filter is in the
  bitmap, or its enabler, holding the mutex, is about to put it there
  (`WatchedOK`). Assumed of the constants: `EngineAssumption`.
* **`SieEngineProofs!NoFreedTable`, `NoFilterOutlives`, `BitmapIsExact`**, for one
  user task besides the parsers (with two, the first can read the status, lose
  the processor, and find the table freed: see below). The open and close
  handshake of three flags has no state of its own; `Handshake` therefore gives, for every
  place the user's call can be at, where the SIE task may be and which flags may
  be set (`Phase`). The rest of `JInv` says what a parser may have begun
  (`ParserCalls`), that a handle names the present table while it exists
  (`HandlesOK`), that filters belong to the present table (`OwnersOK`), exist
  only while the engine has one (`OpenOnly`), and that a live request has its
  filter (`LiveOwned`).
* **`AdvDmxProofs!TypeCorrect`, `NodesAreOnce`.** Assumed: `~Reentrant`. The
  property by itself is not inductive: that a node taken off a list is put back on
  one must not create a second copy. The invariant adds that what a task holds it
  holds between its two steps only (`Hands`), that the mutex excludes two calls in
  progress (`Exclusive`), that a call's channel is allocated as its stage demands
  (`Targets`), and that `adv_dmx_task` is not inside a call (`AdmOutside`). The
  list lemmas say what `list_add`, `list_add_tail` and `list_del` do to a
  duplicate-free list.
* **`AdvDmxProofs!WorkBuffersMatch`, `QueuedIsEnabled`, `SetIsAllocated`**,
  from that invariant and `FInv`. `QueuedEnabled` speaks of the lists, not of a section `adv_dmx_task` had
  peeked at before its filter was freed: that one is still presented
  (`MCAdvDmxStale`). In a call the sections on a channel's list may be of the filter that is being
  drained (`ListedInUse`), and a filter about to be said to be set is still
  allocated (`Setting`). Assumed: `~Reentrant`.
* **`AdvDmxProofs!BuffersAreKept`, `TakenIsShown`**, from both invariants and
  `KInv`. Assumed: `~Reentrant` and `Kinds \subseteq SubmitCalls`, as in `adv_submit`:
  `MCAdvDmxDrain` shows the first to be false with `rst_channel`. Between the look at
  a buffer and its removal `adv_dmx_task` calls the application, holding nothing;
  what it looked at stays the head of its list (`PeekedIsHead`), since the driver
  adds at the tail, and since no call has anything to drain: sections are of filters
  that are set (`ListedSet`), and a filter being set was not (`Submitting`). A hand is
  empty when it takes a buffer (`EmptyHand`), so none is overwritten (`Kept`).
* **`StbInfoProofs!TypesHold`** (of `SpecRefused`, without further hypotheses),
  **`WritesNotRefused`, `LoadFindsLast`, `StoreRefined`**, for records and sectors of any
  length, any number of saves and of power failures. Assumed: `StbAssumption`. The last
  three have the hypothesis `[]NotFull`, that no record ends with the first
  sector's last word: when one does, they are false, and that is the finding of
  `stb_fill`. `NotFull` holds in every state of the instance `stb_crash`; with records of
  some 720 words in sectors of 16384 the lengths meet only after many
  interrupted saves. The
  argument: each sector is described by two numbers, how many of its words are
  in use (`Used`) and the newest record that can be found in it (`Found`, 0 for
  none). `Filling` says of the words what makes the numbers mean that: behind
  `Used` all is blank, every end id a record's distance behind a start id belongs to a whole record,
  and what an interrupted save left holds none. The step lemmas then
  speak of the two numbers only. `IInv` says that the free address in memory is
  right and the other sector blank or an equal copy (`Ready`); that a write in progress has
  put so much of its record behind what is kept (`Part`, `Level`) and is the
  next record of a sector, the first of an erased one while the other still
  holds what was saved, or the second copy (`Appending`, `Moving`, `Copying`); that the old sector is
  erased with the new copy whole (`EraseInv`); and that the sector a scan would keep holds the
  newest whole record, at any moment (`Sound`). The scan's preference for the shorter sector
  is what makes `Sound` hard: an interrupted append makes the longer sector, an
  interrupted move the shorter one, the one not to be trusted, and only the
  second may lack a record. The lemmas about `Used`, `Locate` and `Head` are by
  least elements of sets of addresses (`LeastNat`).
* **`UpgradeFlowProofs!LoaderIsSafe`**, for chunks of any lengths, any streams and
  any number of power failures. `LoaderSafe` is not inductive: which copy may be
  written depends on what the boot loader saw and repaired before. `UInv` adds that
  the upgrade loader only runs, and its steps only happen, with a whole backup
  (`Guarded`), that a copy in progress leaves its source alone and comes from a whole
  one, with what has been verified so far (`Writing`), that no other chunk's
  header is ever in the backup's first sector (`Shape`), and that nothing has been
  forbidden (`Allowed`). Assumed: `UpgradeFlowAssumption`, and `[]TableBelow`: a
  table that passes the size check before a burn ends below the backup. It is kept
  for chunks whose lengths change from version to version; where they stay, the
  next theorems prove it too.
* **`UpgradeFlowProofs!FlowTypes`, `LoaderAlwaysSafe`, `NeverStuck`, `DataKept`,
  `OneVersionRuns`**, for chunks of any lengths, any streams on air that keep to the
  hypotheses, any number of power failures and of keys. Assumed besides
  `UpgradeFlowAssumption`:
  `FixedLayout`, main code has one length in all versions (`MCUpgradeFlowMove` shows the
  owner's data lost without it); `AsksForBoth`, a stream that upgrades chunks asks
  for main code and for resources (of a chunk it does not ask for it brings back what is in
  flash, and of one that an earlier burn left bad only a header); for `OneVersionRuns` also
  `Newest`, where it asks for one of them only if it is newer, nothing newer was
  ever on air (an older stream after an interrupted newer one would replace one
  chunk and leave the other). Streams of `all` mode are free: older, newer, in any order.
  The instance `upgrade_flow` meets the hypotheses.

  None of the properties is inductive, for none says what the flash is while it is
  being written. `VInv`, on top of `UInv`, ties four things together: the state
  the settings have in flash decides whether the flash must be whole (`Records`); what a program
  believes the settings to be is what they are wherever it acts on it (`Sync`, `Course`), so that
  no burn begins before `PREBURN` is on record; while chunks are written, the image in
  memory is a whole set that ends where the flash's does and holds the owner's
  data that are already there (`Copying`), so that whatever part of it is in flash, the owner's data
  and the headers the walk relies on are not disturbed (`Proper`); and the
  walk from header to header, by which everything is found, leads through
  `Order` in that flash and in that image, also after the boot loader has listed a
  chunk twice (`TableOk`, `WalkIs`). The walk and the sums over the table are
  recursive functions; what is proved of them is proved by the least element of a set of naturals
  (`UpTo`, from `WFMin`), not by the library's induction schemes.
* **`PsiSearchProofs!EngineIsLeftOpen`, `EngineIsTheSearchs`**, for any PATs, filters,
  transponders and scans. Assumed: `SearchAssumption`, `~StopPreempted`.
  `LeavesEngineOpen` speaks only of the time after a scan. `IInv` says what is true
  in one: which engine there is at each place of the task (`Engine`), that no filter is open
  and no callback runs outside a search (`Idle`), that nobody else opens the engine
  meanwhile (`NoOpener`), that only a stop that waits has told the driver to hold
  (`Holding`), and that `as_info` lives as long as the scan (`Alive`).
* **`PsiSearchProofs!SearchTypes`**, with the same hypotheses: types, and what `TypeOK` says of
  the counters. `n` stays a natural number because it never falls below the PIDs still to
  be asked for (`Asking`). `pmt_counter` stays below twice the programs
  because it is at most those closed or returned, and those returned once more (`Counted`), and no program
  is returned twice: a returned one is out of its list or its filter no longer delivers (`Once`), and
  no PID is asked for again (`Untried`, `Fresh`), since `psi_prepare_pmt` asks for each
  once (`RootsOnce`). That the sum is only a bound, and may exceed the number of programs, is the late section's doing
  (`LateHits`).

* **`BootUpgradeProofs!BootTypes`, `BurnIsTold`**, for sectors and scripts of any length
  and any number of faults, restarts and power failures, also of hosts that do not see one. Assumed: `BootAssumption`, and
  that scripts are well-formed (`WellFormed`: what is moved lies in the flash). The image is meant with the
  key's chunk in it, wherever a walk over the flash of the moment has found one.
  `BurnTold` looks back over the whole loop of `cmd_burn`, so the invariant says that the sectors
  behind `num` hold the image or were reported (`Written`), that the sector about to be
  copied was put together from it (`Copying`), and that `num` goes from sector to sector
  and never leaves the flash, though memory without an address has no end of its own
  (`Places`).
* **`BootSessionProofs!ImageIsExact`, `FlashIsOurs`, `BurnIsWhole`**, for sectors, scripts and
  lines of any length, any number of packets lost, spoilt or repeated, of failed copies and of power
  failures. Assumed: `BootAssumption`; `HostSees = TRUE`, the host notices the device's
  restart (`MCBootUpgradeRestart` shows the flash spoilt without it); `MaxAborts <= 1`, it
  starts over of its own accord once (`MCBootUpgradeTwice`); and `SoundScripts`, of what a host sends:
  `comtest` first and only there, one address and one burn, the image built after the one
  and before the other, nothing empty loaded or dumped, nothing moved from where the burn writes, and
  no dump as the second command. The last is
  needed by the proof alone: an index of 1 is used again by a host that starts over, and a dump answers
  under its index many times. And `SoundKey`, of scripts with an address and a burn: whatever
  part of the script's image is in flash or blank, the walk takes no chunk but the key's for it
  (`KeyStays`), and finds it unless a block is blank or the key was overwritten; and an image that does
  not begin with the flash ends before it could be taken to hold the key's place (`KeyClear`), for the
  key is copied to its flash offset wherever the buffer begins: `MCBootUpgradeKey` shows the flash
  spoilt without it. The scripts of `upgrade` meet both.

  The device tells a new command from a repetition by the index alone, and the host tells answers apart by
  it, so none of the three is inductive. `SessionInv` says where the two can be. In a session (`InSession`)
  the device's index is the host's or one behind, and what it has done of the script
  follows from which it is (`DeviceAt`: the command not begun, at work, done, or failed);
  packets on the line are of the host's index or before, in order, and a data request
  only of the command that asks for data (`LineAt`); an answer under the host's index that
  would let it go on was given after the command was done (`AnswerAt`). When the host starts over, its
  first session is still on the line in both directions: until the echo comes it heeds nothing
  (`Heeded`), and the device is in the session the host has left (`Former`), with
  only new `comtest`s behind the old packets (`OnlySync`), or burns on with its index reset
  (`Loose`). `InTurn` says of the first session that no `comtest` and no echo is left behind what
  follows them, which is true once only. `FlashFine`, `BurnFine` and `PartFine` say which blocks
  a burn can reach and that what it brings is the script's image, with the key's blocks where a
  burn has put them (`Spared`, `Fits`). That a burn finds no key but the right one follows from
  `SoundKey`, for every flash there can be is one of its mixtures (`KeyFound`, `KeyInImage`). The image a
  script builds is a recursive function (`Builds`); that it exists is proved by the least
  number for which it would not (`ImagesExist`, from `WFMin`).

Only model-checked: liveness; of `BootUpgrade`, scripts that `SoundScripts` and `SoundKey` leave
out; of `UpgradeFlow` without `FixedLayout`
and `AsksForBoth`, everything but `LoaderSafe`.

## Findings

Three runs end in a violation of something the code's comments say:

* `stb_fill`: a record that ends at the first sector's end is saved with success,
  and not found again.
* `flow_table`: power fails between the two saves with which the main application
  completes the settings after an upgrade; at the next start every chunk is listed
  a second time. If the key is held then, so that an upgrade is begun before the
  table is checked, the doubled table is saved with the state `PREBURN`, which is
  not checked, and every upgrade by chunks is refused until a newer one of everything
  is on air. `Finishes` excludes this case and says so.
* `psi_hang`: a PID that `psi_prepare_pmt` skips as invalid still counts as a
  program, so the counter of the programs to come never reaches zero, and a search
  of a transponder with such a PAT waits until the user stops it.

Further configurations show what the assumptions above are needed for, and what the
code does not promise; each fails the property it checks:

| Configuration | Fails | Because |
|---|---|---|
| `MCSieRingTimeout` | `RoomWhileGetting` | a parser that answers a time-out with `sie_started` lets the driver store without room |
| `MCSieRingBurst` | `FifoDelivery` | two sections stored during a rewind make a full ring look empty |
| `MCSieEngineClose` | `NoFreedTableUse` | a second task that has read the status uses the table the first frees in `sie_close` |
| `MCAdvDmxDrain` | `NodesKept` | `adv_dmx_task` drops a buffer it did not show, when the list was drained while its callback ran |
| `MCAdvDmxStale` | `PresentedEnabled` | `adv_dmx_task` has peeked at a section, its filter is freed and drained, and the callback is given the section all the same (`dmx_adv.c` 349-360) |
| `MCAdvDmxStarve` | `AlwaysServed` | a channel that receives as fast as it is drained keeps `adv_dmx_task` from all others |
| `MCBootUpgradeKey` | `FlashOurs` | an upgrade from the second sector on, and the CI+ key in the first: `cmd_burn` copies the key to its flash offset in a buffer that begins elsewhere (`lib_ashcmd.c` 774), and burns it over what the host sent for another place. The HDCP key's copy, above it, is for an "all code image" (755) and tests what is burnt (741); this one does not |
| `MCBootUpgradeRestart` | `FlashOurs` | a host that does not notice the device's restart goes on with its script: the image buffer and start address are new |
| `MCBootUpgradeTwice` | `ImageExact` | a host that starts over counts its packets from 0 again: after the second time stale answers pass for current ones, while stale commands are run again |
| `MCUpgradeFlowMove` | `PrivateKept` | main code that has grown moves the user data; power fails in the burn, and the old place is not found again |
| `MCPsiSearchStop` | `EngineForSearch` | the scan task goes on between the stop's test of `RELEASE` and its `sie_open`: two openers |
| `MCPsiSearchRefused` | `StopReturns` | a stop before `psi_flag` is made sets no `ABORT`, and the search waits for a table whose filter the driver has refused |

## Not modelled

Of the modelled files: `ring_buffer_mode` 1, which has no caller, and linear
buffers of the engine; `adv_dmx_quit`, filter handles and mask bytes of the
advanced demux; `get_stbinfo_len`, failing flash writes and bytes within a word
in the settings store (power failing inside an id leaves an address that is not a multiple of
four, `stb_info.c` 71); the old character protocol, the loopback of `comtest` and
commands registered by callback in `libbootupg3`, its copies of the HDCP and DIVX keys
(`HDCP_IN_FLASH` and `DIVX_CERT_ENABLE` are not defined), the largest length of a chunk
(`chunk_maxlen`), and a key's chunk that would run past the flash, which is cut there; the unlimited modes, NAND flash,
the USB path and the download itself in the upgrade; blind scan and tuning, the
parser's STOFULL flag (that the store is full is seen after the NIT only), SDT other, BAT, the wait for EITs of NVOD, and tables of several
sections or with new versions in the program search.

Of the rest of the system, `PROJECT.json` gives the reason for each component.
Most of the sources are register-level drivers of tuners and chips, image
decoders, fonts and strings, menus, and adapters to vendor binaries: pure input and
output or data transformation, with no state a model could say anything about.
The allocators, the programme database, the event guide and the parsers are
sequential and bit-packed; what could be wrong in them is in the packing.

## What could come next

* `AdvDmxSlot`: the 64 slots over `AdvDmx`, composed with it by `INSTANCE`.
* The monitors (`psi_monitor` and its like) over the engine, as `PsiSearch` is.
* The assembly of modules in `libota_dvbc` from sections in any order.
* `ImageExact` of hosts whose second command is a dump: the invariant would have to follow
  a dump's answers under index 1 across a new start of the host.
