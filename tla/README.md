# A TLA+ model of the GPU memory service

This directory specifies the repository's allocation core, its persistence, compaction and
reclaim, the wire protocol and the reference deployment in TLA+, model-checks them with TLC
on small instances, and proves their safety properties with TLAPS for every instance. File
and line references are to the repository; `PROJECT.json` maps every definition to the lines
it stands for.

## 1. Inventory of the system

| component | code | state | operations |
|---|---|---|---|
| `RegionAllocator` | `src/src/region_allocator.cpp` | `regions_` (offset → region), `free_index_` (ordered free slots), `alloc_offset_` (id → offset), live counters, a cached summary | `allocate`, `free`, `relocate`, `pin`, `unpin`, queries |
| `MemoryGovernor` | `src/src/governed_memory.cpp`, `allocation.cpp` | `records_`, `retired_`, `next_alloc_id_`, `history_count_`, the `MemoryDomain` counters, the arena above, one mutex | `initialize`, `request`, `release`, `release_for_worker`, `pin`, `unpin`, `apply_relocation`, `summary`, `pressure`, `reclaim_candidates`, `plan_compaction`, `snapshot`, `restore`, `save`, `load` |
| pressure policy | `src/src/pressure.cpp` | none (the last state is the governor's) | `classify_pressure`, `evaluate_pressure` |
| persistence | `src/src/persistence.cpp` | one file | `encode`, `decode`, `write_file`, `read_file` |
| coordinator | `src/coordinator/coordinator.cpp` | controller and worker sockets, the worker's boot id, `g_alloc` | accept/register, ALLOCATE, RELEASE, QUERY, SHUTDOWN |
| worker | `src/worker/worker.cpp` | its boot id, `allocs` | register, ALLOCATE, RELEASE, SHUTDOWN |
| protocol, sockets | `src/src/protocol.cpp`, `src/src/net.hpp` | bytes in transit, a frame half sent or half received | `encode`, `decode`, `send_frame`, `recv_frame` over loopback TCP |
| compaction, reclaim | `src/tests/test_cuda_arena.cu`, `test_reclaim_compact.cpp` (callers of the governor) | a plan, a list of candidates, the contents of device memory | plan, copy, `apply_relocation`; select candidates, release them |
| backends | `src/src/host_backend.cpp`, `src/src/cuda/` | none | obtain and free the arena, copy |
| tools, examples, benchmarks | `src/tools`, `src/examples`, `src/consumer`, `src/benchmarks` | none | callers of the library |

**Interaction.** The governor owns one arena and calls it inside its mutex. Clients hold
`(id, generation)` handles; reclaim candidates and compaction plans are answers that a
caller acts on later, in calls of its own. Compaction is a protocol of the caller:
`plan_compaction`, copy the bytes with the backend, `apply_relocation`. The coordinator
is a separate process that forwards ALLOCATE and RELEASE between one controller and one
worker over TCP and keeps its own table of what it granted; it does not use the governor.

**What is hard.** The arena keeps one fact in five places (regions, two indexes, two
counters) plus a lazily refreshed cache, and changes them incrementally. The governor
keeps a second book of the same allocations, and a third in the domain counters. Pins are
counted in both books. Handles go stale when an allocation moves or is released. Snapshots
may be older than the handles clients hold. The coordinator blocks on its peers, and
workers die. `PROJECT.json` lists these hazards at their lines.

**What makes each part correct.**

* Arena: live and free regions partition the capacity; free neighbours are merged; both
  indexes and all counters agree with the layout; allocations are aligned; a request is
  refused only when no aligned hole exists; bytes change owner only by allocate, by free
  under the current generation, or by an atomic move.
* Governor: records and arena describe the same allocations; an id is never used twice;
  a stale handle never acts; a pinned allocation stays where it is; reclaim candidates
  are reclaimable and plans are applicable in the state they were computed in.
* Pressure: hysteresis between the high and the low watermark.
* Persistence: what the governor saves is read back as it was, or is outside limits of the
  decoder that can be named; a damaged or torn file is refused; what is restored was saved,
  and no handle given out before a crash comes to name another allocation.
* Compaction and reclaim: what clients wrote survives moves; a promised gain is delivered;
  nothing pinned is moved or taken back, however old the plan or the candidate list is.
* Protocol: frames arrive whole, in order and once, wherever the stream is cut; a healthy
  connection is never taken for a broken one.
* Coordinator: an entry of a dead worker is never current; the memory of a worker is on the
  coordinator's books; stale traffic of an earlier boot acts on no later one; every request is
  answered.

## 2. Modules

| module | models | uses |
|---|---|---|
| `RegionAllocator` | class `RegionAllocator` | – |
| `ByteLedger` | abstract: which handle owns which byte, implemented by the arena and by the governor's records | – |
| `MCRegionAllocator` | model values and symmetry for TLC | `RegionAllocator` |
| `Pressure` | pressure classification | – |
| `MemoryGovernor` | class `MemoryGovernor` | `RegionAllocator`, `Pressure`; implements `ByteLedger` |
| `MCMemoryGovernor` | request sets for TLC | `MemoryGovernor` |
| `GovernorPins` | the governor with client processes that remember the pins they hold | `MemoryGovernor` |
| `MCGovernorPins` | request sets for TLC | `GovernorPins` |
| `Compaction` | compactor, reclaimer and clients over the governor, with the contents of memory | `GovernorPins` |
| `MCCompaction` | request sets for TLC | `Compaction` |
| `SnapshotFile` | the file format: `encode`, `decode` and its checks | `MemoryGovernor` |
| `Persistence` | the governor with its snapshot file, across the ends of governors and processes | `SnapshotFile` |
| `MCPersistence` | request sets for TLC | `Persistence` |
| `Worker` | the worker processes and their connections | – |
| `Coordinator` | the coordinator's loop, with workers and controllers | `Worker` |
| `MCCoordinator` | sets of processes, ids and generations for TLC | `Coordinator` |
| `FrameChannel` | abstract: whole frames, in order, at most once | – |
| `Framing` | `send_frame`/`recv_frame` over a byte stream | implements `FrameChannel` |
| `MCFraming` | frames for TLC | `Framing` |
| `RegionAllocatorProofs` | proofs: the arena's invariant | `RegionAllocator` |
| `ArenaClientProofs` | proofs: the arena implements `ByteLedger`; no false out-of-memory | `RegionAllocatorProofs` |
| `GovernorProofs` | proofs: the governor's invariant, its answers, its action properties | `MemoryGovernor`, `RegionAllocatorProofs` |
| `CompactionProofs` | proofs: pins, plans, candidates and contents under interleaved callers | `Compaction`, `GovernorProofs` |
| `HandleProofs` | proofs: the governor's records implement `ByteLedger`, also under interleaved callers | `CompactionProofs`, `ArenaClientProofs` |
| `PersistenceProofs` | proofs: the file format, and all lives of the service | `Persistence`, `GovernorProofs` |
| `FramingProofs` | proofs: the connection implements `FrameChannel` | `Framing` |
| `CoordinatorProofs` | proofs: the deployment's invariant | `Coordinator` |

### How state and actions correspond to the code

**`RegionAllocator`.** `regions` is the set of values of `regions_`; `free_slots` and
`alloc_offset` are the two indexes (`Absent` for "no entry"); `live_bytes`, `live_count`
are the counters; `summary_dirty`, `free_count`, `largest_free` the cached summary.
`Allocate`, `Free`, `Relocate`, `Pin`, `Unpin`, `ensure_summary` are the methods of those
names, each one step. `canonicalize_regions`/`canonicalize_slots` are what
`canonicalize_free()` does to the region map and to the slot index; `carve_*` is the part of
`relocate()` that cuts the target out of free space. `align_up` keeps the unsigned
wrap-around of the code at `WordSize`, which stands for 2^64.

**`ByteLedger`.** Abstract specification: a function from bytes to owners `(id,
generation)`, with a grant of unowned bytes, a release of everything one handle owns, and a
move that gives an allocation a new place and the next generation in one step. The arena's
`owner` is the refinement mapping of the arena, `record_owner` that of the governor: who
holds each byte by the records alone, which is what clients and plans go by.

**`MemoryGovernor`.** Extends the arena: each action conjoins the arena action its method
calls. Every public method holds the mutex for its whole body, so methods are atomic.
`records`/`retired` are functions from ids to records, with `NoRecord` for "not in the map".
`request_locked` consumes the id before the arena may refuse, and keeps it consumed.
`reclaim_candidates` and `plan_compaction` are operators (they change nothing but the
summary cache, which `plan_query` refreshes); properties speak about their answers. A request
may leave out the worker's and the source's boot, hence `BootsAssumption`: `Unset` is among
the values of both.

**`GovernorPins`.** Adds to the governor the history of pins its callers took and
returned, and the movability each allocation was asked with. Callers unpin only what they
pinned.

**`Compaction`.** Extends `GovernorPins`. `content` says whose data every byte of the
arena holds. The compactor is three steps, `PlanMove`, `CopyBytes` (or `CopyFails`),
`ApplyMove`, as in `test_cuda_arena.cu`; between them the governor's mutex is free and
nothing is reserved, so clients pin, unpin, release and write others' bytes, and the reclaimer
evicts. `ApplyMove` is `apply_relocation` with the plan's arguments, or its rejection when
the plan has gone stale. The reclaimer selects in one step and evicts in later ones.
`Quiet` says whether clients keep to what the copy needs: no new request and no write to
the moving allocation while a move is under way. The code does not enforce it.

**`SnapshotFile`, `Persistence`.** A file is a sequence of items (magic, version, domain,
count, records, count, records, id counter, history, checksum) in the order `encode` writes
them; `Accepts` are the checks of `decode`, in its two halves (the items are there and
sealed; the records make sense together), and `decode` what it returns. The range checks of
enumerations are left out, since a value out of range can only be a damaged one, which the
checksum refuses. Of the texts of a record, `backing_ref` is kept, as empty, present or
longer than `Reader::str` reads: it decides reclaim, and it stands for the owner and the
other texts, which are read by the same method. `Persistence` adds
the file, the save under way and the life of governors. `save()` is two steps, because it
writes outside the mutex: `BeginSave` takes the snapshot and truncates the file, `EndSave`
writes all of it or, failing, a part; other calls run in between, but no second save to the
same file, which the code does not prevent. `Destroyed` is the destructor; `ProcessDies` is
the end without one, at any moment, during a save too. The next governor begins with
`load`, which is `restore` (every surviving record becomes retired, the arena is rebuilt
empty, the id counter continues), or with `LoadRefused`; a governor at work may load as well.
`known` and `lost` are history: the handles the loaded file told of, and all those given out
since the last governor that had nothing to load.

**`Framing`, `FrameChannel`.** One direction of a connection. `out` is what `send_exact`
has left, `stream` what is in the socket, `got` what `recv_frame` has assembled so far. A
step is one call of `send` or `recv`, of any number of units that fits; the checks of
`recv_frame` and `decode` happen when the call that completes the header or the frame
returns. A unit of the stream may be damaged, the sender may end half-way, and frames longer
than `kMaxFrame` are sent, since `encode` does not refuse them. `ImplementsChannel` shows
that what comes out is the sequence of frames that went in, cut off at some point; this is
what justifies the FIFO queues of frames in `Coordinator`.

**`Worker`, `Coordinator`.** A worker process stands for its boot id; it sends its greeting
frame by frame and then serves requests in order. A connection is a pair of FIFO queues. The
coordinator's single thread is a program counter: `Poll` (with the readiness of the
controller's connection remembered in `ctrl_ready`, as the code keeps it in `fds[1]`),
`Accept`, the blocking greeting, `Dispatch` of one request, the blocking wait for the worker.
`worker` merges `worker` and `worker_boot`, which the code sets and clears together. A
receive from a peer that has died may deliver what it had sent or fail at once; an answer of
another type than the request's is taken for a death. Controllers have one request
outstanding, as the client code in `src/tests` does. `ReuseIds` says whether they ask for an
id more than once; that client does not. A RELEASE carries a boot: none, as that client
sends it, or one that the id was allocated under, which a controller can only know from the
processes' output, since no result carries it. `granted` and `told_dead` are history: the
boots that ids were allocated under, and the workers whose death a controller was told of.

A call the code rejects changes nothing and is a stuttering step. Left out of regions and
records: descriptive fields no decision reads, `region_id`, `region_generation` (advances
with the generation), residency (RESIDENT in every reachable record). The pressure module
compares exact percentages where the code divides doubles. Domain counters use the code's
saturating subtraction `sub`.

## 3. Runs

| run | instance | shows |
|---|---|---|
| `Arena` | 5 bytes, word 8, 3 ids, sizes 1,2,5, alignments 1,2,4, one relocation and one pin each | types, tiling, coalescing, exact indexes and counters, alignment, fresh summary, no false out-of-memory; the arena implements `ByteLedger` |
| `Governor` | 5 bytes, 3 ids, three kinds of request (1 byte, movable, owned by a worker boot; 2 bytes aligned to 2, reloadable with a backing; pinned), one pin and one relocation each | records mirror the arena, and by them the governor implements `ByteLedger`; ids are fresh, retired records never change, committed bytes exact, hysteresis; reclaim candidates can be released and compaction plans applied in the state they were made in |
| `Compaction` | 4 bytes, 3 ids, two nested pins, movable and non-movable buffers, quiet clients | what clients wrote survives; pins are counted exactly and hold the allocation in place; promised gains are delivered; evictions take only what is reclaimable then |
| `Recovery` | 3 bytes, 2 ids, one record of a kind at most for the decoder, a text too long for it, relocations to one byte, a pin, saves beside other calls, failed writes, ends with and without the destructor, loads into new and running governors | the file of every reachable state is accepted exactly when it is within the decoder's limits, and then read back exactly; truncated, damaged and extended files are refused; handles the file told of are refused and stay on record; records mirror the arena after a load |
| `Framing` | frames of 0, `kMaxFrame` and `kMaxFrame` + 1 bytes, a socket buffer smaller than a frame, 4 frames, 2 damaged units | the connection implements `FrameChannel`; no false disconnect; every frame arrives unless there is a fault |
| `Deployment` | 2 workers, 1 controller, 2 ids asked for once, 2 generations, deaths at any point | types and no wait on an absent peer; coordinator and worker in lockstep; no orphaned device memory; a release that names one boot never reaches another; completions only of the registered boot; every request answered; every live worker registered |
| `RequestedPin` (violation) | 4 bytes, 2 ids, requests with `requires_pin` | the pin is lost after a `pin()`/`unpin()` pair of someone else |
| `StrictMovability` (violation) | 6 bytes, 3 ids | a NONMOVABLE allocation is planned for compaction after a `pin()`/`unpin()` pair |
| `LostIds` (violation) | 4 bytes, 2 ids, plain requests | after a crash, or a load by a governor at work, ids granted since the snapshot are granted again |
| `StaleReadiness` (violation) | 1 worker, 2 controllers | a new controller that stays silent blocks the loop, and a connecting worker is never registered |
| `DeathOnRelease` (violation) | 2 workers, 1 controller | allocations of a worker reported dead by a RELEASE stay current |
| `ReusedIds` (violation) | 2 workers, 1 controller, 1 id that is asked for again | a late release that names the earlier boot is forwarded to the later one |

**Bounds.** Five bytes with three allocations leave up to three holes, enough for every case
of a merge (none, left, right, both), of a split (front pad, tail, both, neither) and of a
relocation target (inside one hole, adjacent to or across the vacated place is excluded by
the overlap check with the region itself). `WordSize = 8` with alignment 4 makes `align_up`
of the last bytes wrap to 0, the case 64-bit words make untestable. `MaxGeneration` and
`MaxPins` bound relocations and nested pins of one allocation and appear only as guards;
`MaxPinnedBytes` bounds the pinned counter, which nested pins inflate. The ids of the
governor are a finite range because ids are never reused; when they are used up requests
stop. The arena's ids are only compared, hence the symmetry of `MCRegionAllocator`; the
governor orders ids, and there is no symmetry there.

Two workers are what a replacement needs. Two ids, each asked for once, let an entry of the
old boot stand beside one of the new under the same generation or another; that they coincide
in the id takes a second request for it, the case of `ReusedIds`. One controller suffices for `Deployment`
because a second one only ever replaces the first, which `StaleReadiness` looks at. In
`Recovery` two ids give a survivor or a retired record beside a fresh one after a load;
`MaxRecords = 1` is reached and exceeded by each book, so the comparison with the limit is
exercised at the limit and past it; a request of two bytes shrunk to one, and one with a text
that is too long, are the other two reasons for which a saved file is refused. A failed save
leaves an empty file (`CutPoints = {0}`): no part of a file is accepted, which `DamageRefused`
shows for every length in every state, and a file that is refused has no other effect, so
longer parts would add states and no cases. In `Compaction` four bytes and three ids give a movable allocation between two
others with a hole it can move to; two pins are what nesting needs. In `Framing` every frame
but the empty one is longer than the buffer, so send and receive take turns within it, and
two damaged units allow a length and a checksum to be damaged in one frame; a damaged length
that is still plausible shifts everything behind it.

**Deadlock** is checked in every run of the arena, the governor, its callers and its
persistence: a reading of the summary or pressure is always possible, and in the arena an
allocation or a release is. It is not in the deployment and in `Framing`: a deployment
ends after SHUTDOWN and when everyone has left, a connection when one side closes it.

**Fairness.** The arena and the governor are passive objects whose methods run to completion;
nothing in them waits, and no fairness is assumed. The deployment's processes are scheduled
by the operating system: weak fairness of the coordinator's thread, of every worker's
greeting, serving and noticing the end of its connection, and of every controller's
reading of a reply or of the end of its connection. A step of these that stays possible is
eventually taken, because each of them is a blocking call on a socket that has become ready.
Whether a process starts, dies, sends a request or leaves is not fair. In `Framing` the loops
of `send_exact` and `recv_exact` are fair: the operating system lets a call return once
there is room, data, or the end of the stream. Damage and ends are not. A worker that is
alive and never answers (a hung driver call) is outside the model: the code has no timeout
and `Answered` would be false.

## 4. Findings

The six violation runs are disagreements between the code and what its own documentation,
comments or tests say; each is quoted in `PROJECT.json`. In short:

* `requires_pin` is counted in the record only, and the next `unpin()` copies the arena's
  count over it (`governed_memory.cpp:103`);
* `unpin()` makes everything MOVABLE (`region_allocator.cpp:229`);
* the id counter restored is the one of the snapshot, so ids given out after it name other
  allocations after a crash or a load (`governed_memory.cpp:447`); `OrderlyHandlesCorrect` is
  what holds for a service that saves last;
* the readiness of a replaced controller's connection is applied to its successor, and the
  loop blocks in a receive from it (`coordinator.cpp:63`);
* a death noticed by a RELEASE neither fences the boot nor forgets the worker
  (`coordinator.cpp:92`);
* the boot that a RELEASE carries is compared by neither process (`coordinator.cpp:85-89`,
  `worker.cpp:54-58`): a late release of an earlier boot's allocation frees a later boot's
  once the id has been allocated again. `StaleBootCorrect` is what holds for ids that are asked
  for once.

Further behaviour met while modelling, without a run of its own:

* a pin of what is already pinned is counted again in the domain's counters
  (`governed_memory.cpp:193`): `MovablePinnedExact`, as an invariant of `Governor`, fails after
  a pin of a requested pin and, with only movable requests and `MaxPins = 2`, after two pins
  of one allocation. `CountersCorrect` (section 5) is what holds without either;
* a relocation to another size leaves the domain's counters alone
  (`governed_memory.cpp:395`): `CommittedExact` fails in `Governor` with
  `RelocationBytes = {1}`. The callers in the repository relocate at the same size;
* `save()` writes three kinds of snapshot that `load()` then refuses, the saved state with
  them: a record moved into a region smaller than its request (`persistence.cpp:163`); a text
  over 1 MiB, which `Writer::str` writes and `Reader::str` does not read
  (`persistence.cpp:33`, `:48`); more than `kMaxRecords` records of a kind, and retired records
  are never dropped (`persistence.cpp:205`, `:213`). `RoundTrip` says that there is no fourth;
* `largest_free_after` of a plan starts from the largest region before the move, and is too
  large when the move fills that region (`governed_memory.cpp:351`). Such a plan gains
  nothing; `PromisedGain` shows that a plan with a gain keeps it. Plans without a gain are
  returned as well (`best_gain` starts at -1), so a caller that compacts until the plan is
  empty may never stop;
* with `Quiet = FALSE`, `ContentsKept` fails in `Compaction`: a write between the copy and
  `apply_relocation` is left at the old place, and a request granted the target is
  overwritten by the copy. Nothing in the repository says who must prevent it;
* `write_file` truncates the only snapshot before it writes the new one: a crash in between
  loses both (`persistence.cpp:256`). The torn file is refused, never misread;
* `load()` into a governor that is initialised forgets its arena without freeing it, as
  `restore()` clears `initialized_` and the destructor frees only what is initialised
  (`governed_memory.cpp:464`). The callers in the repository load into new governors;
* `save()` writes outside the mutex, so two saves to one file may overlap and leave a mixture
  (`governed_memory.cpp:470-472`); the checksum refuses it unless the two are alike;
* `persistence.hpp:38-42` also lists generation regression and impossible lifecycles among
  what `decode` rejects; the code has a check for neither, nor for the enums of the domain;
* after a restore, the release of a surviving handle is answered like a double free, since
  the record is among the retired ones;
* `protocol.hpp:38` says that `encode` "returns empty on internal error (overflow)"; it
  never does, a payload above `kMaxFrame` is encoded like any other, and the receiver closes
  the connection over it (`Faulty` in `Framing`);
* two reject reasons that `error.hpp:4` names (`GOVERNED_CAPACITY_EXCEEDED`,
  `CONTIGUOUS_CAPACITY_UNAVAILABLE`) are never returned;
* entries of a worker that is replaced stay current (`coordinator.cpp:51`), and so does an
  entry that was released, which QUERY then goes on counting (`coordinator.cpp:93`);
* a second ALLOCATE of an id that is live overwrites both tables (`coordinator.cpp:82`,
  `worker.cpp:51`): the first pointer is lost when it succeeds, and when it fails the entry is no
  longer current while the worker keeps the memory (`NoOrphans` in `ReusedIds`);
* ALLOCATE carries no boot, although `protocol.hpp:23` lists one.

## 5. Proofs

The theorems hold for every value of the constants that satisfies the named assumptions of
the modules that declare them; a theorem that needs more says so in its own `ASSUME`. Each
rests on one inductive invariant per component, proved with one lemma per action.

| invariant | theorem | from it |
|---|---|---|
| `IInv` (arena) | `ArenaInvariant` | `TypeCorrect`, `TilingCorrect`, `CoalescingCorrect`, `SizeIndexCorrect`, `IdIndexCorrect`, `AccountingCorrect`, `AlignmentCorrect`, `SummaryCorrect`, `ArenaImplementsLedger`, `NoFalseRefusal` |
| `GInv` (governor) | `GovernorInvariant` | `GovernorTypeCorrect`, `RecordsCorrect`, `IdsCorrect`, `CommittedCorrect`, `ReclaimCorrect`, `PlanCorrect`, `RetiredCorrect`, `HysteresisCorrect`, `CandidatesCorrect`, `GovernorKeepsLedger` |
| `CountInv` (domain counters) | `CountersCorrect` | |
| `BInv`, `PinsExact`, `KInv`, `GainOpen` (callers) | `CallersInvariant` | `PinsHold`, `PinCountCorrect`, `HeldInPlaceCorrect`, `EvictionCorrect`, `ContentsCorrect`, `PromisedGainCorrect`; beside it `CallersUseGovernor`, `CallersKeepLedger` |
| `PInv` (persistence) | `PersistenceInvariant` | `KnownCorrect`, `RecoveredRecordsCorrect`, `DamageCorrect` |
| `RInv` (records) | `ValidInvariant` | `RoundTripCorrect` |
| `PInv`, `LostOnRecord` (orderly ends) | `OrderlyHandlesCorrect` | |
| `FInv` (framing) | `LineInvariant` | `FramingImplementsChannel`, `NoFalseAlarmCorrect` |
| `CInv` (deployment) | `CoordinatorInvariant` | `CoordinatorTypeCorrect`, `LockstepCorrect`, `NoOrphansCorrect`, `CompletionsCorrect` |
| `CInv`, `Grants` (boots named) | | `StaleBootCorrect` |

**Arena.** `IInv` is the conjunction of the arena's properties. No conjunct is inductive
alone: the layout after an allocation is right only because the slot it takes is a free
region (`FreeIndexExact`); a free or a move touches the right region only because the id
index is exact; the counters need the layout to be free of overlaps; the merge yields a
maximal region only if the layout was coalesced before. The argument: lemmas about the
layout operators alone (returning an interval to a layout with exactly that hole gives a
tiling again, and a coalesced one; carving a target out of free space leaves exactly the
target and the old place missing; the slot index follows the regions through both);
counting lemmas (the bytes under live regions grow or shrink by exactly the size of what is
added or removed); rounding lemmas (what `align_up` returns when it does not wrap, and that
the room check refuses the slot when it does). For the refinement, `owner` changes at
exactly the bytes of the region a method touches. For `NoFalseRefusal`, a place that no live
region overlaps lies in one free region because the layout is coalesced, and that region's
slot passes the room check.

**Governor.** `GInv` is the arena's invariant, the types, `RecordsMirrorArena`, `IdsFresh`,
and two facts the code relies on without saying so: a record that counts a pin is PINNED
(the count and the movability are set in different places, and reclaim and planning exclude
by either), and alignments fit the capacity. Three theorems need a hypothesis:

* `CommittedCorrect` assumes `RelocationBytes = {}`, relocations of the same size: a resize
  leaves the domain's counters alone (section 4);
* `PlanCorrect` assumes that, or `2 * Capacity <= WordSize`. With neither, TLC finds a plan
  that cannot be applied (7 bytes, word 8, alignment 4, a relocation to 1 byte): `align_up`
  of a free region near the end wraps to 0 and the pad comes out as 0. No device has an
  arena of half the 64-bit address space;
* `CountersCorrect` assumes `PlainUse`: only movable memory is asked for, none of it with
  `requires_pin`, a pin is not taken on top of another, and relocations keep sizes. Then
  every region is movable without a pin or pinned by exactly one (`OnePin`), and the counters
  are the sums over these two kinds; without it they come apart (section 4).

`CandidatesCorrect` says what the sort and the cut of `reclaim_candidates` amount to:
never more than `max`, all that is eligible if there is less, and nothing left out that
ranks before something in the answer. The order is total (priority, then size, then id), so
counting what is ahead of a record is a rank.

`GovernorKeepsLedger` needs no hypothesis: the ledger holds with relocations that resize,
which the run `Governor` leaves out because of the committed counter. In every state that satisfies `GInv`, the owner of
a byte by the records is its owner by the arena (`SameHolders`), and the lemmas about the
arena's methods say how that changes. `CallersUseGovernor` then shows that compactor,
reclaimer and clients do nothing to the governor but call it, so `CallersKeepLedger`
and every other theorem about the governor holds under them.

**Callers.** A plan or a list of candidates is used later than it was made. `BInv` says
what stays true meanwhile: as long as the handle in a plan is good, what the plan says of
place and size is true, since only a relocation changes them and that changes the
generation; and a candidate's policy never changes, so at its eviction only the pin has to
be asked for again, which `release` does. `PinsHold`, `PinCountCorrect`,
`HeldInPlaceCorrect` and `EvictionCorrect` assume `PinsExplicit`, that pins are taken with
`pin()`; the run `RequestedPin` shows what `requires_pin` does instead. `ContentsCorrect`
and `PromisedGainCorrect` assume quiet clients and the hypothesis of `PlanCorrect`. `KInv`
adds that the target of a move under way belongs to nobody and, once copied, holds what
the allocation holds; `GainOpen` adds that the promise of a plan is the size of the free region
its move will leave.

**Persistence.** `PInv` carries `GInv` through every life of the service, and says that the
file is the encoding of a sound snapshot or a proper part of one. Lemmas about the format
alone give the rest: `encode` laid out item by item (`FileOfSnapshot`), from which `decode`
returns the snapshot (`ReadBack`; the records of a book are listed in ascending order, each
id once, by a counting argument), a file that is accepted ends with the checksum of what is
before it (`AcceptedSealed`), hence no part, changed or extended file is accepted.

`RoundTripCorrect` needs no hypothesis: it says for which snapshots the file is accepted
(`Loadable`), and that the other checks of the decoder are invariants of the governor. `RInv`
is `PInv` and `RecordsValid`: every current record asks for a nonzero size, and every retired
one is `WellPlaced`, which is all of `validate_record` but the room for what was asked for. It
has to speak of the retired records as well, since a record that is retired today is saved
and read again in a later life; that a file which was loaded gives such records follows from
the decoder's own checks. The step that needs more than logic is the bound on
the bytes of all current records, a sum over a set of any size: `DisjointSum` gives the
partial sums of records that do not overlap a second definition, the number of bytes they
cover, shows with the smallest counterexample that the two agree, and a set of bytes of the
arena has at most `Capacity` members.

`OrderlyHandlesCorrect` is about `OrderlySpec`, the same service with one restriction on its
environment, `SavedFirst`: a governor ends, or loads over its own state, only when no save is
under way and the file holds its present snapshot. `LostOnRecord` says that every handle an
earlier governor gave out is on record as retired in the governor that runs, or in one of the
two books of the file when none does; with `IdsFresh` an id on record is never granted again.
This is the property that `LostIds` refutes for other ends.

**Framing.** `FInv` says that what receiver, socket and sender hold is one stretch of the
places of the frames sent, beginning right after the last frame delivered. Damage changes
the value of a unit, never its kind or place. A checksum that matches fixes the frame it
was made for, its length and so where the next one starts; a damaged length that passes the
checks still cannot make the receiver accept a frame that was not sent, or skip one.

**Deployment.** `CInv` has five parts: types; a frame is under way only between the
coordinator and the worker it waits for, as the request or as a truthful answer (`Flight`);
a worker is registered once and holds nothing before that or after its death (`Lives`); the
table's entries (`Entries`); and an id is asked for once (`OnceOnly`), without which an
answer could describe another allocation of the same id. `OnceOnly` is conditional on
`~ReuseIds`, so `NoOrphansCorrect` and `StaleBootCorrect`, which rest on it, assume
`~ReuseIds`; `LockstepCorrect` and the other theorems need no hypothesis and hold for
controllers that ask again for an id. `StaleBootCorrect` has a second invariant, `Grants`: the boot that a
release names has granted its id, and an id was granted only by the boot of its entry, and
not while an `ALLOCATE` of it is unanswered. So the entry whose boot the coordinator compares
is the one the release is about; `ReusedIds` shows that nothing else makes it so.

Each invariant was also checked by TLC as an invariant of the corresponding run, with small
ranges for `Nat` (of `PInv`'s part about the file, the equivalent for files that are accepted).
The theorems whose hypotheses no run's instance satisfies were checked on instances that do:
`MovablePinnedExact` with `MaxPins = 1` and movable requests in `Governor`, and
`LostNeverHeld` under `OrderlySpec` in `LostIds`.

**Only model-checked.** `Answered`, `WorkersAccepted` and `FramesArrive` are liveness
properties under fairness, which TLAPS does not reach. Every invariant and every action
property of the passing runs is stated by a theorem.

## 6. Not modelled

Not modelled: the bytes inside an item of a snapshot file or inside a header, and the
arithmetic of the CRC (a checksum stands for the text it was taken of); the wording of
rejections, since a rejected call changes nothing; the CUDA and host backends beyond
obtaining, copying within and giving back an arena (they wrap the driver and `malloc`); the
command-line tool, examples and benchmarks (callers of the library without state of their
own); the typed ids (enforced by the compiler); the getters of the governor that read without
its mutex (`governed_memory.hpp:129`), which race with running calls when used from another
thread.
