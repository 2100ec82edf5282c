# TLA+ models of the Crucible runtime

This directory holds a verification development for Crucible. It covers the
runtime core (the recording ring, the background pipeline that turns recorded ops
into regions, the owner mailbox, the region store, the transaction log, the
iteration detector, dispatch and replay, memory plans, the kernel cache), the
object store with crashes, the lock-free containers under them, and the canopy
(membership, overlay, broadcast, synchronisation, replicated values and clocks)
over a faulty network, parts of the transport, the quarantine of machines and the
refresh daemon of the capability ledger. The modules are written from the C++ source; the state, the
guards and the order of the assignments are those of the code, and the data
(hashes, tensors, graphs) is reduced to what the properties tell apart.

`PROJECT.json` lists the components, the runs, the source lines behind each
definition, the hazards and the theorems.

## 1. The system

A framework adapter calls `Vigil::dispatch_op` once per tensor operation, on one
producer thread (the *foreground*). While it records, each op goes as one cache
line into `TraceRing`, and its tensor metadata into `MetaLog`. A
`BackgroundThread` runs four stages, each a thread that spins, joined by
bounded single-producer single-consumer channels:

    foreground --TraceRing--> drain --> detect --> build --> publish --slot--> foreground
               --MetaLog--------------------------> (read)    (release)

- *drain* pops batches from the ring.
- *detect* feeds each op to `IterationDetector` and holds the ops that a future
  iteration can claim (`PendingOps`). At a boundary it cuts a work. Each batch
  ends in a commit marker.
- *build* scans the metadata of the work, copies it, builds the graph and
  forwards markers.
- *publish* plans memory, releases the metadata, publishes the region to the
  foreground (`pending_region_`, `active_region`), records a transaction in
  `TransactionLog`, and sweeps the table of live regions.

The foreground takes the region from the slot, aligns its op stream to it and
replays. A divergence either switches to a region of `RegionCache` or raises
`reset_requested`; the detect stage then drops what it holds and bumps
`reset_epoch`, and the publish stage discards regions of an older epoch. Any
thread can run a job on the state of the publish stage through the *owner
mailbox* (`run_on_publish_stage`); `Vigil::rollback` is such a job.

Around this core: `KernelCache` maps a content hash and a row to a compiled
kernel, and is read and filled by any thread. `SchemaTable` names the ops; it is
written at start-up under the phase word of `RegistrationSeal` and read with no lock
after its seal. `Cipher` persists regions as content-addressed files with a HEAD and
a log of commits. `fixy/concurrent` supplies the queues, the work-stealing deque and
the snapshot. The *canopy* keeps the nodes of a fleet together: SWIM with Lifeguard
for failure detection, HyParView for the overlay, Plumtree for broadcast,
Scuttlebutt for anti-entropy of CRDTs, and hybrid and vector clocks. The *CNTP
transport* pools connections, meters flows by credits and moves a flow between paths;
the *Warden* takes a failing machine (a cog) out of service. The *capability ledger*
keeps measured verdicts about the host in a file that a refresh daemon renews.

### Inventory

| Component | State | Operations | What is hard | What makes it correct |
|---|---|---|---|---|
| `TraceRing` | head, tail, private tail views, four parallel arrays | `try_append`, `try_pop_batch`, `reset` | writes and copies of slots interleave; a stale tail view; wrap | it is a FIFO queue; a refusal means full |
| `MetaLog` | head, tail, records | `try_append`, `copy_run`, `advance_tail` | release by another thread than the reader of the run | records stay put until their work is released |
| Pipeline | channels, held ops, epoch, flush counter | four stage loops, `start`, `stop`, `flush` | full channels, reset in flight, overflow, stop | releases in order, each op counted once, flush and stop return |
| Owner mailbox | one word, job records on callers' stacks | post, claim inline, open, serve, close | a stage opening or closing under a caller | one owner, one run per call, no dangling record |
| Region store | table, left generations, held cells, slot | publish, mark, sweep, keep, cold paths of the foreground | reclamation against a reader without locks | nothing readable is freed |
| `TransactionLog` | ring, active pointer, displacement count | begin, commit, activate, rollback | claims recycle slots out of order | an undo stack whose top survives |
| `IterationDetector` | key history, window table, links, refuted periods | `check`, `restart_after_divergence`, `reset` | eviction, stale table, phase and refutation rules | reports are real squares at the rarest phase |
| `Vigil` dispatch, `CrucibleContext`, `ReplayEngine` | mode, walk, cursor, slot, cache | `dispatch_op`, activate, switch, `rollback`, `load` | walk and cursor on different regions; a stale region after a reset | an op replays only where the program stands; a walk ends |
| `KernelCache` | slots of key, row, kernel | `lookup`, `insert` | three atomics per slot, a bounded spin on a claim | a lookup serves its pair, the newest kernel, and misses nothing inserted |
| Memory plan, pool | slot lifetimes, offsets, blocks | slot assignment, `compute_memory_plan`, migration | aliasing, reuse at the boundary of a lifetime, switch in mid-iteration | live slots disjoint; replays read the program's values |
| `RegistrationSeal`, `SchemaTable` | phase word, sorted array, size | register, seal, look up | a seal between the mint of a view and its write | a sealed table is whole and still; no name lost |
| `MpscRing`, `ChaseLevDeque`, `AtomicSnapshot` | counters, ready bits; top, bottom; sequence, words | push, pop, steal, publish, load | races on one word, wraps | FIFO by claim; a double-ended queue; no torn value |
| `Cipher` | object files, HEAD, log, resident cache | `store`, `load`, `advance_head`, `open` | a crash or power loss between system calls, failed writes | what was written is whole while it has its name; HEAD and log tell the history |
| SWIM, Lifeguard | slots, probe cursor, piggyback queue; multipliers, events | probes, acks, misses, rumours | loss, repetition, reordering, full queues | the newest rumour wins; nobody starves; events chain |
| HyParView, Plumtree | two views; links, history ring | join, fail, shuffle; publish, gossip, announce, graft | full views; pruned links, late announcements | disjoint views, refilled; everybody gets every message |
| Scuttlebutt, CRDTs, clocks | versions, states; counters, registers, sets, lists; stamps | digest, delta, merge; tick, receive | stale and repeated deltas, saturation, threads that share a clock | versions never promise too much; a state is its writes; stamps respect causality |
| `PathSwapper` | state word, plan, deadline, audit ring, gate | `begin_swap` and the four steps of a swap, `event_at` | callers wait at the gate with an old clock; the state is read without it | the audit ring is the history; one plan per swap |
| `ConnectionPool` | slots, cached count of remotes, event ring | add, lease, return, mark, three evictions | evictions of leased connections, returned late | the count is exact; a lease is kept |
| Credits, admission | flow slots, live count | start, grant, consume; accept, release | races between load and exchange | no credit lost; one slot per socket |
| `QuarantinePolicy` | slot per cog, event ring | health, failure, probe, deadline, override | late facts, relapses | recovery is earned; only an operator ends permanent |
| `RefreshDaemon`, ledger store | ledger, file, view, backoff, semaphore | cycle, commit, start, stop | failed commits, power cuts, jumping clock, stale wake tokens | the file is whole; what was admitted is on file and in the view; stop returns |

The rest of the repository (BPF sensors, hardware discovery, session types and
the other compile-time wrappers, code generation tables, the PyTorch adapter) is
listed in `PROJECT.json` with the reason it is not modelled.

## 2. Modules

| Module | Models | Correspondence |
|---|---|---|
| `TraceQueue` | the promise of the ring | abstract bounded FIFO queue |
| `TraceRing` | `TraceRing.h` | one step per load of the other side's counter, per slot of an array written or copied, per release store; plain stores between publications in any order |
| `TraceRingProofs` | | proofs for `TraceRing`: its invariant, and that it implements `TraceQueue` |
| `OwnerMailbox` | mailbox part of `BackgroundThread.h`, frame of `MakeRegionFn` | one step per access to `owner_mailbox_` or `done`; a job or a publication is a step between two of them; weak compare-and-swap may fail spuriously |
| `SharedStateProofs` | | invariance proofs for `OwnerMailbox`, `AtomicSnapshot` and `Backpressure` |
| `DetectorPositions` | the positions of `IterationDetector`: `pos_`, `base_`, `period_`, `next_boundary_` | keys left out; which squares exist is a choice |
| `IterationDetector` | `IterationDetector.h` in full | keys from a small alphabet; a fingerprint is the window itself |
| `Pipeline` | `record_op`, the cold paths of dispatch, and the four stages | composes the ring (as `TraceQueue`), the metadata log (its counters), the detector (as `DetectorPositions`), the channels and the two flags; one step per channel operation, per op checked, per flag read that other threads can see |
| `PipelineProofs` | | lemmas: the steps keep works whole and every op counted |
| `PipelineLogProofs` | | lemmas about flush and the metadata log, and the theorems about the pipeline |
| `TransactionOps`, `TransactionLog` | `Transaction.h` | operators on a log value; any order of calls |
| `TransactionOpsProofs`, `TransactionLogProofs` | | what each operation does to a log, slot by slot; the invariant and two action properties of `TransactionLog` |
| `UndoStack` | the promise of the log | abstract stack of displaced transactions |
| `RegionStore` | `publish_region`, `on_region_ready`, `sweep_regions_`, `keep_region`, `publish_held_regions_`, `mark_held_regions_`, `rollback`, the cold dispatch paths, `RegionCache::insert` | composes the transaction log (`TransactionOps`) with the store and the foreground; the cells are read and written one per step |
| `RegionStoreProofs` | | proof that no region is freed under a reader |
| `Replay` | `Vigil::dispatch_op`, `dispatch_transition_`, `handle_divergence_`, `try_align_`, `rollback`, `load`, `CrucibleContext`, `ReplayEngine::advance`, `RegionCache` | one step per dispatched op, the signal of a divergence apart; the program repeats an iteration and may turn to another at any op; the background thread publishes |
| `MemoryPlan` | slot assignment of `build_trace_from`, `compute_memory_plan`, replay on a pool, `switch_region` with `migrate_prefix_slots_` | any short program over a few addresses; a pool is a sequence of units, each holding the value last written |
| `Cipher` | `Cipher.cpp`: `store`, `load`, `advance_head`, `open`, the resident cache | one step per system call; what the kernel holds and what the disk holds are apart; a process crash loses memory and the rest of the call, a power loss also what was not flushed, the name of an object included |
| `KernelCache` | `KernelCache.h`: `lookup`, `insert`, `await_claimed_` | one step per atomic access |
| `SchemaTable` | `SchemaTable.h`, `RegistrationSeal.h` | one step per phase change and per store of the section |
| `MpscRing`, `ChaseLevDeque`, `AtomicSnapshot` | `fixy/concurrent` | one step per atomic access |
| `WorkDeque` | the promise of the deque | abstract double-ended queue |
| `ChaseLevDequeProofs` | | proofs that the deque loses and doubles nothing and implements `WorkDeque` |
| `SwimMembership`, `Swim` | `canopy/Swim.h` | operators on one membership; several observers and a wire that never forgets an event |
| `Lifeguard` | `canopy/Lifeguard.h` | wraps a `SwimMembership` as the class does |
| `HyParView` | `canopy/HyParView.h` | a random draw is any index |
| `Plumtree` | `canopy/Plumtree.h` | several nodes; the process that sends what a plan says is external |
| `Scuttlebutt` | `canopy/Scuttlebutt.h` | several nodes; messages lost, repeated, late; every version compacted, the node's own too |
| `Crdt` | `canopy/Crdt.h` | all kinds, one at a time; snapshots merged late, again or never |
| `Clocks` | `canopy/Hlc.h`, `canopy/VectorClock.h` | an update of an `Hlc` is one compare-exchange; a call of a `VectorClock` goes one slot per step, and threads may share a clock; a message received late, again or never |
| `PathSwap` | `cntp/PathSwap.h` | two threads and an observer; the gate, the append of an event and the store of the state are apart, since `state()` takes no gate |
| `ConnectionPool` | `cntp/ConnectionPoolRuntime.h` | one step per operation, which holds the gate throughout |
| `Backpressure` | `cntp/BackpressureRuntime.h`: `CreditFlowControl`, `AdmissionControl` | one step per atomic access |
| `Quarantine` | `warden/Quarantine.h` | one step per fact, facts in any order with any number |
| `RefreshDaemon` | `ledger/RefreshDaemon.h`, `commit_ledger`, `load_ledger`, `refresh_plan` | one step per system call of a commit, per probe, per access that the owner or a reader can see |
| `MCReplay` | | an instance of `Replay` for TLC; `Pipeline`, and for a single question `RegionStore`, `MemoryPlan`, `Cipher`, `MpscRing` and `RefreshDaemon`, are run with a configuration of their own |
| `Parts`, `MCLive`, `MCNode`, `MCCanopy`, `MCVigil` | | several components in one run: `part` names the one a behaviour is about, `x1` to `x18` are its variables, and each component is an `INSTANCE` with its constants |

Definitions whose comment starts with "Faulty" are deliberate one-fault variants
of the definition after them; in `TraceRing` they are in a section of their own.
They are in no specification; each shows that the property it is paired with in
`PROJECT.json` depends on the detail it changes.

Four refinements connect the modules: `TraceRing` implements `TraceQueue`, which
is what `Pipeline` assumes of the ring; the steps of `IterationDetector` are steps
of `DetectorPositions`, which is what `Pipeline` assumes of the detector;
`TransactionLog` implements `UndoStack`; and `ChaseLevDeque` implements `WorkDeque`.

Abstractions worth knowing:

- `MetaLog::cached_tail_` is left out: it never exceeds the tail, so a run that
  fits by it fits by the tail, and a run that does not is tested again with the
  tail.
- In `Pipeline` an op's tensor count is both `n_metas` of `record_op` and
  `num_inputs + num_outputs` of its entry, as the adapter calls it.
- A batch of `try_pop_batch` is atomic in `Pipeline`, as `ImplementsQueue` allows.
- `reset_requested` is read and cleared together with the op it precedes. No other
  thread sees the detector, the held ops or the epoch between the two.
- `publish_region` ends, for `Pipeline`, with the slot; whether the store is full is
  a choice there and is modelled in `RegionStore`.
- `MAX_PERIOD` of the detector bounds every period it accepts only because the
  history capacity minus K is odd (2^19 and 5); the instance keeps that.
- Atomics are sequentially consistent. Each release store that publishes is its
  own step after the plain stores it publishes; weaker orders of two independent
  atomics are not explored.
- In `Replay` an op is the pair of its hashes, and equal regions have equal content
  hashes. `find_alternate` compares the prefix, as the code does.
- In `MemoryPlan` sizes are units without alignment; an address that the program
  reuses is a new tensor or the old one as the code decides, and the pointer map is
  exact.
- In `Cipher` an object is absent, partial or whole; a log record is whole or torn in
  its step, its hash or its stamp, and `load_log` reads torn lines as the code does.
  The root directory is flushed after HEAD and the log; `objects/XX` is flushed by
  nothing, so the name of an object is on disk only if the kernel wrote it back.
- In `Replay` `handle_divergence_` is two steps: it takes the slot first and raises
  `reset_requested` last, and the publish stage may fill the slot in between. Nothing
  else that it does is visible to another thread.
- In `Clocks` a loop of `VectorClock` is a step per slot; `on_recv` and `on_send` on
  another `VectorClock`, and the comparisons, are made of the modelled calls. What is in
  the causal past of a call is what had returned on its clock when it began, and what it
  merges.
- In the canopy models, identities are opaque, time is left to the scheduler (a
  timeout may come at any step), and `MissMax`, `Saturation`, `MaxCounter` and
  `MaxPhysical` stand for the widths at which the code saturates or carries.
- In `Backpressure` `MaxCredit` stands for the largest 32-bit value. In `Quarantine` the
  sequence numbers of facts are any small numbers, since the reporters are not under
  `src/warden`; `streak` and `loaded` are histories of what a cog went through.
- In `RefreshDaemon` a ledger maps each verdict to the time of its measurement, the wall
  clock jumps freely and reads 0 when dead, and a probe admits, refuses or finds the
  host unfit as it likes.

## 3. Runs

| Run | Question | Result |
|---|---|---|
| `pipeline` | metadata stays put, releases only advance, flush means published, every op counted once, works are whole iterations, the held ops stay bounded | holds, 2,044,932 states |
| `pipeline_live` | do flush and stop return; do metadata runs with gaps stay put? | holds, 232,003 states |
| `pipeline_full_log` | does a full metadata log drain? | violated |
| `region_store_read` | is the region that `persist` or `replay` works on live? | violated |
| `live` | do owner jobs, snapshot loads, registrations, seals, alignment walks and the stop of the refresh daemon end, and is what their waits protect safe? | holds, 105,982 states |
| `node` | is the recording ring a lossless queue; are the multi-producer ring and the deque linear; do the canopy and the transport stay consistent over a faulty network? | holds, 1,633,761 states |
| `vigil` | does the sweep free only what nobody can read; transaction log, detector, dispatch and replay, memory plans, object store with crashes, kernel cache | holds, 2,420,154 states |
| `cipher_stored` | is every hash that `store` returned loadable? | violated |
| `mpsc_small_ring` | does a ring with fewer than 64 cells drain no further than its head? | violated |
| `replay_walk` | does a walk end along a region that begins with a repeated op? | violated |
| `refresh_uncommitted` | is what readers of the ledger see committed? | violated |
| `memory_plan_switch` | does every value survive a switch? | violated |

What the properties say, by component. An invariant named `...Inv` (and
`ObjectsStayWhole`, `RecoveredIsHistory`, `StampsFollowCausality`) is the conjunction of the definitions named after it, each of
which has a comment of its own in the module; one of them per component also holds
its types. `SchemaSound`, `ChecksAreSound`, `ViewsSound`, `QuarantineSound` and
`ImplementsStack` join the invariant of their component with a property of its steps:

- *Pipeline*: `MetaLogInv` is `TypeOK` (with the capacity of every queue and the bound on
  the held ops), `RecordsStayPut` (no record is lapped before its build has copied it)
  and `ReleasesAdvance`; `FlushedMeansPublished`, `EveryOpCounted`,
  `WorksAreIterations`, `FlushReturns`, `StopReturns`.
- *Region store* (`vigil`): `RegionInv`: `NoUseAfterFree`, of the foreground and of the publish
  stage.
- *Ring* (`node`): `RingInv`, from which section 4 proves that no slot is touched from
  both sides and that what is delivered was accepted; `ImplementsQueue`.
- *Mailbox* (`live`): `MailboxInv`, from which section 4 proves the promises of the
  mailbox; `PostedJobReturns`.
- *Snapshot* (`live`): `SnapshotInv`, a load returns one published value and no old one
  (`SnapshotIsOneFreshValue`); `LoadReturns`.
- *Schema tables* (`live`): `SchemaSound`, a sealed table is whole and still
  (`SealedTableIsWhole`, `StillStep`) and no registered name is lost on either side of
  the seal (`NameNeverDropped`); registrations and seals return (`CallsReturn`).
- *Refresh daemon* (`live`): `LedgerInv`: what a power cut leaves is a whole ledger
  (`NameLeadsToWholeFile`), an admitted ledger is on file and in the view, over later
  cycles and stops (`AdmittedIsOnFile`), the backoff counts the failures
  (`BackoffCountsFailures`), only a stop cuts a wait short (`TokenMeansStop`); `stop` returns without the period having to end (`DaemonStops`).
- *Transaction log* (`vigil`): `ImplementsStack`, in which a claim keeps the top
  (`ClaimStep`), with `LogInv` (`OneActive`, `PlacesDistinct`, `LastClaimKept`).
- *Detector* (`vigil`): `DetectorInv` (`HistoryHeld`, `TableIsNewest`, and
  `ReportsAreSound`: `ReportsAreSquares`, `PhaseIsRarest`, `ReportedNotRefuted`);
  `ChecksAreSound`: a check finds the shortest period (`FindsShortest`) and is a step of
  `DetectorPositions` (`PositionStep`).
- *Dispatch and replay* (`vigil`, `live`): `ReplayInv`: `mode()` is the mode of the context
  (`ModeIsContext`), an op replays only where the program stands in its iteration
  (`CursorFollowsProgram`; the exception is a walk interrupted by a rollback or a load,
  see section 5), after a divergence neither the slot nor a walk has a region that was
  published before the divergence took the slot (`NoStaleReentry`; one published between
  that and the signal may come); a walk ends (`WalkEnds`).
- *Memory* (`vigil`): `PlanInv`: live slots are disjoint, replays read the values the
  program would, a switch keeps what the old plan still held (`LiveSlotsDisjoint`,
  `ReplayReadsProgramValues`, `SwitchKeepsLiveValues`).
- *Object store* (`vigil`): `ObjectsStayWhole`: what `store` wrote itself stays whole over
  crashes and power losses, unless a power loss takes its name (`WrittenStaysWhole`), and
  the cache answers only for whole files (`CacheIsBackedByFiles`); `RecoveredIsHistory`: while no write failed, HEAD
  is the newest commit and the log the commit history, an interrupted commit in its
  place or left out (`HeadIsNewestCommit`, `LogIsCommitHistory`).
- *Kernel cache* (`vigil`): `LookupInv` (`LookupServesItsPair`, `NoMissAfterInsert`,
  `NoSupersededKernel`).
- *Containers* (`node`): `MpscInv`: items leave the multi-producer ring once and in the
  order of the claims, its bitmap is its backlog, a refusal is true
  (`PoppedInClaimOrder`, `BitmapIsBacklog`, `RefusalIsTrue`); `ImplementsWorkDeque`: each
  step of the deque is one of the double-ended queue, and nothing is lost or doubled
  (`NothingLostOrDoubled`).
- *Canopy* (`node`): `SwimInv` (`SlotIsNewestHeard`, `QueueEndsAtSlot`, `ProbeRotation`);
  `LifeguardInv` (`SlotPerMember`, `EventsChain`); `ViewsSound` (`ViewsDisjoint`,
  `PopulateNeverAborts`, and `RefillStep` of every step); `PlumtreeInv`
  (`EagerCountExact`, `SummaryIsNewest`, `QuietMeansDelivered`); `ScuttlebuttInv`
  (`VersionCoversState`; `SyncedReplicasAgree`, while the versions of each origin count
  what it published); `ReplicaIsItsWrites` (CRDTs); `StampsFollowCausality`
  (`HlcRespectsCausality`; `VectorClockFollowsCausality`: what `on_send` returns is ordered
  as causality is, under any interleaving of the slots, and orders nothing else on clocks
  whose calls do not overlap; `OwnEntryCounts`: no bump is lost).
- *Transport* (`node`): `SwapInv` (`AuditIsTheHistory`, `PlanIsTheSwaps`, `InTime`,
  `ObserverFindsEvent`); `PoolInv` (`CountIsExact`, `AdmittedFindsSlot`, `LeaseIsKept`,
  `QuarantineDrains`, `EventsTellThePool`); `CreditsInv` (`OneSlotPerSocket`,
  `CreditIsBalance`, `LiveIsAccepted`).
- *Quarantine* (`node`): `QuarantineSound` (`EventsTellTheState`, `RecoveryIsEarned`,
  `DeadlineIsFull`, and `PermanentStep` of every step).

The components of `live`, `node` and `vigil` do not interact within a run: each
behaviour is about one of them, chosen in the initial state. Components that do
interact are composed in `Pipeline`, `RegionStore`, `Replay`, `Lifeguard` (over SWIM)
and `Scuttlebutt` (over a CRDT).

### Bounds

- *Ring*: 4 slots, batches of up to 3, 6 appends between resets: the ring wraps,
  fills and is drained across the wrap. Two parallel arrays are enough to tear a
  record; two ops are enough to tell an old slot from a new one.
- *Mailbox*: three callers, so that one holds the word, one has loaded an old
  value and one arrives. There is no bound on restarts or calls.
- *Pipeline*: ring and batch of 2, channels of 1, K = 1, history of 6, up to 6 ops
  and 1 divergence: every channel fills, a batch straddles a boundary, two
  iterations are in flight, the detector evicts, a reset lands between any two
  steps, and the metadata log (4 records, or 5 with ops of 0 and 2 tensors) fills.
- *Transactions*: the smallest legal ring (4) and 7 transactions, so that every slot
  is recycled, or passed over for the active transaction and the rollback target.
- *Region store*: 5 regions, an uncompiled queue and a cache of 1, a log of 4, 6
  regions and 2 writes of the cells: a region can leave the slot, the log, the
  queue and the cache while the foreground is between two cells.
- *Detector*: K = 2, history of 11 (periods to 4), two keys, 2 candidates, 2 refuted
  periods, 13 ops, restarts at any point.
- *Replay*: K = 3, iterations of 2 to 4 ops that share ops, one that ends with the op
  it begins with, one that is a square, one without a plan; a cache of 2, two
  publications, two rollbacks or loads, one turn of the program at any op. `live` takes
  one iteration from every phase; `replay_walk` the K = 5 of the code.
- *Memory plan*: every program of 4 ops over 3 addresses, and of 4 ops over 2
  addresses with every alternate of up to 3 ops after the split, in two sizes, with a
  slot table of 5 and a free list of 2: addresses are freed, reused and grown, the
  free list overflows and the table runs out.
- *Object store*: 2 objects, a cache of 1, one step, 2 commits, 2 crashes or power losses at any
  system call, 1 failed write.
- *Kernel cache*: 2 slots, 2 writers and a reader; once two contents with one home
  slot, once one content with three kernels, so that a pair is updated and can lie
  in a second slot.
- *Schema tables*: 2 producers with 2 calls each, 3 hashes, one seal.
- *Containers*: a ring of two words of two bits with pushes of 1, 3 and 4, 6 items; a
  deque of 2 slots, 2 thieves, 5 items; a snapshot of 3 words and 3 publications.
- *Canopy*: see the comment of `MCCanopy`. Each queue, view, table and history is small
  enough to fill and to wrap; SWIM and Plumtree are taken twice and Scuttlebutt three times, for
  the different corners of two or three nodes, and the clocks three times: hybrid clocks
  that overflow, vector clocks of one thread each, and one that two threads share.
- *Transport and quarantine*: see the comment of `MCNode`. Audit and event rings of 2
  or 3 go round, a pool refuses by each of its limits, credits reach 0 and the largest
  value, a table of cogs is full; the pool, the credits and the quarantine are each taken
  twice.
- *Refresh daemon*: once one verdict, three readings of the clock and a backoff that
  reaches its largest value; once two verdicts, so that a cycle admits a part; once a
  verdict that never expires. Deaths,
  power cuts, failed commits, stops and restarts are not bounded.

`CHECK_DEADLOCK FALSE` is set for the pipeline, whose stages end after a stop, and for
the runs of a single component whose bounds run out. In the runs of several components `Ended` lets
the bounded parts rest, and deadlock is checked for the parts that never stop.

The stop of the pipeline drains one last batch, as the code does; ops left in the
ring after it stay there, and `FlushReturns` excepts a flush that a stop overtakes.

### Fairness

`Pipeline!FairSpec` has weak fairness of each stage as a whole: a stage is a
thread that spins and never blocks on anything but its channels. Of the
foreground it asks only that an op begun is appended. `OwnerMailbox!FairSpec` has
weak fairness of the stage and of each caller inside a call, for the same reason;
nothing makes a stage start or a caller call. Returning from a *posted* job needs no
more. That a caller spinning on a contended word ever gets it is not claimed:
the code has no queue and promises none.

In `RefreshDaemon` the loop is weakly fair (`Running`: a cycle ends when its probes do,
which `run_refresh` bounds by their samples) and so is an owner inside `stop`. The end of
a waiting period is not: it can be hours away, and `DaemonStops` does not need it. Nobody
has to start or stop the daemon.

In `MCLive` each component keeps the fairness its module states: a writer that has
begun a publication finishes it and a reader inside `load` goes on; a producer inside
`register_schema_name` and a sealer inside `seal` go on; the program keeps dispatching.
All are threads inside a call that spins and blocks on nothing. Nobody has to
publish, register or seal. A load can be retried as long as publications keep coming,
and a registration as long as others get in first: `LoadReturns` and `CallsReturn` hold
because the instances bound the publications and the registrations, and say that a
call returns once they pause.

## 4. Proofs

Everything below is proved with TLAPS for every value of the constants that satisfies
the named assumptions of the modules. These say what the code asks of its sizes and
nothing about the instances: sizes are positive (`CapacityAssumption`,
`BatchAssumption`, `SizesAssumption`, `StoreAssumption`), the log has four slots or more
(`RingAssumption`), the history is longer than two windows and one op
(`HistoryAssumption`), an op has no more tensors than the metadata log has records
(`SizesAssumption`), and a null value is not a value (`NoOpAssumption`,
`CallersAssumption`, and conjuncts of the others). The bounds of the model checker
(`MaxHead`, `MaxOps`, `MaxSignals`, `MaxSteps`, `MaxRegions`, `MaxWrites`, `MaxItems`)
are arbitrary naturals. `ChaseLevDeque`, `TransactionLog`, `AtomicSnapshot` and
`Backpressure` are instantiated, not extended, by the modules of their runs, so what
is assumed of their constants is a hypothesis of their theorems: `Capacity`, `MaxItems`
and `MaxSteps` as above; a snapshot has a word (`SnapshotSizes`); no amount is zero or
larger than the credit word, and the keys of an unused slot and the free gate are not
among the sockets and the threads (`CreditSizes`).

Each safety theorem has the same outline: an inductive invariant, that the initial
states satisfy it, one lemma per action (or per conjunct and action) that a step keeps
it, and that it implies the property. The inductive invariants were checked with TLC
on small instances before they were proved.

| Theorem | States | Checked by run |
|---|---|---|
| `RingCorrect`, `Delivery`, `NoRace` | `RingInv`; its two main consequences | `node` |
| `RingIsQueue` | `TraceRing` implements `TraceQueue` | `node` |
| `MailboxCorrect`, `NoOverlap`, `OneOwner`, `RecordLifetime`, `OneRunPerCall` | `MailboxInv`; its consequences | `live` |
| `SnapshotsAreWhole` | `SnapshotInv` | `live` |
| `CreditsAreKept` | `CreditsInv` | `node` |
| `OpsAreCounted` | `EveryOpCounted` | `pipeline` |
| `FlushIsSound` | `FlushedMeansPublished` | `pipeline` |
| `WorksAreWhole` | `WorksAreIterations` | `pipeline` |
| `LogIsSound` | `MetaLogInv` | `pipeline`, `pipeline_live` |
| `RegionsAreSafe` | `RegionInv` | `vigil` |
| `LogCorrect`, `ClaimKeepsTarget`, `RollbackRestoresNewest` | `LogInv`, `ClaimStep`, `NewestFirst` | `vigil`, as part of `ImplementsStack` |
| `DequeCorrect`, `DequeImplements` | `DequeInv`; `ChaseLevDeque` implements `WorkDeque` | `node` |

**`TraceRingProofs`.** `RingInv` is inductive and is a conjunction of: the types;
`CountersOrdered` (the tail is the consumer's copy of it and not past the head, the
producer's view is not past the tail, the head is at most CAPACITY ahead of that view,
and a write in progress has a free slot by it); `HistoriesCounted` (the lengths of the
two histories are the counters); `UnreadSlotsIntact` (each slot between tail and head
holds the op accepted at that index, in every array); `CopiesAgree` (what a pop in
progress has copied is what was accepted there). "Delivered is a prefix of accepted"
alone is not inductive: it needs the slots to be intact, and these need the counters,
since a slot is rewritten only when its index differs from every unread one modulo
CAPACITY. That step is the lemma `SlotsDistinct`. `Delivery` and `NoRace` follow.
`RingIsQueue` uses the same invariant: the queue is the part of the accepted history
after the delivered one, the release store of a counter is the step of the queue, and
every other step leaves it alone.

**`SharedStateProofs`.** `MailboxInv` says that the word names the owner
(`WordNamesOwner`), that a record in the word or in the hands of the stage belongs to a
caller that waits and has not been told it is done (`RecordInFlight`), and how often
each job has run (`RunsCounted`). `NoOverlap`, `OneOwner`, `RecordLifetime` and the
action property `OneRunPerCall` follow. No overlap alone is not inductive: that a
caller holding the word excludes an open stage is only visible through the word.

`SeqlockInv` relates the counter of the snapshot to the progress of a publish
(`WriterInv`), and each copy in progress to the counter it sampled (`CopyInv`): as long
as the counter is still that one, no publish has begun and every word copied so far is
of the last publish. A whole copy alone is not inductive, since the words of a copy
that will be thrown away are of different publishes.

`BackpressureInv` has `SlotsInv` (a socket has one slot, whose word is its balance),
`AdmissionInv`, and what each thread knows while it is between two accesses
(`ThreadInv`): the gate has one holder, which knows that its socket has no slot and that
the slot it reserved is its own; a thread in an exchange knows that the slot it found
is still the one of its socket. "One slot per socket" needs the first: two starts of one
socket would otherwise both find none. A start over a slot that exists sets the
word and the balance in one step, and a compare-exchange succeeds only on the word it
observed, so the balance moves as the word does.

**`PipelineProofs`, `PipelineLogProofs`.** `CoreInv` has the types of the stages
(`Shape`) and `DetectorInv`, which relates what the detect stage holds to the positions
of the detector. Four inductive invariants stand on it.

- `WholeInv` adds `WorkInv`, that a work holds one whole iteration. It needs
  `DetectorInv`: the ops held reach back to the oldest op the detector can still
  claim, over each of the five ways in which a check moves its positions.
- `CountInv` adds `ProducedInv` and `SeenInv`, the account of the ops before and after
  the detector. `EveryOpCounted` splits there because a reset drops the held ops but
  not their counts.
- `FlushInv` adds `AheadInv` to `CountInv`: in every channel, the counts in front of a
  work, added to the counter, stay below the op that completed it, so the marker of its
  batch is behind it. `FlushedMeansPublished` alone does not say what
  the markers in front of a work will still add.
- `MetaInv` adds `OrderInv` (the records of the ops lie in the log in the order in which
  the ops stand in the pipeline, stage by stage) and `FloorInv` (the records of every op
  on its way lie between tail and head; each release on its way is past the tail, past
  the releases ahead of it, and not past the records of an op behind it). That records
  stay put is not inductive without the releases in flight, and that releases advance
  is not without the order of the ops they were computed from.

The first module proves that the steps keep the first two, and what each stage leaves
alone (`DetectFrame` and its like); the second builds on it and ends with the four
theorems.

The sums over channels are recursive functions. Their properties are proved by
induction in the form of a least counterexample (`LeastNat`, `Induction`), which needs
no operator parameter. The lemmas take "a set of naturals has a least element"
(`LeastNumber`) as a hypothesis; `LeastHolds` proves it from the well-foundedness of
the naturals before the theorems, so none of them depends on it. `HaveGreatest` and
`CountingFacts` (the cardinality of a finite set) play the same part in the proofs of
the transaction log and of the region table.

**`TransactionOpsProofs`, `TransactionLogProofs`.** A log is well formed
(`WellFormed`) when no step is in two slots, the active pointer leads to the one `ACTIVE`
slot, each superseded slot has a place of its own not past the counter, and slots that
were committed have their regions. The first module states for each operation which
slots it changes and to what, and that it keeps `WellFormed`; the second adds what the
owner knows of its own claims (`OwnerInv`). `LogInv`, `ClaimStep` and `NewestFirst`
follow: the slot that a claim recycles is never the active one or the newest displaced
one, which takes three slots for the two protected transactions and the new one (the
fourth keeps the last claim), and the places are distinct, so that "the newest" is one
transaction.

**`RegionStoreProofs`.** `StoreInv` has the types of both sides, `LogHolds` (the
transaction log is well formed and its regions are live), `SlotInView`, the progress of a
write and of a read of the cells (`WriteSoFar`, `ReadSoFar`), and the two conjuncts that
carry the argument. `HeldSafe`: a region that the foreground holds is named by the last
complete write, or has not left, or left no earlier than that write. `SweepSafe`: with
the sweep about to run on cells it read earlier, no region the foreground holds is
about to be freed, and one about to be marked as left is named, was published last, or
no write completed since. The second is needed because the sweep acts on what it read
before the foreground moved on; what the foreground can have taken in between was in
the publication slot, so it is the region published last.

**`ChaseLevDequeProofs`.** `StealInv` has the types, where the owner is (`OwnerInv`),
that a thief whose compare-exchange would succeed holds the oldest item (`ThiefInv`) and
`Account`: the items in the cells between top and the newest one and the items handed
out are together the items pushed, each once. That no item is lost or doubled is not
inductive by itself: a thief reads its item long before its compare-exchange, and that
the cell has not been rewritten follows from the distance of the two ends and the
lemma on cells modulo the capacity. The refinement maps the deque to the items between
the two ends; the step of the abstract deque is the compare-exchange, the decision of
a pop, or the store that publishes a push.

Only model-checked:

- Out of the prover's reach: liveness under fairness (`FlushReturns`, `StopReturns`,
  `PostedJobReturns`, `LoadReturns`, `CallsReturn`, `WalkEnds`, `DaemonStops`), and what
  the definitions that recurse over data (the links of the detector, the searches of
  the tables, the folds of the planner) compute.
- The refinement `ImplementsStack` as such: its mapping orders the displaced
  transactions by counting the older ones, and that a step moves these counts as the
  stack moves is an induction over sets. The two action properties above are the part of it that the callers rely on.
- Not proved yet: the invariants of the multi-producer ring, the kernel
  cache, the schema tables, dispatch and replay, the memory plans, the object store,
  the canopy, the path swap, the connection pool, the quarantine and the refresh daemon.

## 5. Disagreements between the code and its comments

Each of the first seven has a run that shows it.

1. **A metadata log can stay full** (`pipeline_full_log`). Ops that
   `drop_unclaimable_ops_` drops take no release with them; only a later work that
   holds an indexed op moves the tail past them. If such ops fill the log first
   (a long start-up without an iteration), every later op is recorded without
   metadata, each work overflows at once with `meta_end = 0`, and
   `BackgroundThread.cpp:526` sends no release. `MetaLog.h:45`: "A full buffer costs
   the iteration, not one node."
2. **A restored region held by `active_region` alone** (`region_store_read`).
   `rollback` stores its region into `active_region` after its job has left the
   stage, and a publication in between counts the region as out of view already.
   If it has no plan, the write of the cells does not name it, and `persist` or
   `replay` can work on it while a later sweep frees it. The log and the queue of
   uncompiled regions must have moved past it first; the queue has 64 entries in
   the code and 1 in the run. `BackgroundThread.cpp:321-323`: "the foreground reads no
   region that the write does not name".
3. **A stored hash may not load** (`cipher_stored`). The object file exists under its
   final name before its bytes do. After a crash or a failed write between the two,
   a later `store` of the same region finds the file, flushes it and returns its hash
   (`Cipher.cpp:363-367`). `Cipher.cpp:384-385`: "a hash this function returns must be
   loadable after a crash." `WrittenStaysWhole` shows that the path that writes the
   object itself keeps the promise as long as the name of the file is kept.
4. **A small ring returns items twice** (`mpsc_small_ring`). A batch that fills a ring
   sets all 64 bits of each word (`MpscRing.h:241-244`). With fewer than 64 cells some
   of them belong to no cell, and a drain of less than the whole ring leaves them set.
   The scan of a later `try_pop_batch` runs over them, wraps to cells that hold nothing
   new, and takes `tail` past `head`. `MpscRing.h:60-62`: "Its unused high bits stay zero,
   because every index derives from a masked position and so is always below Capacity."
   From 64 cells on every bit has a cell; `MpscInv` is checked for such a ring.
5. **A walk that never ends** (`replay_walk`). On a mismatch `try_align_` restarts at 0 or
   1, not at the longest prefix that still matches. A region that begins `a a b` in a
   program whose iteration ends in `a` is never aligned. `Vigil.h:764`: "A sliding-window
   match against the region's first K ops." The run `live` shows that the walk ends
   for an iteration whose first op is not repeated at once.
6. **A value lost in a switch** (`memory_plan_switch`). The old plan reuses the block of
   a tensor after its last reader in the old region; an alternate that still reads it
   gets another tensor. `CrucibleContext.h:139`: "Safe to call part-way through an
   iteration." `SwitchKeepsLiveValues` shows that this, and a slot that is larger in
   the old plan, are the only ways to lose a value.
7. **Readers see what was not committed** (`refresh_uncommitted`). When `commit_ledger`
   fails, `run_one_cycle` sets `CommitFailed` and publishes all the same
   (`RefreshDaemon.h:339-343`). `RefreshDaemon.h:17-19`: "it becomes visible only when it is
   finished and committed", and `278-280`: "after a successful commit". The next cycle does
   not commit it either (`139-141`), because the working ledger has nothing left to measure.
   `AdmittedIsOnFile` shows that after `Admitted` view and file agree.

Seen while modelling, with no run of their own:

- `close_owner_mailbox_` declares the state unowned before it runs the last job, so
  for a moment there are two owners (`BackgroundThread.h:507`); the theorem
  `OneOwner` shows that this window is the only one.
- The reset epoch moves when the detect stage reads the flag, not when it is raised, so
  a region of the old trace can be published after the signal (`Vigil.h:677-679`); so can
  one between the take of the slot and the signal, and both stay in the slot for the
  next dispatch.
- `store` flushes the bytes of an object and not the directory `objects/XX` that has its
  name. After a power loss HEAD and the log may name an object that is gone; a later
  `store` of it writes it anew.
- Two `on_send` of one `VectorClock` that overlap may return equal snapshots, and snapshots
  of overlapping calls may be ordered although neither is in the past of the other.
- `compact_peer_versions` accepts the process itself. Its next publication then takes a
  number again that other nodes may hold for an older state, and no digest asks for it.
- `record_op` keeps an op whose metadata did not fit and returns true
  (`Vigil.h:188-190`); `MetaLog.h:40-43` describes what the code does.
- A restarted process cannot commit. The step of a Vigil starts at 0, the log that `open`
  reads back ends at a larger one, and the assertion of `advance_head`
  (`Cipher.cpp:724-728`, `Regresses` in the model) ends the process, where
  `Vigil.h:409-410` has `persist` return "False when the store or the clock read of the
  commit failed."
- `advance_head` says that `open` recovers from the log when HEAD is stale
  (`Cipher.cpp:731-734`); `open` takes the log's last entry only when HEAD is missing. A
  torn log record joins the next line, and both are lost or, torn inside the step
  number, read as one.
- `rollback` and `load` during an alignment walk leave the walk open. A divergence closes
  it, but a later rollback to a region without a plan takes it up again at its old
  position, although the ops in between were not matched against it.
- Each use of an external tensor by the build may take a slot; when `slot_cap` is
  reached, later tensors have none, and the memory properties except that case.
- One pair of the kernel cache may occupy two slots after a spin runs out; the first in
  probe order is the one served and updated.
- `find_alternate` tries the newest candidate only.
- A name registered again after the seal goes to the late table and stays hidden
  behind the older one of the global table.
- A node that hears of its own death does not refute it. A shuffle can bring a node
  its own identity as a passive peer. An unknown origin makes `Scuttlebutt` refuse the
  whole digest. `Plumtree` takes an id that its history has evicted for new.
- A swap has no identity: a late `complete_receiver` of one swap can complete the next, and
  a receiver may complete from `BidirReceive` before the drain was acknowledged.
- In `ConnectionPool`, whether a fresh connection to a remote with a quarantined slot can
  be leased depends on the order of the slots.
- In `Quarantine`, a failure in both directions moves a permanent cog back to quarantine
  with no operator; a relapse after recovery keeps the probes and the start of the
  quarantine, so one probe recovers it again; a suspect health report gives a
  quarantined cog canary load with no probe; a fact repeated with its number counts twice.
- In `RefreshDaemon`, a cycle under a dead clock returns before it is counted.

## 6. Not modelled

`vmlinux.h` and the other generated sensor code make up half of the repository's
lines, and compile-time machinery (session types, effect rows, tags, static
assertions) most of the rest: they have no behaviour at run time to explore.
`PROJECT.json` gives a reason for each part. Of parts with behaviour, the computation
cache and the session log are left to the plan below.

Within the modelled files: the graph edges and hashes of `build_trace_from`, the wrap
of the pointer map's generation; the watchdog counters; the growth of the detector's
history below its largest capacity and collisions of its 64-bit fingerprints; time
stamps and hashes of transactions; serialisation; the window of round-trip times of
Lifeguard; the wire forms of digests, deltas and clocks; saturation of a vector
clock entry, which takes more events than an instance has; the session handles of a path
swap; resource limits of the admission control; the text form of a ledger, the
fingerprint of the host, entries of low confidence, `cycle_count`, the mint time of a
view, cycles run by the owner itself, and two processes that write one ledger. In `Pipeline`, `rollback`
is not an action, and a stopped background thread is not started again
(`OwnerMailbox` restarts it). Memory orders weaker than sequential consistency are
not explored in any module.

## 7. Plan

Done: the runtime core, dispatch and replay, memory plans, kernel cache, schema tables,
containers, object store, canopy, path swap, connection pool, credits, quarantine,
refresh daemon.

Next, in order of weight: the session log, `SpscRing`, the computation cache.

Proofs planned: `MpscInv` for every capacity of a word or more and any number of
producers; `SealedTableIsWhole` for any number of producers; `HlcRespectsCausality`.
