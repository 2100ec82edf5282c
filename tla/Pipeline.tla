------------------------------- MODULE Pipeline -------------------------------
(***************************************************************************)
(* The recording foreground of a Vigil and the four stages of its          *)
(* BackgroundThread:                                                       *)
(*                                                                         *)
(*    record_op -> ring -> drain -> detect -> build -> publish -> slot     *)
(*                                                                         *)
(* The recording ring is the FIFO queue that module TraceRing implements.  *)
(* The metadata log is its two counters: a record is named by its index,   *)
(* and the slot of an index is overwritten once the head is CAPACITY past  *)
(* it.  The keys of the ops are left out.  Of the detector that leaves the *)
(* positions, module DetectorPositions, which module IterationDetector is  *)
(* shown to implement.                                                     *)
(***************************************************************************)
EXTENDS DetectorPositions, Sequences

\* The entries of a sequence, and the extremes of a finite set of numbers.
Range(f) == {f[x] : x \in DOMAIN f}
Max(S) == CHOOSE x \in S : \A y \in S : x >= y
Min(S) == CHOOSE x \in S : \A y \in S : x <= y

CONSTANTS
    RING,       \* TraceRing::CAPACITY
    METAS,      \* MetaLog::CAPACITY
    BATCH,      \* BackgroundThread::BATCH_SIZE
    DEPTH,      \* capacity of each channel between two stages
    Tensors,    \* numbers of tensors an op may have
    NoMeta,     \* MetaIndex::none()
    None,       \* a null pointer
    MaxOps,     \* bound: ops that reach the ring
    MaxSignals  \* bound: divergences that reach the reset signal

ASSUME SizesAssumption ==
    /\ {RING, METAS, BATCH, DEPTH} \subseteq Nat \ {0}
    /\ Tensors \subseteq 0 .. METAS
    /\ NoMeta \notin Nat
    /\ MaxOps \in Nat /\ MaxSignals \in Nat

VARIABLES
    \* The foreground.
    fg,         \* "recording", "aligning" or "compiled"
    fg_op,      \* the op of record_op between its two appends, or None
    signals,    \* divergences so far; the trace an op belongs to
    slot,       \* pending_region_: the trace of the region not yet taken, or None
    ring,       \* ops appended and not yet drained
    produced,   \* TraceRing::total_produced
    mhead, mtail,              \* the counters of the metadata log
    stop_requested, reset_requested,   \* the two flags
    reset_epoch,
    \* The three channels.
    trace_batches, build_work, graph_publish,
    \* The stages: where each one is and what it holds.
    dr_pc, dr_batch,
    dt_pc, dt_batch, dt_count, dt_work,
    pending_ops, pos, base, period, next_boundary, seen,
    bd_pc, bd_out,
    pb_pc, pb_region, total_processed

fgVars == <<fg, fg_op, signals, produced, mhead>>
drVars == <<dr_pc, dr_batch>>
detectorVars == <<pending_ops, pos, base, period, next_boundary, seen>>
dtVars == <<dt_pc, dt_batch, dt_count, dt_work, detectorVars, reset_epoch>>
bdVars == <<bd_pc, bd_out>>
pbVars == <<pb_pc, pb_region, total_processed, mtail>>
vars == <<fgVars, slot, ring, stop_requested, reset_requested, trace_batches,
          build_work, graph_publish, drVars, dtVars, bdVars, pbVars>>

Init ==
    /\ fg = "recording" /\ fg_op = None /\ signals = 0 /\ slot = None
    /\ ring = << >> /\ produced = 0 /\ mhead = 0 /\ mtail = 0
    /\ stop_requested = FALSE /\ reset_requested = FALSE /\ reset_epoch = 0
    /\ trace_batches = << >> /\ build_work = << >> /\ graph_publish = << >>
    /\ dr_pc = "peek" /\ dr_batch = << >>
    /\ dt_pc = "pop" /\ dt_batch = << >> /\ dt_count = 0 /\ dt_work = None
    /\ pending_ops = << >> /\ seen = 0
    /\ pos = 0 /\ base = 0 /\ period = 0 /\ next_boundary = 0
    /\ bd_pc = "pop" /\ bd_out = None
    /\ pb_pc = "pop" /\ pb_region = None /\ total_processed = 0

-----------------------------------------------------------------------------
(* The foreground: record_op, and the mode changes of dispatch_op.         *)

\* MetaLog::try_append: the index of the run, or none when it does not fit.
MetaFits(n) == n > 0 /\ mhead - mtail + n <= METAS

\* record_op, first half: the tensor metadata.  A dispatch reaches record_op
\* only while no region waits in the slot or for alignment.
AppendMeta(n) ==
    /\ fg = "recording" /\ fg_op = None /\ slot = None /\ ~stop_requested
    /\ produced < MaxOps
    /\ fg_op' = [n |-> n, meta_start |-> IF MetaFits(n) THEN mhead ELSE NoMeta,
                 trace |-> signals]
    /\ mhead' = IF MetaFits(n) THEN mhead + n ELSE mhead
    /\ UNCHANGED <<fg, signals, produced, slot, ring, stop_requested, reset_requested,
                   trace_batches, build_work, graph_publish, drVars, dtVars, bdVars, pbVars>>

\* record_op, second half: the ring append, whose refusal drops the op.
AppendRing ==
    /\ fg_op # None
    /\ fg_op' = None
    /\ IF Len(ring) < RING
         THEN /\ ring' = Append(ring, fg_op)
              /\ produced' = produced + 1
         ELSE UNCHANGED <<ring, produced>>
    /\ UNCHANGED <<fg, signals, mhead, slot, stop_requested, reset_requested,
                   trace_batches, build_work, graph_publish, drVars, dtVars, bdVars, pbVars>>

\* dispatch_transition_: the region in the slot, if there is one, is taken
\* for alignment; the op aligns it, activates it, or shows it has no plan.
\* Nothing is recorded.
DispatchTransition ==
    /\ fg \in {"recording", "aligning"} /\ fg_op = None /\ ~stop_requested
    /\ slot # None \/ fg = "aligning"
    /\ slot' = None
    /\ fg' \in {"recording", "aligning", "compiled"}
    /\ UNCHANGED <<fg_op, signals, produced, mhead, ring, stop_requested, reset_requested,
                   trace_batches, build_work, graph_publish, drVars, dtVars, bdVars, pbVars>>

\* handle_divergence_ with no alternate: the region in the slot goes to the
\* cache, replay ends, and the signal asks the detect stage for a reset.
Diverge ==
    /\ fg = "compiled" /\ ~stop_requested
    /\ signals < MaxSignals
    /\ slot' = None
    /\ fg' = "recording"
    /\ signals' = signals + 1
    /\ reset_requested' = TRUE
    /\ UNCHANGED <<fg_op, produced, mhead, ring, stop_requested, trace_batches,
                   build_work, graph_publish, drVars, dtVars, bdVars, pbVars>>

\* handle_divergence_ that switches to a cached region: replay goes on.
SwitchRegion ==
    /\ fg = "compiled" /\ ~stop_requested
    /\ slot # None
    /\ slot' = None
    /\ UNCHANGED <<fgVars, ring, stop_requested, reset_requested, trace_batches,
                   build_work, graph_publish, drVars, dtVars, bdVars, pbVars>>

\* stop(), from the destructor of the Vigil: no dispatch runs then or later.
\* The join is the wait for the stages to end.
Stop ==
    /\ ~stop_requested /\ fg_op = None
    /\ stop_requested' = TRUE
    /\ UNCHANGED <<fgVars, slot, ring, reset_requested, trace_batches, build_work,
                   graph_publish, drVars, dtVars, bdVars, pbVars>>

-----------------------------------------------------------------------------
(* DrainTraceRingFn.                                                       *)

\* One batch of try_pop_batch: the oldest ops of the ring, at most BATCH.
PopBatch ==
    LET n == SmallerOf(BATCH, Len(ring)) IN
    /\ dr_batch' = SubSeq(ring, 1, n)
    /\ ring' = SubSeq(ring, n + 1, Len(ring))

DrainPeek ==
    /\ dr_pc = "peek"
    /\ dr_pc' = IF stop_requested THEN "final" ELSE "poll"
    /\ UNCHANGED <<fgVars, slot, ring, stop_requested, reset_requested, trace_batches,
                   build_work, graph_publish, dr_batch, dtVars, bdVars, pbVars>>

\* The batch of the loop, and the one batch after the stop.
DrainPop ==
    /\ dr_pc \in {"poll", "final"}
    /\ PopBatch
    /\ dr_pc' = CASE dr_pc = "poll" -> IF ring = << >> THEN "peek" ELSE "push"
                  [] dr_pc = "final" -> IF ring = << >> THEN "sentinel" ELSE "push_final"
    /\ UNCHANGED <<fgVars, slot, stop_requested, reset_requested, trace_batches,
                   build_work, graph_publish, dtVars, bdVars, pbVars>>

\* push_pipeline spins while the channel is full.
DrainPush ==
    /\ dr_pc \in {"push", "push_final"}
    /\ Len(trace_batches) < DEPTH
    /\ trace_batches' = Append(trace_batches, [stop |-> FALSE, ops |-> dr_batch])
    /\ dr_batch' = << >>
    /\ dr_pc' = IF dr_pc = "push" THEN "peek" ELSE "sentinel"
    /\ UNCHANGED <<fgVars, slot, ring, stop_requested, reset_requested,
                   build_work, graph_publish, dtVars, bdVars, pbVars>>

DrainSentinel ==
    /\ dr_pc = "sentinel"
    /\ Len(trace_batches) < DEPTH
    /\ trace_batches' = Append(trace_batches, [stop |-> TRUE, ops |-> << >>])
    /\ dr_pc' = "end"
    /\ UNCHANGED <<fgVars, slot, ring, stop_requested, reset_requested,
                   build_work, graph_publish, dr_batch, dtVars, bdVars, pbVars>>

-----------------------------------------------------------------------------
(* DetectIterationFn, with PendingOps and the positions of the detector.   *)

\* do_reset, run when the flag is up: the detector and the held ops are
\* cleared, and the epoch moves on.  The values after the check.
AfterCheck ==
    IF reset_requested
      THEN [held |-> << >>, pos |-> 0, base |-> 0, period |-> 0, next |-> 0,
            epoch |-> reset_epoch + 1]
      ELSE [held |-> pending_ops, pos |-> pos, base |-> base, period |-> period,
            next |-> next_boundary, epoch |-> reset_epoch]

\* A batch arrives, and the flag is checked once before its ops.
DetectPop ==
    /\ dt_pc = "pop"
    /\ trace_batches # << >>
    /\ trace_batches' = Tail(trace_batches)
    /\ LET batch == Head(trace_batches) IN
       IF batch.stop
         THEN /\ dt_pc' = "push_stop"
              /\ UNCHANGED <<dt_batch, dt_count, detectorVars, reset_epoch, reset_requested>>
         ELSE /\ dt_pc' = "op"
              /\ dt_batch' = batch.ops
              /\ dt_count' = Len(batch.ops)
              /\ pending_ops' = AfterCheck.held
              /\ pos' = AfterCheck.pos /\ base' = AfterCheck.base
              /\ period' = AfterCheck.period /\ next_boundary' = AfterCheck.next
              /\ reset_epoch' = AfterCheck.epoch
              /\ reset_requested' = FALSE
              /\ UNCHANGED seen
    /\ UNCHANGED <<fgVars, slot, ring, stop_requested, build_work, graph_publish,
                   drVars, dt_work, bdVars, pbVars>>

\* sat::sub_sat.
Monus(m, n) == IF m < n THEN 0 ELSE m - n

\* PendingOps::drop_oldest.
DropOldest(ops, count) == SubSeq(ops, SmallerOf(count, Len(ops)) + 1, Len(ops))

\* prepare_iteration_build_work: the ops the work takes, and the ops left.
Cut(held, iter_len) ==
    LET warm == DropOldest(held, Monus(Monus(Len(held), K), iter_len))
        completed_len == Monus(Len(warm), K)
    IN  [ops |-> SubSeq(warm, 1, completed_len), left |-> DropOldest(warm, completed_len)]

\* Faulty: the held ops end at the newest window, not at its claim.
DropToNewest(held, d) ==
    DropOldest(held, Monus(d.pos - K, d.pos - Len(held)))

\* drop_unclaimable_ops_.
DropUnclaimable(held, d) ==
    DropOldest(held, Monus(OldestClaimable(d), d.pos - Len(held)))

\* One op of the batch: the flag again, the push, the check, and at a
\* boundary the work.  A batch that is used up ends in its commit marker.
DetectOp ==
    /\ dt_pc = "op"
    /\ dt_batch # << >>
    /\ dt_batch' = Tail(dt_batch)
    /\ seen' = seen + 1
    /\ reset_requested' = FALSE
    /\ reset_epoch' = AfterCheck.epoch
    /\ \E d \in Check([pos |-> AfterCheck.pos, base |-> AfterCheck.base,
                       period |-> AfterCheck.period, next |-> AfterCheck.next,
                       fired |-> FALSE]) :
         LET held == Append(AfterCheck.held, Head(dt_batch))
             cut == Cut(held, d.period)
             work == [kind |-> "work", ops |-> cut.ops, epoch |-> AfterCheck.epoch,
                      iter_len |-> d.period, cut_at |-> seen + 1]
             cuts == d.fired /\ cut.ops # << >>
         IN  /\ pos' = d.pos /\ base' = d.base
             /\ period' = d.period /\ next_boundary' = d.next
             /\ pending_ops' = DropUnclaimable(IF d.fired THEN cut.left ELSE held, d)
             /\ dt_work' = IF cuts THEN work ELSE None
             /\ dt_pc' = IF cuts THEN "push_work" ELSE "op"
    /\ UNCHANGED <<fgVars, slot, ring, stop_requested, trace_batches, build_work,
                   graph_publish, drVars, dt_count, bdVars, pbVars>>

DetectPushWork ==
    /\ dt_pc = "push_work"
    /\ Len(build_work) < DEPTH
    /\ build_work' = Append(build_work, dt_work)
    /\ dt_work' = None
    /\ dt_pc' = "op"
    /\ UNCHANGED <<fgVars, slot, ring, stop_requested, reset_requested, trace_batches,
                   graph_publish, drVars, dt_batch, dt_count, detectorVars, reset_epoch,
                   bdVars, pbVars>>

\* Faulty: a batch that a reset interrupts is not counted.
CommitUnlessReset ==
    /\ dt_pc = "op"
    /\ dt_batch = << >>
    /\ Len(build_work) < DEPTH
    /\ build_work' = IF reset_requested THEN build_work
                     ELSE Append(build_work, [kind |-> "commit", count |-> dt_count])
    /\ dt_count' = 0
    /\ dt_pc' = "pop"
    /\ UNCHANGED <<fgVars, slot, ring, stop_requested, reset_requested, trace_batches,
                   graph_publish, drVars, dt_batch, dt_work, detectorVars, reset_epoch,
                   bdVars, pbVars>>

DetectPushCommit ==
    /\ dt_pc = "op"
    /\ dt_batch = << >>
    /\ Len(build_work) < DEPTH
    /\ build_work' = Append(build_work, [kind |-> "commit", count |-> dt_count])
    /\ dt_count' = 0
    /\ dt_pc' = "pop"
    /\ UNCHANGED <<fgVars, slot, ring, stop_requested, reset_requested, trace_batches,
                   graph_publish, drVars, dt_batch, dt_work, detectorVars, reset_epoch,
                   bdVars, pbVars>>

\* Faulty: the stage ends and keeps the sentinel.
DetectKeepsStop ==
    /\ dt_pc = "push_stop"
    /\ dt_pc' = "end"
    /\ UNCHANGED <<fgVars, slot, ring, stop_requested, reset_requested, trace_batches,
                   build_work, graph_publish, drVars, dt_batch, dt_count, dt_work,
                   detectorVars, reset_epoch, bdVars, pbVars>>

DetectPushStop ==
    /\ dt_pc = "push_stop"
    /\ Len(build_work) < DEPTH
    /\ build_work' = Append(build_work, [kind |-> "stop"])
    /\ dt_pc' = "end"
    /\ UNCHANGED <<fgVars, slot, ring, stop_requested, reset_requested, trace_batches,
                   graph_publish, drVars, dt_batch, dt_count, dt_work, detectorVars,
                   reset_epoch, bdVars, pbVars>>

-----------------------------------------------------------------------------
(* BuildTraceFn.                                                           *)

\* The scan of build_trace_from stops at an op with tensors and no index.
Overflows(ops) == {i \in DOMAIN ops : ops[i].n > 0 /\ ops[i].meta_start = NoMeta}

\* The ops the scan reads, and the end of their metadata, or zero.
Scanned(ops) == IF Overflows(ops) = {} THEN ops ELSE SubSeq(ops, 1, Min(Overflows(ops)) - 1)
Indexed(ops) == {i \in DOMAIN ops : ops[i].meta_start # NoMeta}
MetaEnd(ops) ==
    LET read == Scanned(ops)
    IN  Max({0} \cup {read[i].meta_start + read[i].n : i \in Indexed(read)})

\* What the build stage sends on for one work, a sequence of at most one.
BuildResult(work) ==
    IF work.kind # "work" THEN <<work>>
    ELSE IF Overflows(work.ops) = {}
      THEN <<[kind |-> "region", meta_end |-> MetaEnd(work.ops), epoch |-> work.epoch,
              trace |-> Min({work.ops[i].trace : i \in DOMAIN work.ops}),
              cut_at |-> work.cut_at]>>
      ELSE IF MetaEnd(work.ops) > 0
        THEN <<[kind |-> "release", meta_end |-> MetaEnd(work.ops), cut_at |-> work.cut_at]>>
        ELSE << >>

BuildPop ==
    /\ bd_pc = "pop"
    /\ build_work # << >>
    /\ build_work' = Tail(build_work)
    /\ bd_out' = Head(build_work)
    /\ bd_pc' = "build"
    /\ UNCHANGED <<fgVars, slot, ring, stop_requested, reset_requested, trace_batches,
                   graph_publish, drVars, dtVars, pbVars>>

\* Faulty: the build stage writes the tail itself after an overflow.
BuildReleases ==
    /\ bd_pc = "build"
    /\ LET sent == BuildResult(bd_out)
           overflow == sent # << >> /\ sent[1].kind = "release"
       IN  /\ Len(graph_publish) < DEPTH \/ overflow
           /\ graph_publish' = IF overflow THEN graph_publish ELSE graph_publish \o sent
           /\ mtail' = IF overflow THEN sent[1].meta_end ELSE mtail
    /\ bd_pc' = IF bd_out.kind = "stop" THEN "end" ELSE "pop"
    /\ bd_out' = None
    /\ UNCHANGED <<fgVars, slot, ring, stop_requested, reset_requested, trace_batches,
                   build_work, drVars, dtVars, pb_pc, pb_region, total_processed>>

\* Faulty: the build stage counts the entries of a marker itself.
BuildCommits ==
    /\ bd_pc = "build"
    /\ Len(graph_publish) < DEPTH
    /\ LET marker == bd_out.kind = "commit"
       IN  /\ graph_publish' = IF marker THEN graph_publish ELSE graph_publish \o BuildResult(bd_out)
           /\ total_processed' = IF marker THEN total_processed + bd_out.count ELSE total_processed
    /\ bd_pc' = IF bd_out.kind = "stop" THEN "end" ELSE "pop"
    /\ bd_out' = None
    /\ UNCHANGED <<fgVars, slot, ring, stop_requested, reset_requested, trace_batches,
                   build_work, drVars, dtVars, pb_pc, pb_region, mtail>>

\* The build reads its run of the metadata log and ends with the push.
BuildPush ==
    /\ bd_pc = "build"
    /\ Len(graph_publish) < DEPTH \/ BuildResult(bd_out) = << >>
    /\ graph_publish' = graph_publish \o BuildResult(bd_out)
    /\ bd_pc' = IF bd_out.kind = "stop" THEN "end" ELSE "pop"
    /\ bd_out' = None
    /\ UNCHANGED <<fgVars, slot, ring, stop_requested, reset_requested, trace_batches,
                   build_work, drVars, dtVars, pbVars>>

-----------------------------------------------------------------------------
(* MakeRegionFn.                                                           *)

\* Faulty: gives back everything recorded so far.
ReleaseToHead(meta_end) == mtail' = IF meta_end > 0 THEN mhead ELSE mtail

\* release_meta_log: advance_tail, whose contract is a strictly larger tail.
ReleaseMetaLog(meta_end) == mtail' = IF meta_end > 0 THEN meta_end ELSE mtail

\* A marker counts its entries; a release, or a region cut before the last
\* reset, moves the tail; any other region is published next.
PublishPop ==
    /\ pb_pc = "pop"
    /\ graph_publish # << >>
    /\ graph_publish' = Tail(graph_publish)
    /\ LET m == Head(graph_publish) IN
       CASE m.kind = "stop" ->
              /\ pb_pc' = "end"
              /\ UNCHANGED <<pb_region, total_processed, mtail>>
         [] m.kind = "commit" ->
              /\ total_processed' = total_processed + m.count
              /\ UNCHANGED <<pb_pc, pb_region, mtail>>
         [] m.kind = "release" \/ (m.kind = "region" /\ m.epoch # reset_epoch) ->
              /\ ReleaseMetaLog(m.meta_end)
              /\ UNCHANGED <<pb_pc, pb_region, total_processed>>
         [] OTHER ->
              /\ pb_pc' = "publish"
              /\ pb_region' = m
              /\ UNCHANGED <<total_processed, mtail>>
    /\ UNCHANGED <<fgVars, slot, ring, stop_requested, reset_requested, trace_batches,
                   build_work, drVars, dtVars, bdVars>>

\* publish_region up to its release: a full region store discards the region.
PublishRelease ==
    /\ pb_pc = "publish"
    /\ ReleaseMetaLog(pb_region.meta_end)
    /\ \/ pb_pc' = "handover" /\ UNCHANGED pb_region
       \/ pb_pc' = "pop" /\ pb_region' = None
    /\ UNCHANGED <<fgVars, slot, ring, stop_requested, reset_requested, trace_batches,
                   build_work, graph_publish, drVars, dtVars, bdVars, total_processed>>

\* publish_region and its callback on_region_ready: the slot.
PublishHandover ==
    /\ pb_pc = "handover"
    /\ slot' = pb_region.trace
    /\ pb_region' = None
    /\ pb_pc' = "pop"
    /\ UNCHANGED <<fgVars, ring, stop_requested, reset_requested, trace_batches,
                   build_work, graph_publish, drVars, dtVars, bdVars, total_processed, mtail>>

-----------------------------------------------------------------------------
Foreground == \/ \E n \in Tensors : AppendMeta(n)
              \/ AppendRing \/ DispatchTransition \/ Diverge \/ SwitchRegion \/ Stop
Drain == DrainPeek \/ DrainPop \/ DrainPush \/ DrainSentinel
Detect == DetectPop \/ DetectOp \/ DetectPushWork \/ DetectPushCommit \/ DetectPushStop
Build == BuildPop \/ BuildPush
Publish == PublishPop \/ PublishRelease \/ PublishHandover

Next == Foreground \/ Drain \/ Detect \/ Build \/ Publish

Spec == Init /\ [][Next]_vars

\* Each stage is a thread of its own that spins and never blocks elsewhere.
\* The foreground owes the pipeline nothing but the end of an op it began.
FairSpec == /\ Spec
            /\ WF_vars(AppendRing)
            /\ WF_vars(Drain) /\ WF_vars(Detect) /\ WF_vars(Build) /\ WF_vars(Publish)

-----------------------------------------------------------------------------
\* The sums of the first n numbers of a sequence, and the sum of them all.
Sums(counts) ==
    LET sum[n \in 0 .. Len(counts)] == IF n = 0 THEN 0 ELSE sum[n - 1] + counts[n]
    IN  sum
Total(counts) == Sums(counts)[Len(counts)]

\* What the batches, and the markers on their way to the counter, account for.
BatchSizes(batches) == [i \in DOMAIN batches |-> Len(batches[i].ops)]
Count(m) == IF m.kind = "commit" THEN m.count ELSE 0
Counts(messages) == [i \in DOMAIN messages |-> Count(messages[i])]

Works == {w \in Range(build_work) \cup {dt_work, bd_out} : w # None /\ w.kind = "work"}

Messages == {m \in Range(graph_publish) \cup {pb_region} : m # None /\ m.kind \in {"region", "release"}}

\* Every op recorded whose metadata has not been handed to the publish stage.
UpstreamOps ==
    ({fg_op} \ {None})
    \cup Range(ring) \cup Range(dr_batch) \cup Range(dt_batch) \cup Range(pending_ops)
    \cup (UNION {Range(b.ops) : b \in Range(trace_batches)})
    \cup (UNION {Range(w.ops) : w \in Works})

\* The types, and the capacities of the ring and of the three channels, which
\* no stage overruns.  The comment on grow_ bounds the held ops too: between
\* two ops they are at most half of the history of the detector and
\* K more, however long no period is found and wherever the phase of a found
\* one lies, so the push that follows never asks grow_ for more than the
\* history's capacity, where the process ends.
TypeOK ==
    /\ fg \in {"recording", "aligning", "compiled"}
    /\ slot \in {None} \cup 0 .. MaxSignals
    /\ signals \in 0 .. MaxSignals
    /\ {produced, seen, total_processed} \subseteq 0 .. MaxOps
    /\ {mhead, mtail} \subseteq Nat
    /\ \A op \in UpstreamOps : op.n \in Tensors /\ op.meta_start \in Nat \cup {NoMeta}
    /\ Len(ring) <= RING
    /\ \A c \in {trace_batches, build_work, graph_publish} : Len(c) <= DEPTH
    /\ {stop_requested, reset_requested} \subseteq BOOLEAN
    /\ {pos, base, period, next_boundary, reset_epoch} \subseteq Nat
    /\ Len(pending_ops) <= HISTORY \div 2 + K

\* "The tail stays at or before the first record of a work until the release
\* of that work", and the producer never laps it: the run a build copies
\* holds the records its ops were recorded with, and fits the log.
RecordsStayPut ==
    /\ mtail <= mhead /\ mhead - mtail <= METAS
    /\ \A op \in UpstreamOps :
          op.meta_start # NoMeta => mtail <= op.meta_start /\ op.meta_start + op.n <= mhead

\* The contract of advance_tail: each release on its way, of a region
\* published, of one discarded or of an overflow, is past the tail.
ReleasesAdvance ==
    \A m \in Messages :
        m.meta_end > 0 /\ ~(m = pb_region /\ pb_pc = "handover") => m.meta_end > mtail

\* The bounds of every buffer (TypeOK: the held ops stay within the history),
\* and what the build stage and the metadata log owe each other: the records of
\* an op stay put until its release, and the releases only advance.
MetaLogInv == TypeOK /\ RecordsStayPut /\ ReleasesAdvance

\* What flush() promises: while a region is still being built or published,
\* the counter has not reached the op that completed it.
FlushedMeansPublished == \A m \in Works \cup Messages : total_processed < m.cut_at

\* No op is counted twice or lost on the way to the counter, whatever the
\* resets drop: what is not yet counted is somewhere in the pipeline.
EveryOpCounted ==
    produced = total_processed + Len(ring) + Len(dr_batch) + dt_count
               + Total(BatchSizes(trace_batches))
               + Total(Counts(build_work)) + Total(Counts(graph_publish))
               + (IF bd_pc = "build" THEN Count(bd_out) ELSE 0)

\* oldest_claimable() keeps what a report can claim: a work holds the whole
\* iteration that the detector reported, and nothing else.
WorksAreIterations == \A w \in Works : Len(w.ops) = w.iter_len

\* A flush returns, unless the thread is stopped first.
FlushReturns ==
    \A n \in 1 .. MaxOps : produced >= n ~> (total_processed >= n \/ stop_requested)

\* stop() returns: the sentinel reaches every stage.
StopReturns == stop_requested ~> (dr_pc = "end" /\ dt_pc = "end" /\ bd_pc = "end" /\ pb_pc = "end")

\* MetaLog.h, "A full buffer costs the iteration, not one node": a full log
\* is drained again, since some op whose records it holds is still to be
\* released.
FullLogDrains ==
    mhead - mtail = METAS
        => \/ \E op \in UpstreamOps : op.meta_start # NoMeta
           \/ \E m \in Messages : m.meta_end > mtail
===============================================================================
