----------------------------- MODULE RegionStore ------------------------------
(***************************************************************************)
(* The memory of the published regions.  The publish stage owns the table  *)
(* region_store_ and frees from it in sweep_regions_; the foreground reads *)
(* the regions it holds through plain pointers.  What keeps the two apart  *)
(* is HeldRegions: the foreground writes the regions it holds, under a     *)
(* sequence counter, at the end of each cold path, and the callback of the *)
(* publish stage reads them before the sweep.                              *)
(*                                                                         *)
(* A region is a number in publication order; its content is left out, so  *)
(* whether an activation finds a plan, whether the cache already has an    *)
(* equal content hash and which alternate fits are choices.  Vigil::load,  *)
(* whose region is not in the store, is left out.                          *)
(***************************************************************************)
EXTENDS TransactionOps, FiniteSets

\* The entries of a sequence.
Range(f) == {f[i] : i \in DOMAIN f}

CONSTANTS
    STORE,       \* REGION_STORE_CAP
    QUEUE,       \* UncompiledRegionQueue::CAP
    CACHE,       \* RegionCache::CAP
    NOT_LEFT,    \* the left generation of a region still in view
    MaxRegions,  \* bound: regions built
    MaxWrites    \* bound: writes of held_regions_

ASSUME StoreAssumption ==
    /\ {STORE, QUEUE, CACHE} \subseteq Nat \ {0}
    /\ NOT_LEFT \notin Nat
    /\ MaxRegions \in Nat /\ MaxWrites \in Nat

Cells == 1 .. CACHE + 2

VARIABLES
    \* The publish stage.
    built,           \* regions built so far
    live,            \* regions whose memory the table holds
    left_generation, \* left_generation[r] of each live region
    last_published, uncompiled,
    tx,              \* the transaction log; the step of a region is its number
    s_pc, s_seq, s_cell, s_read,    \* the callback in progress
    handed, held, generation,       \* owner_marks_
    \* Shared.
    active_region,   \* written by both threads
    slot,            \* pending_region_
    sequence, cells, \* held_regions_
    \* The foreground.
    f_pc, f_cell, restored,
    reading,         \* the region persist or replay is at work on
    activation,      \* pending_activation_
    active,          \* the region of the replay context
    cache            \* the regions of region_cache_, oldest first

marks == <<handed, held, generation>>
callback == <<s_seq, s_cell, s_read>>
table == <<built, live, left_generation, last_published, uncompiled, tx>>
holders == <<activation, active, cache>>
stage == <<table, s_pc, callback, marks>>
foreground == <<f_pc, f_cell, restored, reading, holders>>
vars == <<stage, active_region, slot, sequence, cells, foreground>>

Init ==
    /\ built = 0 /\ live = {} /\ left_generation = << >>
    /\ last_published = None /\ uncompiled = << >> /\ tx = EmptyLog
    /\ s_pc = "idle" /\ s_seq = 0 /\ s_cell = 1 /\ s_read = {}
    /\ handed = None /\ held = {} /\ generation = 0
    /\ active_region = None /\ slot = None
    /\ sequence = 0 /\ cells = [i \in Cells |-> None]
    /\ f_pc = "idle" /\ f_cell = 1 /\ restored = None /\ reading = None
    /\ activation = None /\ active = None /\ cache = << >>

Newest(n, seq) == IF Len(seq) <= n THEN seq ELSE SubSeq(seq, Len(seq) - n + 1, Len(seq))

-----------------------------------------------------------------------------
(* The publish stage: publish_region, on_region_ready, sweep_regions_.     *)

\* publish_region up to the publication, and the transaction of its callback;
\* a full table discards the region.
PublishRegion ==
    /\ s_pc = "idle"
    /\ built < MaxRegions
    /\ built' = built + 1
    /\ IF Cardinality(live) = STORE
         THEN UNCHANGED <<live, left_generation, last_published, uncompiled, tx, active_region, s_pc>>
         ELSE /\ live' = live \cup {built'}
              /\ left_generation' = [r \in live' |-> IF r = built' THEN NOT_LEFT ELSE left_generation[r]]
              /\ last_published' = built'
              /\ uncompiled' = Newest(QUEUE, Append(uncompiled, built'))
              /\ active_region' = built'
              /\ tx' = Activate(Commit(BeginTx(tx, built'), built', built'), built')
              /\ s_pc' = "slot"
    /\ UNCHANGED <<callback, marks, slot, sequence, cells, foreground>>

\* on_region_ready: the publication slot, which drops a region nobody took.
PublishSlot ==
    /\ s_pc = "slot"
    /\ slot' = last_published
    /\ s_pc' = "marks"
    /\ UNCHANGED <<table, active_region, callback, marks, sequence, cells, foreground>>

\* on_region_ready: the regions of the log, and what the slot still holds.
MarkHanded ==
    /\ s_pc = "marks"
    /\ held' = RegionsOf(tx)
    /\ handed' = slot
    /\ s_pc' = "sequence"
    /\ UNCHANGED <<table, active_region, callback, generation, slot, sequence, cells, foreground>>

\* mark_held_regions_: spins while a write is in progress.
ReadSequence ==
    /\ s_pc = "sequence"
    /\ sequence % 2 = 0
    /\ s_seq' = sequence
    /\ s_cell' = 1 /\ s_read' = {}
    /\ s_pc' = "cells"
    /\ UNCHANGED <<table, active_region, marks, slot, sequence, cells, foreground>>

ReadCell ==
    /\ s_pc = "cells"
    /\ s_read' = s_read \cup {cells[s_cell]}
    /\ IF s_cell = CACHE + 2
         THEN s_pc' = "recheck" /\ s_cell' = 1
         ELSE s_cell' = s_cell + 1 /\ UNCHANGED s_pc
    /\ UNCHANGED <<table, active_region, s_seq, marks, slot, sequence, cells, foreground>>

\* mark_held_regions_: an unchanged sequence makes the cells one write.
RecheckSequence ==
    /\ s_pc = "recheck"
    /\ IF sequence = s_seq
         THEN /\ held' = (held \cup s_read) \ {None}
              /\ generation' = s_seq \div 2
              /\ s_pc' = "sweep"
         ELSE /\ s_pc' = "sequence"
              /\ UNCHANGED <<held, generation>>
    /\ s_seq' = 0 /\ s_read' = {}
    /\ UNCHANGED <<table, active_region, s_cell, handed, slot, sequence, cells, foreground>>

\* is_held_.
IsHeld(r) == r \in held \/ r \in Range(uncompiled)

\* A region in the publication slot or published last is in view.
InView(r) == r \in {last_published, handed}

\* Faulty: the write that was current when the region left is enough.
FreesOnSameWrite(r) ==
    /\ ~InView(r)
    /\ left_generation[r] # NOT_LEFT
    /\ ~IsHeld(r)
    /\ generation >= left_generation[r]

\* sweep_regions_: the regions the sweep frees.
Frees(r) ==
    /\ ~InView(r)
    /\ left_generation[r] # NOT_LEFT
    /\ ~IsHeld(r)
    /\ generation > left_generation[r]

SweepRegions ==
    /\ s_pc = "sweep"
    /\ live' = {r \in live : ~Frees(r)}
    /\ left_generation' =
          [r \in live' |-> IF InView(r) THEN NOT_LEFT
                           ELSE IF left_generation[r] = NOT_LEFT THEN generation
                           ELSE left_generation[r]]
    /\ held' = {} /\ handed' = None /\ generation' = 0
    /\ s_pc' = "idle"
    /\ UNCHANGED <<built, last_published, uncompiled, tx, callback, active_region, slot, sequence, cells, foreground>>

\* The job of Vigil::rollback on the stage, between two publications: the
\* log restores its target and the store puts that region back in view, or
\* there is no target and the rollback is over.
RollbackJob ==
    /\ s_pc = "idle"
    /\ f_pc = "job"
    /\ tx' = Rollback(tx)
    /\ IF Previous(tx) = None
         THEN f_pc' = "idle" /\ UNCHANGED <<restored, left_generation>>
         ELSE /\ f_pc' = "restored"
              /\ restored' = ActiveRegion(tx')
              /\ left_generation' = [left_generation EXCEPT ![restored'] = NOT_LEFT]
    /\ UNCHANGED <<built, live, last_published, uncompiled, s_pc, callback, marks,
                   active_region, slot, sequence, cells, f_cell, reading, holders>>

-----------------------------------------------------------------------------
(* The foreground.                                                         *)

\* RegionCache::insert: an equal content hash is not inserted again.
Inserted(c, r) ==
    IF r \in Range(c) THEN {c}
    ELSE {Newest(CACHE, Append(c, r))} \cup (IF c = << >> THEN {} ELSE {c})

\* dispatch_transition_: the region in the slot replaces the one of a walk;
\* the walk goes on, activates, or ends for want of a plan.
DispatchTransition ==
    /\ f_pc = "idle"
    /\ active = None
    /\ sequence < 2 * MaxWrites
    /\ LET walk == IF slot # None THEN slot ELSE activation IN
       /\ walk # None
       /\ \/ activation' = walk /\ UNCHANGED <<active, cache>>
          \/ activation' = None /\ active' = walk /\ cache' \in Inserted(cache, walk)
          \/ activation' = None /\ UNCHANGED <<active, cache>>
    /\ slot' = None
    /\ f_pc' = "begin"
    /\ UNCHANGED <<stage, active_region, sequence, cells, f_cell, restored, reading>>

\* handle_divergence_: the region in the slot and the active one go to the
\* cache; a cached alternate takes over, or replay ends.
HandleDivergence ==
    /\ f_pc = "idle"
    /\ active # None
    /\ sequence < 2 * MaxWrites
    /\ \E c \in (IF slot = None THEN {cache} ELSE Inserted(cache, slot)) :
         /\ cache' \in Inserted(c, active)
         /\ active' \in {None} \cup (Range(cache') \ {active})
    /\ slot' = None
    /\ activation' = None
    /\ f_pc' = "begin"
    /\ UNCHANGED <<stage, active_region, sequence, cells, f_cell, restored, reading>>

\* Vigil::rollback posts its job to the stage and waits for it.
CallRollback ==
    /\ f_pc = "idle"
    /\ sequence < 2 * MaxWrites
    /\ f_pc' = "job"
    /\ UNCHANGED <<stage, active_region, slot, sequence, cells, f_cell, restored, reading, holders>>

\* The rest of Vigil::rollback: the context leaves its region for the
\* restored one, if that has a plan; a walk in progress stays.
FinishRollback ==
    /\ f_pc = "restored"
    /\ active_region' = restored
    /\ active' \in {None, restored}
    /\ restored' = None
    /\ f_pc' = "begin"
    /\ UNCHANGED <<stage, slot, sequence, cells, f_cell, reading, activation, cache>>

\* persist and replay: the producer thread works on active_region, for as
\* long as the store on disk or the execution of the region takes.
ReadActive ==
    /\ f_pc = "idle"
    /\ active_region # None
    /\ reading' = active_region
    /\ f_pc' = "read"
    /\ UNCHANGED <<stage, active_region, slot, sequence, cells, f_cell, restored, holders>>

EndRead ==
    /\ f_pc = "read"
    /\ reading' = None
    /\ f_pc' = "idle"
    /\ UNCHANGED <<stage, active_region, slot, sequence, cells, f_cell, restored, holders>>

\* publish_held_regions_: the sequence is odd while the cells change.
BeginWrite ==
    /\ f_pc = "begin"
    /\ sequence' = sequence + 1
    /\ f_cell' = 1
    /\ f_pc' = "write"
    /\ UNCHANGED <<stage, active_region, slot, cells, restored, reading, holders>>

\* The region a cell names: the walk, the context, the cache by age.
Holder(i) ==
    CASE i = 1 -> activation
      [] i = 2 -> active
      [] OTHER -> IF i - 3 < Len(cache) THEN cache[Len(cache) - (i - 3)] ELSE None

WriteCell ==
    /\ f_pc = "write"
    /\ cells' = [cells EXCEPT ![f_cell] = Holder(f_cell)]
    /\ IF f_cell = CACHE + 2
         THEN f_pc' = "end" /\ f_cell' = 1
         ELSE f_cell' = f_cell + 1 /\ UNCHANGED f_pc
    /\ UNCHANGED <<stage, active_region, slot, sequence, restored, reading, holders>>

EndWrite ==
    /\ f_pc = "end"
    /\ sequence' = sequence + 1
    /\ f_pc' = "idle"
    /\ UNCHANGED <<stage, active_region, slot, cells, f_cell, restored, reading, holders>>

-----------------------------------------------------------------------------
Next ==
    \/ PublishRegion \/ PublishSlot \/ MarkHanded
    \/ ReadSequence \/ ReadCell \/ RecheckSequence \/ SweepRegions \/ RollbackJob
    \/ DispatchTransition \/ HandleDivergence \/ CallRollback \/ FinishRollback
    \/ ReadActive \/ EndRead \/ BeginWrite \/ WriteCell \/ EndWrite

Spec == Init /\ [][Next]_vars

-----------------------------------------------------------------------------
Regions == 1 .. MaxRegions

\* The types, and the capacities of region_store_, of the queue of the
\* compiler and of the region cache.
TypeOK ==
    /\ built \in 0 .. MaxRegions
    /\ live \subseteq Regions /\ Cardinality(live) <= STORE
    /\ left_generation \in [live -> 0 .. MaxWrites \cup {NOT_LEFT}]
    /\ RegionsOf(tx) \subseteq Regions
    /\ Len(uncompiled) <= QUEUE /\ Len(cache) <= CACHE
    /\ {slot, activation, active, restored, reading, handed, last_published, active_region} \subseteq Regions \cup {None}
    /\ sequence \in 0 .. 2 * MaxWrites
    /\ cells \in [Cells -> Regions \cup {None}]

\* The regions the foreground can read with its next instruction: those it
\* holds, the one a rollback gave it, and the one it can take from the slot.
ForegroundReads == ({activation, active, restored, slot} \cup Range(cache)) \ {None}

\* The regions the stage can hand out again: "the transaction log holds each
\* region that a rollback can restore", and the queue of the compiler each
\* region that it names.
StageReads == RegionsOf(tx) \cup Range(uncompiled)

\* The sweep frees no region that the foreground can still read, nor one that
\* the stage can hand out again.
NoUseAfterFree == ForegroundReads \cup StageReads \subseteq live

\* The store and its readers: the shape of the state, and no region freed
\* under a reader by the sweep of publish_region.
RegionInv == TypeOK /\ NoUseAfterFree

\* "The foreground reads no region that the write does not name": the region
\* that persist or replay took from active_region is not freed under it.
ReaderRegionLive == reading # None => reading \in live
===============================================================================
