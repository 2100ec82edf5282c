------------------------------- MODULE Replay -------------------------------
(* The foreground of a Vigil: dispatch_op with its divergence recovery and   *)
(* its alignment walk, rollback and load, over the replay context and the    *)
(* region cache.  The program repeats an iteration and may turn to another   *)
(* one at any operation; the background thread publishes regions.  A region  *)
(* is its operations, each the pair of its schema and shape hash, and        *)
(* whether it has a memory plan; equal regions have equal content hashes.    *)
EXTENDS Integers, Sequences, SequencesExt, FiniteSetsExt

CONSTANTS Iterations,    \* what the program may repeat: records of ops and plan
          None,          \* a null pointer
          K,             \* ALIGNMENT_K
          CAP,           \* RegionCache::CAP
          MaxTurns, MaxPublished, MaxRestores    \* bounds

VARIABLES program, phase,   \* the iteration that runs, and its operations so far
          slot,             \* pending_region_, with the number of its publication
          activation, pos,  \* pending_activation_, likewise, and alignment_pos_
          active, cursor,   \* the region of the context (None: RECORD), ops_matched
          mode,             \* mode_
          cache,            \* region_cache_, newest first
          undo,             \* the regions of the transaction log, newest first
          published, restores, turns,
          recent,           \* history: the last operations dispatched, newest first
          missed,           \* history: the open walk did not see all of them
          skewed,           \* history: such a walk activated the context
          resetting,        \* a divergence has yet to raise reset_requested
          divergedAt        \* history: publications up to the last divergence that recorded

vars == <<program, phase, slot, activation, pos, active, cursor, mode, cache, undo,
          published, restores, turns, recent, missed, skewed, resetting, divergedAt>>

Smaller(m, n) == IF m < n THEN m ELSE n
Window == Max({Len(r.ops) : r \in Iterations})
Publication == [region : Iterations, number : 1 .. MaxPublished]

TypeOK == /\ program \in Iterations /\ phase \in 0 .. Len(program.ops) - 1
          /\ slot \in Publication \cup {None} /\ activation \in Publication \cup {None}
          /\ pos \in 0 .. K
          /\ active \in Iterations \cup {None} /\ active # None => active.plan
          /\ cursor \in 0 .. Window /\ (active # None => cursor < Len(active.ops))
          /\ mode \in {"RECORDING", "COMPILED"}
          /\ cache \in BoundedSeq(Iterations, CAP) /\ IsInjective(cache)
          /\ undo \in BoundedSeq(Iterations, MaxPublished)
          /\ resetting \in BOOLEAN /\ divergedAt \in 0 .. published

Init == /\ program \in Iterations /\ phase \in 0 .. Len(program.ops) - 1
        /\ slot = None /\ activation = None /\ pos = 0
        /\ active = None /\ cursor = 0 /\ mode = "RECORDING"
        /\ cache = << >> /\ undo = << >>
        /\ published = 0 /\ restores = 0 /\ turns = 0
        /\ recent = << >> /\ missed = FALSE /\ skewed = FALSE
        /\ resetting = FALSE /\ divergedAt = 0

-----------------------------------------------------------------------------
(* The region cache: a ring of CAP regions, one per content hash. *)

insert(c, r) == IF Contains(c, r) THEN c ELSE SubSeq(<<r>> \o c, 1, Smaller(CAP, Len(c) + 1))

\* The newest eligible region that has op at the position; None without one.
find_alternate(c, at, op, exclude) ==
    LET fits(r) == r # exclude /\ r.plan /\ at < Len(r.ops) /\ r.ops[at + 1] = op
        found == SelectSeq(c, fits)
    IN IF found = << >> THEN None ELSE Head(found)

SamePrefix(r, s, n) == SubSeq(r.ops, 1, n) = SubSeq(s.ops, 1, n)

-----------------------------------------------------------------------------
(* dispatch_op.  The cursor of the engine returns to zero when the region is *)
(* complete.                                                                 *)

After(r, n) == n % Len(r.ops)

Replayed(op) ==
    /\ op = active.ops[cursor + 1]
    /\ cursor' = After(active, cursor + 1)
    /\ skewed' = (skewed /\ cursor' # 0)
    /\ missed' = (activation # None)
    /\ UNCHANGED <<slot, activation, pos, active, mode, cache, resetting, divergedAt>>

\* Faulty: the region published during the replay stays in the slot.
handle_divergence_slot_kept(op) ==
    /\ op # active.ops[cursor + 1]
    /\ activation' = None /\ pos' = 0 /\ missed' = FALSE
    /\ cache' = insert(cache, active)
    /\ active' = None /\ cursor' = 0 /\ mode' = "RECORDING"
    /\ skewed' = FALSE /\ resetting' = TRUE /\ divergedAt' = published
    /\ UNCHANGED slot

\* The slot is taken first and the reset is signalled last; in between, the
\* publish stage may put another region into the slot.
handle_divergence(op) ==
    LET taken == IF slot = None THEN cache ELSE insert(cache, slot.region)
        known == insert(taken, active)
        alt == find_alternate(known, cursor, op, active)
        switched == alt # None /\ SamePrefix(active, alt, cursor)
    IN /\ op # active.ops[cursor + 1]
       /\ slot' = None /\ activation' = None /\ pos' = 0 /\ missed' = FALSE
       /\ cache' = known
       /\ \/ /\ switched
             /\ active' = alt /\ cursor' = After(alt, cursor + 1)
             /\ skewed' = (skewed /\ cursor' # 0)
             /\ UNCHANGED <<mode, resetting, divergedAt>>
          \/ /\ ~switched
             /\ active' = None /\ cursor' = 0 /\ mode' = "RECORDING"
             /\ skewed' = FALSE /\ resetting' = TRUE /\ divergedAt' = published

\* Faulty: a mismatch resets the walk, and the operation starts no new one.
walked_no_restart(r, at, op) == IF op = r.ops[at + 1] THEN at + 1 ELSE 0

\* The position of the walk once it has seen op.
walked(r, at, op) == CASE op = r.ops[at + 1] -> at + 1
                       [] op # r.ops[at + 1] /\ op = r.ops[1] -> 1
                       [] OTHER -> 0

dispatch_transition(op) ==
    LET walk == IF slot # None THEN slot ELSE activation
        from == IF slot # None THEN 0 ELSE pos
        lost == slot = None /\ missed
        at == walked(walk.region, from, op)
        located == at >= Smaller(Len(walk.region.ops), K)
    IN /\ slot # None \/ activation # None
       /\ slot' = None /\ pos' = at
       /\ activation' = IF located THEN None ELSE walk
       /\ missed' = (lost /\ at = from + 1)
       /\ \/ /\ located /\ walk.region.plan
             /\ active' = walk.region /\ cursor' = After(walk.region, at)
             /\ mode' = "COMPILED" /\ cache' = insert(cache, walk.region)
             /\ skewed' = (lost /\ cursor' # 0)
          \/ /\ ~(located /\ walk.region.plan)
             /\ UNCHANGED <<active, cursor, mode, cache, skewed>>
       /\ UNCHANGED <<resetting, divergedAt>>

Recorded == /\ slot = None /\ activation = None
            /\ UNCHANGED <<slot, activation, pos, active, cursor, mode, cache, missed, skewed, resetting, divergedAt>>

dispatch_op ==
    LET op == program.ops[phase + 1]
    IN /\ ~resetting
       /\ \/ active # None /\ (Replayed(op) \/ handle_divergence(op))
          \/ active = None /\ (dispatch_transition(op) \/ Recorded)
       /\ phase' = After(program, phase + 1)
       /\ recent' = SubSeq(<<op>> \o recent, 1, Smaller(Window, Len(recent) + 1))
       /\ UNCHANGED <<program, undo, published, restores, turns>>

\* The end of a divergence: reset_requested is raised.
SignalReset ==
    /\ resetting /\ resetting' = FALSE
    /\ UNCHANGED <<program, phase, slot, activation, pos, active, cursor, mode, cache, undo,
                   published, restores, turns, recent, missed, skewed, divergedAt>>

\* The program turns to another point of its iterations.
Turn == /\ ~resetting /\ turns < MaxTurns
        /\ turns' = turns + 1
        /\ \E r \in Iterations : program' = r /\ phase' \in 0 .. Len(r.ops) - 1
        /\ UNCHANGED <<slot, activation, pos, active, cursor, mode, cache, undo,
                       published, restores, recent, missed, skewed, resetting, divergedAt>>

-----------------------------------------------------------------------------
(* The other ways a region comes in. *)

\* The transaction of the region becomes the active one, and the slot takes the
\* region whether or not the foreground took the one before it.
on_region_ready(r) ==
    /\ published < MaxPublished
    /\ published' = published + 1
    /\ slot' = [region |-> r, number |-> published + 1]
    /\ undo' = <<r>> \o undo
    /\ UNCHANGED <<program, phase, activation, pos, active, cursor, mode, cache,
                   restores, turns, recent, missed, skewed, resetting, divergedAt>>

\* The context on the region a rollback or a load brings, at its first operation.
Activated(r) == active' = r /\ cursor' = 0 /\ mode' = "COMPILED" /\ skewed' = FALSE

rollback ==
    /\ ~resetting /\ restores < MaxRestores /\ Len(undo) > 1
    /\ restores' = restores + 1
    /\ undo' = Tail(undo)
    /\ \/ undo[2].plan /\ Activated(undo[2])
       \/ /\ ~undo[2].plan
          /\ active' = None /\ cursor' = 0 /\ mode' = "RECORDING" /\ skewed' = FALSE
    /\ UNCHANGED <<program, phase, slot, activation, pos, cache, published, turns, recent, missed, resetting, divergedAt>>

\* A stored region without a plan becomes active_region and leaves the context alone.
load(r) ==
    /\ ~resetting /\ restores < MaxRestores
    /\ restores' = restores + 1
    /\ \/ r.plan /\ Activated(r) /\ cache' = insert(cache, r)
       \/ ~r.plan /\ UNCHANGED <<active, cursor, mode, cache, skewed>>
    /\ UNCHANGED <<program, phase, slot, activation, pos, undo, published, turns, recent, missed, resetting, divergedAt>>

Next == \/ dispatch_op \/ SignalReset
        \/ Turn
        \/ \E r \in Iterations : on_region_ready(r) \/ load(r)
        \/ rollback

Spec == Init /\ [][Next]_vars

\* The program runs on: it dispatches its next operation sooner or later.
LiveSpec == Spec /\ WF_vars(dispatch_op \/ SignalReset)

-----------------------------------------------------------------------------
\* The last n operations dispatched are the first n of the region.
Follows(r, n) == Len(recent) >= n /\ \A i \in 1 .. n : recent[i] = r.ops[n + 1 - i]

(* mode() says COMPILED exactly while the context replays, whichever of       *)
(* alignment, divergence, switch, rollback and load came last, and in which   *)
(* order (VigilModeCell, is_compiled).                                        *)
ModeIsContext == mode = "COMPILED" <=> active # None

(* An operation replays only where the program stands: the operations since   *)
(* the start of the region, executed eagerly during alignment, replayed, or   *)
(* replayed in the region that a divergence left, are the region's own prefix *)
(* (try_align_, try_switch_region_, advance).  A walk that a rollback or a    *)
(* load interrupted, and that a later rollback to a region without a plan     *)
(* takes up again, is the exception.                                          *)
CursorFollowsProgram ==
    /\ active # None /\ ~skewed => \/ Follows(active, cursor)
                                   \/ cursor = 0
    /\ activation # None /\ ~missed => Follows(activation.region, pos)

(* After a divergence that returns to recording, no walk and no activation    *)
(* uses a region that was published before the divergence took the slot: the  *)
(* detector is to see the new trace, and alignment records nothing            *)
(* (handle_divergence_).  Only what the publish stage stores between that and *)
(* the signal, or after it, is in the slot when dispatch goes on.             *)
NoStaleReentry ==
    \A p \in {slot, activation} \ {None} : p.number > divergedAt

(* A walk along the region of the iteration that the program repeats ends:    *)
(* K consecutive matches locate the boundary, and replay activates.           *)
WalkEnds == (activation # None /\ activation.region = program) ~> active # None

(* What dispatch owes the program: mode() tells whether the context replays, *)
(* the cursor is where the program is, and no region outlives a divergence.  *)
ReplayInv == TypeOK /\ ModeIsContext /\ CursorFollowsProgram /\ NoStaleReentry
=============================================================================
