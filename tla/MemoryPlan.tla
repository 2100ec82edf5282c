---------------------------- MODULE MemoryPlan ----------------------------
(* The memory of a compiled iteration: the slots that build_trace_from gives *)
(* to the tensors of a recorded iteration, the pool offsets that             *)
(* compute_memory_plan gives to the slots, the replay that reads and writes  *)
(* them, and the migration of a switch to another region in the middle of an *)
(* iteration.  A tensor is the address it had when it was recorded, its      *)
(* value the operation that wrote it, and a size a count of aligned blocks.  *)
(* An operation has at most one input here, and one output.                  *)
EXTENDS Naturals, Sequences, SequencesExt, FiniteSetsExt

CONSTANTS Ptrs,              \* recorded addresses, 1 to some n, numbered as they appear
          NoPtr,             \* the address of an absent input
          Sizes,             \* sizes in blocks of ALIGNMENT bytes
          SlotCap,           \* slot_cap
          MaxFree, MaxPerOp, \* MAX_FREE, MAX_PER_OP
          MaxOps, MaxAlternate   \* bounds: operations recorded, and of the second iteration

VARIABLES old, alt,   \* two recorded iterations
          split,      \* the length of the prefix they share; 0: no alternate yet
          pc,         \* record, replay or switched
          region,     \* the region of the replay context
          cursor,     \* its next operation
          eager,      \* per address: the operation of the program that wrote it last
          extern,     \* the same for the tensors from outside, in the replay
          pool,       \* the same per block of the pool
          wrong       \* history: the operations whose input was not the program's

vars == <<old, alt, split, pc, region, cursor, eager, extern, pool, wrong>>

Ops == [in : Ptrs \union {NoPtr}, out : Ptrs, size : Sizes]

---------------------------------------------------------------------------
(* build_trace_from: map holds per address the operation that wrote it (0    *)
(* for a tensor from outside) and its slot; slot 0 is none.                  *)
UseInput(b, i, op) ==
  LET p == op.in
      found == p \in DOMAIN b.map /\ b.map[p].op # 0
  IN  CASE p = NoPtr -> [b EXCEPT !.ins = Append(@, 0)]
        [] found ->
             [b EXCEPT !.ins = Append(@, b.map[p].slot), !.slots[b.map[p].slot].death = i]
        [] ~found /\ Len(b.slots) < SlotCap ->
             [b EXCEPT !.ins = Append(@, Len(b.slots) + 1),
                       !.slots = Append(@, [birth |-> 1, death |-> i, size |-> op.size, ext |-> p]),
                       !.map = IF p \in DOMAIN @ THEN @ ELSE (p :> [op |-> 0, slot |-> Len(b.slots) + 1]) @@ @]
        [] OTHER -> [b EXCEPT !.ins = Append(@, 0)]

(* An output at a known address shares the slot of the tensor it displaces.  *)
(* With no slot left the map names the first slot.                           *)
UseOutput(b, i, op) ==
  LET p == op.out
      fresh == Len(b.slots) + 1
      slot == b.map[p].slot
  IN  CASE p \in DOMAIN b.map ->
             [b EXCEPT !.outs = Append(@, slot), !.map[p].op = i,
                       !.slots[slot].death = i, !.slots[slot].size = Max({@, op.size})]
        [] p \notin DOMAIN b.map /\ Len(b.slots) < SlotCap ->
             [b EXCEPT !.outs = Append(@, fresh),
                       !.map = (p :> [op |-> i, slot |-> fresh]) @@ @,
                       !.slots = Append(@, [birth |-> i, death |-> i, size |-> op.size, ext |-> NoPtr])]
        [] OTHER -> [b EXCEPT !.outs = Append(@, 0), !.map = (p :> [op |-> i, slot |-> 1]) @@ @]

Built(trace) ==
  FoldLeft(LAMBDA b, i : UseOutput(UseInput(b, i, trace[i]), i, trace[i]),
           [map |-> <<>>, slots |-> <<>>, ins |-> <<>>, outs |-> <<>>],
           [i \in DOMAIN trace |-> i])

---------------------------------------------------------------------------
(* compute_memory_plan sweeps over the operations with a list of free        *)
(* blocks; offset[s] is the first block of slot s.                           *)
Internal(slots) == {s \in DOMAIN slots : slots[s].ext = NoPtr}

(* Faulty: a block is free at the operation that uses it last.               *)
Dying_at_death(slots, i) == SetToSortSeq({s \in Internal(slots) : slots[s].birth < i /\ slots[s].death = i}, <)

Dying(slots, i) == SetToSortSeq({s \in Internal(slots) : slots[s].death + 1 = i}, <)

Born(slots, i) == SetToSortSeq({s \in Internal(slots) : slots[s].birth = i}, <)

Freed(free, offset, size) ==
  IF Len(free) < MaxFree THEN Append(free, [off |-> offset, size |-> size]) ELSE free

(* Direct reuse: a slot born here takes the dying slot that wastes least.    *)
Match(p, s, slots, dying) ==
  LET fits == {k \in 1..Min({Len(dying), MaxPerOp}) :
                 dying[k] \notin p.consumed /\ slots[dying[k]].size >= slots[s].size}
      smallest == Min({slots[dying[k]].size : k \in fits})
      d == dying[Min({k \in fits : slots[dying[k]].size = smallest})]
      waste == slots[d].size - slots[s].size
  IN  IF fits = {} THEN p
      ELSE [p EXCEPT !.offset = (s :> p.offset[d]) @@ @,
                     !.consumed = @ \union {d},
                     !.free = IF waste > 0 THEN Freed(@, p.offset[d] + slots[s].size, waste) ELSE @]

(* alloc_slot: the first free block that is large enough, or the pool grows. *)
Allocate(p, s, size) ==
  LET fits == {f \in DOMAIN p.free : p.free[f].size >= size}
      f == Min(fits)
      last == Len(p.free)
  IN  IF fits = {}
      THEN [p EXCEPT !.offset = (s :> p.end) @@ @, !.end = @ + size]
      ELSE [p EXCEPT !.offset = (s :> p.free[f].off) @@ @,
                     !.free = IF p.free[f].size = size
                              THEN SubSeq([@ EXCEPT ![f] = p.free[last]], 1, last - 1)
                              ELSE [@ EXCEPT ![f] = [off |-> @.off + size, size |-> @.size - size]]]

SweepOp(p, i, slots) ==
  LET dying == Dying(slots, i)
      born == Born(slots, i)
      direct == IF dying = <<>> THEN [p EXCEPT !.consumed = {}]
                ELSE FoldLeft(LAMBDA q, s : Match(q, s, slots, dying), [p EXCEPT !.consumed = {}],
                              SubSeq(born, 1, Min({Len(born), MaxPerOp})))
      released == FoldLeft(LAMBDA q, s : IF s \in q.consumed THEN q
                             ELSE [q EXCEPT !.free = Freed(@, q.offset[s], slots[s].size)], direct, dying)
  IN  FoldLeft(LAMBDA q, s : IF s \in DOMAIN q.offset THEN q ELSE Allocate(q, s, slots[s].size),
               released, born)

compute_memory_plan(slots) ==
  LET deaths == {slots[s].death : s \in Internal(slots)}
  IN  FoldLeft(LAMBDA p, i : SweepOp(p, i, slots),
               [offset |-> <<>>, free |-> <<>>, end |-> 0, consumed |-> {}],
               [i \in 1..(IF deaths = {} THEN 0 ELSE Max(deaths) + 1) |-> i])

---------------------------------------------------------------------------
(* The region of an iteration: its operations with their slots, and the plan. *)
Region(trace) ==
  LET b == Built(trace)
      plan == compute_memory_plan(b.slots)
  IN  [ops |-> trace, ins |-> b.ins, outs |-> b.outs, slots |-> b.slots,
       offset |-> plan.offset, end |-> plan.end]

Blocks(r, s, size) == r.offset[s]..r.offset[s] + size - 1

Junk == MaxOps + 1

NoRegion == [ops |-> <<>>, ins |-> <<>>, outs |-> <<>>, slots |-> <<>>, offset |-> <<>>, end |-> 0]

FreshPool(r) == [k \in 0..r.end - 1 |-> Junk]

Init ==
  /\ old = <<>> /\ alt = <<>> /\ split = 0
  /\ pc = "record" /\ region = NoRegion /\ cursor = 1
  /\ eager = [p \in Ptrs |-> 0] /\ extern = eager /\ pool = <<>> /\ wrong = {}

Addresses(ops) == UNION {{op.in, op.out} : op \in Range(ops)} \ {NoPtr}

Numbered(op) ==
  LET seen == Addresses(old \o alt)
      after == seen \union ({op.in} \ {NoPtr})
  IN  (op.in # NoPtr => op.in <= Cardinality(seen) + 1) /\ op.out <= Cardinality(after) + 1

(* The program records an iteration, and another one with the same start.    *)
RecordOp(op) ==
  /\ pc = "record" /\ split = 0 /\ Len(old) < MaxOps /\ Numbered(op)
  /\ old' = Append(old, op)
  /\ UNCHANGED <<alt, split, pc, region, cursor, eager, extern, pool, wrong>>

RecordAlternate(n, op) ==
  /\ pc = "record" /\ n \in 1..Len(old) - 1
  /\ split \in {0, n} /\ Max({n, Len(alt)}) < MaxAlternate
  /\ Len(old) + Max({n, Len(alt)}) - n < MaxOps /\ Numbered(op)
  /\ split' = n
  /\ alt' = Append(IF split = 0 THEN SubSeq(old, 1, n) ELSE alt, op)
  /\ UNCHANGED <<old, pc, region, cursor, eager, extern, pool, wrong>>

(* CrucibleContext::activate: the pool and the engine of the region.         *)
Activate ==
  /\ pc = "record" /\ old # <<>>
  /\ region' = Region(old)
  /\ pool' = FreshPool(region')
  /\ pc' = "replay" /\ cursor' = 1
  /\ UNCHANGED <<old, alt, split, eager, extern, wrong>>

(* The value of an input is read from its slot in the replay and from its    *)
(* address in the program.                                                   *)
ReadsTrue(i) ==
  LET p == region.ops[i].in
      s == region.ins[i]
      writer == eager[p]
  IN  CASE p = NoPtr -> TRUE
        [] p # NoPtr /\ s = 0 -> FALSE
        [] p # NoPtr /\ s # 0 /\ region.slots[s].ext # NoPtr -> extern[region.slots[s].ext] = writer
        [] OTHER -> writer # 0 /\ \A k \in Blocks(region, s, region.ops[writer].size) :
                          k \in DOMAIN pool /\ pool[k] = writer

(* One operation of the replay: advance, then the operation reads its input  *)
(* and writes its output where the engine says.                              *)
Advance ==
  LET op == region.ops[cursor]
      s == region.outs[cursor]
      outside == s # 0 /\ region.slots[s].ext # NoPtr
  IN  /\ pc \in {"replay", "switched"} /\ cursor <= Len(region.ops)
      /\ pc = "replay" => cursor # split + 1 \/ split = 0
      /\ wrong' = IF ReadsTrue(cursor) THEN wrong ELSE wrong \union {cursor}
      /\ eager' = [eager EXCEPT ![op.out] = cursor]
      /\ extern' = IF outside THEN [extern EXCEPT ![region.slots[s].ext] = cursor] ELSE extern
      /\ pool' = IF s = 0 \/ outside THEN pool
                 ELSE [k \in DOMAIN pool |-> IF k \in Blocks(region, s, op.size) THEN cursor ELSE pool[k]]
      /\ cursor' = cursor + 1
      /\ UNCHANGED <<old, alt, split, pc, region>>

(* migrate_prefix_slots_: the outputs of the prefix, in order and each new   *)
(* slot once, with the size they have in the old plan.                       *)
Migrated(from, to, n) ==
  LET copy(acc, i) ==
        LET a == from.outs[i]
            b == to.outs[i]
        IN  IF a = 0 \/ b = 0 \/ b \in acc.visited THEN acc
            ELSE IF from.slots[a].ext # NoPtr \/ to.slots[b].ext # NoPtr THEN acc
            ELSE [visited |-> acc.visited \union {b},
                  pool |-> [k \in DOMAIN acc.pool |->
                              IF k \in Blocks(to, b, from.slots[a].size)
                              THEN pool[from.offset[a] + (k - to.offset[b])] ELSE acc.pool[k]]]
  IN  FoldLeft(copy, [visited |-> {}, pool |-> FreshPool(to)], [i \in 1..n |-> i]).pool

(* switch_region: the program diverged from old where alt goes on.           *)
SwitchRegion ==
  /\ pc = "replay" /\ split # 0 /\ cursor = split + 1
  /\ region' = Region(alt)
  /\ pool' = Migrated(region, region', split)
  /\ pc' = "switched"
  /\ UNCHANGED <<old, alt, split, cursor, eager, extern, wrong>>

Next ==
  \/ \E op \in Ops : RecordOp(op) \/ \E n \in 1..MaxOps : RecordAlternate(n, op)
  \/ Activate \/ Advance \/ SwitchRegion

Spec == Init /\ [][Next]_vars

---------------------------------------------------------------------------
TypeOK ==
  /\ old \in Seq(Ops) /\ alt \in Seq(Ops) /\ split \in 0..MaxOps
  /\ pc \in {"record", "replay", "switched"}
  /\ cursor \in 1..MaxOps + 1 /\ wrong \subseteq 1..MaxOps

Exhausted(r) == Len(r.slots) >= SlotCap

(* Tensors that are alive at one operation never share a block of the pool,  *)
(* and every slot is inside it.                                              *)
LiveSlotsDisjoint ==
  LET extent(s) == Blocks(region, s, region.slots[s].size)
      alive(s) == region.slots[s].birth..region.slots[s].death
  IN  \A s \in Internal(region.slots) :
        /\ extent(s) \subseteq DOMAIN pool
        /\ \A t \in Internal(region.slots) \ {s} :
             alive(s) \intersect alive(t) = {} \/ extent(s) \intersect extent(t) = {}

(* Until a switch, each operation of the replay reads the value that the     *)
(* program would have read, whatever addresses the recorded tensors shared,  *)
(* as long as the slot table was large enough.                               *)
ReplayReadsProgramValues == pc = "replay" /\ ~Exhausted(region) => wrong = {}

(* A switch keeps each value that the old plan had not given up: after it an *)
(* operation reads wrongly only a tensor whose block the old plan had        *)
(* released, or when some slot of the prefix was larger in the old plan.     *)
SwitchKeepsLiveValues ==
  pc = "switched" /\ wrong # {} =>
    LET from == Region(old)
    IN  \/ Exhausted(from) \/ Exhausted(region)
        \/ \E i \in 1..split : from.slots[from.outs[i]].size > region.slots[region.outs[i]].size
        \/ \A i \in wrong : from.slots[region.ins[i]].death < split

(* "Output written before a switch must survive the move to the other        *)
(* region's pool."                                                           *)
OutputsSurviveSwitch ==
  pc = "switched" /\ ~Exhausted(Region(old)) /\ ~Exhausted(region) => wrong = {}

(* What a plan owes the program, up to a switch and after it: disjoint live  *)
(* slots and the values the program would read.                              *)
PlanInv == TypeOK /\ LiveSlotsDisjoint /\ ReplayReadsProgramValues /\ SwitchKeepsLiveValues
===========================================================================
