-------------------------------- MODULE Crdt --------------------------------
(* Replicas of one replicated value of each type of canopy/Crdt.h, which     *)
(* apply local writes and merge snapshots of each other.  A snapshot may be  *)
(* merged late, repeatedly or never.  A merge works on a staged copy: when   *)
(* the target has no room, the merge is refused and nothing changes.         *)
(* `seen` records the writes a replica knows of, its own and those behind    *)
(* the snapshots it merged; the properties say what the state is in terms of *)
(* these writes alone.                                                       *)
EXTENDS Integers, Sequences, SequencesExt

CONSTANTS Replicas,    \* numbers: a replica is an index of the counters
          Kinds,       \* which replicated types to check
          Values,      \* the values written (numbers)
          Capacity,    \* slots of a bounded state
          Saturation,  \* the largest count (UINT64_MAX)
          MaxWrites    \* bound on the writes of all replicas together

VARIABLES kind,    \* the type all the replicas have
          state,   \* the state of each replica
          saved,   \* the last snapshot of each replica that is on its way
          seen,    \* history: the writes behind each state
          savedSeen

vars == <<kind, state, saved, seen, savedSeen>>

NoClock == [r \in Replicas |-> 0]

EmptyState ==
  [GSet        |-> {},
   OrSet       |-> {},
   LwwRegister |-> [has |-> FALSE, clock |-> 0, value |-> 0],
   PNCounter   |-> [positive |-> NoClock, negative |-> NoClock],
   MVRegister  |-> {},
   RgaList     |-> {}]

Init ==
  /\ kind \in Kinds
  /\ state = [r \in Replicas |-> EmptyState[kind]]
  /\ saved = state
  /\ seen = [r \in Replicas |-> {}]
  /\ savedSeen = seen

Writes == UNION {seen[r] : r \in Replicas}

Fits(s) == Cardinality(s) <= Capacity

(* ---- the merges ---------------------------------------------------------*)

(* A merge yields the merged state, or the set {} of states when refused.    *)
MergeGSet(a, b) == {s \in {a \union b} : Fits(s)}

SameAdd(e, f) == e.value = f.value /\ e.tag = f.tag

\* Faulty: an entry the target knows keeps its removed flag.
MergeOrSet_keep_target(a, b) ==
  {s \in {a \union {f \in b : \A e \in a : ~SameAdd(e, f)}} : Fits(s)}

(* An entry that is removed on either side is removed.                       *)
MergeOrSet(a, b) ==
  {s \in {{[e EXCEPT !.removed = \E f \in a \union b : SameAdd(e, f) /\ f.removed] : e \in a \union b}} :
     Fits(s)}

MergeLww(a, b) ==
  {CASE ~a.has            -> b
     [] ~b.has            -> a
     [] a.clock < b.clock -> b
     [] a.clock > b.clock -> a
     [] OTHER             -> IF b.value < a.value THEN a ELSE b}

MergeCounts(a, b) == [r \in Replicas |-> IF a[r] < b[r] THEN b[r] ELSE a[r]]

MergePN(a, b) == {[positive |-> MergeCounts(a.positive, b.positive),
                   negative |-> MergeCounts(a.negative, b.negative)]}

HappensBefore(c, d) == c # d /\ \A r \in Replicas : c[r] <= d[r]

(* insert_version_into_: a version that is known or superseded changes       *)
(* nothing; otherwise the versions it supersedes go and it takes a slot.     *)
InsertVersion(s, v) ==
  IF v \in s \/ (\E e \in s : HappensBefore(v.clock, e.clock)) THEN {s}
  ELSE LET kept == {e \in s : ~HappensBefore(e.clock, v.clock)}
       IN  IF Cardinality(kept) >= Capacity THEN {} ELSE {kept \union {v}}

(* version_less_: by clock, replica by replica, then by value.               *)
VersionLess(v, w) ==
  \/ \E r \in Replicas : v.clock[r] < w.clock[r] /\ \A q \in Replicas : q < r => v.clock[q] = w.clock[q]
  \/ v.clock = w.clock /\ v.value < w.value

MergeMV(a, b) ==
  FoldLeft(LAMBDA states, v : UNION {InsertVersion(s, v) : s \in states},
           {a}, SetToSortSeq(b, VersionLess))

(* Two inserts of one id: the one with the smaller place, then value, stays. *)
Preferred(n, m) == n.after < m.after \/ (n.after = m.after /\ n.value < m.value)

MergeNode(nodes) ==
  LET best == CHOOSE n \in nodes : \A m \in nodes : ~Preferred(m, n)
  IN  [best EXCEPT !.tombstone = \E m \in nodes : m.tombstone]

MergeRga(a, b) ==
  {s \in {{MergeNode({m \in a \union b : m.id = n.id}) : n \in a \union b}} : Fits(s)}

Merged(a, b) ==
  CASE kind = "GSet"        -> MergeGSet(a, b)
    [] kind = "OrSet"       -> MergeOrSet(a, b)
    [] kind = "LwwRegister" -> MergeLww(a, b)
    [] kind = "PNCounter"   -> MergePN(a, b)
    [] kind = "MVRegister"  -> MergeMV(a, b)
    [] kind = "RgaList"     -> MergeRga(a, b)

(* ---- the steps ----------------------------------------------------------*)

(* A local write moves the replica to s; a refused one has no such s.        *)
Writes_to(r, write, s) ==
  /\ Cardinality(Writes) < MaxWrites
  /\ state' = [state EXCEPT ![r] = s]
  /\ seen' = [seen EXCEPT ![r] = @ \union {[n |-> Cardinality(Writes) + 1, op |-> write]}]
  /\ UNCHANGED <<kind, saved, savedSeen>>

Tag == Cardinality(Writes) + 1      \* the caller's tags are unique

GSetAdd(r, v) ==
  /\ kind = "GSet"
  /\ \E s \in MergeGSet(state[r], {v}) : Writes_to(r, [value |-> v], s)

OrSetAdd(r, v) ==
  /\ kind = "OrSet"
  /\ \E s \in MergeOrSet(state[r], {[value |-> v, tag |-> Tag, removed |-> FALSE]}) :
       Writes_to(r, [type |-> "add", value |-> v, tag |-> Tag], s)

(* The removal reaches the entries of the value that the replica knows.      *)
OrSetRemove(r, v) ==
  /\ kind = "OrSet"
  /\ LET hit == {e \in state[r] : e.value = v}
     IN  Writes_to(r, [type |-> "remove", tags |-> {e.tag : e \in hit}],
                   (state[r] \ hit) \union {[e EXCEPT !.removed = TRUE] : e \in hit})

LwwAssign(r, v, clock) ==
  /\ kind = "LwwRegister"
  /\ \E s \in MergeLww(state[r], [has |-> TRUE, clock |-> clock, value |-> v]) :
       Writes_to(r, [value |-> v, clock |-> clock], s)

add_sat(a, b) == IF a + b > Saturation THEN Saturation ELSE a + b

(* increment and decrement.                                                  *)
PNUpdate(r, side, amount) ==
  /\ kind = "PNCounter"
  /\ Writes_to(r, [side |-> side, replica |-> r, amount |-> amount],
               [state[r] EXCEPT ![side][r] = add_sat(@, amount)])

(* The caller's clock joins the versions it holds and counts the write.      *)
NextClock(r) ==
  [q \in Replicas |-> Max({v.clock[q] : v \in state[r]} \union {0}) + (IF q = r THEN 1 ELSE 0)]

MVAssign(r, v) ==
  /\ kind = "MVRegister"
  /\ LET version == [value |-> v, clock |-> NextClock(r)]
     IN  \E s \in InsertVersion(state[r], version) : Writes_to(r, version, s)

(* Two replicas may pick the same id; zero is the head of the list.          *)
RgaInsert(r, id, after, v) ==
  /\ kind = "RgaList"
  /\ after \in {0} \union {n.id : n \in state[r]}
  /\ LET node == [id |-> id, after |-> after, value |-> v, tombstone |-> FALSE]
     IN  \E s \in MergeRga(state[r], {node}) : Writes_to(r, node, s)

RgaErase(r, id) ==
  /\ kind = "RgaList"
  /\ \E n \in state[r] :
       /\ n.id = id
       /\ Writes_to(r, [id |-> id, erased |-> TRUE],
                    (state[r] \ {n}) \union {[n EXCEPT !.tombstone = TRUE]})

(* A snapshot leaves; the one before it is lost (external).                  *)
Snapshot(r) ==
  /\ saved' = [saved EXCEPT ![r] = state[r]]
  /\ savedSeen' = [savedSeen EXCEPT ![r] = seen[r]]
  /\ UNCHANGED <<kind, state, seen>>

Merge(r, q) ==
  /\ \E s \in Merged(state[r], saved[q]) : state' = [state EXCEPT ![r] = s]
  /\ seen' = [seen EXCEPT ![r] = @ \union savedSeen[q]]
  /\ UNCHANGED <<kind, saved, savedSeen>>

RgaIds == 1..MaxWrites

Next ==
  \E r \in Replicas :
    \/ \E v \in Values : GSetAdd(r, v) \/ OrSetAdd(r, v) \/ OrSetRemove(r, v) \/ MVAssign(r, v)
    \/ \E v \in Values, clock \in 1..2 : LwwAssign(r, v, clock)
    \/ \E side \in {"positive", "negative"}, amount \in 1..2 : PNUpdate(r, side, amount)
    \/ \E id, after \in RgaIds \union {0}, v \in Values : id # 0 /\ id # after /\ RgaInsert(r, id, after, v)
    \/ \E id \in RgaIds : RgaErase(r, id)
    \/ Snapshot(r)
    \/ \E q \in Replicas : Merge(r, q)

Spec == Init /\ [][Next]_vars

(* ---- what a replica promises --------------------------------------------*)

Known(r) == {w.op : w \in seen[r]}

Amount(r, side, q) ==
  MapThenSumSet(LAMBDA w : w.op.amount, {w \in seen[r] : w.op.side = side /\ w.op.replica = q})

Erases(o) == "erased" \in DOMAIN o

(* What the writes w alone say the state is, whatever their order.           *)
Meaning(r) ==
  LET ops == Known(r) IN
  CASE kind = "GSet"        -> {o.value : o \in ops}
    [] kind = "OrSet"       -> {o.value : o \in {a \in ops : a.type = "add" /\
                                  ~\E d \in ops : d.type = "remove" /\ a.tag \in d.tags}}
    [] kind = "LwwRegister" -> {o \in ops : \A p \in ops :
                                  p.clock < o.clock \/ (p.clock = o.clock /\ p.value <= o.value)}
    [] kind = "PNCounter"   -> [side \in {"positive", "negative"} |->
                                  [q \in Replicas |-> Min({Saturation, Amount(r, side, q)})]]
    [] kind = "MVRegister"  -> {o \in ops : ~\E p \in ops : HappensBefore(o.clock, p.clock)}
    [] kind = "RgaList"     -> {[MergeNode({o \in ops : ~Erases(o) /\ o.id = i}) EXCEPT
                                   !.tombstone = \E o \in ops : Erases(o) /\ o.id = i] :
                                  i \in {o.id : o \in ops}}

(* What a reader of the replica sees.                                        *)
View(r) ==
  CASE kind = "OrSet"       -> {e.value : e \in {x \in state[r] : ~x.removed}}
    [] kind = "LwwRegister" -> IF state[r].has THEN {[value |-> state[r].value, clock |-> state[r].clock]}
                               ELSE {}
    [] OTHER                -> state[r]

(* Strong eventual consistency of every replicated type: what a replica      *)
(* shows is a function of the set of writes it knows of, so replicas that    *)
(* know the same writes agree, whatever order, repetition or staleness of    *)
(* the merges brought them there; an add that no removal observed wins, the  *)
(* newest write of a register wins, concurrent versions all stay, counts add *)
(* up to the saturation point, erased nodes stay erased (the merge functions *)
(* of GSet, OrSet, LwwRegister, PNCounter, MVRegister and RgaList).          *)
ReplicaIsItsWrites == \A r \in Replicas : View(r) = Meaning(r)
===========================================================================
