--------------------------- MODULE PipelineProofs ---------------------------
(* What the background pipeline never does, for every size of the ring, of   *)
(* the channels, of the metadata log and of the detector's history.          *)
(*                                                                           *)
(* CoreInv joins the types of the stages (Shape) and what the detect stage   *)
(* still holds (DetectorInv: never less than the boundary detector can       *)
(* claim).  With it, WholeInv keeps the works whole (WorkInv), and CountInv  *)
(* keeps the account of every op (ProducedInv, SeenInv).  Each of the two is *)
(* inductive.  Module PipelineLogProofs builds on both.                      *)
EXTENDS Pipeline, TLAPS

-----------------------------------------------------------------------------
(* Sequences: their domain, and what the empty one, an appended element and
   the removal of the first leave. *)

(* Sequences: their domain, and what the empty one, an appended element and
   the removal of the first leave. *)
LEMMA LenProperties ==
    ASSUME NEW S, NEW s \in Seq(S)
    PROVE  Len(s) \in Nat /\ DOMAIN s = 1 .. Len(s) /\ s \in [1 .. Len(s) -> S]
OBVIOUS

(* The elements of a sequence are of its set. *)
LEMMA ElementOfSeq ==
    ASSUME NEW S, NEW s \in Seq(S), NEW i \in 1 .. Len(s)
    PROVE  s[i] \in S
OBVIOUS

(* Only the empty sequence has no first element. *)
LEMMA EmptySeq ==
    ASSUME NEW S
    PROVE  << >> \in Seq(S) /\ Len(<< >>) = 0 /\ \A s \in Seq(S) : s # << >> => Len(s) \in Nat \ {0}
OBVIOUS

(* An element appended. *)
LEMMA AppendProperties ==
    ASSUME NEW S, NEW s \in Seq(S), NEW e \in S
    PROVE  LET t == Append(s, e)
           IN  /\ t \in Seq(S) /\ t # << >> /\ Len(t) = Len(s) + 1
               /\ t[Len(s) + 1] = e /\ \A i \in 1 .. Len(s) : t[i] = s[i]
OBVIOUS

(* The first element, and the others. *)
LEMMA HeadTailProperties ==
    ASSUME NEW S, NEW s \in Seq(S), s # << >>
    PROVE  /\ Head(s) \in S /\ Tail(s) \in Seq(S) /\ Len(Tail(s)) = Len(s) - 1
           /\ \A i \in 1 .. Len(s) - 1 : Tail(s)[i] = s[i + 1]
OBVIOUS

-----------------------------------------------------------------------------
(* What the steps of each stage leave alone, and what the detect stage does
   with a batch. *)

(* The foreground writes the ring and its own fields, and only AppendRing
   writes the ring. *)
LEMMA ForegroundFrame ==
    Foreground => /\ UNCHANGED <<trace_batches, build_work, graph_publish, drVars, dtVars, bdVars,
                                 pbVars>>
                  /\ AppendRing \/ UNCHANGED <<ring, produced>>
                  /\ (\E n \in Tensors : AppendMeta(n)) \/ UNCHANGED mhead
                  /\ \/ \E n \in Tensors : AppendMeta(n)
                     \/ AppendRing
                     \/ UNCHANGED <<fg_op, mhead>>
BY DEF Foreground, AppendMeta, AppendRing, DispatchTransition, Diverge, SwitchRegion, Stop, fgVars

(* The drain stage writes the ring and its channel. *)
LEMMA DrainFrame ==
    Drain => UNCHANGED <<fgVars, slot, stop_requested, reset_requested, build_work, graph_publish,
                         dtVars, bdVars, pbVars>>
BY DEF Drain, DrainPeek, DrainPop, DrainPush, DrainSentinel

(* The detect stage writes the two channels next to it. *)
LEMMA DetectFrame ==
    Detect => UNCHANGED <<fgVars, slot, ring, stop_requested, graph_publish, drVars, bdVars, pbVars>>
BY Zenon DEF Detect, DetectPop, DetectOp, DetectPushWork, DetectPushCommit, DetectPushStop

(* The build stage writes the two channels next to it. *)
LEMMA BuildFrame ==
    Build => UNCHANGED <<fgVars, slot, ring, stop_requested, reset_requested, trace_batches,
                         drVars, dtVars, pbVars>>
BY DEF Build, BuildPop, BuildPush

(* The publish stage writes the slot, the tail of the log and its channel. *)
LEMMA PublishFrame ==
    Publish => UNCHANGED <<fgVars, ring, stop_requested, reset_requested, trace_batches, build_work,
                           drVars, dtVars, bdVars>>
BY DEF Publish, PublishPop, PublishRelease, PublishHandover

(* A batch arrives at the detect stage. *)
LEMMA DetectPopMoves ==
    DetectPop => /\ trace_batches # << >> /\ trace_batches' = Tail(trace_batches)
                 /\ UNCHANGED <<seen, build_work>>
                 /\ dt_pc = "pop" /\ dt_pc' # "push_work"
                 /\ IF Head(trace_batches).stop
                      THEN UNCHANGED <<dt_batch, dt_count>>
                      ELSE dt_batch' = Head(trace_batches).ops /\ dt_count' = Len(dt_batch')
                 /\ UNCHANGED pending_ops \/ pending_ops' = AfterCheck.held
BY DEF DetectPop, detectorVars

(* The detect stage takes one op of its batch. *)
LEMMA DetectOpMoves ==
    DetectOp => /\ dt_pc = "op" /\ dt_batch # << >> /\ dt_batch' = Tail(dt_batch)
                /\ seen' = seen + 1 /\ reset_epoch' = AfterCheck.epoch
                /\ UNCHANGED <<trace_batches, dt_count, build_work>>
BY Zenon DEF DetectOp

(* The detect stage pushes a work, a commit marker or the sentinel. *)
LEMMA DetectPushMoves ==
    /\ DetectPushWork \/ DetectPushCommit \/ DetectPushStop =>
         dt_pc' # "push_work" /\ UNCHANGED <<trace_batches, dt_batch, detectorVars>>
    /\ DetectPushWork => /\ dt_pc = "push_work" /\ build_work' = Append(build_work, dt_work)
                         /\ UNCHANGED dt_count
    /\ DetectPushCommit => /\ build_work' = Append(build_work, [kind |-> "commit", count |-> dt_count])
                           /\ dt_count' = 0
    /\ DetectPushStop => build_work' = Append(build_work, [kind |-> "stop"]) /\ UNCHANGED dt_count
BY DEF DetectPushWork, DetectPushCommit, DetectPushStop

(* The build stage takes one work, and then is done with it. *)
LEMMA BuildMoves ==
    /\ BuildPop => /\ build_work # << >> /\ build_work' = Tail(build_work)
                   /\ bd_out' = Head(build_work) /\ bd_pc = "pop" /\ bd_pc' = "build"
                   /\ UNCHANGED graph_publish
    /\ BuildPush => bd_pc = "build" /\ bd_pc' # "build" /\ bd_out' = None /\ UNCHANGED build_work
BY DEF BuildPop, BuildPush

-----------------------------------------------------------------------------
(* The positions of the detector and the held ops, which are the last h of
   the pos ops pushed. *)
SearchFloor(p, b) ==
    LET newest_start == IF p > K THEN p - K ELSE 0
    IN  IF newest_start > b THEN b + (newest_start - b) \div 2 ELSE b

(* With pos = p, base = b, period q and next boundary x, the last h ops are
   enough: all that a report can still claim is held, and never more than
   the history allows. *)
HeldEnough(p, b, q, x, h) ==
    /\ h <= p /\ b <= p
    /\ p - (IF b = 0 THEN 0 ELSE b - 1) <= HISTORY
    /\ h <= HISTORY \div 2 + K
    /\ q = 0 => p - h <= SearchFloor(p, b)
    /\ q # 0 => /\ K <= q /\ 2 * q <= HISTORY /\ q <= x
                /\ p < x + K
                /\ p - h <= x - q
                /\ 2 * (p - h) <= x + b
Detector(p, b, q, x) == [pos |-> p, base |-> b, period |-> q, next |-> x, fired |-> FALSE]
Room(p, b) == MakeRoom(Detector(p, b, 0, 0))
Larger(m, n) == IF m > n THEN m ELSE n

(* The records check works on. *)
DetectorSet == [pos : Int, base : Int, period : Int, next : Int, fired : BOOLEAN]

(* The outcomes of one check: no boundary, a boundary confirmed or refuted,
   a square accepted at its last op or with its boundary to come. *)
CheckStep(p, b, q, x, d) ==
    /\ d.pos = p + 1
    /\ \/ /\ d.fired = FALSE /\ d.base = Room(p, b) /\ d.period = q /\ d.next = x
          /\ q # 0 /\ p + 1 >= K => p + 1 # x + K
       \/ /\ q # 0 /\ p + 1 = x + K /\ d.fired = TRUE
          /\ d.base = Larger(x - q, Room(p, b)) /\ d.period = q /\ d.next = x + q
       \/ /\ q # 0 /\ p + 1 = x + K /\ d.fired = FALSE
          /\ d.base = Room(p, b) /\ d.period = 0 /\ d.next = x
       \/ \E r \in K .. p + 1 :
             /\ q = 0 /\ p + 1 >= K /\ p + 1 - K - Room(p, b) >= 2 * r
             /\ d.period = r
             /\ \/ /\ d.fired = TRUE /\ d.next = p + 1 - K + r
                   /\ d.base = Larger(p + 1 - K - r, Room(p, b))
                \/ \E phase \in 1 .. r - 1 :
                      d.fired = FALSE /\ d.next = p + 1 - K + phase /\ d.base = Room(p, b)

(* What drop_unclaimable_ops_ does to len held ops. *)
Oldest(p, b, q, x) == IF q = 0 THEN SearchFloor(p, b) ELSE SmallerOf(x - q, SearchFloor(p, b))
Dropped(p, b, q, x, len) == Monus(Oldest(p, b, q, x), p - len)
Kept(p, b, q, x, len) ==
    /\ Dropped(p, b, q, x, len) \in Nat /\ Dropped(p, b, q, x, len) <= len
    /\ HeldEnough(p, b, q, x, len - Dropped(p, b, q, x, len))

(* One op: the positions stay numbers, a report finds its whole iteration
   held, and the ops kept are enough again. *)
LEMMA HeldStep ==
    \A p, b, q, x, h \in Nat :
       HeldEnough(p, b, q, x, h) =>
         \A d \in Check(Detector(p, b, q, x)) :
            /\ d.pos = p + 1 /\ d.base \in Nat /\ d.period \in Nat /\ d.next \in Nat
            /\ \/ /\ d.fired = FALSE
                  /\ Kept(d.pos, d.base, d.period, d.next, h + 1)
               \/ /\ d.fired = TRUE
                  /\ d.period # 0 /\ K + d.period <= h + 1
                  /\ Kept(d.pos, d.base, d.period, d.next, K)
(* What firing a boundary makes of the fields. *)
<1>FireFields.
    ASSUME NEW d \in DetectorSet
    PROVE  /\ Fire(d).pos = d.pos /\ Fire(d).period = d.period
           /\ Fire(d).next = d.next + d.period /\ Fire(d).fired = TRUE
           /\ Fire(d).base = Larger(d.next - d.period, d.base)
  <2>1. Fire(d).fired = TRUE
    BY DEF Fire, DetectorSet
  <2> QED
    BY <2>1 DEF Fire, DetectorSet, Larger
(* A record keeps its type when base and pos are set. *)
<1>MovedShape.
    ASSUME NEW d \in DetectorSet, NEW b \in Int, NEW p \in Int
    PROVE  [d EXCEPT !.base = b, !.pos = p] \in DetectorSet
  BY Zenon DEF DetectorSet
(* A record keeps its type when base is set and pos advances. *)
<1>RoomShape.
    ASSUME NEW d \in DetectorSet, NEW b \in Int, NEW e,
           e = [d EXCEPT !.base = b, !.pos = @ + 1]
    PROVE  e \in DetectorSet
  <2> USE <1>RoomShape
  <2>1. PICK p \in Int : p = d.pos + 1
    BY DEF DetectorSet
  <2>2. e = [d EXCEPT !.base = b, !.pos = p]
    BY <2>1
  <2> QED
    BY <2>2, <1>MovedShape, ZenonT(60)
(* A check has no other outcome. *)
<1>CheckCases.
    ASSUME NEW p \in Nat, NEW b \in Nat, NEW q \in Nat, NEW x \in Nat,
           NEW d \in Check(Detector(p, b, q, x))
    PROVE  CheckStep(p, b, q, x, d)
  <2> USE DEF CheckStep
  <2> DEFINE d0 == Detector(p, b, q, x)
             d1 == [d0 EXCEPT !.base = MakeRoom(d0), !.pos = @ + 1]
             start == d1.pos - K
             broken == [d1 EXCEPT !.period = 0]
             after(r, y) == [d1 EXCEPT !.period = r, !.next = y]
             accepted(r) == {IF phase = 0 THEN Fire(after(r, start)) ELSE after(r, start + phase)
                               : phase \in 0 .. r - 1}
  <2> USE HistoryAssumption
  <2>1. MakeRoom(d0) = Room(p, b) /\ Room(p, b) \in Int
    BY DEF Detector, Room, MakeRoom
  <2>2. /\ d0 \in DetectorSet /\ d0.pos = p /\ d0.period = q /\ d0.next = x
    BY DEF Detector, DetectorSet
  <2>3. d0.fired = FALSE
    BY DEF Detector
  <2>4. /\ d1 \in DetectorSet /\ d1.pos = p + 1 /\ d1.base = Room(p, b)
        /\ d1.period = q /\ d1.next = x /\ d1.fired = FALSE
    <3> HIDE DEF d0
    <3>1. MakeRoom(d0) \in Int
      BY <2>1, SMTT(60)
    <3>2. d1 \in DetectorSet
      BY <2>2, <3>1, <1>RoomShape, Zenon
    <3>3. d1.pos = p + 1 /\ d1.base = Room(p, b) /\ d1.period = q /\ d1.next = x
      BY <2>1, <2>2, <3>1 DEF DetectorSet
    <3>4. d1.fired = FALSE
      BY <2>2, <2>3 DEF DetectorSet
    <3> QED
      BY <3>2, <3>3, <3>4, Zenon
  <2>5. d \in IF d1.pos < K THEN {d1}
             ELSE IF d1.period # 0
               THEN IF d1.pos = d1.next + K THEN {Fire(d1), broken} ELSE {d1}
               ELSE {d1} \cup UNION
                    {accepted(r) : r \in {r \in K .. d1.pos : start - d1.base >= 2 * r}}
    BY Zenon DEF Check
  <2> HIDE DEF d1
  <2>6. broken.pos = p + 1 /\ broken.base = Room(p, b) /\ broken.period = 0 /\ broken.next = x
    BY <2>4 DEF DetectorSet
  <2>7. broken.fired = FALSE
    BY <2>4 DEF DetectorSet
  <2>8. start = p + 1 - K /\ start \in Int
    BY <2>4
  <2> HIDE DEF broken, start
  <2>9. ASSUME d = d1, ~(q # 0 /\ p + 1 >= K /\ p + 1 = x + K)
        PROVE  /\ d.fired = FALSE /\ d.pos = p + 1 /\ d.base = Room(p, b)
               /\ d.period = q /\ d.next = x
    BY <2>4, <2>9, Zenon
  <2>10. ASSUME d = Fire(d1)
         PROVE  /\ d.fired = TRUE /\ d.pos = p + 1 /\ d.base = Larger(x - q, Room(p, b))
                /\ d.period = q /\ d.next = x + q
    BY <2>4, <2>10, <1>FireFields, Zenon
  <2>11. ASSUME d = broken
         PROVE  /\ d.fired = FALSE /\ d.pos = p + 1 /\ d.base = Room(p, b)
                /\ d.period = 0 /\ d.next = x
    BY <2>6, <2>7, <2>11, Zenon
  <2>12. ASSUME NEW r \in Int, d = Fire(after(r, start))
         PROVE  /\ d.fired = TRUE /\ d.pos = p + 1
                /\ d.base = Larger(p + 1 - K - r, Room(p, b))
                /\ d.period = r /\ d.next = p + 1 - K + r
    <3>1. after(r, start) \in DetectorSet
      BY <2>4, <2>8, Zenon DEF DetectorSet
    <3>2. /\ after(r, start).pos = p + 1 /\ after(r, start).base = Room(p, b)
          /\ after(r, start).period = r /\ after(r, start).next = p + 1 - K
      BY <2>4, <2>8 DEF DetectorSet
    <3> HIDE DEF after
    <3> DEFINE e == after(r, start)
    <3>3. /\ Fire(e).pos = e.pos /\ Fire(e).period = e.period
          /\ Fire(e).next = e.next + e.period
          /\ Fire(e).base = Larger(e.next - e.period, e.base)
      <4> HIDE DEF e
      <4>1. e \in DetectorSet
        BY <3>1 DEF e
      <4> QED
        BY <4>1, <1>FireFields, Zenon
    <3>4. Fire(after(r, start)).fired = TRUE
      BY <3>1, <1>FireFields, Zenon
    <3>5. /\ d.pos = p + 1 /\ d.base = Larger(p + 1 - K - r, Room(p, b))
          /\ d.period = r /\ d.next = p + 1 - K + r
      BY <2>12, <3>2, <3>3
    <3> QED
      BY <2>12, <3>4, <3>5, Zenon
  <2>13. ASSUME NEW r \in Int, NEW phase \in Int, d = after(r, start + phase)
         PROVE  /\ d.fired = FALSE /\ d.pos = p + 1 /\ d.base = Room(p, b)
                /\ d.period = r /\ d.next = p + 1 - K + phase
    <3> DEFINE y == start + phase
    <3>1. y \in Int /\ y = p + 1 - K + phase
      BY <2>8
    <3> HIDE DEF y
    <3>2. after(r, y).fired = FALSE
      BY <2>4 DEF DetectorSet
    <3>3. /\ after(r, y).pos = p + 1 /\ after(r, y).base = Room(p, b)
          /\ after(r, y).period = r /\ after(r, y).next = y
      BY <2>4, <3>1 DEF DetectorSet
    <3> HIDE DEF after
    <3> QED
      BY <2>13, <3>1, <3>2, <3>3, Zenon DEF y
  <2> HIDE DEF after
  <2>14. CASE q # 0 /\ p + 1 >= K /\ p + 1 = x + K
    <3>1. d = Fire(d1) \/ d = broken
      BY <2>4, <2>5, <2>14
    <3> QED
      BY <2>10, <2>11, <2>14, <3>1, Zenon
  <2>15. CASE q = 0 /\ p + 1 >= K /\ d # d1
    <3>1. PICK r \in K .. p + 1 : p + 1 - K - Room(p, b) >= 2 * r /\ d \in accepted(r)
      <4> HIDE DEF accepted
      <4>1. d \in UNION {accepted(r) : r \in {r \in K .. d1.pos : start - d1.base >= 2 * r}}
        BY <2>4, <2>5, <2>15
      <4>2. PICK r \in K .. d1.pos : start - d1.base >= 2 * r /\ d \in accepted(r)
        BY <4>1, Zenon
      <4>3. d1.pos = p + 1 /\ d1.base = Room(p, b) /\ start = p + 1 - K
        BY <2>4, <2>8, Zenon
      <4>5. r \in K .. p + 1 /\ start - Room(p, b) >= 2 * r
        BY <4>2, <4>3, Zenon
      <4>4. p + 1 - K - Room(p, b) >= 2 * r
        BY <2>1, <4>3, <4>5, SMTT(30)
      <4> QED
        BY <4>2, <4>4, <4>5, Zenon
    <3>2. PICK phase \in 0 .. r - 1 :
             d = IF phase = 0 THEN Fire(after(r, start)) ELSE after(r, start + phase)
      BY <3>1
    <3>3. r \in Int /\ phase \in Int /\ (phase # 0 => phase \in 1 .. r - 1)
      OBVIOUS
    <3>4. CASE phase = 0
      <4>1. d = Fire(after(r, start))
        BY <3>2, <3>4
      <4>2. /\ d.fired = TRUE /\ d.pos = p + 1 /\ d.base = Larger(p + 1 - K - r, Room(p, b))
            /\ d.period = r /\ d.next = p + 1 - K + r
        BY <2>12, <3>3, <4>1, Zenon
      <4> QED
        BY <2>15, <3>1, <4>2, Zenon
    <3>5. CASE phase # 0
      <4>1. d = after(r, start + phase)
        BY <3>2, <3>5
      <4>2. /\ d.fired = FALSE /\ d.pos = p + 1 /\ d.base = Room(p, b)
            /\ d.period = r /\ d.next = p + 1 - K + phase
        BY <2>13, <3>3, <4>1, Zenon
      <4> QED
        BY <2>15, <3>1, <3>3, <3>5, <4>2, Zenon
    <3> QED
      BY <3>4, <3>5, Zenon
  <2>16. CASE ~(q # 0 /\ p + 1 >= K /\ p + 1 = x + K) /\ d = d1
    BY <2>9, <2>16, Zenon
  <2>17. \/ p + 1 < K /\ d = d1
         \/ q # 0 /\ p + 1 >= K /\ p + 1 # x + K /\ d = d1
         \/ q # 0 /\ p + 1 >= K /\ p + 1 = x + K
         \/ q = 0 /\ p + 1 >= K
    BY <2>4, <2>5
  <2> QED
    BY <2>14, <2>15, <2>16, <2>17, Zenon
(* make_room_ keeps the history within its capacity. *)
<1>RoomFacts.
    ASSUME NEW p \in Nat, NEW b \in Nat, b <= p,
           p - (IF b = 0 THEN 0 ELSE b - 1) <= HISTORY
    PROVE  /\ Room(p, b) \in Nat /\ b <= Room(p, b) /\ Room(p, b) <= p
           /\ p + 1 - (IF Room(p, b) = 0 THEN 0 ELSE Room(p, b) - 1) <= HISTORY
  BY <1>RoomFacts, HistoryAssumption DEF Room, MakeRoom, Detector
(* The floor of the search moves up with the positions and the oldest op. *)
<1>FloorFacts.
    ASSUME NEW p \in Nat, NEW b \in Nat, b <= p,
           p - (IF b = 0 THEN 0 ELSE b - 1) <= HISTORY
    PROVE  /\ SearchFloor(p, b) \in Nat /\ b <= SearchFloor(p, b) /\ SearchFloor(p, b) <= p
           /\ p - SearchFloor(p, b) <= HISTORY \div 2 + K
           /\ \A c \in Nat : c <= b =>
                /\ p > 0 => SearchFloor(p - 1, c) <= SearchFloor(p, b)
                /\ SearchFloor(p, c) <= SearchFloor(p, b)
  <2> USE <1>FloorFacts
  <2> USE HistoryAssumption DEF SearchFloor
  <2>1. /\ SearchFloor(p, b) \in Nat /\ b <= SearchFloor(p, b) /\ SearchFloor(p, b) <= p
    OBVIOUS
  <2>2. p - SearchFloor(p, b) <= HISTORY \div 2 + K
    OBVIOUS
  <2>3. ASSUME NEW c \in Nat, c <= b PROVE SearchFloor(p, c) <= SearchFloor(p, b)
    BY <2>3
  <2>4. ASSUME NEW c \in Nat, c <= b, p > 0 PROVE SearchFloor(p - 1, c) <= SearchFloor(p, b)
    BY <2>4
  <2> QED
    BY <2>1, <2>2, <2>3, <2>4
(* The same for the op after position p. *)
<1>FloorStep.
    ASSUME NEW p \in Nat, NEW b \in Nat, NEW c \in Nat, b <= c, c <= p,
           p + 1 - (IF c = 0 THEN 0 ELSE c - 1) <= HISTORY
    PROVE  /\ SearchFloor(p + 1, c) \in Nat /\ c <= SearchFloor(p + 1, c)
           /\ SearchFloor(p + 1, c) <= p + 1
           /\ p + 1 - SearchFloor(p + 1, c) <= HISTORY \div 2 + K
           /\ SearchFloor(p, b) <= SearchFloor(p + 1, c)
  <2> USE <1>FloorStep
  <2>1. PICK n \in Nat : n = p + 1
    OBVIOUS
  <2>2. n > 0 /\ n - 1 = p /\ c <= n /\ n - (IF c = 0 THEN 0 ELSE c - 1) <= HISTORY
    BY <2>1
  <2>3. /\ SearchFloor(n, c) \in Nat /\ c <= SearchFloor(n, c) /\ SearchFloor(n, c) <= n
        /\ n - SearchFloor(n, c) <= HISTORY \div 2 + K
        /\ SearchFloor(n - 1, b) <= SearchFloor(n, c)
    BY <2>2, <1>FloorFacts, Zenon
  <2> QED
    BY <2>1, <2>2, <2>3
(* Nothing happens. *)
<1>HeldNothing.
    ASSUME NEW p \in Nat, NEW b \in Nat, NEW q \in Nat, NEW x \in Nat, NEW h \in Nat,
           HeldEnough(p, b, q, x, h), q # 0 => p + 1 # x + K
    PROVE  Kept(p + 1, Room(p, b), q, x, h + 1)
  <2> USE <1>HeldNothing
  <2> DEFINE c == Room(p, b)
             f == SearchFloor(p + 1, c)
  <2> USE HistoryAssumption
  <2>1. /\ c \in Nat /\ b <= c /\ c <= p
        /\ p + 1 - (IF c = 0 THEN 0 ELSE c - 1) <= HISTORY
    BY <1>RoomFacts DEF HeldEnough
  <2> HIDE DEF c
  <2>2. /\ f \in Nat /\ c <= f /\ f <= p + 1 /\ p + 1 - f <= HISTORY \div 2 + K
        /\ SearchFloor(p, b) <= f
    BY <2>1, <1>FloorStep
  <2>3. 2 * f <= Larger(p + 1 - K, c) + c
    BY <2>1 DEF SearchFloor, Larger
  <2> HIDE DEF f
  <2>4. CASE q = 0
    <3>1. SearchFloor(p, b) \in Nat /\ p - h <= SearchFloor(p, b) /\ h <= p
      BY <2>1, <2>4, <1>FloorFacts, SMTT(60) DEF HeldEnough
    <3> QED
      BY <2>1, <2>2, <2>4, <3>1, SMTT(30) DEF Kept, Dropped, Oldest, Monus, HeldEnough, f, c
  <2>5. CASE q # 0
    BY <2>1, <2>2, <2>3, <2>5, SMTT(60) DEF Kept, Dropped, Oldest, Monus, HeldEnough, SmallerOf, Larger, f, c
  <2> QED
    BY <2>4, <2>5, SMTT(30)
(* A boundary breaks: the search resumes with the ops it needs. *)
<1>HeldBroken.
    ASSUME NEW p \in Nat, NEW b \in Nat, NEW q \in Nat, NEW x \in Nat, NEW h \in Nat,
           HeldEnough(p, b, q, x, h), q # 0, p + 1 = x + K
    PROVE  Kept(p + 1, Room(p, b), 0, x, h + 1)
  <2> USE <1>HeldBroken
  <2> DEFINE c == Room(p, b)
             f == SearchFloor(p + 1, c)
  <2> USE HistoryAssumption
  <2>1. /\ c \in Nat /\ b <= c /\ c <= p
        /\ p + 1 - (IF c = 0 THEN 0 ELSE c - 1) <= HISTORY
    BY <1>RoomFacts DEF HeldEnough
  <2> HIDE DEF c
  <2>2. /\ f \in Nat /\ c <= f /\ f <= p + 1 /\ p + 1 - f <= HISTORY \div 2 + K
    BY <2>1, <1>FloorStep
  <2>3. p - h <= f
    <3>1. x + b >= 2 * (p - h) /\ p - h <= x - q /\ q \in Nat
      BY Zenon DEF HeldEnough
    <3> QED
      BY <2>1, <3>1 DEF SearchFloor
  <2> HIDE DEF f
  <2> QED
    BY <2>1, <2>2, <2>3, SMTT(30) DEF Kept, Dropped, Oldest, Monus, HeldEnough, f, c
(* A report at the newest window leaves the K ops of that window. *)
<1>HeldFired.
    ASSUME NEW p \in Nat, NEW b \in Nat, NEW q \in Nat, NEW h \in Nat,
           b <= p, p - (IF b = 0 THEN 0 ELSE b - 1) <= HISTORY,
           K <= q, 2 * q <= HISTORY, K + q <= p + 1
    PROVE  Kept(p + 1, Larger(p + 1 - K - q, Room(p, b)), q, p + 1 - K + q, K)
  <2> USE <1>HeldFired
  <2> DEFINE c == Room(p, b)
             e == Larger(p + 1 - K - q, c)
             f == SearchFloor(p + 1, e)
  <2> USE HistoryAssumption
  <2>1. /\ c \in Nat /\ b <= c /\ c <= p
        /\ p + 1 - (IF c = 0 THEN 0 ELSE c - 1) <= HISTORY
    BY <1>RoomFacts
  <2> HIDE DEF c
  <2>2. /\ e \in Nat /\ e <= p + 1 /\ e >= p + 1 - K - q
        /\ p + 1 - (IF e = 0 THEN 0 ELSE e - 1) <= HISTORY
    BY <2>1, SMTT(30) DEF Larger
  <2> HIDE DEF e
  <2>3. /\ f \in Nat /\ f <= p + 1
    BY <2>2, <1>FloorFacts, SMTT(60)
  <2> HIDE DEF f
  <2> QED
    BY <2>2, <2>3, SMTT(30) DEF Kept, Dropped, Oldest, Monus, HeldEnough, SmallerOf, f, e, c
(* A square whose boundary is to come. *)
<1>HeldAccepted.
    ASSUME NEW p \in Nat, NEW b \in Nat, NEW x \in Nat, NEW h \in Nat,
           HeldEnough(p, b, 0, x, h),
           NEW r \in Nat, K <= r, p + 1 - K - Room(p, b) >= 2 * r, NEW phase \in 1 .. r - 1
    PROVE  Kept(p + 1, Room(p, b), r, p + 1 - K + phase, h + 1)
  <2> USE <1>HeldAccepted
  <2> DEFINE c == Room(p, b)
             f == SearchFloor(p + 1, c)
  <2> USE HistoryAssumption
  <2>1. /\ c \in Nat /\ b <= c /\ c <= p
        /\ p + 1 - (IF c = 0 THEN 0 ELSE c - 1) <= HISTORY
        /\ p + 1 - K - c >= 2 * r
    BY <1>RoomFacts, SMTT(30) DEF HeldEnough
  <2> HIDE DEF c
  <2>2. /\ f \in Nat /\ c <= f /\ f <= p + 1 /\ p + 1 - f <= HISTORY \div 2 + K
        /\ SearchFloor(p, b) <= f
    BY <2>1, <1>FloorStep
  <2>3. 2 * f <= p + 1 - K + c
    BY <2>1 DEF SearchFloor
  <2> HIDE DEF f
  <2>4. SearchFloor(p, b) \in Nat /\ p - h <= SearchFloor(p, b) /\ h <= p
    BY <2>1, <1>FloorFacts DEF HeldEnough
  <2> QED
    BY <2>1, <2>2, <2>3, <2>4, SMTT(30) DEF Kept, Dropped, Oldest, Monus, HeldEnough, SmallerOf, f, c
(* The outcomes, put together. *)
<1>CheckHeld.
    ASSUME NEW p \in Nat, NEW b \in Nat, NEW q \in Nat, NEW x \in Nat, NEW h \in Nat,
           HeldEnough(p, b, q, x, h), NEW d \in Check(Detector(p, b, q, x))
    PROVE  /\ d.pos = p + 1 /\ d.base \in Nat /\ d.period \in Nat /\ d.next \in Nat
           /\ \/ /\ d.fired = FALSE
                 /\ Kept(d.pos, d.base, d.period, d.next, h + 1)
              \/ /\ d.fired = TRUE
                 /\ d.period # 0 /\ K + d.period <= h + 1
                 /\ Kept(d.pos, d.base, d.period, d.next, K)
  <2> USE <1>CheckHeld
  <2> USE HistoryAssumption
  <2>0. /\ Room(p, b) \in Nat /\ b <= Room(p, b) /\ Room(p, b) <= p /\ h <= p /\ b <= p
        /\ p - (IF b = 0 THEN 0 ELSE b - 1) <= HISTORY
        /\ p + 1 - (IF Room(p, b) = 0 THEN 0 ELSE Room(p, b) - 1) <= HISTORY
    BY <1>RoomFacts DEF HeldEnough
  <2>1. CASE /\ d.fired = FALSE /\ d.pos = p + 1 /\ d.base = Room(p, b) /\ d.period = q
             /\ d.next = x /\ (q # 0 /\ p + 1 >= K => p + 1 # x + K)
    <3>1. q # 0 => p + 1 # x + K
      BY <2>1
    <3>2. Kept(p + 1, Room(p, b), q, x, h + 1)
      BY <3>1, <1>HeldNothing
    <3> QED
      BY <2>0, <2>1, <3>2, Zenon
  <2>2. CASE /\ q # 0 /\ p + 1 = x + K /\ d.fired = TRUE /\ d.pos = p + 1
             /\ d.base = Larger(x - q, Room(p, b)) /\ d.period = q /\ d.next = x + q
    <3>1. /\ K <= q /\ 2 * q <= HISTORY /\ K + q <= p + 1 /\ K + q <= h + 1
          /\ x - q = p + 1 - K - q /\ x + q = p + 1 - K + q /\ x + q \in Nat
      BY <2>2 DEF HeldEnough
    <3>2. Larger(p + 1 - K - q, Room(p, b)) \in Nat
      BY <2>0, <3>1 DEF Larger
    <3>3. Kept(p + 1, Larger(p + 1 - K - q, Room(p, b)), q, p + 1 - K + q, K)
      BY <2>0, <3>1, <1>HeldFired
    <3> QED
      BY <2>2, <3>1, <3>2, <3>3, Zenon
  <2>3. CASE /\ q # 0 /\ p + 1 = x + K /\ d.fired = FALSE /\ d.pos = p + 1
             /\ d.base = Room(p, b) /\ d.period = 0 /\ d.next = x
    <3>1. Kept(p + 1, Room(p, b), 0, x, h + 1)
      BY <2>3, <1>HeldBroken
    <3>2. 0 \in Nat
      OBVIOUS
    <3> QED
      BY <2>0, <2>3, <3>1, <3>2, Zenon
  <2>4. ASSUME NEW r \in K .. p + 1, q = 0, p + 1 - K - Room(p, b) >= 2 * r, d.period = r,
               d.pos = p + 1, d.fired = TRUE, d.next = p + 1 - K + r,
               d.base = Larger(p + 1 - K - r, Room(p, b))
        PROVE  /\ d.base \in Nat /\ d.period \in Nat /\ d.next \in Nat
               /\ d.period # 0 /\ K + d.period <= h + 1
               /\ Kept(d.pos, d.base, d.period, d.next, K)
    <3>1. r \in Nat /\ K <= r /\ 2 * r <= HISTORY /\ K + r <= p + 1
      BY <2>0, <2>4
    <3>2. K + r <= h + 1
      <4>1. p - h <= SearchFloor(p, b)
        BY <2>4 DEF HeldEnough
      <4>2. SearchFloor(p, b) <= SearchFloor(p + 1, Room(p, b)) /\ SearchFloor(p, b) \in Nat
        <5>1. p + 1 \in Nat /\ Room(p, b) <= p + 1 /\ p + 1 > 0 /\ p + 1 - 1 = p
          BY <2>0
        <5> QED
          BY <2>0, <5>1, <1>FloorFacts
      <4>3. 2 * SearchFloor(p + 1, Room(p, b)) <= p + 1 - K + Room(p, b)
            /\ SearchFloor(p + 1, Room(p, b)) \in Nat
        BY <2>0, <2>4 DEF SearchFloor
      <4> QED
        BY <2>0, <2>4, <3>1, <4>1, <4>2, <4>3, SMTT(30)
    <3>3. Kept(p + 1, Larger(p + 1 - K - r, Room(p, b)), r, p + 1 - K + r, K)
      BY <2>0, <3>1, <1>HeldFired
    <3>4. Larger(p + 1 - K - r, Room(p, b)) \in Nat /\ p + 1 - K + r \in Nat /\ r # 0
      BY <2>0, <3>1 DEF Larger
    <3> QED
      BY <2>4, <3>1, <3>2, <3>3, <3>4, Zenon
  <2>5. ASSUME NEW r \in K .. p + 1, q = 0, p + 1 - K - Room(p, b) >= 2 * r, d.period = r,
               d.pos = p + 1, NEW phase \in 1 .. r - 1, d.next = p + 1 - K + phase,
               d.base = Room(p, b)
        PROVE  /\ d.base \in Nat /\ d.period \in Nat /\ d.next \in Nat
               /\ Kept(d.pos, d.base, d.period, d.next, h + 1)
    <3>1. r \in Nat /\ K <= r /\ p + 1 - K + phase \in Nat
      BY <2>0, <2>5
    <3>2. HeldEnough(p, b, 0, x, h)
      BY <2>5
    <3>3. Kept(p + 1, Room(p, b), r, p + 1 - K + phase, h + 1)
      BY <2>5, <3>1, <3>2, <1>HeldAccepted, Zenon
    <3> QED
      BY <2>0, <2>5, <3>1, <3>3, Zenon
  <2>6. CheckStep(p, b, q, x, d)
    BY <1>CheckCases
  <2> QED
    BY <2>1, <2>2, <2>3, <2>4, <2>5, <2>6, Zenon DEF CheckStep
<1> QED
  BY <1>CheckHeld, Zenon

-----------------------------------------------------------------------------
(* Parts of sequences. *)

(* A stretch of a sequence, entry by entry. *)
LEMMA Slice ==
    ASSUME NEW S, NEW s \in Seq(S), NEW m \in Nat, NEW n \in Nat,
           m <= n, n <= Len(s)
    PROVE  /\ SubSeq(s, m + 1, n) \in Seq(S) /\ Len(SubSeq(s, m + 1, n)) = n - m
           /\ \A i \in 1 .. n - m : SubSeq(s, m + 1, n)[i] = s[m + i]
<1>1. \A i \in m + 1 .. n : s[i] \in S
  <2> TAKE i \in m + 1 .. n
  <2>1. i \in 1 .. Len(s)
    BY LenProperties
  <2> QED
    BY <2>1, ElementOfSeq
<1>2. /\ SubSeq(s, m + 1, n) \in Seq(S)
      /\ Len(SubSeq(s, m + 1, n)) = IF m + 1 <= n THEN n - (m + 1) + 1 ELSE 0
      /\ \A i \in 1 .. n - (m + 1) + 1 : SubSeq(s, m + 1, n)[i] = s[m + 1 + i - 1]
  <2>1. m + 1 \in Int /\ n \in Int
    OBVIOUS
  <2> QED
    BY <1>1, <2>1, SMTT(30)
<1>3. \A i \in 1 .. n - m : i \in 1 .. n - (m + 1) + 1 /\ m + 1 + i - 1 = m + i
  OBVIOUS
<1> QED
  BY <1>2, <1>3, SMTT(30)

(* PendingOps::drop_oldest, entry by entry. *)
LEMMA DropFacts ==
    ASSUME NEW S, NEW s \in Seq(S), NEW c \in Nat, c <= Len(s)
    PROVE  /\ DropOldest(s, c) \in Seq(S) /\ Len(DropOldest(s, c)) = Len(s) - c
           /\ \A i \in 1 .. Len(s) - c : DropOldest(s, c)[i] = s[c + i]
<1>1. Len(s) \in Nat
  BY LenProperties
<1>2. SmallerOf(c, Len(s)) = c
  BY <1>1 DEF SmallerOf
<1>3. DropOldest(s, c) = SubSeq(s, c + 1, Len(s))
  BY <1>2 DEF DropOldest
<1> QED
  BY <1>1, <1>3, Slice

(* prepare_iteration_build_work on enough held ops: the work takes the
   iter_len ops that end K before the newest, and those K are left. *)
LEMMA CutFacts ==
    ASSUME NEW S, NEW s \in Seq(S), NEW q \in Nat, K + q <= Len(s)
    PROVE  LET c == Cut(s, q)
           IN  /\ c.ops \in Seq(S) /\ Len(c.ops) = q
               /\ \A i \in 1 .. q : c.ops[i] = s[Len(s) - K - q + i]
               /\ c.left \in Seq(S) /\ Len(c.left) = K
               /\ \A i \in 1 .. K : c.left[i] = s[Len(s) - K + i]
<1> USE HistoryAssumption
<1> DEFINE L == Len(s)
           k == L - K - q
           warm == DropOldest(s, k)
<1>1. L \in Nat /\ k \in Nat /\ k <= L
  BY LenProperties
<1>2. Monus(Monus(L, K), q) = k
  BY <1>1 DEF Monus
<1>4. /\ warm \in Seq(S) /\ Len(warm) = L - k
      /\ \A i \in 1 .. L - k : warm[i] = s[k + i]
  BY <1>1, DropFacts, Zenon
<1>3. L - k = K + q
  BY <1>1
<1>5. Len(warm) = K + q /\ Monus(Len(warm), K) = q
  BY <1>3, <1>4 DEF Monus
<1>6. Cut(s, q) = [ops |-> SubSeq(warm, 1, q), left |-> DropOldest(warm, q)]
  BY <1>2, <1>5, Zenon DEF Cut
<1> HIDE DEF warm, k
<1>7. /\ SubSeq(warm, 0 + 1, q) \in Seq(S) /\ Len(SubSeq(warm, 0 + 1, q)) = q - 0
      /\ \A i \in 1 .. q - 0 : SubSeq(warm, 0 + 1, q)[i] = warm[0 + i]
  BY <1>1, <1>4, <1>5, Slice
<1>8. q <= Len(warm) /\ Len(warm) - q = K
  BY <1>5
<1>9. /\ DropOldest(warm, q) \in Seq(S) /\ Len(DropOldest(warm, q)) = K
      /\ \A i \in 1 .. K : DropOldest(warm, q)[i] = warm[q + i]
  BY <1>4, <1>8, DropFacts, Zenon
<1>10. ASSUME NEW i \in 1 .. q PROVE SubSeq(warm, 1, q)[i] = s[L - K - q + i]
  <2>1. i \in 1 .. q - 0 /\ 0 + i = i /\ 0 + 1 = 1 /\ i \in 1 .. L - k
        /\ L - K - q + i = k + i
    BY <1>1, <1>3 DEF k
  <2> QED
    BY <1>4, <1>7, <2>1, Zenon
<1>11. ASSUME NEW i \in 1 .. K PROVE DropOldest(warm, q)[i] = s[L - K + i]
  <2>1. q + i \in 1 .. L - k /\ L - K + i = k + (q + i)
    BY <1>1, <1>3 DEF k
  <2> QED
    BY <1>4, <1>9, <2>1
<1>12. SubSeq(warm, 1, q) \in Seq(S) /\ Len(SubSeq(warm, 1, q)) = q
  <2>1. 0 + 1 = 1 /\ q - 0 = q
    OBVIOUS
  <2> QED
    BY <1>7, <2>1
<1> QED
  BY <1>6, <1>9, <1>10, <1>11, <1>12

(* A sequence without its first entry, entry by entry. *)
LEMMA TailFacts ==
    ASSUME NEW S, NEW s \in Seq(S), s # << >>
    PROVE  /\ Len(s) \in Nat \ {0} /\ DOMAIN s = 1 .. Len(s) /\ 1 \in DOMAIN s
           /\ Head(s) = s[1] /\ Head(s) \in S
           /\ Tail(s) \in Seq(S) /\ Len(Tail(s)) = Len(s) - 1
           /\ DOMAIN Tail(s) = 1 .. Len(s) - 1
           /\ \A i \in 1 .. Len(s) - 1 : Tail(s)[i] = s[i + 1] /\ i + 1 \in DOMAIN s
<1>1. Len(s) \in Nat \ {0} /\ DOMAIN s = 1 .. Len(s)
  BY EmptySeq, LenProperties
<1>2. /\ Head(s) = s[1] /\ Head(s) \in S
      /\ Tail(s) \in Seq(S) /\ Len(Tail(s)) = Len(s) - 1
      /\ \A i \in 1 .. Len(Tail(s)) : Tail(s)[i] = s[i + 1]
  BY HeadTailProperties
<1>3. DOMAIN Tail(s) = 1 .. Len(s) - 1
  BY <1>2, LenProperties
<1> QED
  BY <1>1, <1>2, <1>3

(* What appending to a list does to its places. *)
LEMMA AppendFacts ==
    ASSUME NEW S, NEW s \in Seq(S), NEW e \in S
    PROVE  /\ Len(s) \in Nat /\ DOMAIN s = 1 .. Len(s)
           /\ Append(s, e) \in Seq(S) /\ Len(Append(s, e)) = Len(s) + 1
           /\ DOMAIN Append(s, e) = 1 .. Len(s) + 1
           /\ \A i \in 1 .. Len(s) : Append(s, e)[i] = s[i]
           /\ Append(s, e)[Len(s) + 1] = e
           /\ \A i \in 1 .. Len(s) + 1 : i \in 1 .. Len(s) \/ i = Len(s) + 1
<1>1. Len(s) \in Nat /\ DOMAIN s = 1 .. Len(s)
  BY LenProperties
<1>2. /\ Append(s, e) \in Seq(S) /\ Len(Append(s, e)) = Len(s) + 1
      /\ \A i \in 1 .. Len(s) : Append(s, e)[i] = s[i]
      /\ Append(s, e)[Len(s) + 1] = e
  BY AppendProperties
<1>3. DOMAIN Append(s, e) = 1 .. Len(s) + 1
  BY <1>2, LenProperties
<1>4. \A i \in 1 .. Len(s) + 1 : i \in 1 .. Len(s) \/ i = Len(s) + 1
  BY <1>1
<1> QED
  BY <1>1, <1>2, <1>3, <1>4

-----------------------------------------------------------------------------
(* What the containers of the pipeline hold. *)
Op == [n : Tensors, meta_start : Nat \cup {NoMeta}, trace : 0 .. MaxSignals]
Batch == [stop : BOOLEAN, ops : Seq(Op)]
Work == [kind : {"work"}, ops : Seq(Op) \ {<< >>}, epoch : Nat, iter_len : Nat, cut_at : Nat]
Marker == [kind : {"commit"}, count : Nat] \cup [kind : {"stop"}]
Region == [kind : {"region"}, meta_end : Nat, epoch : Nat, trace : 0 .. MaxSignals,
           cut_at : Nat]
Release == [kind : {"release"}, meta_end : Nat, cut_at : Nat]

(* The foreground, the slot it polls, the ring and the two counters of the
   metadata log. *)
ForegroundShape ==
    /\ fg \in {"recording", "aligning", "compiled"}
    /\ fg_op \in Op \cup {None}
    /\ signals \in 0 .. MaxSignals
    /\ slot \in {None} \cup 0 .. MaxSignals
    /\ ring \in Seq(Op) /\ Len(ring) <= RING
    /\ produced \in Nat /\ mhead \in Nat /\ mtail \in Nat
    /\ stop_requested \in BOOLEAN /\ reset_requested \in BOOLEAN
    /\ produced <= MaxOps /\ (fg_op # None => produced < MaxOps)

(* The drain stage and its channel: a stop batch is empty. *)
DrainShape ==
    /\ dr_batch \in Seq(Op)
    /\ dr_pc \in {"peek", "poll", "final", "push", "push_final", "sentinel", "end"}
    /\ dr_pc \notin {"push", "push_final"} => dr_batch = << >>
    /\ trace_batches \in Seq(Batch) /\ Len(trace_batches) <= DEPTH
    /\ \A i \in DOMAIN trace_batches : trace_batches[i].stop => trace_batches[i].ops = << >>

(* The detect stage and its channel: it holds a work exactly while it
   pushes one, and no more of a batch than the batch had. *)
DetectShape ==
    /\ dt_pc \in {"pop", "op", "push_work", "push_stop", "end"}
    /\ dt_batch \in Seq(Op) /\ pending_ops \in Seq(Op)
    /\ dt_count \in Nat /\ seen \in Nat /\ reset_epoch \in Nat
    /\ pos \in Nat /\ base \in Nat /\ period \in Nat /\ next_boundary \in Nat
    /\ IF dt_pc = "push_work" THEN dt_work \in Work ELSE dt_work = None
    /\ dt_pc \in {"op", "push_work"} => Len(dt_batch) <= dt_count
    /\ dt_pc \notin {"op", "push_work"} => dt_batch = << >> /\ dt_count = 0
    /\ build_work \in Seq(Work \cup Marker) /\ Len(build_work) <= DEPTH

(* The build stage, its channel and the publish stage: each holds a message
   exactly while it handles it. *)
BuildShape ==
    /\ bd_pc \in {"pop", "build", "end"}
    /\ IF bd_pc = "build" THEN bd_out \in Work \cup Marker ELSE bd_out = None
    /\ graph_publish \in Seq(Region \cup Release \cup Marker) /\ Len(graph_publish) <= DEPTH
    /\ pb_pc \in {"pop", "publish", "handover", "end"}
    /\ IF pb_pc \in {"publish", "handover"} THEN pb_region \in Region ELSE pb_region = None
    /\ total_processed \in Nat

(* The types of all the stages. *)
Shape == ForegroundShape /\ DrainShape /\ DetectShape /\ BuildShape

(* The detect stage holds enough. *)
DetectorInv == HeldEnough(pos, base, period, next_boundary, Len(pending_ops))

(* do_reset leaves a detector that has enough, too. *)
LEMMA AfterCheckFacts ==
    ASSUME Shape, DetectorInv
    PROVE  /\ AfterCheck.held \in Seq(Op)
           /\ AfterCheck.held = << >> \/ AfterCheck.held = pending_ops
           /\ AfterCheck.pos \in Nat /\ AfterCheck.base \in Nat /\ AfterCheck.period \in Nat
           /\ AfterCheck.next \in Nat /\ AfterCheck.epoch \in Nat
           /\ HeldEnough(AfterCheck.pos, AfterCheck.base, AfterCheck.period, AfterCheck.next,
                         Len(AfterCheck.held))
<1> USE DEF Shape, DetectShape, DetectorInv
<1>1. HeldEnough(0, 0, 0, 0, 0)
  BY HistoryAssumption DEF HeldEnough, SearchFloor
<1>2. << >> \in Seq(Op) /\ Len(<< >>) = 0
  OBVIOUS
<1>3. CASE reset_requested
  BY <1>1, <1>2, <1>3 DEF AfterCheck
<1>4. CASE ~reset_requested
  BY <1>4 DEF AfterCheck
<1> QED
  BY <1>3, <1>4

(* Where the held ops and the ops of the work come from. *)
Taken(held, ops, m) ==
    /\ ops \in Seq(Op) /\ m \in Nat /\ m + Len(ops) <= Len(held)
    /\ \A i \in 1 .. Len(ops) : ops[i] = held[m + i]

(* One op of the detect stage: what stays held is the newest part of what
   was, and a work is cut from before it. *)
LEMMA DetectOpFacts ==
    ASSUME Shape, DetectorInv, DetectOp
    PROVE  \E held \in Seq(Op), m \in Nat :
             /\ held = Append(AfterCheck.held, Head(dt_batch))
             /\ Taken(held, pending_ops', m)
             /\ pos' \in Nat /\ base' \in Nat /\ period' \in Nat /\ next_boundary' \in Nat
             /\ DetectorInv'
             /\ \/ dt_pc' = "op" /\ dt_work' = None
                \/ /\ dt_pc' = "push_work" /\ dt_work' \in Work
                   /\ Len(dt_work'.ops) = dt_work'.iter_len /\ dt_work'.cut_at = seen + 1
                   /\ \E l \in Nat : /\ Taken(held, dt_work'.ops, l)
                                     /\ l + Len(dt_work'.ops) <= m
<1> DEFINE a == AfterCheck
           held == Append(a.held, Head(dt_batch))
           h == Len(a.held)
<1>1. /\ a.held \in Seq(Op) /\ a.pos \in Nat /\ a.base \in Nat /\ a.period \in Nat
      /\ a.next \in Nat /\ a.epoch \in Nat
      /\ HeldEnough(a.pos, a.base, a.period, a.next, h)
  BY AfterCheckFacts, Zenon
<1>2. dt_batch \in Seq(Op) /\ dt_batch # << >> /\ seen \in Nat
  BY DEF Shape, DetectShape, DetectOp
<1>3. Head(dt_batch) \in Op
  BY <1>2, HeadTailProperties
<1>4. held \in Seq(Op) /\ h \in Nat /\ Len(held) = h + 1
  BY <1>1, <1>3, AppendProperties, LenProperties
<1>5. PICK d \in Check(Detector(a.pos, a.base, a.period, a.next)) :
         LET cut == Cut(held, d.period)
             work == [kind |-> "work", ops |-> cut.ops, epoch |-> a.epoch,
                      iter_len |-> d.period, cut_at |-> seen + 1]
             cuts == d.fired /\ cut.ops # << >>
         IN  /\ pos' = d.pos /\ base' = d.base
             /\ period' = d.period /\ next_boundary' = d.next
             /\ pending_ops' = DropUnclaimable(IF d.fired THEN cut.left ELSE held, d)
             /\ dt_work' = IF cuts THEN work ELSE None
             /\ dt_pc' = IF cuts THEN "push_work" ELSE "op"
  BY Zenon DEF DetectOp, Detector
<1>13. pos' = d.pos /\ base' = d.base /\ period' = d.period /\ next_boundary' = d.next
  BY <1>5, Zenon
<1>14. ASSUME d.fired = FALSE
       PROVE  dt_pc' = "op" /\ dt_work' = None /\ pending_ops' = DropUnclaimable(held, d)
  BY <1>5, <1>14, Zenon
<1>15. ASSUME d.fired = TRUE, Cut(held, d.period).ops # << >>
       PROVE  /\ dt_pc' = "push_work" /\ pending_ops' = DropUnclaimable(Cut(held, d.period).left, d)
              /\ dt_work' = [kind |-> "work", ops |-> Cut(held, d.period).ops, epoch |-> a.epoch,
                             iter_len |-> d.period, cut_at |-> seen + 1]
  BY <1>5, <1>15, Zenon
<1>11. held = Append(AfterCheck.held, Head(dt_batch))
  OBVIOUS
<1> HIDE DEF a
<1>6. /\ d.pos = a.pos + 1 /\ d.base \in Nat /\ d.period \in Nat /\ d.next \in Nat
      /\ \/ /\ d.fired = FALSE
            /\ Kept(d.pos, d.base, d.period, d.next, h + 1)
         \/ /\ d.fired = TRUE
            /\ d.period # 0 /\ K + d.period <= h + 1
            /\ Kept(d.pos, d.base, d.period, d.next, K)
  BY <1>1, <1>4, HeldStep, Zenon
<1>7. OldestClaimable(d) = Oldest(d.pos, d.base, d.period, d.next)
  BY DEF OldestClaimable, Oldest, SearchFloor
<1>12. pos' \in Nat /\ base' \in Nat /\ period' \in Nat /\ next_boundary' \in Nat
  BY <1>1, <1>6, <1>13
<1> HIDE DEF held, h
<1>8. ASSUME NEW s \in Seq(Op), Kept(d.pos, d.base, d.period, d.next, Len(s)),
             pending_ops' = DropUnclaimable(s, d)
      PROVE  /\ \E c \in Nat : /\ c + Len(pending_ops') = Len(s) /\ Taken(s, pending_ops', c)
             /\ DetectorInv'
  <2> DEFINE c == Dropped(d.pos, d.base, d.period, d.next, Len(s))
  <2>1. DropUnclaimable(s, d) = DropOldest(s, c)
    BY <1>7 DEF DropUnclaimable, Dropped
  <2>2. c \in Nat /\ c <= Len(s) /\ HeldEnough(d.pos, d.base, d.period, d.next, Len(s) - c)
    BY <1>8 DEF Kept
  <2> HIDE DEF c
  <2>3. /\ pending_ops' \in Seq(Op) /\ Len(pending_ops') = Len(s) - c
        /\ \A i \in 1 .. Len(s) - c : pending_ops'[i] = s[c + i]
    <3>1. pending_ops' = DropOldest(s, c)
      BY <1>8, <2>1, SMTT(30)
    <3>2. /\ DropOldest(s, c) \in Seq(Op) /\ Len(DropOldest(s, c)) = Len(s) - c
          /\ \A i \in 1 .. Len(s) - c : DropOldest(s, c)[i] = s[c + i]
      BY <2>2, DropFacts
    <3> QED
      BY <3>1, <3>2
  <2>4. Len(s) \in Nat
    BY LenProperties
  <2>5. c + Len(pending_ops') = Len(s) /\ Taken(s, pending_ops', c)
    <3>1. c + Len(pending_ops') = Len(s) /\ c + Len(pending_ops') <= Len(s)
      BY <2>2, <2>3, <2>4
    <3>2. \A i \in 1 .. Len(pending_ops') : pending_ops'[i] = s[c + i]
      BY <2>3
    <3> QED
      BY <2>2, <2>3, <3>1, <3>2, Zenon DEF Taken
  <2>6. DetectorInv'
    BY <1>13, <2>2, <2>3 DEF DetectorInv
  <2> QED
    BY <2>2, <2>5, <2>6, SMTT(30)
<1>9. CASE d.fired = FALSE
  <2>1. dt_pc' = "op" /\ dt_work' = None /\ pending_ops' = DropUnclaimable(held, d)
    BY <1>9, <1>14, Zenon
  <2>2. Kept(d.pos, d.base, d.period, d.next, Len(held))
    BY <1>4, <1>6, <1>9, SMTT(30)
  <2>3. PICK c \in Nat : Taken(held, pending_ops', c) /\ DetectorInv'
    BY <1>4, <1>8, <2>1, <2>2, SMTT(30)
  <2> QED
    BY <1>4, <1>11, <1>12, <2>1, <2>3, Zenon
<1>10. CASE d.fired = TRUE
  <2> DEFINE q == d.period
             cut == Cut(held, q)
             l == Len(held) - K - q
  <2>1. /\ q \in Nat \ {0} /\ K + q <= Len(held) /\ K \in Nat
        /\ Kept(d.pos, d.base, d.period, d.next, K)
    BY <1>4, <1>6, <1>10, HistoryAssumption, SMTT(30)
  <2> HIDE DEF q
  <2>2. /\ cut.ops \in Seq(Op) /\ Len(cut.ops) = q
        /\ \A i \in 1 .. q : cut.ops[i] = held[Len(held) - K - q + i]
        /\ cut.left \in Seq(Op) /\ Len(cut.left) = K
        /\ \A i \in 1 .. K : cut.left[i] = held[Len(held) - K + i]
    BY <1>4, <2>1, CutFacts, Zenon
  <2>3. cut.ops # << >>
    BY <2>1, <2>2
  <2>4. /\ dt_pc' = "push_work" /\ pending_ops' = DropUnclaimable(cut.left, d)
        /\ dt_work' = [kind |-> "work", ops |-> cut.ops, epoch |-> a.epoch,
                       iter_len |-> q, cut_at |-> seen + 1]
    BY <1>10, <1>15, <2>3, Zenon DEF q
  <2> HIDE DEF cut
  <2>5. /\ dt_work' \in Work /\ dt_work'.ops = cut.ops
        /\ dt_work'.iter_len = q /\ dt_work'.cut_at = seen + 1
    <3>1. a.epoch \in Nat /\ seen + 1 \in Nat /\ q \in Nat
      BY <1>1, <1>2, <2>1, SMTT(30)
    <3>2. cut.ops \in Seq(Op) /\ cut.ops # << >>
      BY <2>2, <2>3, Zenon
    <3> QED
      BY <2>4, <3>1, <3>2, Zenon DEF Work
  <2>6. PICK c \in Nat : /\ c + Len(pending_ops') = K /\ Taken(cut.left, pending_ops', c)
                         /\ DetectorInv'
    BY <1>8, <2>1, <2>2, <2>4, Zenon
  <2> DEFINE m == Len(held) - K + c
  <2>7. l \in Nat /\ m \in Nat /\ l + q <= m /\ m + Len(pending_ops') = Len(held)
    <3>1. Len(held) \in Nat
      BY <1>4, LenProperties, Zenon
    <3>2. pending_ops' \in Seq(Op)
      BY <2>6, Zenon DEF Taken
    <3>3. Len(pending_ops') \in Nat
      BY <3>2, LenProperties, Zenon
    <3> QED
      BY <2>1, <2>6, <3>1, <3>3, SMTT(30)
  <2>8. Taken(held, dt_work'.ops, l)
    <3>1. Taken(held, cut.ops, l)
      <4>1. l + q <= Len(held) /\ \A i \in 1 .. q : Len(held) - K - q + i = l + i
        BY <1>4, <2>1, SMTT(30)
      <4>2. \A i \in 1 .. q : cut.ops[i] = held[l + i]
        BY <2>2, SMTT(30)
      <4>3. cut.ops \in Seq(Op) /\ Len(cut.ops) = q /\ l \in Nat
        BY <2>2, <2>7, SMTT(30)
      <4> HIDE DEF l
      <4> QED
        BY <4>1, <4>2, <4>3, SMTT(30) DEF Taken
    <3> QED
      BY <2>5, <3>1, SMTT(30)
  <2>9. Taken(held, pending_ops', m)
    <3>1. ASSUME NEW i \in 1 .. Len(pending_ops') PROVE pending_ops'[i] = held[m + i]
      <4>1. /\ pending_ops'[i] = cut.left[c + i] /\ c + i \in 1 .. K
            /\ Len(held) - K + (c + i) = m + i
        BY <1>4, <2>1, <2>6, LenProperties, SMTT(30) DEF Taken
      <4> QED
        BY <2>2, <4>1, SMTT(30)
    <3> QED
      BY <1>4, <2>6, <2>7, <3>1, SMTT(30) DEF Taken
  <2>10. l + Len(dt_work'.ops) <= m /\ Len(dt_work'.ops) = dt_work'.iter_len
    BY <2>2, <2>5, <2>7
  <2> HIDE DEF l, m
  <2> QED
    BY <1>4, <1>11, <1>12, <2>4, <2>5, <2>6, <2>7, <2>8, <2>9, <2>10, Zenon
<1> QED
  BY <1>6, <1>9, <1>10, Zenon

(* The batch of try_pop_batch and what it leaves in the ring. *)
LEMMA PopBatchFacts ==
    ASSUME ring \in Seq(Op), PopBatch
    PROVE  \E n \in Nat :
             /\ n <= Len(ring) /\ (n = 0 <=> ring = << >>)
             /\ dr_batch' \in Seq(Op) /\ Len(dr_batch') = n
             /\ \A i \in 1 .. n : dr_batch'[i] = ring[i]
             /\ ring' \in Seq(Op) /\ Len(ring') = Len(ring) - n
             /\ \A i \in 1 .. Len(ring) - n : ring'[i] = ring[n + i]
<1>1. PICK n : n = SmallerOf(BATCH, Len(ring))
  OBVIOUS
<1>2. Len(ring) \in Nat /\ BATCH \in Nat /\ BATCH > 0 /\ (Len(ring) = 0 <=> ring = << >>)
  BY LenProperties, EmptySeq, SizesAssumption
<1>3. n \in Nat /\ n <= Len(ring) /\ (n = 0 <=> ring = << >>)
  BY <1>1, <1>2 DEF SmallerOf
<1>4. dr_batch' = SubSeq(ring, 0 + 1, n) /\ ring' = SubSeq(ring, n + 1, Len(ring))
  <2>1. 0 + 1 = 1
    OBVIOUS
  <2> QED
    BY <1>1, <2>1, Zenon DEF PopBatch
<1>5. /\ SubSeq(ring, 0 + 1, n) \in Seq(Op) /\ Len(SubSeq(ring, 0 + 1, n)) = n - 0
      /\ \A i \in 1 .. n - 0 : SubSeq(ring, 0 + 1, n)[i] = ring[0 + i]
  BY <1>3, Slice
<1>6. n - 0 = n /\ \A i \in 1 .. n : 0 + i = i
  BY <1>3
<1>7. /\ ring' \in Seq(Op) /\ Len(ring') = Len(ring) - n
      /\ \A i \in 1 .. Len(ring) - n : ring'[i] = ring[n + i]
  BY <1>2, <1>3, <1>4, Slice, SMTT(30)
<1>8. /\ dr_batch' \in Seq(Op) /\ Len(dr_batch') = n
      /\ \A i \in 1 .. n : dr_batch'[i] = ring[i]
  BY <1>4, <1>5, <1>6, SMTT(30)
<1> QED
  BY <1>3, <1>7, <1>8

(* The queue to the build thread after a push. *)
LEMMA WorkAppended ==
    ASSUME NEW e \in Work \cup Marker, build_work \in Seq(Work \cup Marker),
           build_work' = Append(build_work, e)
    PROVE  /\ Len(build_work) \in Nat /\ DOMAIN build_work = 1 .. Len(build_work)
           /\ DOMAIN build_work' = 1 .. Len(build_work) + 1
           /\ \A i \in 1 .. Len(build_work) : build_work'[i] = build_work[i]
           /\ build_work'[Len(build_work) + 1] = e
           /\ \A i \in 1 .. Len(build_work) + 1 : i \in 1 .. Len(build_work) \/ i = Len(build_work) + 1
BY AppendFacts, SMTT(30)

(* The queue to the publishing thread after a push. *)
LEMMA PublishAppended ==
    ASSUME NEW e \in Region \cup Release \cup Marker,
           graph_publish \in Seq(Region \cup Release \cup Marker),
           graph_publish' = Append(graph_publish, e)
    PROVE  /\ Len(graph_publish) \in Nat /\ DOMAIN graph_publish = 1 .. Len(graph_publish)
           /\ DOMAIN graph_publish' = 1 .. Len(graph_publish) + 1
           /\ \A i \in 1 .. Len(graph_publish) : graph_publish'[i] = graph_publish[i]
           /\ graph_publish'[Len(graph_publish) + 1] = e
           /\ \A i \in 1 .. Len(graph_publish) + 1 :
                 i \in 1 .. Len(graph_publish) \/ i = Len(graph_publish) + 1
BY AppendFacts, SMTT(30)

(* The kinds of message and what each of them counts for. *)
LEMMA KindFacts ==
    /\ \A m \in Work : m.kind = "work" /\ Count(m) = 0
    /\ \A m \in Region : m.kind = "region" /\ Count(m) = 0
    /\ \A m \in Release : m.kind = "release" /\ Count(m) = 0
    /\ \A m \in Marker : m.kind \in {"commit", "stop"} /\ Count(m) \in Nat
<1>1. \A m \in Work : m.kind = "work" /\ Count(m) = 0
  BY DEF Work, Count
<1>2. \A m \in Region : m.kind = "region" /\ Count(m) = 0
  BY DEF Region, Count
<1>3. \A m \in Release : m.kind = "release" /\ Count(m) = 0
  BY DEF Release, Count
<1>4. \A m \in Marker : m.kind \in {"commit", "stop"} /\ Count(m) \in Nat
  BY DEF Marker, Count
<1> QED
  BY <1>1, <1>2, <1>3, <1>4

(* What the publish stage makes of the next message. *)
PopStop(m) == m.kind = "stop" /\ pb_pc' = "end" /\ UNCHANGED <<pb_region, total_processed, mtail>>
PopCommit(m) == /\ m.kind = "commit" /\ total_processed' = total_processed + Count(m)
                /\ UNCHANGED <<pb_pc, pb_region, mtail>>
PopRelease(m) == /\ m \in Region \cup Release /\ ReleaseMetaLog(m.meta_end)
                 /\ UNCHANGED <<pb_pc, pb_region, total_processed>>
PopRegion(m) == /\ m \in Region /\ pb_pc' = "publish" /\ pb_region' = m
                /\ UNCHANGED <<total_processed, mtail>>

(* The publish stage treats the next message in one of four ways. *)
LEMMA PublishPopFacts ==
    ASSUME Shape, PublishPop
    PROVE  \E m \in Region \cup Release \cup Marker :
             /\ m = graph_publish[1] /\ m = Head(graph_publish)
             /\ PopStop(m) \/ PopCommit(m) \/ PopRelease(m) \/ PopRegion(m)
<1>1. graph_publish \in Seq(Region \cup Release \cup Marker) /\ graph_publish # << >>
  BY DEF Shape, BuildShape, PublishPop
<1>2. PICK m \in Region \cup Release \cup Marker : m = Head(graph_publish) /\ m = graph_publish[1]
  BY <1>1, TailFacts, Zenon
<1>3. CASE m \in Marker
  <2>1. m.kind = "commit" \/ m.kind = "stop"
    BY <1>3, KindFacts
  <2>2. CASE m.kind = "stop"
    <3>1. PopStop(m)
      BY <1>2, <2>2 DEF PublishPop, PopStop
    <3> QED
      BY <1>2, <3>1
  <2>3. CASE m.kind = "commit"
    <3>1. total_processed' = total_processed + m.count /\ UNCHANGED <<pb_pc, pb_region, mtail>>
      BY <1>2, <2>3 DEF PublishPop
    <3>2. PopCommit(m)
      BY <2>3, <3>1 DEF PopCommit, Count
    <3> QED
      BY <1>2, <3>2
  <2> QED
    BY <2>1, <2>2, <2>3, SMTT(30)
<1>4. CASE m \in Release
  <2>1. m.kind = "release"
    BY <1>4, KindFacts
  <2>2. ReleaseMetaLog(m.meta_end) /\ UNCHANGED <<pb_pc, pb_region, total_processed>>
    BY <1>2, <2>1 DEF PublishPop
  <2>3. PopRelease(m)
    BY <1>4, <2>2, SMTT(30) DEF PopRelease
  <2> QED
    BY <1>2, <2>3
<1>5. CASE m \in Region
  <2>1. m.kind = "region"
    BY <1>5, KindFacts, SMTT(30)
  <2>2. CASE m.epoch # reset_epoch
    <3>1. ReleaseMetaLog(m.meta_end) /\ UNCHANGED <<pb_pc, pb_region, total_processed>>
      BY <1>2, <2>1, <2>2 DEF PublishPop
    <3>2. PopRelease(m)
      BY <1>5, <3>1 DEF PopRelease
    <3> QED
      BY <1>2, <3>2
  <2>3. CASE m.epoch = reset_epoch
    <3>1. pb_pc' = "publish" /\ pb_region' = m /\ UNCHANGED <<total_processed, mtail>>
      BY <1>2, <2>1, <2>3 DEF PublishPop
    <3>2. PopRegion(m)
      BY <1>5, <3>1 DEF PopRegion
    <3> QED
      BY <1>2, <3>2
  <2> QED
    BY <2>2, <2>3
<1> QED
  BY <1>3, <1>4, <1>5, SMTT(30)

-----------------------------------------------------------------------------
(* Every step keeps the types and the ops held. *)

(* The types over the steps of the foreground. *)
LEMMA ForegroundKeepsShape == Shape /\ Foreground => Shape'
<1> SUFFICES ASSUME Shape, Foreground PROVE Shape'
  OBVIOUS
<1>0. ForegroundShape /\ DrainShape /\ DetectShape /\ BuildShape
  BY DEF Shape
<1>1. UNCHANGED <<trace_batches, build_work, graph_publish, drVars, dtVars, bdVars, pbVars>>
  BY ForegroundFrame
<1>2. DrainShape' /\ DetectShape' /\ BuildShape'
  <2>1. DrainShape'
    BY <1>0, <1>1 DEF DrainShape, drVars
  <2>2. DetectShape'
    BY <1>0, <1>1 DEF DetectShape, dtVars, detectorVars
  <2>3. BuildShape'
    BY <1>0, <1>1 DEF BuildShape, bdVars, pbVars
  <2> QED
    BY <2>1, <2>2, <2>3
<1>3. mtail' = mtail
  BY <1>1 DEF pbVars
<1>4. ASSUME NEW n \in Tensors, AppendMeta(n) PROVE ForegroundShape'
  <2>1. n \in Nat /\ mhead \in Nat /\ signals \in 0 .. MaxSignals
    BY <1>0, SizesAssumption DEF ForegroundShape
  <2>2. fg_op' \in Op
    BY <1>4, <2>1 DEF AppendMeta, Op
  <2>3. mhead' \in Nat
    BY <1>4, <2>1 DEF AppendMeta
  <2> QED
    BY <1>0, <1>3, <1>4, <2>2, <2>3, SMTT(30) DEF AppendMeta, ForegroundShape
<1>5. ASSUME AppendRing PROVE ForegroundShape'
  <2>1. ring \in Seq(Op) /\ fg_op \in Op
    BY <1>0, <1>5 DEF AppendRing, ForegroundShape
  <2>2. /\ Append(ring, fg_op) \in Seq(Op) /\ Len(Append(ring, fg_op)) = Len(ring) + 1
        /\ Len(ring) \in Nat /\ RING \in Nat
    BY <2>1, AppendProperties, LenProperties, SizesAssumption
  <2>3. ring' \in Seq(Op) /\ Len(ring') <= RING
    BY <1>0, <1>5, <2>2, SMTT(30) DEF AppendRing, ForegroundShape
  <2>4. produced' \in Nat /\ produced' <= MaxOps
    BY <1>0, <1>5, SizesAssumption, SMTT(30) DEF AppendRing, ForegroundShape
  <2> QED
    BY <1>0, <1>3, <1>5, <2>3, <2>4, SMTT(30) DEF AppendRing, ForegroundShape
<1>6. ASSUME DispatchTransition PROVE ForegroundShape'
  BY <1>0, <1>3, <1>6, SMTT(30) DEF DispatchTransition, ForegroundShape
<1>7. ASSUME Diverge PROVE ForegroundShape'
  <2>1. signals' \in 0 .. MaxSignals
    BY <1>0, <1>7, SizesAssumption, SMTT(30) DEF Diverge, ForegroundShape
  <2> QED
    BY <1>0, <1>3, <1>7, <2>1, SMTT(30) DEF Diverge, ForegroundShape
<1>8. ASSUME SwitchRegion PROVE ForegroundShape'
  BY <1>0, <1>3, <1>8, SMTT(30) DEF SwitchRegion, ForegroundShape, fgVars
<1>9. ASSUME Stop PROVE ForegroundShape'
  BY <1>0, <1>3, <1>9, SMTT(30) DEF Stop, ForegroundShape, fgVars
<1> QED
  BY <1>2, <1>4, <1>5, <1>6, <1>7, <1>8, <1>9 DEF Shape, Foreground

(* The types over the steps of the drain stage. *)
LEMMA DrainKeepsShape == Shape /\ Drain => Shape'
<1> SUFFICES ASSUME Shape, Drain PROVE Shape'
  OBVIOUS
<1>0. ForegroundShape /\ DrainShape /\ DetectShape /\ BuildShape
  BY DEF Shape
<1>1. UNCHANGED <<fgVars, slot, stop_requested, reset_requested, build_work, graph_publish,
                  dtVars, bdVars, pbVars>>
  BY DrainFrame
<1>2. DetectShape'
  BY <1>0, <1>1, SMTT(30) DEF DetectShape, dtVars, detectorVars
<1>3. BuildShape'
  BY <1>0, <1>1, SMTT(30) DEF BuildShape, bdVars, pbVars
<1>4. ASSUME ring' \in Seq(Op), Len(ring') <= RING PROVE ForegroundShape'
  BY <1>0, <1>1, <1>4, SMTT(30) DEF ForegroundShape, fgVars, pbVars
<1>5. ring \in Seq(Op) /\ Len(ring) <= RING /\ Len(ring) \in Nat /\ RING \in Nat
      /\ Len(trace_batches) \in Nat /\ DEPTH \in Nat /\ dr_batch \in Seq(Op)
      /\ trace_batches \in Seq(Batch)
  BY <1>0, LenProperties, SizesAssumption, SMTT(30) DEF ForegroundShape, DrainShape
<1>6. ASSUME DrainPeek PROVE ForegroundShape' /\ DrainShape'
  BY <1>0, <1>4, <1>5, <1>6, SMTT(30) DEF DrainPeek, DrainShape
<1>7. ASSUME DrainPop PROVE ForegroundShape' /\ DrainShape'
  <2>1. PICK n \in Nat :
             /\ n <= Len(ring) /\ (n = 0 <=> ring = << >>)
             /\ dr_batch' \in Seq(Op) /\ Len(dr_batch') = n
             /\ ring' \in Seq(Op) /\ Len(ring') = Len(ring) - n
    BY <1>5, <1>7, PopBatchFacts, SMTT(30) DEF DrainPop
  <2>2. Len(ring') <= RING
    BY <1>5, <2>1
  <2>3. ring = << >> => dr_batch' = << >>
    BY <2>1, EmptySeq
  <2>4. dr_pc' \in {"peek", "push", "sentinel", "push_final"}
        /\ (dr_pc' \notin {"push", "push_final"} => ring = << >>)
    BY <1>0, <1>7 DEF DrainPop
  <2>5. UNCHANGED trace_batches
    BY <1>7 DEF DrainPop
  <2>6. DrainShape'
    BY <1>0, <2>1, <2>3, <2>4, <2>5, SMTT(30) DEF DrainShape
  <2> QED
    BY <1>4, <2>1, <2>2, <2>6, SMTT(30)
<1>8. ASSUME NEW b \in Batch, b.stop => b.ops = << >>, Len(trace_batches) < DEPTH,
             trace_batches' = Append(trace_batches, b)
      PROVE  /\ trace_batches' \in Seq(Batch) /\ Len(trace_batches') <= DEPTH
             /\ \A i \in DOMAIN trace_batches' :
                   trace_batches'[i].stop => trace_batches'[i].ops = << >>
  <2>1. /\ trace_batches' \in Seq(Batch) /\ Len(trace_batches') = Len(trace_batches) + 1
        /\ trace_batches'[Len(trace_batches) + 1] = b
        /\ \A i \in 1 .. Len(trace_batches) : trace_batches'[i] = trace_batches[i]
    BY <1>5, <1>8, AppendProperties
  <2>2. /\ DOMAIN trace_batches' = 1 .. Len(trace_batches) + 1
        /\ DOMAIN trace_batches = 1 .. Len(trace_batches)
    BY <1>5, <2>1, LenProperties
  <2>3. ASSUME NEW i \in DOMAIN trace_batches', trace_batches'[i].stop
        PROVE  trace_batches'[i].ops = << >>
    <3>1. CASE i = Len(trace_batches) + 1
      BY <1>8, <2>1, <2>3, <3>1, Zenon
    <3>2. CASE i \in 1 .. Len(trace_batches)
      BY <1>0, <2>1, <2>2, <2>3, <3>2, Zenon DEF DrainShape
    <3> QED
      BY <1>5, <2>2, <3>1, <3>2
  <2> QED
    BY <1>5, <1>8, <2>1, <2>3, SMTT(30)
<1>9. ASSUME DrainPush PROVE ForegroundShape' /\ DrainShape'
  <2> DEFINE b == [stop |-> FALSE, ops |-> dr_batch]
  <2>1. b \in Batch /\ (b.stop => b.ops = << >>)
    BY <1>5, Zenon DEF Batch
  <2>2. /\ trace_batches' \in Seq(Batch) /\ Len(trace_batches') <= DEPTH
        /\ \A i \in DOMAIN trace_batches' :
              trace_batches'[i].stop => trace_batches'[i].ops = << >>
    BY <1>8, <1>9, <2>1, Zenon DEF DrainPush
  <2>3. dr_batch' = << >> /\ dr_pc' \in {"peek", "sentinel"} /\ UNCHANGED ring
    BY <1>9 DEF DrainPush
  <2>4. << >> \in Seq(Op)
    OBVIOUS
  <2> QED
    BY <1>4, <1>5, <2>2, <2>3, <2>4, SMTT(30) DEF DrainShape
<1>10. ASSUME DrainSentinel PROVE ForegroundShape' /\ DrainShape'
  <2> DEFINE b == [stop |-> TRUE, ops |-> << >>]
  <2>1. << >> \in Seq(Op)
    OBVIOUS
  <2>2. b \in Batch /\ (b.stop => b.ops = << >>)
    BY <2>1, Zenon DEF Batch
  <2>3. /\ trace_batches' \in Seq(Batch) /\ Len(trace_batches') <= DEPTH
        /\ \A i \in DOMAIN trace_batches' :
              trace_batches'[i].stop => trace_batches'[i].ops = << >>
    BY <1>8, <1>10, <2>2 DEF DrainSentinel
  <2>4. dr_batch' = << >> /\ dr_pc' = "end" /\ UNCHANGED ring
    BY <1>0, <1>10 DEF DrainSentinel, DrainShape
  <2> QED
    BY <1>4, <1>5, <2>1, <2>3, <2>4 DEF DrainShape
<1> QED
  BY <1>2, <1>3, <1>6, <1>7, <1>9, <1>10, SMTT(30) DEF Shape, Drain

(* The types, and the ops held, over the steps of the detect stage. *)
LEMMA DetectKeepsShape == Shape /\ DetectorInv /\ Detect => Shape' /\ DetectorInv'
<1> SUFFICES ASSUME Shape, DetectorInv, Detect PROVE Shape' /\ DetectorInv'
  OBVIOUS
<1>0. ForegroundShape /\ DrainShape /\ DetectShape /\ BuildShape
  BY SMTT(30) DEF Shape
<1>1. /\ UNCHANGED <<fgVars, slot, ring, stop_requested, graph_publish, drVars, bdVars, pbVars>>
      /\ reset_requested' \in BOOLEAN
  <2>1. reset_requested' = FALSE \/ UNCHANGED reset_requested
    BY Zenon DEF Detect, DetectPop, DetectOp, DetectPushWork, DetectPushCommit, DetectPushStop
  <2> QED
    BY <1>0, <2>1, DetectFrame, Zenon DEF ForegroundShape
<1>2. ForegroundShape'
  BY <1>0, <1>1 DEF ForegroundShape, fgVars, pbVars
<1>3. BuildShape'
  BY <1>0, <1>1 DEF BuildShape, bdVars, pbVars
<1>4. ASSUME UNCHANGED trace_batches PROVE DrainShape'
  BY <1>0, <1>1, <1>4 DEF DrainShape, drVars
<1>5. ASSUME UNCHANGED detectorVars PROVE DetectorInv'
  BY <1>5 DEF DetectorInv, detectorVars
<1>6. ASSUME DetectPop PROVE DrainShape' /\ DetectShape' /\ DetectorInv'
  <2>1. /\ trace_batches # << >> /\ trace_batches' = Tail(trace_batches)
        /\ dt_pc = "pop" /\ UNCHANGED <<build_work, dt_work>>
    BY <1>6 DEF DetectPop
  <2>2. trace_batches \in Seq(Batch) /\ Len(trace_batches) <= DEPTH /\ DEPTH \in Nat
    BY <1>0, SizesAssumption DEF DrainShape
  <2>3. /\ Len(trace_batches) \in Nat \ {0} /\ DOMAIN trace_batches = 1 .. Len(trace_batches)
        /\ Head(trace_batches) = trace_batches[1] /\ Head(trace_batches) \in Batch
        /\ Tail(trace_batches) \in Seq(Batch)
        /\ Len(Tail(trace_batches)) = Len(trace_batches) - 1
        /\ DOMAIN Tail(trace_batches) = 1 .. Len(trace_batches) - 1
        /\ \A i \in 1 .. Len(trace_batches) - 1 : /\ Tail(trace_batches)[i] = trace_batches[i + 1]
                                                  /\ i + 1 \in DOMAIN trace_batches
    BY <2>1, <2>2, TailFacts, SMTT(30)
  <2>4. Len(trace_batches') <= DEPTH /\ trace_batches' \in Seq(Batch)
    BY <2>1, <2>2, <2>3
  <2>5. \A i \in DOMAIN trace_batches' : trace_batches'[i].stop => trace_batches'[i].ops = << >>
    BY <1>0, <2>1, <2>3, Zenon DEF DrainShape
  <2>6. DrainShape'
    BY <1>0, <1>1, <2>4, <2>5 DEF DrainShape, drVars
  <2>7. CASE Head(trace_batches).stop
    <3>1. dt_pc' = "push_stop" /\ UNCHANGED <<dt_batch, dt_count, detectorVars, reset_epoch>>
      BY <1>6, <2>7 DEF DetectPop
    <3>2. DetectShape'
      BY <1>0, <2>1, <3>1 DEF DetectShape, detectorVars
    <3> QED
      BY <1>5, <2>6, <3>1, <3>2
  <2>8. CASE ~Head(trace_batches).stop
    <3>1. /\ dt_pc' = "op" /\ dt_batch' = Head(trace_batches).ops /\ dt_count' = Len(dt_batch')
          /\ pending_ops' = AfterCheck.held /\ pos' = AfterCheck.pos /\ base' = AfterCheck.base
          /\ period' = AfterCheck.period /\ next_boundary' = AfterCheck.next
          /\ reset_epoch' = AfterCheck.epoch /\ UNCHANGED seen
      BY <1>6, <2>8, Zenon DEF DetectPop
    <3>2. dt_batch' \in Seq(Op)
      BY <2>3, <3>1, Zenon DEF Batch
    <3>3. Len(dt_batch') \in Nat /\ Len(dt_batch') <= Len(dt_batch')
      BY <3>2, LenProperties
    <3>4. /\ AfterCheck.held \in Seq(Op)
          /\ AfterCheck.pos \in Nat /\ AfterCheck.base \in Nat /\ AfterCheck.period \in Nat
          /\ AfterCheck.next \in Nat /\ AfterCheck.epoch \in Nat
          /\ HeldEnough(AfterCheck.pos, AfterCheck.base, AfterCheck.period, AfterCheck.next,
                        Len(AfterCheck.held))
      BY AfterCheckFacts
    <3>5. DetectorInv'
      BY <3>1, <3>4, Zenon DEF DetectorInv
    <3>6. DetectShape'
      BY <1>0, <2>1, <3>1, <3>2, <3>3, <3>4, Zenon DEF DetectShape
    <3> QED
      BY <2>6, <3>5, <3>6, Zenon
  <2> QED
    BY <2>7, <2>8
<1>7. ASSUME DetectOp PROVE DrainShape' /\ DetectShape' /\ DetectorInv'
  <2>1. /\ dt_pc = "op" /\ dt_batch # << >> /\ dt_batch' = Tail(dt_batch)
        /\ seen' = seen + 1 /\ reset_epoch' = AfterCheck.epoch
        /\ UNCHANGED <<trace_batches, dt_count, build_work>>
    BY <1>7, DetectOpMoves
  <2>2. /\ pending_ops' \in Seq(Op)
        /\ pos' \in Nat /\ base' \in Nat /\ period' \in Nat /\ next_boundary' \in Nat
        /\ DetectorInv'
        /\ \/ dt_pc' = "op" /\ dt_work' = None
           \/ dt_pc' = "push_work" /\ dt_work' \in Work
    BY <1>7, DetectOpFacts, Zenon DEF Taken
  <2>3. AfterCheck.epoch \in Nat
    BY AfterCheckFacts
  <2>4. dt_batch' \in Seq(Op) /\ Len(dt_batch') <= dt_count'
    <3>1. dt_batch \in Seq(Op) /\ Len(dt_batch) <= dt_count /\ dt_count \in Nat
      BY <1>0, <2>1 DEF DetectShape
    <3>2. Tail(dt_batch) \in Seq(Op) /\ Len(Tail(dt_batch)) = Len(dt_batch) - 1
          /\ Len(dt_batch) \in Nat
      BY <2>1, <3>1, TailFacts
    <3> QED
      BY <2>1, <3>1, <3>2
  <2>5. DetectShape'
    BY <1>0, <2>1, <2>2, <2>3, <2>4, SMTT(30) DEF DetectShape
  <2> QED
    BY <1>4, <2>1, <2>2, <2>5, SMTT(30)
<1>8. ASSUME NEW m \in Work \cup Marker, Len(build_work) < DEPTH, build_work' = Append(build_work, m)
      PROVE  build_work' \in Seq(Work \cup Marker) /\ Len(build_work') <= DEPTH
  <2>1. build_work \in Seq(Work \cup Marker) /\ DEPTH \in Nat
    BY <1>0, SizesAssumption DEF DetectShape
  <2>2. /\ Append(build_work, m) \in Seq(Work \cup Marker)
        /\ Len(Append(build_work, m)) = Len(build_work) + 1 /\ Len(build_work) \in Nat
    BY <2>1, AppendFacts
  <2> QED
    BY <1>8, <2>1, <2>2
<1>9. ASSUME DetectPushWork PROVE DrainShape' /\ DetectShape' /\ DetectorInv'
  <2>1. build_work' \in Seq(Work \cup Marker) /\ Len(build_work') <= DEPTH
    <3>1. dt_work \in Work \cup Marker
      BY <1>0, <1>9 DEF DetectShape, DetectPushWork
    <3> QED
      BY <1>8, <1>9, <3>1 DEF DetectPushWork
  <2>2. DetectShape'
    BY <1>0, <1>9, <2>1 DEF DetectShape, DetectPushWork, detectorVars
  <2> QED
    BY <1>4, <1>5, <1>9, <2>2, SMTT(30) DEF DetectPushWork
<1>10. ASSUME DetectPushCommit PROVE DrainShape' /\ DetectShape' /\ DetectorInv'
  <2>1. build_work' \in Seq(Work \cup Marker) /\ Len(build_work') <= DEPTH
    <3>1. [kind |-> "commit", count |-> dt_count] \in Work \cup Marker
      BY <1>0, Zenon DEF DetectShape, Marker
    <3> QED
      BY <1>8, <1>10, <3>1, Zenon DEF DetectPushCommit
  <2>2. DetectShape'
    BY <1>0, <1>10, <2>1 DEF DetectShape, DetectPushCommit, detectorVars
  <2> QED
    BY <1>4, <1>5, <1>10, <2>2, SMTT(30) DEF DetectPushCommit
<1>11. ASSUME DetectPushStop PROVE DrainShape' /\ DetectShape' /\ DetectorInv'
  <2>1. build_work' \in Seq(Work \cup Marker) /\ Len(build_work') <= DEPTH
    <3>1. [kind |-> "stop"] \in Work \cup Marker
      BY DEF Marker
    <3> QED
      BY <1>8, <1>11, <3>1, SMTT(30) DEF DetectPushStop
  <2>2. DetectShape'
    BY <1>0, <1>11, <2>1 DEF DetectShape, DetectPushStop, detectorVars
  <2> QED
    BY <1>4, <1>5, <1>11, <2>2, SMTT(30) DEF DetectPushStop
<1> QED
  BY <1>2, <1>3, <1>6, <1>7, <1>9, <1>10, <1>11, SMTT(30) DEF Shape, Detect

(* The types over the steps of the publish stage. *)
LEMMA PublishKeepsShape == Shape /\ Publish => Shape'
<1> SUFFICES ASSUME Shape, Publish PROVE Shape'
  OBVIOUS
<1>0. ForegroundShape /\ DrainShape /\ DetectShape /\ BuildShape
  BY DEF Shape
<1>1. UNCHANGED <<fgVars, ring, stop_requested, reset_requested, trace_batches, build_work,
                  drVars, dtVars, bdVars>>
  BY PublishFrame
<1>2. DrainShape'
  BY <1>0, <1>1, SMTT(30) DEF DrainShape, drVars
<1>3. DetectShape'
  BY <1>0, <1>1, SMTT(30) DEF DetectShape, dtVars, detectorVars
<1>4. ASSUME mtail' \in Nat, slot' \in {None} \cup 0 .. MaxSignals PROVE ForegroundShape'
  BY <1>0, <1>1, <1>4, SMTT(30) DEF ForegroundShape, fgVars
<1>5. \A m \in Region \cup Release : m.meta_end \in Nat
  BY DEF Region, Release
<1>6. \A m \in Region \cup Release : ReleaseMetaLog(m.meta_end) => mtail' \in Nat
  BY <1>0, <1>5 DEF ForegroundShape, ReleaseMetaLog
<1>7. ASSUME PublishPop PROVE ForegroundShape' /\ BuildShape'
  <2>1. PICK m \in Region \cup Release \cup Marker :
             PopStop(m) \/ PopCommit(m) \/ PopRelease(m) \/ PopRegion(m)
    BY <1>7, PublishPopFacts
  <2>2. /\ graph_publish \in Seq(Region \cup Release \cup Marker) /\ graph_publish # << >>
        /\ graph_publish' = Tail(graph_publish) /\ UNCHANGED <<slot, bdVars>> /\ pb_pc = "pop"
    BY <1>0, <1>7 DEF BuildShape, PublishPop
  <2>3. graph_publish' \in Seq(Region \cup Release \cup Marker) /\ Len(graph_publish') <= DEPTH
    <3>1. /\ Tail(graph_publish) \in Seq(Region \cup Release \cup Marker)
          /\ Len(Tail(graph_publish)) = Len(graph_publish) - 1 /\ Len(graph_publish) \in Nat
      BY <2>2, TailFacts
    <3>2. Len(graph_publish) <= DEPTH /\ DEPTH \in Nat
      BY <1>0, SizesAssumption DEF BuildShape
    <3> QED
      BY <2>2, <3>1, <3>2, SMTT(30)
  <2>4. mtail \in Nat /\ slot \in {None} \cup 0 .. MaxSignals /\ total_processed \in Nat
    BY <1>0 DEF ForegroundShape, BuildShape
  <2>5. mtail' \in Nat
    BY <1>6, <2>1, <2>4, SMTT(30) DEF PopStop, PopCommit, PopRelease, PopRegion
  <2>6. total_processed' \in Nat
    <3>1. CASE PopCommit(m)
      <4>1. m \in Marker
        BY <3>1, KindFacts DEF PopCommit
      <4>2. Count(m) \in Nat
        BY <4>1, KindFacts
      <4> QED
        BY <2>4, <3>1, <4>2, SMTT(30) DEF PopCommit
    <3> QED
      BY <2>1, <2>4, <3>1 DEF PopStop, PopRelease, PopRegion
  <2>7. /\ pb_pc' \in {"pop", "publish", "handover", "end"}
        /\ IF pb_pc' \in {"publish", "handover"} THEN pb_region' \in Region ELSE pb_region' = None
    BY <1>0, <2>1, <2>2, SMTT(30) DEF BuildShape, PopStop, PopCommit, PopRelease, PopRegion
  <2>8. BuildShape'
    BY <1>0, <2>2, <2>3, <2>6, <2>7, SMTT(30) DEF BuildShape, bdVars
  <2> QED
    BY <1>4, <2>2, <2>4, <2>5, <2>8, SMTT(30)
<1>8. ASSUME PublishRelease PROVE ForegroundShape' /\ BuildShape'
  <2>1. pb_region \in Region /\ slot \in {None} \cup 0 .. MaxSignals
    BY <1>0, <1>8 DEF BuildShape, PublishRelease, ForegroundShape
  <2>2. mtail' \in Nat /\ UNCHANGED slot
    BY <1>6, <1>8, <2>1, Zenon DEF PublishRelease
  <2>3. BuildShape'
    BY <1>0, <1>1, <1>8, <2>1, SMTT(30) DEF BuildShape, PublishRelease, bdVars
  <2> QED
    BY <1>4, <2>1, <2>2, <2>3, SMTT(30)
<1>9. ASSUME PublishHandover PROVE ForegroundShape' /\ BuildShape'
  <2>1. pb_region \in Region /\ mtail \in Nat
    BY <1>0, <1>9 DEF BuildShape, PublishHandover, ForegroundShape
  <2>2. mtail' \in Nat /\ slot' \in {None} \cup 0 .. MaxSignals
    BY <1>9, <2>1, SMTT(30) DEF PublishHandover, Region
  <2>3. BuildShape'
    BY <1>0, <1>1, <1>9 DEF BuildShape, PublishHandover, bdVars
  <2> QED
    BY <1>4, <2>2, <2>3, SMTT(30)
<1> QED
  BY <1>2, <1>3, <1>7, <1>8, <1>9, Zenon DEF Shape, Publish

(* A work on its way holds one iteration. *)
WorkInv ==
    /\ dt_pc = "push_work" => Len(dt_work.ops) = dt_work.iter_len
    /\ \A i \in DOMAIN build_work :
          build_work[i].kind = "work" => Len(build_work[i].ops) = build_work[i].iter_len
    /\ bd_pc = "build" /\ bd_out.kind = "work" => Len(bd_out.ops) = bd_out.iter_len

(* The shape and the detector, over every step. *)
CoreInv == Shape /\ DetectorInv

(* A work that the detect stage cuts is whole, and stays so. *)
LEMMA WorkStep == CoreInv /\ WorkInv /\ [Next]_vars => WorkInv'
<1> SUFFICES ASSUME CoreInv, WorkInv, [Next]_vars PROVE WorkInv'
  OBVIOUS
<1>0. Shape /\ DetectorInv /\ DetectShape /\ BuildShape /\ build_work \in Seq(Work \cup Marker)
  BY DEF CoreInv, Shape, DetectShape
<1>1. ASSUME UNCHANGED <<dt_pc, dt_work, build_work, bdVars>> PROVE WorkInv'
  BY <1>1, SMTT(30) DEF WorkInv, bdVars
<1>2. CASE Foreground
  BY <1>1, <1>2, ForegroundFrame DEF dtVars
<1>3. CASE Drain
  BY <1>1, <1>3, DrainFrame DEF dtVars
<1>4. CASE Publish
  BY <1>1, <1>4, PublishFrame DEF dtVars
<1>5. CASE DetectPop
  <2>1. dt_pc' # "push_work" /\ UNCHANGED <<build_work, bdVars>>
    BY <1>5, DetectPopMoves, DetectFrame DEF Detect
  <2> QED
    BY <2>1 DEF WorkInv, bdVars
<1>6. CASE DetectOp
  <2>1. dt_pc' = "push_work" => Len(dt_work'.ops) = dt_work'.iter_len
    BY <1>0, <1>6, DetectOpFacts, SMTT(30)
  <2>2. UNCHANGED <<build_work, bdVars>>
    BY <1>6, DetectOpMoves, DetectFrame DEF Detect
  <2> QED
    BY <2>1, <2>2, SMTT(30) DEF WorkInv, bdVars
<1>7. ASSUME NEW m \in Work \cup Marker, build_work' = Append(build_work, m),
             m.kind = "work" => Len(m.ops) = m.iter_len, dt_pc' # "push_work", UNCHANGED bdVars
      PROVE  WorkInv'
  <2>1. /\ DOMAIN build_work' = 1 .. Len(build_work) + 1
        /\ DOMAIN build_work = 1 .. Len(build_work)
        /\ \A i \in 1 .. Len(build_work) : build_work'[i] = build_work[i]
        /\ build_work'[Len(build_work) + 1] = m
        /\ \A i \in 1 .. Len(build_work) + 1 : i \in 1 .. Len(build_work) \/ i = Len(build_work) + 1
    BY <1>0, <1>7, AppendFacts, SMTT(30)
  <2>2. \A i \in DOMAIN build_work' :
           build_work'[i].kind = "work" => Len(build_work'[i].ops) = build_work'[i].iter_len
    BY <1>7, <2>1, Zenon DEF WorkInv
  <2>3. dt_pc' # "push_work" /\ UNCHANGED <<bd_pc, bd_out>>
    BY <1>7 DEF bdVars
  <2> QED
    BY <2>2, <2>3, SMTT(30) DEF WorkInv
<1>8. CASE DetectPushWork
  <2>1. dt_work \in Work \cup Marker /\ Len(dt_work.ops) = dt_work.iter_len
    BY <1>0, <1>8 DEF DetectPushWork, DetectShape, WorkInv
  <2> QED
    BY <1>7, <1>8, <2>1, Zenon DEF DetectPushWork
<1>9. CASE DetectPushCommit
  <2> DEFINE m == [kind |-> "commit", count |-> dt_count]
  <2>1. m \in Work \cup Marker /\ m.kind # "work"
    BY <1>0 DEF DetectShape, Marker
  <2> QED
    BY <1>7, <1>9, <2>1, Zenon DEF DetectPushCommit
<1>10. CASE DetectPushStop
  <2> DEFINE m == [kind |-> "stop"]
  <2>1. m \in Work \cup Marker /\ m.kind # "work"
    BY DEF Marker
  <2> QED
    BY <1>7, <1>10, <2>1, SMTT(30) DEF DetectPushStop
<1>11. CASE BuildPop
  <2>1. build_work # << >> /\ build_work' = Tail(build_work) /\ bd_out' = Head(build_work)
        /\ UNCHANGED <<dt_pc, dt_work>>
    BY <1>11 DEF BuildPop, dtVars
  <2>2. /\ DOMAIN build_work = 1 .. Len(build_work) /\ 1 \in DOMAIN build_work
        /\ Head(build_work) = build_work[1]
        /\ DOMAIN Tail(build_work) = 1 .. Len(build_work) - 1
        /\ \A i \in 1 .. Len(build_work) - 1 : /\ Tail(build_work)[i] = build_work[i + 1]
                                               /\ i + 1 \in DOMAIN build_work
    BY <1>0, <2>1, TailFacts
  <2>3. \A i \in DOMAIN build_work' :
           build_work'[i].kind = "work" => Len(build_work'[i].ops) = build_work'[i].iter_len
    BY <2>1, <2>2, Zenon DEF WorkInv
  <2>4. bd_out'.kind = "work" => Len(bd_out'.ops) = bd_out'.iter_len
    BY <2>1, <2>2, Zenon DEF WorkInv
  <2> QED
    BY <2>1, <2>3, <2>4, SMTT(30) DEF WorkInv
<1>12. CASE BuildPush
  <2>1. bd_pc' # "build" /\ UNCHANGED <<dt_pc, dt_work, build_work>>
    BY <1>12 DEF BuildPush, dtVars
  <2> QED
    BY <2>1 DEF WorkInv
<1>13. CASE UNCHANGED vars
  BY <1>1, <1>13, Zenon DEF vars, dtVars
<1> QED
  BY <1>2, <1>3, <1>4, <1>5, <1>6, <1>8, <1>9, <1>10, <1>11, <1>12, <1>13 DEF Next, Detect, Build

(* Where the works and the messages are. *)
LEMMA WorksAre ==
    ASSUME Shape, NEW w \in Works
    PROVE  \/ dt_pc = "push_work" /\ w = dt_work /\ w \in Work
           \/ \E i \in 1 .. Len(build_work) :
                w = build_work[i] /\ build_work[i].kind = "work" /\ w \in Work
           \/ bd_pc = "build" /\ w = bd_out /\ bd_out.kind = "work" /\ w \in Work
<1>1. w # None /\ w.kind = "work" /\ (w \in Range(build_work) \/ w = dt_work \/ w = bd_out)
  BY DEF Works
<1>2. \A m \in Work \cup Marker : m.kind = "work" => m \in Work
  BY KindFacts
<1>3. CASE w \in Range(build_work)
  <2>1. PICK i \in DOMAIN build_work : w = build_work[i]
    BY <1>3 DEF Range
  <2>2. i \in 1 .. Len(build_work) /\ build_work[i] \in Work \cup Marker
    BY LenProperties, ElementOfSeq, SMTT(30) DEF Shape, DetectShape
  <2> QED
    BY <1>1, <1>2, <2>1, <2>2, SMTT(30)
<1>4. CASE w = dt_work
  BY <1>1, <1>4, SMTT(30) DEF Shape, DetectShape
<1>5. CASE w = bd_out
  BY <1>1, <1>2, <1>5, SMTT(30) DEF Shape, BuildShape
<1> QED
  BY <1>1, <1>3, <1>4, <1>5, SMTT(30)

-----------------------------------------------------------------------------
(* Induction, and the end of the metadata of a work. *)

(* A set of natural numbers has a least one: what is used of induction.
   Lemma LeastHolds of PipelineLogProofs proves it from the theorems on
   well-founded relations. *)
LeastNumber == \A S \in SUBSET Nat : S # {} => \E n \in S : \A m \in S : n <= m

(* The least number of a set. *)
LEMMA LeastNat ==
    ASSUME LeastNumber, NEW S, S \subseteq Nat, S # {}
    PROVE  \E n \in S : \A m \in S : n <= m
BY Zenon DEF LeastNumber

(* Induction, for a set. *)
LEMMA Induction ==
    ASSUME LeastNumber, NEW S, 0 \in S, \A n \in Nat : n \in S => n + 1 \in S
    PROVE  Nat \subseteq S
<1> DEFINE T == Nat \ S
<1> SUFFICES ASSUME T # {} PROVE FALSE
  OBVIOUS
<1>1. PICK n \in T : \A m \in T : n <= m
  BY LeastNat, Zenon
<1>2. n # 0 /\ n \in Nat
  OBVIOUS
<1>3. n - 1 \in Nat /\ n - 1 \in S /\ n - 1 + 1 = n
  BY <1>1, <1>2
<1> QED
  BY <1>3

(* The part of a work that the scan reads is a prefix of its ops. *)
LEMMA ScannedFacts ==
    ASSUME LeastNumber, NEW s \in Seq(Op)
    PROVE  /\ Scanned(s) \in Seq(Op) /\ Len(Scanned(s)) <= Len(s)
           /\ \A i \in 1 .. Len(Scanned(s)) : Scanned(s)[i] = s[i]
<1>1. Len(s) \in Nat /\ DOMAIN s = 1 .. Len(s)
  BY LenProperties
<1>2. CASE Overflows(s) = {}
  BY <1>1, <1>2 DEF Scanned
<1>3. CASE Overflows(s) # {}
  <2>1. Overflows(s) \subseteq 1 .. Len(s)
    BY <1>1 DEF Overflows
  <2>2. Min(Overflows(s)) \in Overflows(s)
    <3>1. \E x \in Overflows(s) : \A y \in Overflows(s) : x <= y
      BY <1>1, <1>3, <2>1, LeastNat, SMTT(30)
    <3> QED
      BY <3>1 DEF Min
  <2> DEFINE k == Min(Overflows(s)) - 1
  <2>3. k \in Nat /\ k <= Len(s)
    BY <1>1, <2>1, <2>2
  <2>4. Scanned(s) = SubSeq(s, 0 + 1, k)
    <3>1. 0 + 1 = 1
      OBVIOUS
    <3> QED
      BY <1>3, <3>1, Zenon DEF Scanned
  <2> HIDE DEF k
  <2>5. /\ SubSeq(s, 0 + 1, k) \in Seq(Op) /\ Len(SubSeq(s, 0 + 1, k)) = k - 0
        /\ \A i \in 1 .. k - 0 : SubSeq(s, 0 + 1, k)[i] = s[0 + i]
    BY <2>3, Slice
  <2>6. k - 0 = k /\ \A i \in 1 .. k : 0 + i = i
    BY <2>3
  <2> QED
    BY <2>3, <2>4, <2>5, <2>6, SMTT(30)
<1> QED
  BY <1>2, <1>3

(* The end of a work's metadata is the end of one of its ops, or zero. *)
LEMMA MetaEndFacts ==
    ASSUME LeastNumber, NEW s \in Seq(Op)
    PROVE  /\ MetaEnd(s) \in Nat
           /\ MetaEnd(s) > 0 => \E i \in 1 .. Len(s) : /\ s[i].meta_start # NoMeta
                                                       /\ MetaEnd(s) = s[i].meta_start + s[i].n
(* A bounded set of numbers has a greatest one. *)
<1>GreatestNat.
    ASSUME NEW S, S \subseteq Nat, S # {}, NEW b \in Nat, \A x \in S : x <= b
    PROVE  \E n \in S : \A m \in S : n >= m
  <2> USE <1>GreatestNat
  <2> DEFINE T == {b - x : x \in S}
  <2>0. \A x \in S : x \in Nat /\ b - x \in Nat
    OBVIOUS
  <2>1. T \subseteq Nat /\ T # {}
    BY <2>0, Zenon
  <2>2. PICK t \in T : \A u \in T : t <= u
    BY <2>1, LeastNat, Zenon
  <2>3. PICK n \in S : t = b - n
    OBVIOUS
  <2>4. ASSUME NEW m \in S PROVE n >= m
    <3>1. m \in Nat /\ n \in Nat
      OBVIOUS
    <3>2. b - n <= b - m
      BY <2>2, <2>3, Zenon
    <3> QED
      BY <3>1, <3>2
  <2> QED
    BY <2>4
(* The numbers of a finite sequence have a bound. *)
<1>Bounded.
    ASSUME NEW k \in Nat, NEW v, \A i \in 1 .. k : v[i] \in Nat
    PROVE  \E b \in Nat : \A i \in 1 .. k : v[i] <= b
  <2> USE <1>Bounded
  <2> DEFINE S == {j \in Nat : j <= k => \E b \in Nat : \A i \in 1 .. j : v[i] <= b}
  <2>1. 0 \in S
    OBVIOUS
  <2>2. ASSUME NEW j \in Nat, j \in S PROVE j + 1 \in S
    <3> SUFFICES ASSUME j + 1 <= k PROVE \E b \in Nat : \A i \in 1 .. j + 1 : v[i] <= b
      OBVIOUS
    <3>1. PICK b \in Nat : \A i \in 1 .. j : v[i] <= b
      BY <2>2
    <3>2. v[j + 1] \in Nat /\ \A i \in 1 .. j + 1 : v[i] \in Nat /\ (i # j + 1 => i \in 1 .. j)
      OBVIOUS
    <3>3. \A i \in 1 .. j + 1 : v[i] <= b + v[j + 1]
      BY <3>1, <3>2
    <3>4. b + v[j + 1] \in Nat
      BY <3>2
    <3> QED
      BY <3>3, <3>4, Zenon
  <2>3. Nat \subseteq S
    <3> HIDE DEF S
    <3> QED
      BY <2>1, <2>2, Induction
  <2>4. k \in S
    <3> HIDE DEF S
    <3> QED
      BY <2>3
  <2> QED
    BY <2>4
<1> DEFINE t == Scanned(s)
           k == Len(t)
           E == {0} \cup {t[i].meta_start + t[i].n : i \in Indexed(t)}
           v == [i \in 1 .. k |-> IF i \in Indexed(t) THEN t[i].meta_start + t[i].n ELSE 0]
<1>1. /\ t \in Seq(Op) /\ k \in Nat /\ k <= Len(s) /\ \A i \in 1 .. k : t[i] = s[i]
      /\ DOMAIN t = 1 .. k
  BY ScannedFacts, LenProperties
<1>2. MetaEnd(s) = Max(E)
  BY DEF MetaEnd
<1> HIDE DEF t, k
<1>3. \A i \in Indexed(t) : i \in 1 .. k /\ t[i].meta_start # NoMeta /\ t[i].meta_start + t[i].n \in Nat
  <2> TAKE i \in Indexed(t)
  <2>1. i \in 1 .. k /\ t[i] \in Op /\ t[i].meta_start # NoMeta
    BY <1>1, ElementOfSeq DEF Indexed, k
  <2>2. t[i].meta_start \in Nat /\ t[i].n \in Nat
    <3>1. t[i].meta_start \in Nat \cup {NoMeta} /\ t[i].n \in Tensors
      BY <2>1, Zenon DEF Op
    <3>2. Tensors \subseteq Nat
      BY SizesAssumption
    <3> QED
      BY <2>1, <3>1, <3>2, Zenon
  <2> QED
    BY <2>1, <2>2, SMTT(30)
<1>4. E \subseteq Nat /\ E # {}
  BY <1>3
<1>5. \A i \in 1 .. k : v[i] \in Nat
  BY <1>3
<1>6. PICK b \in Nat : \A i \in 1 .. k : v[i] <= b
  <2> HIDE DEF v
  <2> QED
    BY <1>1, <1>5, <1>Bounded, Zenon
<1>7. \A x \in E : x <= b
  BY <1>3, <1>6
<1>8. \E x \in E : \A y \in E : x >= y
  <2> HIDE DEF E
  <2> QED
    BY <1>4, <1>7, <1>GreatestNat, Zenon
<1>9. Max(E) \in E
  <2> HIDE DEF E
  <2> QED
    BY <1>8 DEF Max
<1>10. ASSUME Max(E) > 0
       PROVE  \E i \in 1 .. Len(s) : s[i].meta_start # NoMeta /\ Max(E) = s[i].meta_start + s[i].n
  <2>1. Max(E) # 0
    BY <1>4, <1>9, <1>10
  <2>2. PICK i \in Indexed(t) : Max(E) = t[i].meta_start + t[i].n
    BY <1>9, <2>1, Zenon
  <2>3. i \in 1 .. k /\ i \in 1 .. Len(s) /\ t[i] = s[i]
    <3>1. i \in 1 .. k /\ t[i] = s[i] /\ k \in Nat /\ k <= Len(s)
      BY <1>1, <1>3, Zenon
    <3>2. Len(s) \in Nat
      BY LenProperties, Zenon
    <3> QED
      BY <3>1, <3>2, SMTT(30)
  <2> QED
    BY <1>3, <2>2, <2>3, Zenon
<1> QED
  BY <1>2, <1>4, <1>9, <1>10, Zenon

(* What the push of the build stage adds to the channel. *)
Sent(m) ==
    /\ Len(graph_publish) < DEPTH /\ m \in Region \cup Release \cup Marker
    /\ graph_publish' = Append(graph_publish, m)
    /\ \/ bd_out \in Marker /\ m = bd_out
       \/ /\ bd_out \in Work /\ m \in Region \cup Release
          /\ m.cut_at = bd_out.cut_at /\ m.meta_end = MetaEnd(bd_out.ops)

(* The build stage drops its work, or sends one message. *)
LEMMA BuildPushFacts ==
    ASSUME LeastNumber, Shape, BuildPush
    PROVE  (bd_out \in Work /\ UNCHANGED graph_publish) \/ \E m : Sent(m)
(* What the build stage sends on. *)
<1>BuildResultFacts.
    ASSUME NEW w \in Work
    PROVE  \/ BuildResult(w) = << >>
           \/ \E m \in Region \cup Release :
                /\ BuildResult(w) = <<m>> /\ m.kind \in {"region", "release"}
                /\ m.cut_at = w.cut_at /\ m.meta_end = MetaEnd(w.ops)
  <2>1. w.kind = "work" /\ w.ops \in Seq(Op) /\ w.ops # << >> /\ w.epoch \in Nat /\ w.cut_at \in Nat
    BY DEF Work
  <2>2. MetaEnd(w.ops) \in Nat
    BY <2>1, MetaEndFacts
  <2> DEFINE traces == {w.ops[i].trace : i \in DOMAIN w.ops}
  <2>3. Min(traces) \in 0 .. MaxSignals
    <3>1. DOMAIN w.ops = 1 .. Len(w.ops) /\ Len(w.ops) \in Nat \ {0}
      BY <2>1, LenProperties, EmptySeq
    <3>2. \A i \in DOMAIN w.ops : w.ops[i].trace \in 0 .. MaxSignals
      <4>1. \A i \in 1 .. Len(w.ops) : w.ops[i] \in Op
        BY <2>1, ElementOfSeq
      <4> QED
        BY <3>1, <4>1 DEF Op
    <3>3. traces \subseteq 0 .. MaxSignals /\ traces # {}
      <4>1. 1 \in DOMAIN w.ops
        BY <3>1
      <4>2. w.ops[1].trace \in traces
        BY <4>1
      <4> QED
        BY <3>2, <4>2, Zenon
    <3> HIDE DEF traces
    <3>4. \E x \in traces : \A y \in traces : x <= y
      <4>1. traces \subseteq Nat
        BY <3>3, SizesAssumption
      <4> QED
        BY <3>3, <4>1, LeastNat, Zenon
    <3> QED
      BY <3>3, <3>4, Zenon DEF Min
  <2>4. CASE Overflows(w.ops) = {}
    <3> DEFINE m == [kind |-> "region", meta_end |-> MetaEnd(w.ops), epoch |-> w.epoch,
                     trace |-> Min(traces), cut_at |-> w.cut_at]
    <3>1. BuildResult(w) = <<m>>
      BY <2>1, <2>4, Zenon DEF BuildResult
    <3>2. m \in Region /\ m.kind = "region" /\ m.cut_at = w.cut_at /\ m.meta_end = MetaEnd(w.ops)
      BY <2>1, <2>2, <2>3, Zenon DEF Region
    <3> HIDE DEF m
    <3> QED
      BY <3>1, <3>2
  <2>5. CASE Overflows(w.ops) # {}
    <3> DEFINE m == [kind |-> "release", meta_end |-> MetaEnd(w.ops), cut_at |-> w.cut_at]
    <3>1. BuildResult(w) = <<m>> \/ BuildResult(w) = << >>
      BY <2>1, <2>5, Zenon DEF BuildResult
    <3>2. m \in Release /\ m.kind = "release" /\ m.cut_at = w.cut_at /\ m.meta_end = MetaEnd(w.ops)
      BY <2>1, <2>2, Zenon DEF Release
    <3> HIDE DEF m
    <3> QED
      BY <3>1, <3>2, Zenon
  <2> QED
    BY <2>4, <2>5, Zenon
<1>1. /\ bd_out \in Work \cup Marker /\ graph_publish \in Seq(Region \cup Release \cup Marker)
      /\ graph_publish' = graph_publish \o BuildResult(bd_out)
      /\ Len(graph_publish) < DEPTH \/ BuildResult(bd_out) = << >>
  BY DEF Shape, BuildShape, BuildPush
<1>2. \A m : <<m>> # << >>
  OBVIOUS
<1>3. \A m \in Region \cup Release \cup Marker :
         graph_publish \o <<m>> = Append(graph_publish, m)
  BY <1>1
<1>4. graph_publish \o << >> = graph_publish
  BY <1>1
<1>5. CASE bd_out \in Marker
  <2>1. BuildResult(bd_out) = <<bd_out>>
    BY <1>5, KindFacts DEF BuildResult
  <2>2. Sent(bd_out)
    BY <1>1, <1>2, <1>3, <1>5, <2>1, Zenon DEF Sent
  <2> QED
    BY <2>2, Zenon
<1>6. CASE bd_out \in Work
  <2>1. CASE BuildResult(bd_out) = << >>
    BY <1>1, <1>4, <1>6, <2>1, SMTT(30)
  <2>2. CASE BuildResult(bd_out) # << >>
    <3>1. PICK m \in Region \cup Release :
                /\ BuildResult(bd_out) = <<m>>
                /\ m.cut_at = bd_out.cut_at /\ m.meta_end = MetaEnd(bd_out.ops)
      BY <1>6, <2>2, <1>BuildResultFacts
    <3>2. m \in Region \cup Release \cup Marker
      OBVIOUS
    <3>3. Sent(m)
      BY <1>1, <1>3, <1>6, <2>2, <3>1, <3>2, Zenon DEF Sent
    <3> QED
      BY <3>3
  <2> QED
    BY <2>1, <2>2
<1> QED
  BY <1>1, <1>5, <1>6, Zenon

(* The types over the steps of the build stage. *)
LEMMA BuildKeepsShape ==
    ASSUME LeastNumber PROVE Shape /\ Build => Shape'
<1> SUFFICES ASSUME Shape, Build PROVE Shape'
  OBVIOUS
<1>0. ForegroundShape /\ DrainShape /\ DetectShape /\ BuildShape
  BY DEF Shape
<1>1. UNCHANGED <<fgVars, slot, ring, stop_requested, reset_requested, trace_batches,
                  drVars, dtVars, pbVars>>
  BY BuildFrame
<1>2. ForegroundShape'
  BY <1>0, <1>1 DEF ForegroundShape, fgVars, pbVars
<1>3. DrainShape'
  BY <1>0, <1>1, Zenon DEF DrainShape, drVars
<1>4. DEPTH \in Nat /\ build_work \in Seq(Work \cup Marker)
      /\ graph_publish \in Seq(Region \cup Release \cup Marker)
  BY <1>0, SizesAssumption DEF DetectShape, BuildShape
<1>5. ASSUME BuildPop PROVE DetectShape' /\ BuildShape'
  <2>1. /\ Len(build_work) \in Nat /\ Tail(build_work) \in Seq(Work \cup Marker)
        /\ Len(Tail(build_work)) = Len(build_work) - 1
        /\ Head(build_work) \in Work \cup Marker
    BY <1>4, <1>5, TailFacts, SMTT(30) DEF BuildPop
  <2>2. build_work' \in Seq(Work \cup Marker) /\ Len(build_work') <= DEPTH
    BY <1>0, <1>4, <1>5, <2>1, SMTT(30) DEF DetectShape, BuildPop
  <2>3. DetectShape'
    BY <1>0, <1>1, <2>2, Zenon DEF DetectShape, dtVars, detectorVars
  <2>4. BuildShape'
    BY <1>0, <1>1, <1>5, <2>1, Zenon DEF BuildShape, BuildPop, pbVars
  <2> QED
    BY <2>3, <2>4, SMTT(30)
<1>6. ASSUME BuildPush PROVE DetectShape' /\ BuildShape'
  <2>1. DetectShape'
    BY <1>0, <1>1, <1>6 DEF DetectShape, BuildPush, dtVars, detectorVars
  <2>2. graph_publish' \in Seq(Region \cup Release \cup Marker) /\ Len(graph_publish') <= DEPTH
    <3>1. CASE UNCHANGED graph_publish
      BY <1>0, <3>1 DEF BuildShape
    <3>2. ASSUME NEW m, Sent(m)
          PROVE  graph_publish' \in Seq(Region \cup Release \cup Marker) /\ Len(graph_publish') <= DEPTH
      <4>1. m \in Region \cup Release \cup Marker /\ graph_publish' = Append(graph_publish, m)
            /\ Len(graph_publish) < DEPTH
        BY <3>2, Zenon DEF Sent
      <4>2. /\ Append(graph_publish, m) \in Seq(Region \cup Release \cup Marker)
            /\ Len(Append(graph_publish, m)) = Len(graph_publish) + 1
            /\ Len(graph_publish) \in Nat
        BY <1>4, <4>1, AppendFacts, SMTT(30)
      <4> QED
        BY <1>4, <4>1, <4>2
    <3> QED
      BY <1>6, <3>1, <3>2, BuildPushFacts, SMTT(30)
  <2>3. BuildShape'
    BY <1>0, <1>1, <1>6, <2>2, SMTT(30) DEF BuildShape, BuildPush, pbVars
  <2> QED
    BY <2>1, <2>3
<1> QED
  BY <1>2, <1>3, <1>5, <1>6, SMTT(30) DEF Shape, Build

(* The pipeline starts with its types and nothing held. *)
LEMMA CoreInit == Init => CoreInv
(* Each step keeps the shape of the containers it touches. *)
<1>InitShape.      Init => Shape
  <2> SUFFICES ASSUME Init PROVE Shape
    OBVIOUS
  <2>0. << >> \in Seq(Op) /\ << >> \in Seq(Batch) /\ << >> \in Seq(Work \cup Marker)
        /\ << >> \in Seq(Region \cup Release \cup Marker) /\ Len(<< >>) = 0
    OBVIOUS
  <2> USE DEF Init
  <2>1. ForegroundShape
    <3>1. 0 <= RING /\ 0 <= MaxOps /\ 0 \in 0 .. MaxSignals
      BY SizesAssumption
    <3> QED
      BY <2>0, <3>1, Zenon DEF ForegroundShape
  <2>2. DrainShape
    BY <2>0, SizesAssumption DEF DrainShape
  <2>3. DetectShape
    BY <2>0, SizesAssumption DEF DetectShape
  <2>4. BuildShape
    BY <2>0, SizesAssumption DEF BuildShape
  <2> QED
    BY <2>1, <2>2, <2>3, <2>4 DEF Shape
<1>1. Init => DetectorInv
  BY HistoryAssumption, EmptySeq DEF Init, DetectorInv, HeldEnough, SearchFloor
<1> QED
  BY <1>1, <1>InitShape DEF CoreInv

(* Every step keeps the types and the ops held. *)
LEMMA CoreStep ==
    ASSUME LeastNumber PROVE CoreInv /\ [Next]_vars => CoreInv'
<1> SUFFICES ASSUME CoreInv, [Next]_vars PROVE CoreInv'
  OBVIOUS
<1>0. Shape /\ DetectorInv
  BY DEF CoreInv
<1>1. CASE Detect
  BY <1>0, <1>1, DetectKeepsShape, SMTT(30) DEF CoreInv
<1>2. CASE Foreground \/ Drain \/ Build \/ Publish
  <2>1. Shape'
    BY <1>0, <1>2, ForegroundKeepsShape, DrainKeepsShape, BuildKeepsShape, PublishKeepsShape, Zenon
  <2>2. UNCHANGED detectorVars
    BY <1>2, ForegroundFrame, DrainFrame, BuildFrame, PublishFrame DEF dtVars
  <2>3. DetectorInv'
    BY <1>0, <2>2, Zenon DEF DetectorInv, detectorVars
  <2> QED
    BY <2>1, <2>3 DEF CoreInv
<1>3. CASE UNCHANGED vars
  <2> USE DEF vars
  <2>3. ForegroundShape'
    BY <1>0, <1>3, SMTT(30) DEF Shape, ForegroundShape, fgVars, pbVars
  <2>4. DrainShape'
    BY <1>0, <1>3, Zenon DEF Shape, DrainShape, drVars
  <2>5. DetectShape'
    BY <1>0, <1>3, Zenon DEF Shape, DetectShape, dtVars, detectorVars
  <2>6. BuildShape'
    BY <1>0, <1>3, Zenon DEF Shape, BuildShape, bdVars, pbVars
  <2>1. Shape'
    BY <2>3, <2>4, <2>5, <2>6, Zenon DEF Shape
  <2>2. DetectorInv'
    BY <1>0, <1>3 DEF DetectorInv, vars, dtVars, detectorVars
  <2> QED
    BY <2>1, <2>2 DEF CoreInv
<1> QED
  BY <1>1, <1>2, <1>3, SMTT(30) DEF Next

-----------------------------------------------------------------------------
(* Whole works. *)

(* The inductive invariant of the works: types, ops held, whole iterations. *)
WholeInv == CoreInv /\ WorkInv

(* The pipeline starts with no work. *)
LEMMA WholeInit == Init => WholeInv
<1>1. Init => WorkInv
  BY EmptySeq DEF Init, WorkInv
<1> QED
  BY <1>1, CoreInit DEF WholeInv

(* Every step keeps the works whole. *)
LEMMA WholeStep ==
    ASSUME LeastNumber PROVE WholeInv /\ [Next]_vars => WholeInv'
BY CoreStep, WorkStep, Zenon DEF WholeInv

(* Where the invariant holds, the works are iterations. *)
LEMMA IterationsState == WholeInv => WorksAreIterations
<1> SUFFICES ASSUME WholeInv, NEW w \in Works PROVE Len(w.ops) = w.iter_len
  BY DEF WorksAreIterations
<1>1. Shape /\ WorkInv /\ DOMAIN build_work = 1 .. Len(build_work)
  BY LenProperties DEF WholeInv, CoreInv, Shape, DetectShape
<1> QED
  BY <1>1, WorksAre, SMTT(30) DEF WorkInv

-----------------------------------------------------------------------------
(* Sums, and the counts along the pipeline. *)

(* f holds the sums of the first numbers of s, up to the kth. *)
SumsUpTo(f, s, k) ==
    f \in [0 .. k -> Nat] /\ f[0] = 0 /\ \A n \in 1 .. k : f[n] = f[n - 1] + s[n]

(* Every list of numbers has its running sums. *)
LEMMA SumsExist ==
    ASSUME LeastNumber, NEW s \in Seq(Nat) PROVE \E f : SumsUpTo(f, s, Len(s))
<1> DEFINE S == {k \in Nat : k <= Len(s) => \E f : SumsUpTo(f, s, k)}
<1>0. Len(s) \in Nat /\ \A i \in 1 .. Len(s) : s[i] \in Nat
  BY LenProperties, ElementOfSeq
<1>1. 0 \in S
  <2>1. SumsUpTo([n \in 0 .. 0 |-> 0], s, 0)
    BY DEF SumsUpTo
  <2> QED
    BY <2>1
<1>2. ASSUME NEW k \in Nat, k \in S PROVE k + 1 \in S
  <2> SUFFICES ASSUME k + 1 <= Len(s) PROVE \E f : SumsUpTo(f, s, k + 1)
    OBVIOUS
  <2>1. PICK f : SumsUpTo(f, s, k)
    BY <1>0, <1>2
  <2> DEFINE g == [n \in 0 .. k + 1 |-> IF n <= k THEN f[n] ELSE f[k] + s[k + 1]]
  <2>2. s[k + 1] \in Nat
    BY <1>0
  <2>3. /\ f \in [0 .. k -> Nat] /\ f[0] = 0
        /\ \A n \in 1 .. k : f[n] = f[n - 1] + s[n]
    BY <2>1 DEF SumsUpTo
  <2>4. g \in [0 .. k + 1 -> Nat] /\ g[0] = 0
    BY <2>2, <2>3, SMTT(30)
  <2>5. ASSUME NEW n \in 1 .. k + 1 PROVE g[n] = g[n - 1] + s[n]
    <3>1. n - 1 \in 0 .. k /\ n \in 0 .. k + 1 /\ (n <= k => n \in 1 .. k)
          /\ (~(n <= k) => n = k + 1 /\ n - 1 = k)
      OBVIOUS
    <3> QED
      BY <2>3, <3>1
  <2>6. SumsUpTo(g, s, k + 1)
    BY <2>4, <2>5, Zenon DEF SumsUpTo
  <2> QED
    BY <2>6
<1>3. Nat \subseteq S
  <2> HIDE DEF S
  <2> QED
    BY <1>1, <1>2, Induction, Zenon
<1> QED
  BY <1>0, <1>3

(* The partial sums of a sequence of numbers, one after the other. *)
LEMMA SumsFacts ==
    ASSUME LeastNumber, NEW s \in Seq(Nat) PROVE SumsUpTo(Sums(s), s, Len(s))
<1>1. PICK f : SumsUpTo(f, s, Len(s))
  BY SumsExist
<1>2. Len(s) \in Nat
  BY LenProperties
<1>3. f = [n \in 0 .. Len(s) |-> IF n = 0 THEN 0 ELSE f[n - 1] + s[n]]
  BY <1>1, <1>2 DEF SumsUpTo
<1>4. Sums(s) = [n \in 0 .. Len(s) |-> IF n = 0 THEN 0 ELSE Sums(s)[n - 1] + s[n]]
  BY <1>3, Zenon DEF Sums
<1> DEFINE g == Sums(s)
<1> HIDE DEF g
<1>5. g = [n \in 0 .. Len(s) |-> IF n = 0 THEN 0 ELSE g[n - 1] + s[n]]
  BY <1>4, Zenon DEF g
<1> DEFINE S == {k \in Nat : k <= Len(s) => g[k] \in Nat}
<1>6. 0 \in S
  BY <1>2, <1>5
<1>7. ASSUME NEW k \in Nat, k \in S PROVE k + 1 \in S
  <2> SUFFICES ASSUME k + 1 <= Len(s) PROVE g[k + 1] \in Nat
    BY <1>2
  <2>1. g[k + 1] = g[k] + s[k + 1] /\ g[k] \in Nat
    BY <1>2, <1>5, <1>7
  <2>2. s[k + 1] \in Nat
    BY <1>2, ElementOfSeq
  <2> QED
    BY <2>1, <2>2
<1>8. Nat \subseteq S
  BY <1>6, <1>7, Induction, Zenon
<1>9. \A k \in 0 .. Len(s) : g[k] \in Nat
  BY <1>2, <1>8
<1>10. DOMAIN g = 0 .. Len(s) /\ g[0] = 0 /\ \A n \in 1 .. Len(s) : g[n] = g[n - 1] + s[n]
  BY <1>2, <1>5, SMTT(30)
<1>11. g = [n \in 0 .. Len(s) |-> g[n]]
  BY <1>5
<1>12. SumsUpTo(g, s, Len(s))
  BY <1>9, <1>10, <1>11, Zenon DEF SumsUpTo
<1> QED
  BY <1>12 DEF g

(* The sums of a sequence of numbers are numbers, and grow. *)
LEMMA SumsType ==
    ASSUME LeastNumber, NEW s \in Seq(Nat)
    PROVE  /\ Total(s) \in Nat /\ \A i \in 0 .. Len(s) : Sums(s)[i] \in Nat
<1>1. Len(s) \in Nat
  BY LenProperties
<1>2. Sums(s) \in [0 .. Len(s) -> Nat]
  BY SumsFacts DEF SumsUpTo
<1>3. \A i \in 0 .. Len(s) : Sums(s)[i] \in Nat
  BY <1>2
<1>4. Len(s) \in 0 .. Len(s)
  BY <1>1
<1> QED
  BY <1>3, <1>4 DEF Total

(* Sequences with the same length and the same entries are the same. *)
LEMMA SameSeq ==
    ASSUME NEW S, NEW s \in Seq(S), NEW t \in Seq(S), NEW n,
           Len(s) = n, Len(t) = n, \A i \in 1 .. n : s[i] = t[i]
    PROVE  s = t
OBVIOUS

(* A number added at the end leaves the earlier sums alone. *)
LEMMA SumsAppend ==
    ASSUME LeastNumber, NEW s \in Seq(Nat), NEW x \in Nat
    PROVE  /\ \A i \in 0 .. Len(s) : Sums(Append(s, x))[i] = Sums(s)[i]
           /\ Sums(Append(s, x))[Len(s) + 1] = Total(s) + x
           /\ Total(Append(s, x)) = Total(s) + x
<1> DEFINE t == Append(s, x)
<1>1. /\ t \in Seq(Nat) /\ Len(t) = Len(s) + 1 /\ Len(s) \in Nat
      /\ t[Len(s) + 1] = x /\ \A i \in 1 .. Len(s) : s[i] = t[i]
  BY AppendProperties, LenProperties
<1> HIDE DEF t
<1>2. SumsUpTo(Sums(s), s, Len(s)) /\ SumsUpTo(Sums(t), t, Len(t))
  BY <1>1, SumsFacts
<1> DEFINE S == {i \in Nat : i <= Len(s) => Sums(s)[i] = Sums(t)[i]}
<1>a. 0 \in S
  BY <1>2 DEF SumsUpTo
<1>b. ASSUME NEW i \in Nat, i \in S PROVE i + 1 \in S
  <2> SUFFICES ASSUME i + 1 <= Len(s) PROVE Sums(s)[i + 1] = Sums(t)[i + 1]
    BY <1>1
  <2>1. /\ i + 1 \in 1 .. Len(s) /\ i + 1 \in 1 .. Len(t) /\ (i + 1) - 1 = i
        /\ i <= Len(s)
    BY <1>1
  <2>2. Sums(s)[i + 1] = Sums(s)[i] + s[i + 1] /\ Sums(t)[i + 1] = Sums(t)[i] + t[i + 1]
    BY <1>2, <2>1 DEF SumsUpTo
  <2>3. Sums(s)[i] = Sums(t)[i] /\ s[i + 1] = t[i + 1]
    BY <1>1, <1>b, <2>1
  <2> QED
    BY <2>2, <2>3
<1>3. \A i \in 0 .. Len(s) : Sums(s)[i] = Sums(t)[i]
  <2>1. Nat \subseteq S
    BY <1>a, <1>b, Induction, Zenon
  <2> QED
    BY <1>1, <2>1
<1>4. Sums(t)[Len(s) + 1] = Sums(t)[Len(s)] + x
  BY <1>1, <1>2, SMTT(30) DEF SumsUpTo
<1> QED
  BY <1>1, <1>3, <1>4 DEF Total, t

(* The sums of a sequence of numbers that grows at its end, or loses its
   first number. *)
LEMMA SumsGrow ==
    ASSUME LeastNumber, NEW s \in Seq(Nat), NEW t \in Seq(Nat), NEW x \in Nat, Len(t) = Len(s) + 1,
           t[Len(s) + 1] = x, \A i \in 1 .. Len(s) : t[i] = s[i]
    PROVE  /\ Total(t) = Total(s) + x /\ Sums(t)[Len(s) + 1] = Total(s) + x
           /\ \A i \in 0 .. Len(s) : Sums(t)[i] = Sums(s)[i]
<1> DEFINE u == Append(s, x)
<1>1. /\ Len(s) \in Nat /\ u \in Seq(Nat) /\ Len(u) = Len(s) + 1 /\ u[Len(s) + 1] = x
      /\ \A i \in 1 .. Len(s) : u[i] = s[i]
      /\ \A i \in 1 .. Len(s) + 1 : i \in 1 .. Len(s) \/ i = Len(s) + 1
  BY AppendFacts
<1> HIDE DEF u
<1>2. \A i \in 1 .. Len(s) + 1 : t[i] = u[i]
  BY <1>1, Zenon
<1>3. t = u
  BY <1>1, <1>2, SameSeq
<1> QED
  BY <1>3, SumsAppend DEF u

(* The sums without the first number. *)
LEMMA SumsTail ==
    ASSUME LeastNumber, NEW s \in Seq(Nat), s # << >>
    PROVE  /\ \A i \in 0 .. Len(s) - 1 : Sums(s)[i + 1] = Head(s) + Sums(Tail(s))[i]
           /\ Total(s) = Head(s) + Total(Tail(s))
<1> DEFINE t == Tail(s)
<1>1. /\ t \in Seq(Nat) /\ Len(t) = Len(s) - 1 /\ Len(s) \in Nat \ {0}
      /\ Head(s) = s[1] /\ s[1] \in Nat /\ \A i \in 1 .. Len(t) : t[i] = s[i + 1]
  BY HeadTailProperties, EmptySeq, LenProperties
<1> HIDE DEF t
<1>2. SumsUpTo(Sums(s), s, Len(s)) /\ SumsUpTo(Sums(t), t, Len(t))
  BY <1>1, SumsFacts
<1> DEFINE S == {i \in Nat : i <= Len(t) => Sums(s)[i + 1] = s[1] + Sums(t)[i]}
<1>3. 0 \in S
  BY <1>1, <1>2 DEF SumsUpTo
<1>4. ASSUME NEW i \in Nat, i \in S PROVE i + 1 \in S
  <2> SUFFICES ASSUME i + 1 <= Len(t) PROVE Sums(s)[i + 2] = s[1] + Sums(t)[i + 1]
    BY <1>1
  <2>0. /\ i + 2 \in 1 .. Len(s) /\ (i + 2) - 1 = i + 1 /\ i + 1 \in 1 .. Len(t)
        /\ (i + 1) - 1 = i /\ (i + 1) + 1 = i + 2 /\ i \in 0 .. Len(t) /\ i <= Len(t)
    BY <1>1
  <2>1. Sums(s)[i + 2] = Sums(s)[i + 1] + s[i + 2]
    BY <1>2, <2>0 DEF SumsUpTo
  <2>2. Sums(t)[i + 1] = Sums(t)[i] + s[i + 2] /\ Sums(t)[i] \in Nat
    BY <1>1, <1>2, <2>0, ZenonT(60) DEF SumsUpTo
  <2>3. s[i + 2] \in Nat
    BY <2>0, ElementOfSeq
  <2>4. Sums(s)[i + 1] = s[1] + Sums(t)[i]
    BY <1>4, <2>0
  <2> QED
    BY <1>1, <2>1, <2>2, <2>3, <2>4, SMTT(60)
<1>5. Nat \subseteq S
  BY <1>3, <1>4, Induction, Zenon
<1> QED
  BY <1>1, <1>5 DEF Total, t

(* The sums of a list without its first number. *)
LEMMA SumsShrink ==
    ASSUME LeastNumber, NEW s \in Seq(Nat), s # << >>, NEW t \in Seq(Nat), Len(t) = Len(s) - 1,
           \A i \in 1 .. Len(s) - 1 : t[i] = s[i + 1]
    PROVE  /\ Total(s) = s[1] + Total(t) /\ s[1] \in Nat
           /\ \A i \in 0 .. Len(s) - 1 : Sums(s)[i + 1] = s[1] + Sums(t)[i]
<1> DEFINE u == Tail(s)
<1>1. /\ Head(s) = s[1] /\ Head(s) \in Nat /\ u \in Seq(Nat) /\ Len(u) = Len(s) - 1
      /\ \A i \in 1 .. Len(s) - 1 : u[i] = s[i + 1]
  BY TailFacts
<1> HIDE DEF u
<1>2. \A i \in 1 .. Len(s) - 1 : t[i] = u[i]
  BY <1>1, Zenon
<1>3. t = u
  BY <1>1, <1>2, SameSeq, Zenon
<1> QED
  BY <1>1, <1>3, SumsTail DEF u

(* What the markers of a channel count for, after a push and after a pop. *)
LEMMA CountsFacts ==
    ASSUME LeastNumber, NEW S, \A m \in S : Count(m) \in Nat, NEW s \in Seq(S)
    PROVE  /\ Counts(s) \in Seq(Nat) /\ Len(Counts(s)) = Len(s) /\ Len(s) \in Nat
           /\ \A i \in 1 .. Len(s) : Counts(s)[i] = Count(s[i])
           /\ Total(Counts(s)) \in Nat /\ \A i \in 0 .. Len(s) : Sums(Counts(s))[i] \in Nat
<1>1. Len(s) \in Nat /\ DOMAIN s = 1 .. Len(s) /\ \A i \in 1 .. Len(s) : s[i] \in S
  BY LenProperties, ElementOfSeq
<1>2. Counts(s) = [i \in 1 .. Len(s) |-> Count(s[i])]
  BY <1>1 DEF Counts
<1>3. \A i \in 1 .. Len(s) : Counts(s)[i] = Count(s[i]) /\ Count(s[i]) \in Nat
  BY <1>1, <1>2
<1>4. Counts(s) \in Seq(Nat) /\ Len(Counts(s)) = Len(s)
  <2>1. Counts(s) \in [1 .. Len(s) -> Nat]
    BY <1>2, <1>3
  <2> QED
    BY <1>1, <2>1
<1> QED
  BY <1>1, <1>3, <1>4, SumsType

(* The same for the sizes of the batches. *)
LEMMA SizesFacts ==
    ASSUME LeastNumber, NEW s \in Seq(Batch)
    PROVE  /\ BatchSizes(s) \in Seq(Nat) /\ Len(BatchSizes(s)) = Len(s) /\ Len(s) \in Nat
           /\ \A i \in 1 .. Len(s) : BatchSizes(s)[i] = Len(s[i].ops)
           /\ Total(BatchSizes(s)) \in Nat
<1>1. Len(s) \in Nat /\ DOMAIN s = 1 .. Len(s) /\ \A i \in 1 .. Len(s) : s[i] \in Batch
  BY LenProperties, ElementOfSeq
<1>2. BatchSizes(s) = [i \in 1 .. Len(s) |-> Len(s[i].ops)]
  BY <1>1 DEF BatchSizes
<1>3. \A b \in Batch : Len(b.ops) \in Nat
  <2> TAKE b \in Batch
  <2>1. b.ops \in Seq(Op)
    BY Zenon DEF Batch
  <2> QED
    BY <2>1, LenProperties
<1>4. \A i \in 1 .. Len(s) : BatchSizes(s)[i] = Len(s[i].ops) /\ Len(s[i].ops) \in Nat
  BY <1>1, <1>2, <1>3
<1>5. BatchSizes(s) \in Seq(Nat) /\ Len(BatchSizes(s)) = Len(s)
  <2>1. BatchSizes(s) \in [1 .. Len(s) -> Nat]
    BY <1>2, <1>4
  <2> QED
    BY <1>1, <2>1
<1> QED
  BY <1>1, <1>4, <1>5, SumsType

(* The counts in a channel after a push. *)
LEMMA CountsAppend ==
    ASSUME LeastNumber, NEW S, \A m \in S : Count(m) \in Nat, NEW s \in Seq(S), NEW e \in S
    PROVE  /\ Total(Counts(Append(s, e))) = Total(Counts(s)) + Count(e)
           /\ Sums(Counts(Append(s, e)))[Len(s) + 1] = Total(Counts(s)) + Count(e)
           /\ \A i \in 0 .. Len(s) : Sums(Counts(Append(s, e)))[i] = Sums(Counts(s))[i]
<1> DEFINE t == Append(s, e)
<1>1. /\ Len(s) \in Nat /\ t \in Seq(S) /\ Len(t) = Len(s) + 1 /\ t[Len(s) + 1] = e
      /\ \A i \in 1 .. Len(s) : t[i] = s[i]
  BY AppendFacts
<1> HIDE DEF t
<1>2. /\ Counts(s) \in Seq(Nat) /\ Len(Counts(s)) = Len(s)
      /\ \A i \in 1 .. Len(s) : Counts(s)[i] = Count(s[i])
  BY CountsFacts
<1>3. /\ Counts(t) \in Seq(Nat) /\ Len(Counts(t)) = Len(t)
      /\ \A i \in 1 .. Len(t) : Counts(t)[i] = Count(t[i])
  BY <1>1, CountsFacts, Zenon
<1>4. Len(s) + 1 \in 1 .. Len(t) /\ \A i \in 1 .. Len(s) : i \in 1 .. Len(t)
  BY <1>1
<1>5. Counts(t)[Len(s) + 1] = Count(e) /\ \A i \in 1 .. Len(s) : Counts(t)[i] = Counts(s)[i]
  BY <1>1, <1>2, <1>3, <1>4, Zenon
<1>6. /\ Total(Counts(t)) = Total(Counts(s)) + Count(e)
      /\ Sums(Counts(t))[Len(s) + 1] = Total(Counts(s)) + Count(e)
      /\ \A i \in 0 .. Len(s) : Sums(Counts(t))[i] = Sums(Counts(s))[i]
  <2>1. Len(Counts(t)) = Len(Counts(s)) + 1 /\ Count(e) \in Nat
    BY <1>1, <1>2, <1>3, Zenon
  <2>2. /\ Total(Counts(t)) = Total(Counts(s)) + Count(e)
        /\ Sums(Counts(t))[Len(Counts(s)) + 1] = Total(Counts(s)) + Count(e)
        /\ \A i \in 0 .. Len(Counts(s)) : Sums(Counts(t))[i] = Sums(Counts(s))[i]
    BY <1>2, <1>3, <1>5, <2>1, SumsGrow, SMTT(30)
  <2> QED
    BY <1>2, <2>2
<1> QED
  BY <1>6 DEF t

(* The counts in a channel after a pop. *)
LEMMA CountsTail ==
    ASSUME LeastNumber, NEW S, \A m \in S : Count(m) \in Nat, NEW s \in Seq(S), s # << >>
    PROVE  /\ Total(Counts(s)) = Count(s[1]) + Total(Counts(Tail(s)))
           /\ \A i \in 0 .. Len(s) - 1 :
                 Sums(Counts(s))[i + 1] = Count(s[1]) + Sums(Counts(Tail(s)))[i]
<1> DEFINE t == Tail(s)
<1>1. /\ Len(s) \in Nat \ {0} /\ t \in Seq(S) /\ Len(t) = Len(s) - 1
      /\ \A i \in 1 .. Len(s) - 1 : t[i] = s[i + 1]
  BY TailFacts
<1> HIDE DEF t
<1>2. /\ Counts(s) \in Seq(Nat) /\ Len(Counts(s)) = Len(s)
      /\ \A i \in 1 .. Len(s) : Counts(s)[i] = Count(s[i])
  BY CountsFacts
<1>3. /\ Counts(t) \in Seq(Nat) /\ Len(Counts(t)) = Len(t)
      /\ \A i \in 1 .. Len(t) : Counts(t)[i] = Count(t[i])
  BY <1>1, CountsFacts, Zenon
<1>4. /\ 1 \in 1 .. Len(s) /\ Counts(s) # << >>
      /\ \A i \in 1 .. Len(s) - 1 : i \in 1 .. Len(t) /\ i + 1 \in 1 .. Len(s)
  <2>1. Counts(s) # << >>
    BY <1>1, <1>2, EmptySeq
  <2> QED
    BY <1>1, <2>1
<1>5. Counts(s)[1] = Count(s[1]) /\ \A i \in 1 .. Len(s) - 1 : Counts(t)[i] = Counts(s)[i + 1]
  BY <1>1, <1>2, <1>3, <1>4, Zenon
<1>6. /\ Total(Counts(s)) = Count(s[1]) + Total(Counts(t))
      /\ \A i \in 0 .. Len(s) - 1 : Sums(Counts(s))[i + 1] = Count(s[1]) + Sums(Counts(t))[i]
  BY <1>1, <1>2, <1>3, <1>4, <1>5, SumsShrink, SMTT(60)
<1> QED
  BY <1>6 DEF t

(* The counts. *)
BuildCount == IF bd_pc = "build" THEN Count(bd_out) ELSE 0

(* The count of the message that the build stage holds, and the types of all
   that the counts are made of. *)
LEMMA CountTypes ==
    ASSUME LeastNumber, Shape
    PROVE  /\ BuildCount \in Nat /\ total_processed \in Nat /\ dt_count \in Nat /\ seen \in Nat
           /\ Total(Counts(build_work)) \in Nat /\ Total(Counts(graph_publish)) \in Nat
           /\ Total(BatchSizes(trace_batches)) \in Nat
           /\ Len(ring) \in Nat /\ Len(dr_batch) \in Nat /\ Len(dt_batch) \in Nat
           /\ produced \in Nat
<1>0. ForegroundShape /\ DrainShape /\ DetectShape /\ BuildShape
  BY DEF Shape
<1>1. /\ \A m \in Work \cup Marker : Count(m) \in Nat
      /\ \A m \in Region \cup Release \cup Marker : Count(m) \in Nat
  BY KindFacts
<1>2. BuildCount \in Nat
  BY <1>0, <1>1, Zenon DEF BuildShape, BuildCount
<1>3. /\ build_work \in Seq(Work \cup Marker)
      /\ graph_publish \in Seq(Region \cup Release \cup Marker)
      /\ trace_batches \in Seq(Batch)
      /\ ring \in Seq(Op) /\ dr_batch \in Seq(Op) /\ dt_batch \in Seq(Op)
  BY <1>0 DEF ForegroundShape, DrainShape, DetectShape, BuildShape
<1>4. Total(Counts(build_work)) \in Nat
  BY <1>1, <1>3, CountsFacts, Zenon
<1>5. Total(Counts(graph_publish)) \in Nat
  BY <1>1, <1>3, CountsFacts, Zenon
<1>6. Total(BatchSizes(trace_batches)) \in Nat
  BY <1>3, SizesFacts
<1>7. Len(ring) \in Nat /\ Len(dr_batch) \in Nat /\ Len(dt_batch) \in Nat
  BY <1>3, LenProperties
<1> QED
  BY <1>0, <1>2, <1>4, <1>5, <1>6, <1>7, SMTT(30) DEF BuildShape, DetectShape, ForegroundShape

(* Empty channels count nothing. *)
LEMMA NoCounts ==
    ASSUME LeastNumber PROVE Total(Counts(<< >>)) = 0 /\ Total(BatchSizes(<< >>)) = 0 /\ Len(<< >>) = 0
<1>1. << >> \in Seq(Nat) /\ Len(<< >>) = 0 /\ DOMAIN << >> = {} /\ << >> \in Seq(Batch)
  OBVIOUS
<1>2. Total(<< >>) = 0
  BY <1>1, SumsFacts, Zenon DEF Total, SumsUpTo
<1>3. Counts(<< >>) = << >> /\ BatchSizes(<< >>) = << >>
  BY <1>1 DEF Counts, BatchSizes
<1> QED
  BY <1>1, <1>2, <1>3, SMTT(30)

(* How each step moves the counts along the pipeline.  A message takes its
   count with it from one channel to the next. *)
LEMMA PushCounts ==
    ASSUME LeastNumber, Shape, NEW m \in Work \cup Marker, build_work' = Append(build_work, m)
    PROVE  /\ Total(Counts(build_work')) = Total(Counts(build_work)) + Count(m)
           /\ Len(build_work) \in Nat /\ Len(build_work') = Len(build_work) + 1
           /\ build_work'[Len(build_work) + 1] = m
           /\ \A i \in 1 .. Len(build_work) :
                 /\ build_work'[i] = build_work[i]
                 /\ Sums(Counts(build_work'))[i] = Sums(Counts(build_work))[i]
           /\ Sums(Counts(build_work'))[Len(build_work) + 1] = Total(Counts(build_work)) + Count(m)
<1>1. build_work \in Seq(Work \cup Marker) /\ \A x \in Work \cup Marker : Count(x) \in Nat
  BY KindFacts DEF Shape, DetectShape
<1>2. /\ Len(build_work) \in Nat /\ Len(build_work') = Len(build_work) + 1
      /\ \A i \in 1 .. Len(build_work) : build_work'[i] = build_work[i]
      /\ build_work'[Len(build_work) + 1] = m
  BY <1>1, AppendFacts
<1>3. /\ Total(Counts(build_work')) = Total(Counts(build_work)) + Count(m)
      /\ Sums(Counts(build_work'))[Len(build_work) + 1] = Total(Counts(build_work)) + Count(m)
      /\ \A i \in 0 .. Len(build_work) :
            Sums(Counts(build_work'))[i] = Sums(Counts(build_work))[i]
  BY <1>1, CountsAppend
<1>4. \A i \in 1 .. Len(build_work) : i \in 0 .. Len(build_work)
  BY <1>2
<1> QED
  BY <1>2, <1>3, <1>4, Zenon

(* The build stage takes a message with its count. *)
LEMMA PopCounts ==
    ASSUME LeastNumber, Shape, BuildPop
    PROVE  /\ Total(Counts(build_work)) = Count(build_work[1]) + Total(Counts(build_work'))
           /\ Count(build_work[1]) \in Nat /\ bd_out' = build_work[1]
           /\ BuildCount = 0 /\ BuildCount' = Count(build_work[1])
           /\ Len(build_work) \in Nat \ {0} /\ Len(build_work') = Len(build_work) - 1
           /\ \A i \in 1 .. Len(build_work') :
                 /\ build_work'[i] = build_work[i + 1] /\ i + 1 \in 1 .. Len(build_work)
                 /\ Sums(Counts(build_work))[i + 1]
                      = Count(build_work[1]) + Sums(Counts(build_work'))[i]
                 /\ Sums(Counts(build_work'))[i] \in Nat
           /\ Sums(Counts(build_work))[1] \in Nat
<1>1. /\ build_work \in Seq(Work \cup Marker) /\ \A x \in Work \cup Marker : Count(x) \in Nat
      /\ build_work # << >> /\ build_work' = Tail(build_work) /\ bd_out' = Head(build_work)
      /\ bd_pc = "pop" /\ bd_pc' = "build"
  BY KindFacts DEF Shape, DetectShape, BuildPop
<1>2. /\ Len(build_work) \in Nat \ {0} /\ Len(build_work') = Len(build_work) - 1
      /\ Head(build_work) = build_work[1] /\ Head(build_work) \in Work \cup Marker
      /\ build_work' \in Seq(Work \cup Marker)
      /\ \A i \in 1 .. Len(build_work) - 1 : build_work'[i] = build_work[i + 1]
  BY <1>1, TailFacts
<1>3. /\ Total(Counts(build_work)) = Count(build_work[1]) + Total(Counts(build_work'))
      /\ \A i \in 0 .. Len(build_work) - 1 :
           Sums(Counts(build_work))[i + 1] = Count(build_work[1]) + Sums(Counts(build_work'))[i]
  BY <1>1, CountsTail
<1>4. \A i \in 0 .. Len(build_work) : Sums(Counts(build_work))[i] \in Nat
  BY <1>1, CountsFacts
<1>5. \A i \in 0 .. Len(build_work') : Sums(Counts(build_work'))[i] \in Nat
  BY <1>1, <1>2, CountsFacts, Zenon
<1>6. BuildCount = 0 /\ BuildCount' = Count(build_work[1])
  BY <1>1, <1>2 DEF BuildCount
<1>7. Count(build_work[1]) \in Nat /\ bd_out' = build_work[1]
  BY <1>1, <1>2
<1>8. 1 \in 0 .. Len(build_work)
  BY <1>2
<1>9. \A i \in 1 .. Len(build_work') :
        /\ i \in 1 .. Len(build_work) - 1 /\ i + 1 \in 1 .. Len(build_work)
        /\ i \in 0 .. Len(build_work) - 1 /\ i \in 0 .. Len(build_work')
  BY <1>2
<1>10. \A i \in 1 .. Len(build_work') :
         /\ build_work'[i] = build_work[i + 1] /\ i + 1 \in 1 .. Len(build_work)
         /\ Sums(Counts(build_work))[i + 1] = Count(build_work[1]) + Sums(Counts(build_work'))[i]
         /\ Sums(Counts(build_work'))[i] \in Nat
  BY <1>2, <1>3, <1>5, <1>9, Zenon
<1> QED
  BY <1>2, <1>3, <1>4, <1>6, <1>7, <1>8, <1>10, Zenon

(* The build stage hands a message on with its count. *)
LEMMA SentCounts ==
    ASSUME LeastNumber, Shape, BuildPush, NEW m, Sent(m)
    PROVE  /\ Total(Counts(graph_publish')) = Total(Counts(graph_publish)) + Count(m)
           /\ Count(m) \in Nat /\ BuildCount = Count(m) /\ BuildCount' = 0
           /\ Len(graph_publish) \in Nat /\ Len(graph_publish') = Len(graph_publish) + 1
           /\ graph_publish'[Len(graph_publish) + 1] = m
           /\ \A i \in 1 .. Len(graph_publish) :
                 /\ graph_publish'[i] = graph_publish[i]
                 /\ Sums(Counts(graph_publish'))[i] = Sums(Counts(graph_publish))[i]
           /\ Sums(Counts(graph_publish'))[Len(graph_publish) + 1]
                = Total(Counts(graph_publish)) + Count(m)
<1>1. /\ graph_publish \in Seq(Region \cup Release \cup Marker)
      /\ \A x \in Region \cup Release \cup Marker : Count(x) \in Nat
      /\ m \in Region \cup Release \cup Marker /\ graph_publish' = Append(graph_publish, m)
  BY KindFacts DEF Shape, BuildShape, Sent
<1>2. /\ Len(graph_publish) \in Nat /\ Len(graph_publish') = Len(graph_publish) + 1
      /\ \A i \in 1 .. Len(graph_publish) : graph_publish'[i] = graph_publish[i]
      /\ graph_publish'[Len(graph_publish) + 1] = m
  BY <1>1, AppendFacts
<1>3. /\ Total(Counts(graph_publish')) = Total(Counts(graph_publish)) + Count(m)
      /\ Sums(Counts(graph_publish'))[Len(graph_publish) + 1]
           = Total(Counts(graph_publish)) + Count(m)
      /\ \A i \in 0 .. Len(graph_publish) :
            Sums(Counts(graph_publish'))[i] = Sums(Counts(graph_publish))[i]
  BY <1>1, CountsAppend, Zenon
<1>4. \A i \in 1 .. Len(graph_publish) : i \in 0 .. Len(graph_publish)
  BY <1>2
<1>5. BuildCount = Count(m) /\ BuildCount' = 0
  <2>1. bd_pc = "build" /\ bd_pc' # "build"
    BY Zenon DEF BuildPush
  <2>2. Count(bd_out) = Count(m)
    BY KindFacts DEF Sent
  <2> QED
    BY <2>1, <2>2 DEF BuildCount
<1>6. Count(m) \in Nat
  BY <1>1
<1> QED
  BY <1>2, <1>3, <1>4, <1>5, <1>6, Zenon

(* The publish stage adds the count of the message it takes to
   total_processed. *)
LEMMA PublishCounts ==
    ASSUME LeastNumber, Shape, PublishPop
    PROVE  /\ Total(Counts(graph_publish)) = Count(graph_publish[1]) + Total(Counts(graph_publish'))
           /\ total_processed' = total_processed + Count(graph_publish[1])
           /\ Count(graph_publish[1]) \in Nat
           /\ Len(graph_publish) \in Nat \ {0} /\ Len(graph_publish') = Len(graph_publish) - 1
           /\ \A i \in 1 .. Len(graph_publish') :
                 /\ graph_publish'[i] = graph_publish[i + 1] /\ i + 1 \in 1 .. Len(graph_publish)
                 /\ Sums(Counts(graph_publish))[i + 1]
                      = Count(graph_publish[1]) + Sums(Counts(graph_publish'))[i]
                 /\ Sums(Counts(graph_publish'))[i] \in Nat
           /\ Sums(Counts(graph_publish))[1] \in Nat
<1>1. /\ graph_publish \in Seq(Region \cup Release \cup Marker)
      /\ \A x \in Region \cup Release \cup Marker : Count(x) \in Nat
      /\ graph_publish # << >> /\ graph_publish' = Tail(graph_publish) /\ total_processed \in Nat
  BY KindFacts DEF Shape, BuildShape, PublishPop
<1>2. /\ Len(graph_publish) \in Nat \ {0} /\ Len(graph_publish') = Len(graph_publish) - 1
      /\ Head(graph_publish) = graph_publish[1]
      /\ Head(graph_publish) \in Region \cup Release \cup Marker
      /\ graph_publish' \in Seq(Region \cup Release \cup Marker)
      /\ \A i \in 1 .. Len(graph_publish) - 1 : graph_publish'[i] = graph_publish[i + 1]
  BY <1>1, TailFacts, Zenon
<1>3. /\ Total(Counts(graph_publish)) = Count(graph_publish[1]) + Total(Counts(graph_publish'))
      /\ \A i \in 0 .. Len(graph_publish) - 1 :
           Sums(Counts(graph_publish))[i + 1]
             = Count(graph_publish[1]) + Sums(Counts(graph_publish'))[i]
  BY <1>1, CountsTail
<1>4. \A i \in 0 .. Len(graph_publish) : Sums(Counts(graph_publish))[i] \in Nat
  BY <1>1, CountsFacts, SMTT(30)
<1>5. \A i \in 0 .. Len(graph_publish') : Sums(Counts(graph_publish'))[i] \in Nat
  BY <1>1, <1>2, CountsFacts, Zenon
<1>6. total_processed' = total_processed + Count(graph_publish[1])
  <2>1. PICK m \in Region \cup Release \cup Marker :
             /\ m = graph_publish[1]
             /\ PopStop(m) \/ PopCommit(m) \/ PopRelease(m) \/ PopRegion(m)
    BY PublishPopFacts, Zenon
  <2>2. CASE PopCommit(m)
    BY <2>1, <2>2, Zenon DEF PopCommit
  <2>3. CASE ~PopCommit(m)
    <3>1. UNCHANGED total_processed
      BY <2>1, <2>3, SMTT(30) DEF PopStop, PopRelease, PopRegion
    <3>2. Count(m) = 0
      <4>1. CASE PopStop(m)
        BY <4>1, Zenon DEF PopStop, Count
      <4>2. CASE PopRelease(m) \/ PopRegion(m)
        BY <4>2, KindFacts, Zenon DEF PopRelease, PopRegion
      <4> QED
        BY <2>1, <2>3, <4>1, <4>2, SMTT(30)
    <3> QED
      BY <1>1, <2>1, <3>1, <3>2
  <2> QED
    BY <2>2, <2>3
<1>7. Count(graph_publish[1]) \in Nat
  BY <1>1, <1>2, SMTT(30)
<1>8. 1 \in 0 .. Len(graph_publish)
  BY <1>2
<1>9. \A i \in 1 .. Len(graph_publish') :
        /\ i \in 1 .. Len(graph_publish) - 1 /\ i + 1 \in 1 .. Len(graph_publish)
        /\ i \in 0 .. Len(graph_publish) - 1 /\ i \in 0 .. Len(graph_publish')
  BY <1>2
<1>10. \A i \in 1 .. Len(graph_publish') :
         /\ graph_publish'[i] = graph_publish[i + 1] /\ i + 1 \in 1 .. Len(graph_publish)
         /\ Sums(Counts(graph_publish))[i + 1]
              = Count(graph_publish[1]) + Sums(Counts(graph_publish'))[i]
         /\ Sums(Counts(graph_publish'))[i] \in Nat
  BY <1>2, <1>3, <1>5, <1>9, Zenon
<1> QED
  BY <1>2, <1>3, <1>4, <1>6, <1>7, <1>8, <1>10, Zenon

-----------------------------------------------------------------------------
(* Every op is counted. *)

(* An op the foreground appended is in the ring, in a batch or seen. *)
ProducedInv ==
    produced = seen + Len(dt_batch) + Total(BatchSizes(trace_batches))
               + Len(dr_batch) + Len(ring)

(* Every op that the ring accepted is somewhere upstream of the detector or
   has been seen by it. *)
LEMMA ProducedStep ==
    ASSUME LeastNumber PROVE CoreInv /\ ProducedInv /\ [Next]_vars => ProducedInv'
(* The ops in the batches after a push. *)
<1>SizesAppend.
    ASSUME NEW s \in Seq(Batch), NEW e \in Batch
    PROVE  Total(BatchSizes(Append(s, e))) = Total(BatchSizes(s)) + Len(e.ops)
  <2> DEFINE t == Append(s, e)
  <2>1. /\ Len(s) \in Nat /\ t \in Seq(Batch) /\ Len(t) = Len(s) + 1 /\ t[Len(s) + 1] = e
        /\ \A i \in 1 .. Len(s) : t[i] = s[i]
    BY AppendFacts
  <2> HIDE DEF t
  <2>2. /\ BatchSizes(s) \in Seq(Nat) /\ Len(BatchSizes(s)) = Len(s)
        /\ \A i \in 1 .. Len(s) : BatchSizes(s)[i] = Len(s[i].ops)
    BY SizesFacts, Zenon
  <2>3. /\ BatchSizes(t) \in Seq(Nat) /\ Len(BatchSizes(t)) = Len(t)
        /\ \A i \in 1 .. Len(t) : BatchSizes(t)[i] = Len(t[i].ops)
    BY <2>1, SizesFacts, Zenon
  <2>4. Len(s) + 1 \in 1 .. Len(t) /\ \A i \in 1 .. Len(s) : i \in 1 .. Len(t)
    BY <2>1
  <2>5. /\ BatchSizes(t)[Len(s) + 1] = Len(e.ops)
        /\ \A i \in 1 .. Len(s) : BatchSizes(t)[i] = BatchSizes(s)[i]
    BY <2>1, <2>2, <2>3, <2>4, Zenon
  <2>6. Len(e.ops) \in Nat
    BY <2>3, <2>4, <2>5, <2>1, ElementOfSeq, Zenon
  <2>7. /\ Len(BatchSizes(t)) = Len(BatchSizes(s)) + 1
        /\ BatchSizes(t)[Len(BatchSizes(s)) + 1] = Len(e.ops)
        /\ \A i \in 1 .. Len(BatchSizes(s)) : BatchSizes(t)[i] = BatchSizes(s)[i]
    BY <2>1, <2>2, <2>3, <2>5, Zenon
  <2>8. Total(BatchSizes(t)) = Total(BatchSizes(s)) + Len(e.ops)
    BY <2>2, <2>3, <2>6, <2>7, SumsGrow, Zenon
  <2> QED
    BY <2>8, Zenon DEF t
(* The ops in the batches after a pop. *)
<1>SizesTail.
    ASSUME NEW s \in Seq(Batch), s # << >>
    PROVE  Total(BatchSizes(s)) = Len(s[1].ops) + Total(BatchSizes(Tail(s)))
  <2> USE <1>SizesTail
  <2> DEFINE t == Tail(s)
  <2>1. /\ Len(s) \in Nat \ {0} /\ t \in Seq(Batch) /\ Len(t) = Len(s) - 1
        /\ \A i \in 1 .. Len(s) - 1 : t[i] = s[i + 1]
    BY TailFacts
  <2> HIDE DEF t
  <2>2. /\ BatchSizes(s) \in Seq(Nat) /\ Len(BatchSizes(s)) = Len(s)
        /\ \A i \in 1 .. Len(s) : BatchSizes(s)[i] = Len(s[i].ops)
    BY SizesFacts
  <2>3. /\ BatchSizes(t) \in Seq(Nat) /\ Len(BatchSizes(t)) = Len(t)
        /\ \A i \in 1 .. Len(t) : BatchSizes(t)[i] = Len(t[i].ops)
    BY <2>1, SizesFacts, SMTT(30)
  <2>4. /\ 1 \in 1 .. Len(s) /\ BatchSizes(s) # << >>
        /\ \A i \in 1 .. Len(s) - 1 : i \in 1 .. Len(t) /\ i + 1 \in 1 .. Len(s)
    <3>1. BatchSizes(s) # << >>
      BY <2>1, <2>2, EmptySeq, SMTT(30)
    <3> QED
      BY <2>1, <3>1
  <2>5. /\ BatchSizes(s)[1] = Len(s[1].ops)
        /\ \A i \in 1 .. Len(s) - 1 : BatchSizes(t)[i] = BatchSizes(s)[i + 1]
    BY <2>1, <2>2, <2>3, <2>4, Zenon
  <2>6. Total(BatchSizes(s)) = Len(s[1].ops) + Total(BatchSizes(t))
    BY <2>1, <2>2, <2>3, <2>4, <2>5, SumsShrink, SMTT(30)
  <2> QED
    BY <2>6 DEF t
<1> SUFFICES ASSUME CoreInv, ProducedInv, [Next]_vars PROVE ProducedInv'
  OBVIOUS
<1>0. Shape /\ ForegroundShape /\ DrainShape /\ DetectShape /\ BuildShape
  BY DEF CoreInv, Shape
<1>1. /\ seen \in Nat /\ produced \in Nat /\ Total(BatchSizes(trace_batches)) \in Nat
      /\ Len(ring) \in Nat /\ Len(dr_batch) \in Nat /\ Len(dt_batch) \in Nat
  BY <1>0, CountTypes
<1>2. ASSUME UNCHANGED <<produced, seen, dt_batch, trace_batches, dr_batch, ring>>
      PROVE  ProducedInv'
  BY <1>2 DEF ProducedInv
<1> USE DEF fgVars, drVars, dtVars, detectorVars
<1>3. CASE AppendRing
  <2>1. UNCHANGED <<seen, dt_batch, trace_batches, dr_batch>>
    BY <1>3, Zenon DEF AppendRing
  <2>2. CASE Len(ring) < RING
    <3>1. Len(ring') = Len(ring) + 1
      <4>1. ring \in Seq(Op) /\ fg_op \in Op /\ ring' = Append(ring, fg_op)
        BY <1>0, <1>3, <2>2, Zenon DEF AppendRing, ForegroundShape
      <4> QED
        BY <4>1, AppendFacts, SMTT(30)
    <3>2. produced' = produced + 1
      BY <1>3, <2>2, Zenon DEF AppendRing
    <3>3. produced + 1 = seen + Len(dt_batch) + Total(BatchSizes(trace_batches))
                         + Len(dr_batch) + (Len(ring) + 1)
      BY <1>1, SMTT(30) DEF ProducedInv
    <3> QED
      BY <2>1, <3>1, <3>2, <3>3, Zenon DEF ProducedInv
  <2>3. CASE ~(Len(ring) < RING)
    BY <1>2, <1>3, <2>1, <2>3 DEF AppendRing
  <2> QED
    BY <2>2, <2>3, Zenon
<1>4. CASE Foreground /\ ~AppendRing
  BY <1>2, <1>4, ForegroundFrame, SMTT(30)
<1>5. CASE DrainPeek
  BY <1>2, <1>5 DEF DrainPeek
<1>6. CASE DrainPop
  <2>1. PICK n \in Nat : n <= Len(ring) /\ Len(dr_batch') = n /\ Len(ring') = Len(ring) - n
    BY <1>0, <1>6, PopBatchFacts, SMTT(30) DEF DrainPop, ForegroundShape
  <2>2. Len(dr_batch) = 0
    BY <1>0, <1>6, EmptySeq, SMTT(30) DEF DrainPop, DrainShape
  <2>3. UNCHANGED <<produced, seen, dt_batch, trace_batches>>
    BY <1>6 DEF DrainPop
  <2> QED
    BY <1>1, <2>1, <2>2, <2>3, SMTT(30) DEF ProducedInv
<1>7. CASE DrainPush
  <2>1. [stop |-> FALSE, ops |-> dr_batch] \in Batch
    BY <1>0, Zenon DEF Batch, DrainShape
  <2>2. Total(BatchSizes(trace_batches')) = Total(BatchSizes(trace_batches)) + Len(dr_batch)
    <3>1. trace_batches \in Seq(Batch)
      BY <1>0, Zenon DEF DrainShape
    <3> QED
      BY <1>7, <2>1, <3>1, <1>SizesAppend, SMTT(30) DEF DrainPush
  <2>3. Len(dr_batch') = 0
    BY <1>7, EmptySeq, SMTT(30) DEF DrainPush
  <2>4. UNCHANGED <<produced, seen, dt_batch, ring>>
    BY <1>7, Zenon DEF DrainPush
  <2> QED
    BY <1>1, <2>2, <2>3, <2>4, SMTT(30) DEF ProducedInv
<1>8. CASE DrainSentinel
  <2>1. [stop |-> TRUE, ops |-> << >>] \in Batch /\ Len(<< >>) = 0
    BY DEF Batch
  <2>2. Total(BatchSizes(trace_batches')) = Total(BatchSizes(trace_batches)) + Len(<< >>)
    <3>1. trace_batches \in Seq(Batch)
      BY <1>0, Zenon DEF DrainShape
    <3> QED
      BY <1>8, <2>1, <3>1, <1>SizesAppend, Zenon DEF DrainSentinel
  <2>3. UNCHANGED <<produced, seen, dt_batch, ring, dr_batch>>
    BY <1>8 DEF DrainSentinel
  <2> QED
    BY <1>1, <2>1, <2>2, <2>3, SMTT(30) DEF ProducedInv
<1>9. CASE DetectPop
  <2>1. trace_batches \in Seq(Batch) /\ trace_batches # << >> /\ dt_batch = << >>
        /\ trace_batches' = Tail(trace_batches)
    BY <1>0, <1>9, DetectPopMoves, Zenon DEF DrainShape, DetectShape
  <2>2. Head(trace_batches) = trace_batches[1] /\ 1 \in DOMAIN trace_batches
        /\ trace_batches[1] \in Batch /\ trace_batches' \in Seq(Batch)
    BY <2>1, TailFacts
  <2>3. Total(BatchSizes(trace_batches))
          = Len(trace_batches[1].ops) + Total(BatchSizes(trace_batches'))
    BY <2>1, <1>SizesTail
  <2>4. Total(BatchSizes(trace_batches')) \in Nat /\ Len(trace_batches[1].ops) \in Nat
    <3>1. trace_batches[1].ops \in Seq(Op)
      BY <2>2, Zenon DEF Batch
    <3> QED
      BY <2>2, <3>1, SizesFacts, LenProperties, SMTT(30)
  <2>5. UNCHANGED <<produced, seen, ring, dr_batch>>
    BY <1>9, DetectPopMoves, DetectFrame, SMTT(30) DEF Detect
  <2>6. Len(dt_batch') = Len(trace_batches[1].ops)
    <3>1. CASE Head(trace_batches).stop
      <4>1. trace_batches[1].ops = << >>
        BY <1>0, <2>2, <3>1, Zenon DEF DrainShape
      <4>2. UNCHANGED dt_batch
        BY <1>9, <3>1, DetectPopMoves, SMTT(30)
      <4> QED
        BY <2>1, <4>1, <4>2, SMTT(30)
    <3>2. CASE ~Head(trace_batches).stop
      BY <1>9, <2>2, <3>2, DetectPopMoves, SMTT(30)
    <3> QED
      BY <3>1, <3>2
  <2>7. Len(dt_batch) = 0
    BY <2>1, EmptySeq, Zenon
  <2> QED
    BY <1>1, <2>3, <2>4, <2>5, <2>6, <2>7, SMTT(60) DEF ProducedInv
<1>10. CASE DetectOp
  <2>1. Len(dt_batch') = Len(dt_batch) - 1
    BY <1>0, <1>10, DetectOpMoves, TailFacts, SMTT(60) DEF DetectShape
  <2>2. seen' = seen + 1 /\ UNCHANGED <<produced, ring, dr_batch, trace_batches>>
    BY <1>10, DetectOpMoves, DetectFrame, Zenon DEF Detect
  <2> QED
    BY <1>1, <2>1, <2>2, SMTT(30) DEF ProducedInv
<1>11. CASE DetectPushWork \/ DetectPushCommit \/ DetectPushStop
  BY <1>2, <1>11, Zenon DEF DetectPushWork, DetectPushCommit, DetectPushStop
<1>12. CASE Build
  BY <1>2, <1>12, BuildFrame, SMTT(30)
<1>13. CASE Publish
  BY <1>2, <1>13, PublishFrame, Zenon
<1>14. CASE UNCHANGED vars
  BY <1>2, <1>14, SMTT(30) DEF vars
<1> QED
  BY <1>3, <1>4, <1>5, <1>6, <1>7, <1>8, <1>9, <1>10, <1>11, <1>12, <1>13, <1>14, Zenon DEF Next, Drain, Detect

(* An op that was seen is counted, or its count is on its way. *)
SeenInv ==
    seen + Len(dt_batch) = total_processed + dt_count + Total(Counts(build_work))
                           + Total(Counts(graph_publish)) + BuildCount

(* Every op that the detector has seen is counted, or accounted for by the
   marker of its batch. *)
LEMMA SeenStep ==
    ASSUME LeastNumber PROVE CoreInv /\ SeenInv /\ [Next]_vars => SeenInv'
<1> SUFFICES ASSUME CoreInv, SeenInv, [Next]_vars PROVE SeenInv'
  OBVIOUS
<1>0. Shape /\ ForegroundShape /\ DrainShape /\ DetectShape /\ BuildShape
  BY DEF CoreInv, Shape
<1>1. /\ seen \in Nat /\ Len(dt_batch) \in Nat /\ dt_count \in Nat /\ total_processed \in Nat
      /\ Total(Counts(build_work)) \in Nat /\ Total(Counts(graph_publish)) \in Nat
      /\ BuildCount \in Nat
  BY <1>0, CountTypes, Zenon
<1>2. ASSUME UNCHANGED <<seen, dt_batch, dt_count, total_processed, build_work, graph_publish,
                         bd_pc, bd_out>>
      PROVE  SeenInv'
  BY <1>2, Zenon DEF SeenInv, BuildCount
<1> USE DEF fgVars, drVars, dtVars, detectorVars, bdVars, pbVars
<1>3. CASE Foreground
  BY <1>2, <1>3, ForegroundFrame, Zenon
<1>4. CASE Drain
  BY <1>2, <1>4, DrainFrame, SMTT(30)
<1>5. ASSUME UNCHANGED <<bd_pc, bd_out>> PROVE UNCHANGED BuildCount
  BY <1>5, SMTT(30) DEF BuildCount
<1>6. CASE DetectPop
  <2>0. UNCHANGED <<seen, total_processed, build_work, graph_publish, bd_pc, bd_out>>
    BY <1>6, DetectPopMoves, DetectFrame, SMTT(30) DEF Detect
  <2>1. CASE Head(trace_batches).stop
    BY <1>2, <1>6, <2>0, <2>1, DetectPopMoves, SMTT(30)
  <2>2. CASE ~Head(trace_batches).stop
    <3>1. /\ dt_batch = << >> /\ dt_count = 0 /\ dt_count' = Len(dt_batch')
          /\ UNCHANGED <<seen, total_processed, build_work, graph_publish, bd_pc, bd_out>>
      BY <1>0, <1>6, <2>0, <2>2, DetectPopMoves, Zenon DEF DetectShape
    <3>2. Len(dt_batch') \in Nat
      <4>1. trace_batches \in Seq(Batch) /\ trace_batches # << >>
            /\ dt_batch' = Head(trace_batches).ops
        BY <1>0, <1>6, <2>2, DetectPopMoves, Zenon DEF DrainShape
      <4>2. Head(trace_batches) \in Batch
        BY <4>1, TailFacts, SMTT(30)
      <4>3. dt_batch' \in Seq(Op)
        BY <4>1, <4>2, Zenon DEF Batch
      <4> QED
        BY <4>3, LenProperties, Zenon
    <3>3. Len(dt_batch) = 0
      BY <3>1, EmptySeq
    <3>4. UNCHANGED BuildCount
      BY <1>5, <3>1, Zenon
    <3>5. seen = total_processed + Total(Counts(build_work)) + Total(Counts(graph_publish))
                 + BuildCount
      BY <1>1, <3>1, <3>3, SMTT(30) DEF SeenInv
    <3>6. seen + Len(dt_batch')
            = total_processed + Len(dt_batch') + Total(Counts(build_work))
              + Total(Counts(graph_publish)) + BuildCount
      <4>1. \A n \in Nat :
               total_processed + Total(Counts(build_work)) + Total(Counts(graph_publish))
                 + BuildCount + n
                 = total_processed + n + Total(Counts(build_work))
                   + Total(Counts(graph_publish)) + BuildCount
        BY <1>1, SMTT(30)
      <4> QED
        BY <3>2, <3>5, <4>1, Zenon
    <3> QED
      BY <3>1, <3>4, <3>6, Zenon DEF SeenInv
  <2> QED
    BY <2>1, <2>2, SMTT(30)
<1>7. CASE DetectOp
  <2>1. Len(dt_batch') = Len(dt_batch) - 1
    BY <1>0, <1>7, DetectOpMoves, TailFacts, SMTT(60) DEF DetectShape
  <2>2. /\ seen' = seen + 1
        /\ UNCHANGED <<dt_count, total_processed, build_work, graph_publish, bd_pc, bd_out>>
    BY <1>7, DetectOpMoves, DetectFrame, SMTT(30) DEF Detect
  <2>3. UNCHANGED BuildCount
    BY <1>5, <2>2, Zenon
  <2>4. seen + 1 + (Len(dt_batch) - 1) = seen + Len(dt_batch)
    BY <1>1
  <2> QED
    BY <2>1, <2>2, <2>3, <2>4, Zenon DEF SeenInv
<1>8. CASE DetectPushWork
  <2>1. dt_work \in Work \cup Marker /\ Count(dt_work) = 0
    BY <1>0, <1>8, DetectPushMoves, KindFacts, Zenon DEF DetectShape
  <2>2. Total(Counts(build_work')) = Total(Counts(build_work)) + Count(dt_work)
    BY <1>0, <1>8, <2>1, DetectPushMoves, PushCounts, Zenon
  <2>3. UNCHANGED <<seen, dt_batch, dt_count, total_processed, graph_publish, bd_pc, bd_out>>
    BY <1>8, DetectPushMoves, DetectFrame, Zenon DEF Detect
  <2>4. UNCHANGED BuildCount
    BY <1>5, <2>3, Zenon
  <2>5. Total(Counts(build_work')) = Total(Counts(build_work))
    BY <1>1, <2>1, <2>2
  <2> QED
    BY <2>3, <2>4, <2>5, Zenon DEF SeenInv
<1>9. CASE DetectPushCommit
  <2> DEFINE m == [kind |-> "commit", count |-> dt_count]
  <2>1. m \in Work \cup Marker /\ Count(m) = dt_count
    BY <1>0, Zenon DEF DetectShape, Marker, Count
  <2>5. build_work' = Append(build_work, m)
    BY <1>9, DetectPushMoves, Zenon
  <2> HIDE DEF m
  <2>2. Total(Counts(build_work')) = Total(Counts(build_work)) + Count(m)
    BY <1>0, <2>1, <2>5, PushCounts, Zenon
  <2>3. /\ dt_count' = 0
        /\ UNCHANGED <<seen, dt_batch, total_processed, graph_publish, bd_pc, bd_out>>
    BY <1>9, DetectPushMoves, DetectFrame, Zenon DEF Detect
  <2>4. UNCHANGED BuildCount
    BY <1>5, <2>3, Zenon
  <2>6. seen + Len(dt_batch)
          = total_processed + 0 + (Total(Counts(build_work)) + dt_count)
            + Total(Counts(graph_publish)) + BuildCount
    BY <1>1, SMTT(30) DEF SeenInv
  <2> QED
    BY <2>1, <2>2, <2>3, <2>4, <2>6, Zenon DEF SeenInv
<1>10. CASE DetectPushStop
  <2> DEFINE m == [kind |-> "stop"]
  <2>1. m \in Work \cup Marker /\ Count(m) = 0
    BY SMTT(60) DEF Marker, Count
  <2>5. build_work' = Append(build_work, m)
    BY <1>10, DetectPushMoves, Zenon
  <2> HIDE DEF m
  <2>2. Total(Counts(build_work')) = Total(Counts(build_work)) + Count(m)
    BY <1>0, <2>1, <2>5, PushCounts, Zenon
  <2>3. UNCHANGED <<seen, dt_batch, dt_count, total_processed, graph_publish, bd_pc, bd_out>>
    BY <1>10, DetectPushMoves, DetectFrame, Zenon DEF Detect
  <2>4. UNCHANGED BuildCount
    BY <1>5, <2>3, Zenon
  <2>6. Total(Counts(build_work')) = Total(Counts(build_work))
    BY <1>1, <2>1, <2>2
  <2> QED
    BY <2>3, <2>4, <2>6, Zenon DEF SeenInv
<1>11. CASE BuildPop
  <2>1. /\ Total(Counts(build_work)) = Count(build_work[1]) + Total(Counts(build_work'))
        /\ Count(build_work[1]) \in Nat
        /\ BuildCount = 0 /\ BuildCount' = Count(build_work[1])
    BY <1>0, <1>11, PopCounts, Zenon
  <2>2. UNCHANGED <<seen, dt_batch, dt_count, total_processed, graph_publish>>
    BY <1>11, BuildMoves, BuildFrame, SMTT(30) DEF Build
  <2>3. Total(Counts(build_work')) \in Nat
    <3>1. /\ build_work \in Seq(Work \cup Marker) /\ build_work # << >>
          /\ build_work' = Tail(build_work)
      BY <1>0, <1>11, BuildMoves, Zenon DEF DetectShape
    <3>2. build_work' \in Seq(Work \cup Marker)
      BY <3>1, TailFacts, Zenon
    <3>3. \A x \in Work \cup Marker : Count(x) \in Nat
      BY KindFacts
    <3> QED
      BY <3>2, <3>3, CountsFacts, Zenon
  <2>4. seen + Len(dt_batch)
          = total_processed + dt_count + Total(Counts(build_work'))
            + Total(Counts(graph_publish)) + Count(build_work[1])
    BY <1>1, <2>1, <2>3, SMTT(30) DEF SeenInv
  <2> QED
    BY <2>1, <2>2, <2>4, Zenon DEF SeenInv
<1>12. CASE BuildPush
  <2>1. UNCHANGED <<seen, dt_batch, dt_count, total_processed, build_work>>
    BY <1>12, BuildFrame, BuildMoves, Zenon DEF Build
  <2>2. CASE bd_out \in Work /\ UNCHANGED graph_publish
    <3>1. BuildCount = 0 /\ BuildCount' = 0
      BY <1>12, <2>2, BuildMoves, KindFacts, Zenon DEF BuildCount
    <3> QED
      BY <1>1, <2>1, <2>2, <3>1, Zenon DEF SeenInv
  <2>3. ASSUME NEW m, Sent(m) PROVE SeenInv'
    <3>1. /\ Total(Counts(graph_publish')) = Total(Counts(graph_publish)) + Count(m)
          /\ Count(m) \in Nat /\ BuildCount = Count(m) /\ BuildCount' = 0
      BY <1>0, <1>12, <2>3, SentCounts, Zenon
    <3> QED
      BY <1>1, <2>1, <3>1, SMTT(30) DEF SeenInv
  <2> QED
    BY <1>0, <1>12, <2>2, <2>3, BuildPushFacts, Zenon
<1>13. CASE PublishPop
  <2>1. /\ Total(Counts(graph_publish)) = Count(graph_publish[1]) + Total(Counts(graph_publish'))
        /\ total_processed' = total_processed + Count(graph_publish[1])
        /\ Count(graph_publish[1]) \in Nat
    BY <1>0, <1>13, PublishCounts, Zenon
  <2>2. UNCHANGED <<seen, dt_batch, dt_count, build_work, bd_pc, bd_out>>
    BY <1>13, PublishFrame, SMTT(30) DEF Publish
  <2>3. UNCHANGED BuildCount
    BY <1>5, <2>2, Zenon
  <2>4. Total(Counts(graph_publish')) \in Nat
    <3>1. /\ graph_publish' \in Seq(Region \cup Release \cup Marker)
          /\ \A x \in Region \cup Release \cup Marker : Count(x) \in Nat
      BY <1>0, <1>13, TailFacts, KindFacts, SMTT(60) DEF BuildShape, PublishPop
    <3> QED
      BY <3>1, CountsFacts, SMTT(30)
  <2>5. seen + Len(dt_batch)
          = total_processed' + dt_count + Total(Counts(build_work))
            + Total(Counts(graph_publish')) + BuildCount
    <3>1. PICK c \in Nat, g \in Nat : c = Count(graph_publish[1]) /\ g = Total(Counts(graph_publish'))
      BY <2>1, <2>4, Zenon
    <3>2. Total(Counts(graph_publish)) = c + g /\ total_processed' = total_processed + c
      BY <2>1, <3>1, Zenon
    <3>3. seen + Len(dt_batch) = total_processed + dt_count + Total(Counts(build_work)) + (c + g)
                                 + BuildCount
      BY <3>2, Zenon DEF SeenInv
    <3>4. total_processed + dt_count + Total(Counts(build_work)) + (c + g) + BuildCount
            = total_processed + c + dt_count + Total(Counts(build_work)) + g + BuildCount
      BY <1>1, SMTT(30)
    <3> QED
      BY <3>1, <3>2, <3>3, <3>4, Zenon
  <2> QED
    BY <2>2, <2>3, <2>5, Zenon DEF SeenInv
<1>14. CASE PublishRelease \/ PublishHandover
  BY <1>2, <1>14, PublishFrame, Zenon DEF Publish, PublishRelease, PublishHandover
<1>15. CASE UNCHANGED vars
  BY <1>2, <1>15, Zenon DEF vars
<1> QED
  BY <1>3, <1>4, <1>6, <1>7, <1>8, <1>9, <1>10, <1>11, <1>12, <1>13, <1>14, <1>15, Zenon DEF Next, Detect, Build, Publish

(* The inductive invariant of the counts, upstream of the detector and past it. *)
CountInv == CoreInv /\ ProducedInv /\ SeenInv

(* The pipeline starts with nothing counted. *)
LEMMA CountInit ==
    ASSUME LeastNumber PROVE Init => CountInv
<1>1. Init => ProducedInv
  BY NoCounts DEF Init, ProducedInv
<1>2. Init => SeenInv
  BY NoCounts DEF Init, SeenInv, BuildCount
<1> QED
  BY <1>1, <1>2, CoreInit DEF CountInv

(* Every step keeps the counts. *)
LEMMA CountStep ==
    ASSUME LeastNumber PROVE CountInv /\ [Next]_vars => CountInv'
BY CoreStep, ProducedStep, SeenStep DEF CountInv

(* EveryOpCounted: produced and seen, added up. *)
LEMMA CountedState ==
    ASSUME LeastNumber PROVE CountInv => EveryOpCounted
<1> SUFFICES ASSUME CountInv PROVE EveryOpCounted
  OBVIOUS
<1>1. /\ BuildCount \in Nat /\ total_processed \in Nat /\ dt_count \in Nat /\ seen \in Nat
      /\ Total(Counts(build_work)) \in Nat /\ Total(Counts(graph_publish)) \in Nat
      /\ Total(BatchSizes(trace_batches)) \in Nat
      /\ Len(ring) \in Nat /\ Len(dr_batch) \in Nat /\ Len(dt_batch) \in Nat
      /\ produced \in Nat
  BY CountTypes, Zenon DEF CountInv, CoreInv
<1>2. produced = total_processed + Len(ring) + Len(dr_batch) + dt_count
                 + Total(BatchSizes(trace_batches))
                 + Total(Counts(build_work)) + Total(Counts(graph_publish))
                 + BuildCount
  <2>1. PICK a \in Nat, t \in Nat, w \in Nat, g \in Nat, b \in Nat, l \in Nat, d \in Nat :
          /\ a = seen + Len(dt_batch) /\ t = Total(BatchSizes(trace_batches))
          /\ w = Total(Counts(build_work)) /\ g = Total(Counts(graph_publish)) /\ b = BuildCount
          /\ l = Len(ring) /\ d = Len(dr_batch)
    <3>1. seen + Len(dt_batch) \in Nat
      BY <1>1
    <3> QED
      BY <1>1, <3>1, Zenon
  <2>2. produced = a + t + d + l
    BY <2>1, SMTT(30) DEF CountInv, ProducedInv
  <2>3. a = total_processed + dt_count + w + g + b
    BY <2>1 DEF CountInv, SeenInv
  <2>4. produced = total_processed + l + d + dt_count + t + w + g + b
    BY <1>1, <2>2, <2>3, SMTT(30)
  <2> QED
    BY <2>1, <2>4
<1> QED
  BY <1>2, Zenon DEF EveryOpCounted, BuildCount
=============================================================================
