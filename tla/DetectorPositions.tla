--------------------------- MODULE DetectorPositions --------------------------
(***************************************************************************)
(* The positions of an IterationDetector, without the keys of the ops.     *)
(* A detector is a record: pos, the index of the next op; base, the oldest *)
(* op of the history; period, zero while none is accepted; next, the op at *)
(* which the next iteration starts; fired, the result of the last check.   *)
(* Which periods are accepted and which break is a choice.                 *)
(***************************************************************************)
EXTENDS Integers

CONSTANTS
    K,          \* IterationDetector::K, the window of the detector
    HISTORY     \* IterationDetector::HISTORY_MAX_CAPACITY

ASSUME HistoryAssumption == K \in Nat \ {0} /\ HISTORY \in Nat /\ HISTORY > 2 * K + 1

SmallerOf(m, n) == IF m < n THEN m ELSE n

\* IterationDetector::make_room_ at the largest ring: the oldest op leaves.
MakeRoom(d) ==
    LET held_from == IF d.base = 0 THEN 0 ELSE d.base - 1 IN
    IF d.pos + 1 - held_from > HISTORY THEN d.pos + 2 - HISTORY ELSE d.base

\* fire_: the report, the next boundary, and the trim to one iteration.
Fire(d) == [d EXCEPT !.next = d.next + d.period,
                     !.base = IF d.next - d.period > @ THEN d.next - d.period ELSE @,
                     !.fired = TRUE]

\* IterationDetector::check: the detector states one op can lead to.  While
\* a period holds, its boundary holds or breaks; while none does, a square
\* in the history may end at the newest window, with a phase to begin at.
Check(d0) ==
    LET d == [d0 EXCEPT !.base = MakeRoom(d0), !.pos = @ + 1]
        start == d.pos - K
    IN  IF d.pos < K THEN {d}
        ELSE IF d.period # 0
          THEN IF d.pos = d.next + K THEN {Fire(d), [d EXCEPT !.period = 0]} ELSE {d}
          ELSE {d} \cup UNION
               {{IF phase = 0 THEN Fire([d EXCEPT !.period = p, !.next = start])
                              ELSE [d EXCEPT !.period = p, !.next = start + phase]
                  : phase \in 0 .. p - 1}
                : p \in {q \in K .. d.pos : start - d.base >= 2 * q}}

\* IterationDetector::oldest_claimable.
OldestClaimable(d) ==
    LET newest_start == IF d.pos > K THEN d.pos - K ELSE 0
        search_floor == IF newest_start > d.base
                          THEN d.base + (newest_start - d.base) \div 2 ELSE d.base
    IN  IF d.period = 0 THEN search_floor ELSE SmallerOf(d.next - d.period, search_floor)
===============================================================================
