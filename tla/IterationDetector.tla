--------------------------- MODULE IterationDetector --------------------------
(***************************************************************************)
(* IterationDetector: it finds the period of the stream of op keys and     *)
(* reports each op that completes an iteration.  The state is one record.  *)
(*                                                                         *)
(* Positions are absolute since the last restart, and the key and the link *)
(* of position p are in slot p % HISTORY of two rings, as in the code once *)
(* the rings have their largest size.  A key is a model value.  The        *)
(* fingerprint of a window is the window, and the fingerprint of a body    *)
(* the number of times it has each key: collisions of 64-bit fingerprints  *)
(* are left out.  The window table is a function of the fingerprint; its   *)
(* open addressing is left out.                                            *)
(***************************************************************************)
EXTENDS DetectorPositions, Sequences, FiniteSetsExt

CONSTANTS
    Keys,             \* the keys an op can have
    NoKey,            \* an empty slot of the ring
    MAX_CANDIDATES,   \* earlier windows tested for one op
    REFUTED_CAPACITY, \* periods remembered as broken
    MaxChecks         \* bound: calls of check

\* HISTORY - K is odd in the code, 2^19 and 5; MAX_PERIOD is exact only then.

BREAKS_TO_REFUTE == 2

VARIABLES
    det,     \* the detector
    stream,  \* history: the keys since the last restart
    checks   \* calls of check so far

vars == <<det, stream, checks>>

Windows == [1 .. K -> Keys]

\* restart_: an empty history.  The rings keep their slots, now dead.
Restarted(d) ==
    [d EXCEPT !.table = [w \in Windows |-> 0], !.pos = 0, !.base = 0, !.period = 0, !.next = 0,
              !.fired = FALSE, !.body_sum = << >>, !.unique = FALSE, !.reported = FALSE,
              !.periods_reported = 0]

Init ==
    /\ det = [keys |-> [i \in 0 .. HISTORY - 1 |-> NoKey],
              links |-> [i \in 0 .. HISTORY - 1 |-> 0],
              table |-> [w \in Windows |-> 0],
              pos |-> 0, base |-> 0, period |-> 0, next |-> 0, fired |-> FALSE,
              body_sum |-> << >>, unique |-> FALSE, reported |-> FALSE, periods_reported |-> 0,
              refuted |-> << >>, refuted_next |-> 1]
    /\ stream = << >>
    /\ checks = 0

-----------------------------------------------------------------------------
KeyAt(d, p) == d.keys[p % HISTORY]

LinkAt(d, p) == d.links[p % HISTORY]

\* windows_equal_.
WindowsEqual(d, left, right, length) ==
    \A o \in 0 .. length - 1 : KeyAt(d, left + o) = KeyAt(d, right + o)

IsSquare(d, start, period) == WindowsEqual(d, start - 2 * period, start - period, period)

\* window_fingerprint_ and window_sum_.
Window(d, start) == [i \in 1 .. K |-> KeyAt(d, start + i - 1)]

WindowSum(d, begin, end) ==
    [k \in Keys |-> Cardinality({p \in begin .. end - 1 : KeyAt(d, p) = k})]

\* table_remove_newest_ for each window that starts in [base, new_base).
TableWithout(d, new_base) ==
    [w \in Windows |-> IF /\ d.table[w] # 0
                          /\ d.table[w] - 1 \in d.base .. new_base - 1
                          /\ d.table[w] - 1 + K <= d.pos
                          /\ w = Window(d, d.table[w] - 1)
                         THEN 0 ELSE d.table[w]]

\* forget_before_.  The table is kept only while the detector searches.
ForgetBefore(d, new_base) ==
    [d EXCEPT !.table = IF d.period = 0 THEN TableWithout(d, new_base) ELSE @,
              !.base = new_base]

\* append_, with make_room_ at the largest ring.
AppendKey(d, key) ==
    LET roomy == IF MakeRoom(d) = d.base THEN d ELSE ForgetBefore(d, MakeRoom(d))
    IN  [roomy EXCEPT !.keys[d.pos % HISTORY] = key, !.links[d.pos % HISTORY] = 0,
                      !.pos = @ + 1]

\* table_exchange_ and link_window_.
LinkWindow(d, start) ==
    LET w == Window(d, start)
    IN  [d EXCEPT !.table[w] = start + 1, !.links[start % HISTORY] = d.table[w]]

\* rebuild_table_: the complete windows of the history, in order.
RebuildTable(d, end_start) ==
    LET starts == d.base .. end_start - 1
        newest(w, end) == Max({0} \cup {s + 1 : s \in {t \in starts : t < end /\ Window(d, t) = w}})
    IN  [d EXCEPT !.table = [w \in Windows |-> newest(w, end_start)],
                  !.links = [i \in 0 .. HISTORY - 1 |->
                      LET here == {s \in starts : s % HISTORY = i}
                      IN  IF here = {} THEN d.links[i]
                          ELSE LET s == CHOOSE t \in here : TRUE IN newest(Window(d, s), s)]]

-----------------------------------------------------------------------------
(* The broken periods.                                                     *)

Named(d, period, body_sum) ==
    {i \in DOMAIN d.refuted : d.refuted[i].period = period /\ d.refuted[i].body_sum = body_sum}

IsRefuted(d, period, body_sum) ==
    \E i \in Named(d, period, body_sum) : d.refuted[i].breaks >= BREAKS_TO_REFUTE

\* break_: the ring of broken periods evicts its oldest entry when full.
Broken(d, period, body_sum, breaks) ==
    LET entry == [period |-> period, body_sum |-> body_sum,
                  breaks |-> SmallerOf(BREAKS_TO_REFUTE, breaks), broke_since_restart |-> FALSE]
        named == Named(d, period, body_sum)
    IN  IF named # {}
          THEN [d EXCEPT !.refuted = [i \in DOMAIN @ |->
                  IF i \in named THEN [@[i] EXCEPT !.breaks = SmallerOf(BREAKS_TO_REFUTE, @ + breaks)]
                                 ELSE @[i]]]
          ELSE [d EXCEPT !.refuted = IF Len(@) < REFUTED_CAPACITY THEN Append(@, entry)
                                     ELSE [@ EXCEPT ![d.refuted_next] = entry],
                         !.refuted_next = (@ % REFUTED_CAPACITY) + 1]

\* mark_broke_since_restart_.
MarkBroke(d, period, body_sum) ==
    [d EXCEPT !.refuted = [i \in DOMAIN @ |->
        IF i \in Named(d, period, body_sum) THEN [@[i] EXCEPT !.broke_since_restart = TRUE] ELSE @[i]]]

-----------------------------------------------------------------------------
(* check.                                                                  *)

\* fire_, with trim_.
FirePeriod(d) ==
    LET boundary == d.next
        told == [d EXCEPT !.reported = TRUE,
                          !.periods_reported = IF d.reported THEN @ ELSE @ + 1,
                          !.next = boundary + d.period, !.fired = TRUE]
    IN  IF boundary - d.period <= d.base THEN told ELSE ForgetBefore(told, boundary - d.period)

\* The links back from a window: the n-th earlier one, plus one, or zero.
Earlier(d, link, n) ==
    LET chain[i \in 0 .. n] ==
          IF i = 0 THEN link
          ELSE IF chain[i - 1] = 0 \/ chain[i - 1] - 1 < d.base THEN 0
          ELSE LinkAt(d, chain[i - 1] - 1)
    IN  chain[n]

\* accept_, its scan: how often the window at a phase of the body occurs,
\* for the first copy of each window.
FirstCopies(d, start, length) ==
    {phase \in 0 .. length - 1 :
        LET link == LinkAt(d, start - length + phase) IN link = 0 \/ link - 1 < start - length}

Copies(d, start, length, phase) ==
    LET window_start == start - length + phase
        within(n) == LET link == Earlier(d, LinkAt(d, window_start), n)
                     IN  link # 0 /\ link - 1 + length > window_start
    IN  1 + Cardinality({n \in 0 .. length - 1 : \A m \in 0 .. n : within(m)})

\* accept_, its result: the fewest copies, and the earliest phase on a tie.
BestPhase(d, start, length) ==
    Min({p \in FirstCopies(d, start, length) :
           \A q \in FirstCopies(d, start, length) :
               Copies(d, start, length, p) <= Copies(d, start, length, q)})

Accept(d, start, length, body_sum) ==
    LET phase == BestPhase(d, start, length)
        accepted == [d EXCEPT !.period = length, !.body_sum = body_sum, !.reported = FALSE,
                              !.unique = Copies(d, start, length, phase) = 1,
                              !.next = start + phase]
    IN  IF phase = 0 THEN FirePeriod(accepted) ELSE accepted

\* Faulty: the broken periods are not looked up.
AcceptsRefuted(d, start, link) ==
    LET period == start - (link - 1) IN
    /\ link # 0
    /\ link - 1 >= d.base
    /\ start - d.base >= 2 * period
    /\ period >= K
    /\ IsSquare(d, start, period)

\* search_, its test of one earlier window.
Accepts(d, start, link) ==
    LET period == start - (link - 1) IN
    /\ link # 0
    /\ link - 1 >= d.base
    /\ start - d.base >= 2 * period
    /\ period >= K
    /\ IsSquare(d, start, period)
    /\ ~IsRefuted(d, period, WindowSum(d, start - period, start))

\* search_: the nearest earlier window that is accepted.
Search(d, start) ==
    LET link(n) == Earlier(d, LinkAt(d, start), n)
        hits == {n \in 0 .. MAX_CANDIDATES - 1 : Accepts(d, start, link(n))}
        period == start - (link(Min(hits)) - 1)
    IN  IF hits = {} THEN d
        ELSE Accept(d, start, period, WindowSum(d, start - period, start))

\* Faulty: a break leaves the table of the last search.
VerifyNoRebuild(d) ==
    IF IsSquare(d, d.next, d.period) /\ WindowsEqual(d, d.next - d.period, d.next, K)
      THEN FirePeriod(d)
      ELSE LET broken == Broken(d, d.period, d.body_sum, 1)
               marked == IF d.reported THEN MarkBroke(broken, d.period, d.body_sum) ELSE broken
           IN  [marked EXCEPT !.period = 0, !.unique = FALSE]

\* verify_boundary_: the period holds and is reported, or it breaks and the
\* search starts again over the same history.
VerifyBoundary(d) ==
    IF IsSquare(d, d.next, d.period) /\ WindowsEqual(d, d.next - d.period, d.next, K)
      THEN FirePeriod(d)
      ELSE LET broken == Broken(d, d.period, d.body_sum, 1)
               marked == IF d.reported THEN MarkBroke(broken, d.period, d.body_sum) ELSE broken
           IN  RebuildTable([marked EXCEPT !.period = 0, !.unique = FALSE], d.pos + 1 - K)

\* check.
Checked(d0, key) ==
    LET d == AppendKey([d0 EXCEPT !.fired = FALSE], key)
        start == d.pos - K
    IN  IF d.pos < K THEN d
        ELSE IF d.period # 0
          THEN IF d.pos = d.next + K THEN VerifyBoundary(d) ELSE d
          ELSE Search(LinkWindow(d, start), start)

CheckOp(key) ==
    /\ checks < MaxChecks
    /\ checks' = checks + 1
    /\ det' = Checked(det, key)
    /\ stream' = Append(stream, key)

\* restart_after_divergence.
RestartAfterDivergence ==
    LET struck == IF det.period # 0 /\ det.reported /\ det.periods_reported = 1 /\ det.unique
                    THEN Broken(det, det.period, det.body_sum, BREAKS_TO_REFUTE) ELSE det
        refuted == [i \in DOMAIN struck.refuted |->
                      [struck.refuted[i] EXCEPT
                         !.breaks = IF struck.refuted[i].broke_since_restart THEN BREAKS_TO_REFUTE ELSE @,
                         !.broke_since_restart = FALSE]]
    IN  /\ det' = Restarted([struck EXCEPT !.refuted = refuted])
        /\ stream' = << >>
        /\ UNCHANGED checks

\* reset: the broken periods are forgotten too.
Reset ==
    /\ det' = Restarted([det EXCEPT !.refuted = << >>, !.refuted_next = 1])
    /\ stream' = << >>
    /\ UNCHANGED checks

Next == (\E key \in Keys : CheckOp(key)) \/ RestartAfterDivergence \/ Reset

Spec == Init /\ [][Next]_vars

-----------------------------------------------------------------------------
(* Position p of the history is element p + 1 of the stream.               *)

At(s, p) == s[p + 1]

WindowOf(s, start) == [i \in 1 .. K |-> At(s, start + i - 1)]

SquareOf(s, start, period) ==
    \A o \in 0 .. period - 1 : At(s, start - 2 * period + o) = At(s, start - period + o)

SumOf(s, begin, end) == [k \in Keys |-> Cardinality({p \in begin .. end - 1 : At(s, p) = k})]

\* The types.  The period is within kPeriodBound, the contract of the
\* mint_refined call of search_.
TypeOK ==
    /\ checks \in 0 .. MaxChecks /\ stream \in Seq(Keys)
    /\ det.pos = Len(stream) /\ det.base \in 0 .. det.pos
    /\ det.period \in {0} \cup K .. (HISTORY - K - 1) \div 2
    /\ Len(det.refuted) <= REFUTED_CAPACITY
    /\ det.table \in [Windows -> 0 .. Len(stream)]

\* held_from_: no key of the history, nor the one before it, is overwritten
\* while the detector can still read it.
HistoryHeld ==
    \A p \in (IF det.base = 0 THEN 0 ELSE det.base - 1) .. det.pos - 1 :
        KeyAt(det, p) = At(stream, p)

\* The window table, while the detector searches: for each window of the
\* history the newest start, and from each start a link to the newest earlier
\* start of the same window, whatever was evicted, trimmed and rebuilt.
TableIsNewest ==
    LET starts == det.base .. det.pos - K
        same(s) == {t \in starts : t < s /\ WindowOf(stream, t) = WindowOf(stream, s)}
    IN  det.period = 0 =>
          /\ \A w \in Windows :
               det.table[w] = Max({0} \cup {s + 1 : s \in {t \in starts : WindowOf(stream, t) = w}})
          /\ \A s \in starts : same(s) # {} => LinkAt(det, s) = Max(same(s)) + 1

\* A reported boundary is one: two whole iterations of the stream before it
\* are equal, and the K ops just received begin the next one like them.
ReportsAreSquares ==
    LET boundary == det.next - det.period IN
    det.fired => /\ boundary >= 2 * det.period
                 /\ SquareOf(stream, boundary, det.period)
                 /\ boundary + K = Len(stream)
                 /\ WindowOf(stream, boundary) = WindowOf(stream, boundary - det.period)

\* accept_: an iteration begins with a window that occurs in it as seldom as
\* any does, and phase_is_unique says whether it occurs once.
PhaseIsRarest ==
    LET begin == det.next - 2 * det.period
        body == begin .. begin + det.period - 1
        occurs(s) == Cardinality({t \in body : WindowOf(stream, t) = WindowOf(stream, s)})
    IN  det.fired => /\ \A s \in body : occurs(begin) <= occurs(s)
                     /\ det.unique <=> occurs(begin) = 1

\* is_refuted: an iteration that is reported has a body that is not refuted,
\* at whichever of its rotations the period was found and broken before.
ReportedNotRefuted ==
    LET boundary == det.next - det.period IN
    det.fired => ~IsRefuted(det, det.period, SumOf(stream, boundary - det.period, boundary))

\* search_: an op accepts exactly the shortest period that the kept history
\* shows twice before the newest window, among the MAX_CANDIDATES nearest
\* copies of that window, and that is not refuted.
FindsShortest ==
    LET start == Len(stream') - K
        same(p) == WindowOf(stream', start - p) = WindowOf(stream', start)
        found == {p \in K .. start \div 2 :
                    /\ start - 2 * p >= MakeRoom(det)
                    /\ same(p)
                    /\ Cardinality({q \in 1 .. p : same(q)}) <= MAX_CANDIDATES
                    /\ SquareOf(stream', start, p)
                    /\ ~IsRefuted(det, p, SumOf(stream', start - p, start))}
    IN  checks' # checks /\ det.period = 0
          => det'.period = IF found = {} THEN 0 ELSE Min(found)

SearchFindsShortest == [][FindsShortest]_vars

\* What module DetectorPositions keeps of a detector.
Positions(d) == [pos |-> d.pos, base |-> d.base, period |-> d.period, next |-> d.next, fired |-> d.fired]

\* The positions of each check move as module DetectorPositions says, which
\* is all that the detect stage and oldest_claimable rely on.
PositionStep == checks' # checks => Positions(det') \in Check([Positions(det) EXCEPT !.fired = FALSE])

StepsArePositions == [][PositionStep]_vars

\* The history and its index: keys in place, the newest copy of each window.
DetectorInv == TypeOK /\ HistoryHeld /\ TableIsNewest

\* What on_iteration relies on: a reported iteration repeats the one before
\* it, begins at its rarest window and was not refuted before (check,
\* accept_, is_refuted).
ReportsAreSound == ReportsAreSquares /\ PhaseIsRarest /\ ReportedNotRefuted
===============================================================================
