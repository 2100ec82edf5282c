------------------------ MODULE TransactionLogProofs ------------------------
(***************************************************************************)
(* The transaction log for every number of slots from four on and every    *)
(* number of transactions: the active pointer, the places of the displaced *)
(* transactions and the slot of the last claim, and what a step does to    *)
(* the rollback target.                                                    *)
(***************************************************************************)
EXTENDS TransactionLog, TransactionOpsProofs

\* The inductive invariant: the log is well formed, its transactions and
\* regions are those the owner gave, and the last one is in its slot.
OwnerInv ==
    /\ WellFormed(log) /\ step \in Nat /\ step <= MaxSteps
    /\ \A i \in DOMAIN log.ring : /\ log.ring[i].step \in 1 .. step
                                  /\ log.ring[i].region \in (1 .. step) \cup {None}
    /\ step > 0 => \E i \in DOMAIN log.ring : log.ring[i].step = step

\* The empty log.
LEMMA OwnerInit == ASSUME MaxSteps \in Nat, Init PROVE OwnerInv
<1>1. EmptyLog.ring = << >> /\ EmptyLog.active = None /\ DOMAIN EmptyLog.ring = {}
      /\ Len(EmptyLog.ring) = 0
  BY DEF EmptyLog
<1>2. EmptyLog \in Logs
  BY DEF EmptyLog, Logs
<1>3. WellFormed(EmptyLog)
  BY <1>1, <1>2, RingAssumption, SMTT(30) DEF WellFormed, StepsDistinct, ActiveAgrees, PlacesAgree, RegionsKept
<1> QED
  BY <1>1, <1>3 DEF Init, OwnerInv

\* begin_tx: a fresh transaction takes a slot.
LEMMA BeginOwner ==
    ASSUME HaveGreatest, MaxSteps \in Nat, OwnerInv, BeginStep
    PROVE  /\ OwnerInv'
           /\ log'.active = log.active /\ Previous(log') = Previous(log)
<1>1. step \in Nat /\ step < MaxSteps /\ step' = step + 1 /\ WellFormed(log)
  BY DEF OwnerInv, BeginStep
<1>10. PICK s \in Nat : s = step'
  BY <1>1
<1>2. PICK b : s = step' /\ b = log' /\ b = BeginTx(log, s)
  BY <1>10 DEF BeginStep
<1>3. \A i \in DOMAIN log.ring : log.ring[i].step # s
  BY <1>1, <1>2, SMTT(30) DEF OwnerInv
<1>4. /\ WellFormed(b) /\ b.active = log.active /\ Previous(b) = Previous(log)
      /\ Len(b.ring) \in DOMAIN b.ring /\ b.ring[Len(b.ring)] = Recording(s)
      /\ \A i \in DOMAIN b.ring :
            b.ring[i] = Recording(s) \/ \E k \in DOMAIN log.ring : b.ring[i] = log.ring[k]
  BY <1>1, <1>2, <1>3, BeginKeeps, SMTT(30)
<1>5. Recording(s).step = s /\ Recording(s).region = None /\ s \in 1 .. s
  BY <1>1, <1>2, SMTT(30) DEF Recording
<1>6. \A k \in DOMAIN log.ring : /\ log.ring[k].step \in 1 .. s
                                 /\ log.ring[k].region \in (1 .. s) \cup {None}
  BY <1>1, <1>2, SMTT(30) DEF OwnerInv
<1>7. \A i \in DOMAIN b.ring : /\ b.ring[i].step \in 1 .. s
                               /\ b.ring[i].region \in (1 .. s) \cup {None}
  BY <1>4, <1>5, <1>6, SMTT(30)
<1>8. \E i \in DOMAIN b.ring : b.ring[i].step = s
  BY <1>4, <1>5, SMTT(30)
<1>9. s <= MaxSteps
  BY <1>1, <1>2, SMTT(30)
<1> QED
  BY <1>2, <1>4, <1>7, <1>8, <1>9, SMTT(30) DEF OwnerInv

\* An operation that keeps the slots and gives no region keeps the rest.
LEMMA SlotsOwner ==
    ASSUME OwnerInv, WellFormed(log'), step' = step,
           DOMAIN log'.ring = DOMAIN log.ring,
           \A i \in DOMAIN log.ring :
              /\ log'.ring[i].step = log.ring[i].step
              /\ log'.ring[i].region \in {log.ring[i].region, log.ring[i].step}
    PROVE  OwnerInv'
<1>1. ASSUME NEW i \in DOMAIN log.ring
      PROVE  /\ log'.ring[i].step \in 1 .. step
             /\ log'.ring[i].region \in (1 .. step) \cup {None}
  BY DEF OwnerInv
<1> QED
  BY <1>1, SMTT(30) DEF OwnerInv

\* A pointer to a transaction of the log leads to a slot.
LEMMA StepSlot == ASSUME NEW s \in Steps(log) PROVE \E k \in DOMAIN log.ring : log.ring[k].step = s
  BY SMTT(60) DEF Steps, Entries

\* commit: the region of the transaction.
LEMMA CommitOwner ==
    ASSUME OwnerInv, NEW s \in Steps(log), CommitStep(s)
    PROVE  OwnerInv' /\ log'.active = log.active
<1>1. PICK k \in DOMAIN log.ring : log.ring[k].step = s
  BY StepSlot
<1>2. PICK m : m = log' /\ m = Commit(log, log.ring[k].step, s)
  BY <1>1, SMTT(30) DEF CommitStep
<1>3. WellFormed(log) /\ s \in Nat /\ step' = step
  BY <1>1, LogTypes, SMTT(60) DEF OwnerInv, WellFormed, CommitStep
<1>4. /\ WellFormed(m) /\ m.active = log.active /\ DOMAIN m.ring = DOMAIN log.ring
      /\ \A i \in DOMAIN log.ring : /\ m.ring[i].step = log.ring[i].step
                                    /\ i # k => m.ring[i] = log.ring[i]
      /\ m.ring[k].region \in {log.ring[k].region, s}
  BY <1>2, <1>3, CommitKeeps, SMTT(30)
<1>5. \A i \in DOMAIN log.ring : m.ring[i].region \in {log.ring[i].region, log.ring[i].step}
  BY <1>1, <1>4, SMTT(30)
<1> QED
  BY <1>2, <1>3, <1>4, <1>5, SlotsOwner, SMTT(30)

\* activate: the new active transaction, and the newest displacement.
LEMMA ActivateOwner ==
    ASSUME HaveGreatest, OwnerInv, NEW s \in Steps(log), ActivateStep(s)
    PROVE  /\ OwnerInv'
           /\ \/ log' = log
              \/ /\ log'.active = s
                 /\ Previous(log') = IF log.active = None THEN Previous(log) ELSE log.active
<1>1. PICK k \in DOMAIN log.ring : log.ring[k].step = s
  BY StepSlot
<1>2. PICK z : z = log' /\ z = Activate(log, log.ring[k].step)
  BY <1>1 DEF ActivateStep
<1>3. WellFormed(log) /\ step' = step /\ log \in Logs /\ ActiveAgrees(log) /\ PlacesAgree(log)
  BY SMTT(30) DEF OwnerInv, WellFormed, ActivateStep
<1>4. /\ WellFormed(z) /\ SameSlots(log, z)
      /\ \/ z = log /\ log.ring[k].status # "COMMITTED"
         \/ /\ log.ring[k].status = "COMMITTED" /\ z.active = log.ring[k].step
            /\ z.displacements = log.displacements + (IF log.active = None THEN 0 ELSE 1)
            /\ \A i \in DOMAIN log.ring :
                  IF i = k THEN z.ring[i].status = "ACTIVE"
                  ELSE IF log.ring[i].step = log.active
                    THEN z.ring[i].status = "SUPERSEDED" /\ z.ring[i].order = log.displacements + 1
                    ELSE z.ring[i] = log.ring[i]
  BY <1>2, <1>3, ActivateKeeps, SMTT(30)
<1>5. /\ DOMAIN z.ring = DOMAIN log.ring
      /\ \A i \in DOMAIN log.ring : /\ z.ring[i].step = log.ring[i].step
                                    /\ z.ring[i].region = log.ring[i].region
  BY <1>4, SMTT(60) DEF SameSlots
<1>6. OwnerInv'
  BY <1>2, <1>3, <1>4, <1>5, SlotsOwner, Zenon
<1>7. ASSUME z # log
      PROVE  Previous(z) = IF log.active = None THEN Previous(log) ELSE log.active
  <2>1. /\ log.ring[k].status = "COMMITTED"
        /\ \A i \in DOMAIN log.ring :
              IF i = k THEN z.ring[i].status = "ACTIVE"
              ELSE IF log.ring[i].step = log.active
                THEN z.ring[i].status = "SUPERSEDED" /\ z.ring[i].order = log.displacements + 1
                ELSE z.ring[i] = log.ring[i]
    BY <1>4, <1>7, SMTT(30)
  <2>2. CASE log.active = None
    <3>1. \A i \in DOMAIN log.ring : log.ring[i].step # log.active
      BY <1>3, <2>2, LogTypes, RingAssumption, SMTT(30)
    <3>2. \A i \in DOMAIN log.ring : /\ i # k => z.ring[i] = log.ring[i]
                                     /\ i = k => z.ring[i].status = "ACTIVE"
      BY <2>1, <3>1, SMTT(30)
    <3>3. CASE \A i \in DOMAIN log.ring : log.ring[i].status # "SUPERSEDED"
      <4>1. Superseded(log) = {} /\ Superseded(z) = {}
        BY <1>5, <3>2, <3>3, SMTT(30) DEF Superseded, Entries
      <4> QED
        BY <2>2, <4>1, SMTT(30) DEF Previous
    <3>4. ASSUME NEW p, Top(log, p), Previous(log) = log.ring[p].step PROVE Previous(z) = Previous(log)
      <4>1. p \in DOMAIN log.ring /\ p # k
        BY <2>1, <3>4, SMTT(30) DEF Top
      <4>2. Top(z, p)
        BY <1>5, <3>2, <3>4, <4>1, SMTT(30) DEF Top
      <4> QED
        BY <1>4, <1>5, <3>4, <4>1, <4>2, PreviousIsTop, SMTT(60)
    <3> QED
      BY <1>3, <2>2, <3>3, <3>4, PreviousFacts, SMTT(30)
  <2>3. CASE log.active # None
    <3>1. PICK a \in DOMAIN log.ring : log.ring[a].step = log.active
      BY <1>3, <2>3, SMTT(30) DEF ActiveAgrees
    <3>2. a # k
      BY <1>3, <2>1, <3>1, SMTT(30) DEF ActiveAgrees
    <3>3. z.ring[a].status = "SUPERSEDED" /\ z.ring[a].order = log.displacements + 1
      BY <2>1, <3>1, <3>2, SMTT(30)
    <3>4. log.displacements \in Nat
      BY <1>3, LogTypes, SMTT(30)
    <3>5. ASSUME NEW j \in DOMAIN log.ring, z.ring[j].status = "SUPERSEDED"
          PROVE  z.ring[j].order <= log.displacements + 1
      <4>1. CASE j # k /\ log.ring[j].step = log.active
        BY <2>1, <3>4, <4>1, SMTT(30)
      <4>2. CASE j # k /\ log.ring[j].step # log.active
        <5>1. z.ring[j] = log.ring[j]
          BY <2>1, <4>2, SMTT(30)
        <5>2. log.ring[j].order \in 1 .. log.displacements
          BY <1>3, <3>5, <5>1, SMTT(30) DEF PlacesAgree
        <5> QED
          BY <3>4, <5>1, <5>2, SMTT(30)
      <4>3. j # k
        BY <2>1, <3>5, SMTT(30)
      <4> QED
        BY <4>1, <4>2, <4>3, SMTT(30)
    <3>6. Top(z, a)
      BY <1>5, <3>1, <3>3, <3>5, SMTT(60) DEF Top
    <3> QED
      BY <1>4, <1>5, <2>3, <3>1, <3>6, PreviousIsTop, SMTT(60)
  <2> QED
    BY <2>2, <2>3, SMTT(30)
<1> QED
  BY <1>1, <1>2, <1>4, <1>6, <1>7, SMTT(60)

\* rollback: the target is active again.
LEMMA RollbackOwner ==
    ASSUME HaveGreatest, OwnerInv, RollbackStep
    PROVE  OwnerInv' /\ (log' = log \/ log'.active = Previous(log))
<1>1. PICK z : z = log' /\ z = Rollback(log)
  BY DEF RollbackStep
<1>2. WellFormed(log) /\ step' = step
  BY DEF OwnerInv, RollbackStep
<1>3. /\ WellFormed(z) /\ SameSlots(log, z)
      /\ \/ z = log
         \/ z.active = Previous(log)
  BY <1>1, <1>2, RollbackKeeps, SMTT(30)
<1>4. /\ DOMAIN z.ring = DOMAIN log.ring
      /\ \A i \in DOMAIN log.ring : /\ z.ring[i].step = log.ring[i].step
                                    /\ z.ring[i].region = log.ring[i].region
  BY <1>3 DEF SameSlots
<1> QED
  BY <1>1, <1>2, <1>3, <1>4, SlotsOwner, SMTT(30)

\* Every step keeps the invariant, and a claim the active transaction and
\* the rollback target.
LEMMA OwnerStep == ASSUME HaveGreatest, MaxSteps \in Nat, OwnerInv, [Next]_vars PROVE OwnerInv' /\ ClaimStep
<1>0. step \in Nat
  BY DEF OwnerInv
<1>1. CASE BeginStep
  <2>1. OwnerInv' /\ log'.active = log.active /\ Previous(log') = Previous(log)
    BY <1>1, BeginOwner, SMTT(30)
  <2> QED
    BY <2>1 DEF ClaimStep, Kept
<1>2. ASSUME NEW s \in Steps(log), CommitStep(s) \/ ActivateStep(s) PROVE OwnerInv' /\ step' = step
  BY <1>2, CommitOwner, ActivateOwner, SMTT(30) DEF CommitStep, ActivateStep
<1>3. CASE RollbackStep
  BY <1>3, RollbackOwner, SMTT(30) DEF RollbackStep, ClaimStep
<1>4. CASE UNCHANGED vars
  BY <1>4 DEF vars, OwnerInv, ClaimStep
<1> QED
  BY <1>1, <1>2, <1>3, <1>4, SMTT(30) DEF Next, ClaimStep

\* The invariant says what the runs check.
LEMMA OwnerImplies == ASSUME MaxSteps \in Nat, OwnerInv PROVE LogInv
<1>0. /\ WellFormed(log) /\ log \in Logs /\ Len(log.ring) <= N /\ StepsDistinct(log)
      /\ ActiveAgrees(log) /\ PlacesAgree(log)
  BY DEF OwnerInv, WellFormed
<1>1. \A e : e \in Entries(log) <=> \E i \in DOMAIN log.ring : e = log.ring[i]
  BY DEF Entries
<1>2. TypeOK
  <2> DEFINE Typed == [step : 1 .. MaxSteps, status : Statuses, order : Nat,
                       region : (1 .. MaxSteps) \cup {None}]
  <2>1. /\ log.ring \in Seq(Slot) /\ Len(log.ring) \in Nat /\ DOMAIN log.ring = 1 .. Len(log.ring)
        /\ log.displacements \in Nat /\ log.active \in Nat \cup {None}
    BY <1>0, LogTypes, SMTT(30)
  <2>2. ASSUME NEW i \in DOMAIN log.ring PROVE log.ring[i] \in Typed
    <3>1. log.ring[i] \in Slot /\ log.ring[i].step \in 1 .. step
          /\ log.ring[i].region \in (1 .. step) \cup {None} /\ step \in Nat /\ step <= MaxSteps
      BY <1>0, LogTypes, SMTT(30) DEF OwnerInv
    <3>2. log.ring[i].step \in 1 .. MaxSteps /\ log.ring[i].region \in (1 .. MaxSteps) \cup {None}
      BY <3>1
    <3> QED
      BY <3>1, <3>2, SMTT(30) DEF Slot, Status, Statuses
  <2>3. log.ring \in Seq(Typed)
    <3> HIDE DEF Typed
    <3>1. log.ring \in [1 .. Len(log.ring) -> Typed]
      BY <2>1, <2>2, SMTT(30)
    <3> QED
      BY <2>1, <3>1, FunctionSeq, SMTT(30)
  <2>4. log.active \in Steps(log) \cup {None}
    BY <1>0, SMTT(30) DEF ActiveAgrees, Steps, Entries
  <2>5. step \in 0 .. MaxSteps
    BY DEF OwnerInv
  <2> QED
    BY <1>0, <2>1, <2>3, <2>4, <2>5, SMTT(60) DEF TypeOK
<1>3. OneActive
  BY <1>0, <1>1, SMTT(30) DEF OneActive, ActiveAgrees
<1>4. PlacesDistinct
  <2> SUFFICES ASSUME NEW e \in Superseded(log), NEW f \in Superseded(log)
               PROVE  /\ e.order \in 1 .. log.displacements
                      /\ e.order = f.order => e.step = f.step
    BY DEF PlacesDistinct
  <2>1. PICK i, j \in DOMAIN log.ring : /\ e = log.ring[i] /\ log.ring[i].status = "SUPERSEDED"
                                        /\ f = log.ring[j] /\ log.ring[j].status = "SUPERSEDED"
    BY <1>1, SMTT(30) DEF Superseded
  <2> QED
    BY <1>0, <2>1, SMTT(30) DEF PlacesAgree
<1>5. LastClaimKept
  BY DEF LastClaimKept, OwnerInv, Steps, Entries
<1> QED
  BY <1>2, <1>3, <1>4, <1>5, SMTT(30) DEF LogInv

W == INSTANCE WellFoundedInduction

\* A set of naturals with a bound has a greatest element.
LEMMA GreatestNat == HaveGreatest
<1> SUFFICES ASSUME NEW k \in Nat, NEW S \in SUBSET (0 .. k), S # {}
             PROVE  \E n \in S : \A m \in S : m <= n
  BY Zenon DEF HaveGreatest
<1> DEFINE R == W!OpToRel(<, Nat)
           T == {x \in Nat : x <= k /\ k - x \in S}
<1>1. W!IsWellFoundedOn(R, Nat)
  BY W!NatLessThanWellFounded, Zenon
<1>2. \A a, b \in Nat : a < b => <<a, b>> \in R
  BY DEF W!OpToRel
<1>3. T # {} /\ T \subseteq Nat
  <2>1. PICK n \in S : TRUE
    BY Zenon
  <2>2. k - n \in Nat /\ k - n <= k /\ k - (k - n) = n
    OBVIOUS
  <2> QED
    BY <2>1, <2>2, Zenon
<1> HIDE DEF R
<1>4. PICK x \in T : \A y \in T : ~ (<<y, x>> \in R)
  BY <1>1, <1>3, W!WFMin, Zenon
<1>5. ASSUME NEW m \in S PROVE m <= k - x
  <2>1. k - m \in Nat /\ k - m <= k /\ k - (k - m) = m /\ x \in Nat /\ x <= k
    BY <1>4
  <2>2. k - m \in T
    BY <2>1
  <2>3. ~(k - m < x)
    BY <1>2, <1>4, <2>1, <2>2, Zenon
  <2> QED
    BY <2>1, <2>3
<1> QED
  BY <1>4, <1>5

\* What every operation of the log keeps, for every number of slots from four
\* on: one ACTIVE transaction, the one active_tx_ points to and never in a
\* recycled slot; distinct places, so that previous has one result; and the
\* slot of the last claim.
THEOREM LogCorrect == ASSUME MaxSteps \in Nat PROVE Spec => []LogInv
<1>1. Init => OwnerInv
  BY OwnerInit
<1>2. OwnerInv /\ [Next]_vars => OwnerInv'
  BY OwnerStep, GreatestNat
<1>3. OwnerInv => LogInv
  BY OwnerImplies
<1> QED
  BY <1>1, <1>2, <1>3, PTL DEF Spec

\* begin_tx never changes the active transaction or the rollback target, even
\* when the ring is full and it has to recycle a slot.
THEOREM ClaimKeepsTarget == ASSUME MaxSteps \in Nat PROVE Spec => [][ClaimStep]_vars
<1>1. Init => OwnerInv
  BY OwnerInit
<1>2. OwnerInv /\ [Next]_vars => OwnerInv'
  BY OwnerStep, GreatestNat
<1>3. OwnerInv /\ [Next]_vars => [ClaimStep]_vars
  BY OwnerStep, GreatestNat
<1> QED
  BY <1>1, <1>2, <1>3, PTL DEF Spec

\* The top of the undo stack: a new active transaction is the rollback target,
\* or it displaces the old one, which is then the target.
NewestFirst ==
    log'.active # log.active =>
      \/ log'.active = Previous(log)
      \/ Previous(log') = IF log.active = None THEN Previous(log) ELSE log.active

\* A rollback restores the transaction displaced last, in whatever order the
\* transactions were claimed, committed and activated.
THEOREM RollbackRestoresNewest == ASSUME MaxSteps \in Nat PROVE Spec => [][NewestFirst]_vars
<1>1. Init => OwnerInv
  BY OwnerInit
<1>2. OwnerInv /\ [Next]_vars => OwnerInv'
  BY OwnerStep, GreatestNat
<1>3. OwnerInv /\ [Next]_vars => [NewestFirst]_vars
  <2> SUFFICES ASSUME OwnerInv, Next PROVE NewestFirst
    OBVIOUS
  <2>1. CASE BeginStep
    BY <2>1, BeginOwner, GreatestNat, SMTT(30) DEF NewestFirst
  <2>2. ASSUME NEW s \in Steps(log), CommitStep(s) PROVE NewestFirst
    BY <2>2, CommitOwner, SMTT(30) DEF NewestFirst
  <2>3. ASSUME NEW s \in Steps(log), ActivateStep(s) PROVE NewestFirst
    BY <2>3, ActivateOwner, GreatestNat, SMTT(30) DEF NewestFirst
  <2>4. CASE RollbackStep
    BY <2>4, RollbackOwner, GreatestNat DEF NewestFirst
  <2> QED
    BY <2>1, <2>2, <2>3, <2>4, SMTT(30) DEF Next
<1> QED
  BY <1>1, <1>2, <1>3, PTL DEF Spec
=============================================================================
