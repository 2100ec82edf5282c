---------------------------- MODULE TransactionOps ----------------------------
(***************************************************************************)
(* The operations of TransactionLog<N, Owner> on a log value.  A log is    *)
(* the ring (its entries from the oldest claim to the newest), the step of *)
(* the active transaction, and the count of displacements.  A pointer to a *)
(* transaction is its step_id, which the owner never repeats; the fields   *)
(* of an entry that no operation tests (hashes, time stamps) are left out. *)
(***************************************************************************)
EXTENDS Integers, Sequences

CONSTANTS
    N,     \* slots of the ring
    None   \* a null pointer, to a transaction or a region

ASSUME RingAssumption == N \in Nat /\ N >= 4 /\ None \notin Nat

EmptyLog == [ring |-> << >>, active |-> None, displacements |-> 0]

\* The slot of a fresh claim.
Recording(step) == [step |-> step, status |-> "RECORDING", order |-> 0, region |-> None]

Entries(l) == {l.ring[i] : i \in DOMAIN l.ring}

Steps(l) == {e.step : e \in Entries(l)}

\* The entry a pointer leads to, and the log with an entry of new content.
Entry(l, step) == CHOOSE e \in Entries(l) : e.step = step

Updated(l, entry) ==
    [l EXCEPT !.ring = [i \in DOMAIN l.ring |->
        IF l.ring[i].step = entry.step THEN entry ELSE l.ring[i]]]

WithStatus(l, step, status) == Updated(l, [Entry(l, step) EXCEPT !.status = status])

Superseded(l) == {e \in Entries(l) : e.status = "SUPERSEDED"}

\* Faulty: the target is the superseded transaction claimed last.
PreviousByClaim(l) ==
    IF Superseded(l) = {} THEN None
    ELSE (CHOOSE e \in Superseded(l) : \A f \in Superseded(l) : f.step <= e.step).step

\* previous: the rollback target, the newest displacement.
Previous(l) ==
    IF Superseded(l) = {} THEN None
    ELSE (CHOOSE e \in Superseded(l) : \A f \in Superseded(l) : f.order <= e.order).step

\* The slots a claim keeps.
Kept(l) == {l.active, Previous(l)}

\* One pass of begin_tx: a full ring whose oldest slot must stay claims that
\* slot, which makes it the newest entry.
Pass(l, target) ==
    IF Len(l.ring) = N /\ Head(l.ring).step \in {l.active, target}
      THEN [l EXCEPT !.ring = Append(Tail(l.ring), Head(l.ring))]
      ELSE l

\* begin_tx: up to two passes, then the claim and the reset of the slot.
BeginTx(l, step) ==
    LET m == Pass(Pass(l, Previous(l)), Previous(l)) IN
    [m EXCEPT !.ring = Append(IF Len(m.ring) = N THEN Tail(m.ring) ELSE m.ring, Recording(step))]

CanCommit(l, step) == Entry(l, step).status \in {"RECORDING", "CLOSED"}

\* commit; a transaction in another state is refused and stays as it is.
Commit(l, step, region) ==
    IF ~CanCommit(l, step) THEN l
    ELSE Updated(l, [Entry(l, step) EXCEPT !.region = region, !.status = "COMMITTED"])

CanActivate(l, step) == Entry(l, step).status = "COMMITTED"

\* activate: the active transaction is displaced and takes the newest place.
Activate(l, step) ==
    LET place == l.displacements + 1
        m == IF l.active = None THEN l
             ELSE [Updated(l, [Entry(l, l.active) EXCEPT !.status = "SUPERSEDED", !.order = place])
                     EXCEPT !.displacements = place]
    IN  IF CanActivate(l, step)
          THEN [WithStatus(m, step, "ACTIVE") EXCEPT !.active = step]
          ELSE l

\* rollback: the target becomes active again, the active one is rolled back.
\* Without a target it returns false and changes nothing.
Rollback(l) ==
    LET target == Previous(l)
        m == IF l.active = None THEN l ELSE WithStatus(l, l.active, "ROLLED_BACK")
    IN  IF target = None THEN l
        ELSE [WithStatus(m, target, "ACTIVE") EXCEPT !.active = target]

\* The region of the active transaction.
ActiveRegion(l) == IF l.active = None THEN None
                   ELSE Entry(l, l.active).region

\* for_each_region.
RegionsOf(l) == {e.region : e \in Entries(l)} \ {None}
===============================================================================
