---------------------------- MODULE TransactionLog ----------------------------
(***************************************************************************)
(* TransactionLog<N, Owner> under any use of its interface by the owning   *)
(* thread: transactions are begun, committed and activated in any order,   *)
(* and a rollback may come at any point.  step_id and the region of a      *)
(* commit are numbers: the region of transaction s is s.                   *)
(***************************************************************************)
EXTENDS TransactionOps, FiniteSets

CONSTANT MaxSteps   \* bound: transactions begun

VARIABLES
    log,
    step   \* the last step_id the owner gave

vars == <<log, step>>

Init == log = EmptyLog /\ step = 0

BeginStep ==
    /\ step < MaxSteps
    /\ step' = step + 1
    /\ log' = BeginTx(log, step')

CommitStep(s) ==
    /\ log' = Commit(log, s, s)
    /\ UNCHANGED step

ActivateStep(s) ==
    /\ log' = Activate(log, s)
    /\ UNCHANGED step

RollbackStep ==
    /\ log' = Rollback(log)
    /\ UNCHANGED step

Next == \/ BeginStep
        \/ \E s \in Steps(log) : CommitStep(s) \/ ActivateStep(s)
        \/ RollbackStep

Spec == Init /\ [][Next]_vars

-----------------------------------------------------------------------------
Statuses == {"RECORDING", "CLOSED", "COMMITTED", "ACTIVE", "SUPERSEDED", "ROLLED_BACK"}

\* The types, and the N slots of the ring.
TypeOK ==
    /\ step \in 0 .. MaxSteps
    /\ log.ring \in Seq([step : 1 .. MaxSteps, status : Statuses, order : Nat,
                         region : (1 .. MaxSteps) \cup {None}])
    /\ Len(log.ring) <= N
    /\ log.active \in Steps(log) \cup {None}
    /\ log.displacements \in Nat

\* The active pointer and the statuses agree: one transaction is ACTIVE, the
\* one active_tx_ points to, and its slot was not recycled under it.
OneActive ==
    \A e \in Entries(log) : (e.status = "ACTIVE") <=> (e.step = log.active)

\* "No two superseded transactions share a place", and each has one, so the
\* scan of previous has one result in any order.
PlacesDistinct ==
    \A e, f \in Superseded(log) :
        /\ e.order \in 1 .. log.displacements
        /\ e.order = f.order => e.step = f.step

\* "With the fourth slot, a claim also never recycles the slot of the last
\* claim": the transaction begun last is in the ring.
LastClaimKept == step > 0 => step \in Steps(log)

\* What every operation of the log keeps: the active pointer, the places of
\* the displaced transactions and the slot of the last claim.
LogInv == TypeOK /\ OneActive /\ PlacesDistinct /\ LastClaimKept

\* "A claim does not change the rollback target", nor the active transaction.
ClaimStep == step' # step => Kept(log') = Kept(log) /\ log'.active = log.active

\* The log implements a stack of displaced transactions: a rollback restores
\* the newest displacement whatever order the transactions were claimed and
\* activated in, and a claim in a full ring forgets only below the top.
Displaced ==
    LET older(e) == {f \in Superseded(log) : f.order < e.order}
        place(i) == CHOOSE e \in Superseded(log) : Cardinality(older(e)) = i - 1
    IN  [i \in 1 .. Cardinality(Superseded(log)) |-> place(i).step]

Undo == INSTANCE UndoStack WITH Transactions <- 1 .. MaxSteps, active <- log.active, stack <- Displaced

ImplementsStack == Undo!Spec /\ [][ClaimStep]_vars
===============================================================================
