----------------------------- MODULE HyParView -----------------------------
(* One HyParViewMembership (canopy/HyParView.h): the active and the passive  *)
(* view of the overlay.  A draw of the Philox generator is any index of the  *)
(* view it picks from; identities are opaque and the seed is left out.       *)
EXTENDS Naturals, Sequences, SequencesExt

CONSTANTS Peers, ActiveSize, PassiveSize,   \* HyParViewConfig
          MaxSample                         \* bound on a gossiped shuffle

VARIABLES active, passive,   \* the two views
          aborted            \* a CRUCIBLE_FATAL_INVARIANT of populate failed

vars == <<active, passive, aborted>>

Samples == SeqOf(Peers, MaxSample)

TypeOK ==
  /\ active \in SeqOf(Peers, ActiveSize)
  /\ passive \in SeqOf(Peers, PassiveSize)
  /\ aborted \in BOOLEAN

Init == active = <<>> /\ passive = <<>> /\ aborted = FALSE

contains(a, q, p) == p \in Range(a) \/ p \in Range(q)

(* The last peer of a view moves into the slot of the removed one.           *)
Removed(view, p) ==
  IF p \notin Range(view) THEN view
  ELSE LET i == CHOOSE j \in DOMAIN view : view[j] = p
       IN  Front([view EXCEPT ![i] = Last(view)])

(* A full passive view forgets a random peer for the new one.                *)
PassiveWith(q, p) ==
  IF Len(q) < PassiveSize THEN {Append(q, p)}
  ELSE {[q EXCEPT ![i] = p] : i \in DOMAIN q}

Join(p) ==
  /\ ~contains(active, passive, p) /\ Len(active) < ActiveSize
  /\ active' = Append(active, p)
  /\ UNCHANGED <<passive, aborted>>

AddPassive(p) ==
  /\ ~contains(active, passive, p)
  /\ passive' \in PassiveWith(passive, p)
  /\ UNCHANGED <<active, aborted>>

(* A member that left the active view is replaced by a random passive one.   *)
PromotePassive(a, q) ==
  IF q = <<>> \/ Len(a) = ActiveSize THEN active' = a /\ passive' = q
  ELSE \E i \in DOMAIN q : active' = Append(a, q[i]) /\ passive' = Removed(q, q[i])

\* Faulty: nobody is promoted.
MarkFailed_no_promotion(p) ==
  /\ contains(active, passive, p)
  /\ active' = Removed(active, p)
  /\ passive' = Removed(passive, p)
  /\ UNCHANGED aborted

MarkFailed(p) ==
  /\ contains(active, passive, p)
  /\ IF p \in Range(active) THEN PromotePassive(Removed(active, p), Removed(passive, p))
     ELSE UNCHANGED active /\ passive' = Removed(passive, p)
  /\ UNCHANGED aborted

(* A Dead event fails the peer; any other makes it known.                    *)
OnSwimEvent(p, dead) == IF dead THEN MarkFailed(p) ELSE AddPassive(p)

(* The passive views that a sample can leave behind, peer by peer.           *)
Shuffled(a, q, sample) ==
  LET Take(views, p) ==
        UNION {IF contains(a, v, p) THEN {v} ELSE PassiveWith(v, p) : v \in views}
  IN  FoldLeft(Take, {q}, sample)

ApplyShuffle(sample) ==
  /\ passive' \in Shuffled(active, passive, sample)
  /\ UNCHANGED <<active, aborted>>

(* populate_hyparview_membership: every peer and the room are checked before *)
(* the first insertion.                                                      *)
Listed(acts, pass) == IsInjective(acts \o pass)

Admitted(acts, pass) ==
  /\ Len(acts) <= ActiveSize - Len(active)
  /\ Len(pass) <= PassiveSize - Len(passive)
  /\ Listed(acts, pass)
  /\ \A p \in Range(acts \o pass) : ~contains(active, passive, p)

(* The insertions: each join and each add_passive checks again, and a        *)
(* refusal stops the process.                                                *)
Populate(acts, pass) ==
  /\ Admitted(acts, pass)
  /\ active' = active \o acts
  /\ passive' = passive \o pass
  /\ aborted' = ~(/\ IsInjective(active \o acts \o passive \o pass)
                  /\ Len(active \o acts) <= ActiveSize)

Next ==
  /\ ~aborted
  /\ \/ \E p \in Peers : \/ Join(p) \/ AddPassive(p) \/ MarkFailed(p)
                         \/ \E dead \in BOOLEAN : OnSwimEvent(p, dead)
     \/ \E sample \in Samples : ApplyShuffle(sample)
     \/ \E acts, pass \in Samples : Populate(acts, pass)

Spec == Init /\ [][Next]_vars

(* The two views are disjoint and hold no peer twice, through every random   *)
(* eviction, promotion and shuffle, and however often a sample repeats a     *)
(* peer (contains_, add_passive_unique_, promote_passive_, apply_shuffle).   *)
ViewsDisjoint == IsInjective(active \o passive)

(* "Every check passed, so no insertion below can refuse": the checks that   *)
(* populate_hyparview_membership makes before it inserts cover every refusal *)
(* of join and add_passive, so its fatal invariants never fire.              *)
PopulateNeverAborts == ~aborted

(* A failed member of the active view is replaced at once: the view shrinks  *)
(* only when the passive view has no one left to promote (mark_failed,       *)
(* promote_passive_).                                                        *)
RefillStep == Len(active') < Len(active) => passive' = <<>>

ActiveRefilled == [][RefillStep]_vars

(* The two views as sets without a repetition, populated without an abort.   *)
ViewsInv == TypeOK /\ ViewsDisjoint /\ PopulateNeverAborts
===========================================================================
