----------------------------- MODULE Quarantine -----------------------------
(* The quarantine policy of the Warden (crucible/warden/Quarantine.h): facts *)
(* about cogs arrive, each with the sequence number of its source, late ones *)
(* included, and move the state that decides how much load a cog is given.   *)
(* A health report is what the scores make of it: Ok, Suspect, Quarantine or *)
(* Critical.                                                                 *)
EXTENDS Naturals, FiniteSets

CONSTANTS Cogs, MaxCogs,
          ProbeCount,      \* config_.recovery_probe_count
          Deadline,        \* config_.permanent_after_ns
          MaxEvents,
          MaxSequence,     \* bound on the sequence numbers
          MaxTime, MaxLog  \* bounds on the clock and on the events

States == {"Healthy", "Suspect", "Quarantined", "Recovered", "Permanent"}

VARIABLES slots,     \* the occupied slots, by cog
          audit,     \* events_, next_event_, event_count_
          clock,
          logged,    \* history: events appended
          streak,    \* history per cog: passing probes of its quarantines since a failed one or a return to load
          loaded     \* history per cog: the last time it was Healthy or Suspect

vars == <<slots, audit, clock, logged, streak, loaded>>

Fresh == [state |-> "Healthy", signals |-> {}, probes |-> 0, quarantine_since |-> 0, sequence |-> 0]
NoEvent == [cog |-> "none", from |-> "Healthy", to |-> "Healthy", sequence |-> 0]

Init ==
  /\ slots = [c \in {} |-> Fresh]
  /\ audit = [events |-> [i \in 0..MaxEvents - 1 |-> NoEvent], next |-> 0, count |-> 0]
  /\ clock = 1 /\ logged = 0
  /\ streak = [c \in Cogs |-> 0]
  /\ loaded = [c \in Cogs |-> 1]

(* find_or_insert, then try_advance, which takes an equal number too.        *)
Admitted(c, sequence) ==
  /\ logged < MaxLog
  /\ c \in DOMAIN slots \/ Cardinality(DOMAIN slots) < MaxCogs
  /\ c \in DOMAIN slots => slots[c].sequence <= sequence

Slot(c) == IF c \in DOMAIN slots THEN slots[c] ELSE Fresh

\* A refused fact of a cog seen for the first time cannot be: its slot is at 0.
Record(c, s) == slots' = [d \in DOMAIN slots \union {c} |-> IF d = c THEN s ELSE slots[d]]

append_event(c, s, from, to) ==
  /\ audit' = [events |-> [audit.events EXCEPT ![audit.next] =
                 [cog |-> c, from |-> from, to |-> to, sequence |-> s.sequence]],
               next |-> (audit.next + 1) % MaxEvents,
               count |-> IF audit.count < MaxEvents THEN audit.count + 1 ELSE audit.count]
  /\ logged' = logged + 1

\* Faulty: the count of passed probes outlives the return to service.
entered_keeps_probes(s, next) ==
  [s EXCEPT !.state = next,
            !.quarantine_since =
               IF next = "Quarantined" /\ @ = 0 THEN clock ELSE IF next \in {"Healthy", "Suspect"} THEN 0 ELSE @]

(* The fields that a transition sets.                                        *)
entered(s, next) ==
  [s EXCEPT !.state = next,
            !.quarantine_since =
               IF next = "Quarantined" /\ @ = 0 THEN clock ELSE IF next \in {"Healthy", "Suspect"} THEN 0 ELSE @,
            !.probes = IF next \in {"Healthy", "Suspect"} THEN 0 ELSE @]

transition_to(c, s, next) ==
  IF s.state = next
  THEN Record(c, s) /\ UNCHANGED <<audit, logged>>
  ELSE Record(c, entered(s, next)) /\ append_event(c, s, s.state, next)

Stamped(c, sequence, signals) == [Slot(c) EXCEPT !.sequence = sequence, !.signals = signals]
Carries(state) == state \in {"Healthy", "Suspect"}

\* The histories after a fact: a cog that comes back to load starts over.
Settle(c, run) ==
  /\ streak' = [streak EXCEPT ![c] = IF Carries(slots'[c].state) THEN 0 ELSE run]
  /\ loaded' = [loaded EXCEPT ![c] = IF Carries(Slot(c).state) \/ Carries(slots'[c].state) THEN clock ELSE @]
  /\ UNCHANGED clock

state_from_health(state, health) ==
  CASE state = "Permanent" -> "Permanent"
    [] health \in {"Critical", "Quarantine"} -> "Quarantined"
    [] health = "Suspect" -> "Suspect"
    [] health = "Ok" -> IF state = "Quarantined" THEN "Quarantined" ELSE "Healthy"

HealthSignals(state, health) ==
  CASE state = "Permanent" \/ health = "Ok" -> {}
    [] health = "Critical" -> {"CriticalHealthIssue"}
    [] health = "Quarantine" -> {"HealthQuarantine"}
    [] health = "Suspect" -> {"HealthSuspect"}

on_health_event(c, health, sequence) ==
  /\ Admitted(c, sequence)
  /\ transition_to(c, Stamped(c, sequence, HealthSignals(Slot(c).state, health)),
                   state_from_health(Slot(c).state, health))
  /\ Settle(c, streak[c])

(* One direction broken takes a cog out of full service; both take it out of *)
(* service.                                                                  *)
on_asymmetric_failure(c, cls, sequence) ==
  LET state == Slot(c).state
  IN  /\ Admitted(c, sequence)
      /\ CASE cls = "BidiFailed" -> transition_to(c, Stamped(c, sequence, {"AsymmetricDead"}), "Quarantined")
           [] cls = "OneWay" -> transition_to(c, Stamped(c, sequence, {"AsymmetricSuspect"}),
                                              IF state \in {"Healthy", "Recovered"} THEN "Suspect" ELSE state)
           [] cls = "Other" -> transition_to(c, Stamped(c, sequence, {}), state)
      /\ Settle(c, streak[c])

(* Probes count only under quarantine.                                       *)
record_recovery_probe(c, ok, sequence) ==
  LET probes == IF Slot(c).probes < ProbeCount THEN Slot(c).probes + 1 ELSE Slot(c).probes
      quarantined == Slot(c).state = "Quarantined"
  IN  /\ Admitted(c, sequence)
      /\ CASE ~quarantined -> transition_to(c, Stamped(c, sequence, {}), Slot(c).state)
           [] quarantined /\ ~ok -> transition_to(c, [Stamped(c, sequence, {"RecoveryProbeFailed"}) EXCEPT !.probes = 0],
                                                  "Quarantined")
           [] quarantined /\ ok /\ probes < ProbeCount ->
                transition_to(c, [Stamped(c, sequence, {"RecoveryProbePassed"}) EXCEPT !.probes = probes], "Quarantined")
           [] quarantined /\ ok /\ probes >= ProbeCount ->
                transition_to(c, [Stamped(c, sequence, {"RecoveryProbePassed", "RecoveryThresholdMet"})
                                    EXCEPT !.probes = probes], "Recovered")
      /\ Settle(c, IF ~quarantined THEN streak[c] ELSE IF ok THEN streak[c] + 1 ELSE 0)

(* Past the deadline the policy asks for an operator, and moves nothing.     *)
check_permanent_deadline(c, sequence) ==
  LET s == Slot(c)
      due == /\ s.state = "Quarantined" /\ s.quarantine_since # 0
             /\ clock >= s.quarantine_since /\ clock - s.quarantine_since >= Deadline
  IN  /\ Admitted(c, sequence)
      /\ IF due
         THEN /\ Record(c, Stamped(c, sequence, {"PermanentTimerElapsed", "PermanentRequiresOperator"}))
              /\ append_event(c, [s EXCEPT !.sequence = sequence], s.state, s.state)
         ELSE Record(c, Stamped(c, sequence, {})) /\ UNCHANGED <<audit, logged>>
      /\ Settle(c, streak[c])

operator_override(c, forced, sequence) ==
  /\ Admitted(c, sequence)
  /\ transition_to(c, Stamped(c, sequence, {"OperatorOverride"}), forced)
  /\ Settle(c, streak[c])

Tick == clock < MaxTime /\ clock' = clock + 1 /\ UNCHANGED <<slots, audit, logged, streak, loaded>>

Next ==
  \/ Tick
  \/ \E c \in Cogs, n \in 0..MaxSequence :
       \/ \E health \in {"Ok", "Suspect", "Quarantine", "Critical"} : on_health_event(c, health, n)
       \/ \E cls \in {"BidiFailed", "OneWay", "Other"} : on_asymmetric_failure(c, cls, n)
       \/ \E ok \in BOOLEAN : record_recovery_probe(c, ok, n)
       \/ check_permanent_deadline(c, n)
       \/ \E forced \in States : operator_override(c, forced, n)

Spec == Init /\ [][Next]_vars

TypeOK ==
  /\ DOMAIN slots \subseteq Cogs /\ Cardinality(DOMAIN slots) <= MaxCogs
  /\ \A c \in DOMAIN slots : /\ slots[c].state \in States /\ slots[c].probes \in 0..ProbeCount
                             /\ slots[c].sequence \in 0..MaxSequence
  /\ audit.count \in 0..MaxEvents

EventAt(k) ==
  LET base == (audit.next + MaxEvents - audit.count) % MaxEvents IN audit.events[(base + k) % MaxEvents]

(* transition_event_at gives the surviving events in their order: those of a *)
(* cog form one chain with numbers that do not go down, and its newest one   *)
(* ends in the state the policy reports.                                     *)
EventsTellTheState ==
  \A k \in 0..audit.count - 1 :
    LET later == {j \in k + 1..audit.count - 1 : EventAt(j).cog = EventAt(k).cog}
        e == EventAt(k)
    IN  /\ later = {} => e.to = slots[e.cog].state /\ e.sequence <= slots[e.cog].sequence
        /\ \A j \in later : /\ e.sequence <= EventAt(j).sequence
                            /\ (\A i \in later : i >= j) => EventAt(j).from = e.to

(* The probes credited to a cog are ones it passed under quarantine, none    *)
(* failed in between and none from before it last carried load, so the       *)
(* threshold is met only by that many.                                       *)
RecoveryIsEarned ==
  \A c \in DOMAIN slots : /\ slots[c].probes <= streak[c]
                          /\ "RecoveryThresholdMet" \in slots[c].signals => streak[c] >= ProbeCount

(* An operator is asked for only when the cog has been out of full service   *)
(* for the whole deadline, canary load not counted.                          *)
DeadlineIsFull ==
  \A c \in DOMAIN slots : "PermanentTimerElapsed" \in slots[c].signals => clock - loaded[c] >= Deadline

(* Only an operator takes a cog out for good or, once it is out, gives it    *)
(* load again: Permanent ends by an override or in Quarantined.              *)
PermanentStep ==
  \A c \in DOMAIN slots :
    /\ slots[c].state # "Permanent" /\ slots'[c].state = "Permanent" => "OperatorOverride" \in slots'[c].signals
    /\ slots[c].state = "Permanent" /\ slots'[c].state \in {"Healthy", "Suspect", "Recovered"}
         => "OperatorOverride" \in slots'[c].signals

(* What the state of a cog and its events promise.                           *)
QuarantineInv == TypeOK /\ EventsTellTheState /\ RecoveryIsEarned /\ DeadlineIsFull
=============================================================================
