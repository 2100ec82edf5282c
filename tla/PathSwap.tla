------------------------------ MODULE PathSwap ------------------------------
(* The move of a flow to a new path (crucible/cntp/PathSwap.h).  Background  *)
(* threads drive one state machine under a gate; an observer reads the state *)
(* with no gate and the audit ring with it.  A caller reads the clock before *)
(* it waits for the gate, so the times it brings may be old.                 *)
EXTENDS Naturals

CONSTANTS Threads,
          Plans,        \* the plans, as [id, timeout]
          MaxEvents,    \* slots of the audit ring
          MaxTime,      \* the largest time, std::numeric_limits<uint64_t>::max()
          MaxSequence   \* bound on the events of a behaviour

None == [id |-> 0, timeout |-> 0]
Live == {"Draining", "BidirReceive", "NewPathFlushing"}

VARIABLES gate,      \* the thread that holds gate_, or "free"
          state,     \* state_
          plan, deadline,
          audit,     \* events_, next_event_, event_count_ and sequence_
          thread,    \* per thread: step, call, the time it brings, the plan, the state to store
          observer,  \* step, the state it read, the sequence at the time
          clock

vars == <<gate, state, plan, deadline, audit, thread, observer, clock>>

Idle == [pc |-> "idle", call |-> "none", now |-> 0, plan |-> None, next |-> "Stable"]
NoEvent == [plan |-> None, from |-> "Stable", to |-> "Stable", at |-> 0, sequence |-> 0]

Init ==
  /\ gate = "free" /\ state = "Stable" /\ plan = None /\ deadline = 0
  /\ audit = [events |-> [i \in 0..MaxEvents - 1 |-> NoEvent], next |-> 0, count |-> 0, sequence |-> 0]
  /\ thread = [t \in Threads |-> Idle]
  /\ observer = [pc |-> "idle", saw |-> "Stable", since |-> 0]
  /\ clock = 0

is_valid_path_swap_transition(from, to) ==
  \/ from \in {"Stable", "Complete"} /\ to = "Draining"
  \/ from = "Draining" /\ to \in {"BidirReceive", "Failed"}
  \/ from = "BidirReceive" /\ to \in {"NewPathFlushing", "Complete", "Failed"}
  \/ from = "NewPathFlushing" /\ to \in {"Complete", "Failed"}

append_event(p, from, to, at) ==
  audit' = [events |-> [audit.events EXCEPT ![audit.next] =
              [plan |-> p, from |-> from, to |-> to, at |-> at, sequence |-> audit.sequence + 1]],
            next |-> (audit.next + 1) % MaxEvents,
            count |-> IF audit.count < MaxEvents THEN audit.count + 1 ELSE audit.count,
            sequence |-> audit.sequence + 1]

Tick == clock < MaxTime /\ clock' = clock + 1
        /\ UNCHANGED <<gate, state, plan, deadline, audit, thread, observer>>

\* A caller reads the clock and goes to the gate.
Call(t, call, p) ==
  /\ thread[t].pc = "idle" /\ audit.sequence < MaxSequence
  /\ call = "begin" <=> p # None
  /\ thread' = [thread EXCEPT ![t] = [Idle EXCEPT !.pc = "wait", !.call = call, !.now = clock, !.plan = p]]
  /\ UNCHANGED <<gate, state, plan, deadline, audit, observer, clock>>

(* The event is recorded first and the state stored after it; the gate is    *)
(* kept in between.                                                          *)
transition_to(t, p, next, now) ==
  /\ append_event(p, state, next, now)
  /\ gate' = t
  /\ thread' = [thread EXCEPT ![t].pc = "store", ![t].next = next]

\* A refused call leaves everything as it was.
Refuse(t) == thread' = [thread EXCEPT ![t] = Idle] /\ UNCHANGED <<gate, plan, deadline, audit>>

\* Faulty: the state was tested before the gate was taken.
begin_swap_stale(t, now, p) ==
  /\ plan' = p /\ deadline' = now + p.timeout
  /\ IF is_valid_path_swap_transition(state, "Draining")
     THEN transition_to(t, p, "Draining", now)
     ELSE thread' = [thread EXCEPT ![t] = Idle] /\ UNCHANGED <<gate, audit>>

begin_swap(t, now, p) ==
  IF state \in {"Stable", "Complete"} /\ p.timeout <= MaxTime - now
  THEN /\ plan' = p /\ deadline' = now + p.timeout
       /\ transition_to(t, p, "Draining", now)
  ELSE Refuse(t)

expired(now) == state \in Live /\ now > deadline

(* check_live, then the transition: a swap past its deadline fails at the    *)
(* next call, whichever it is.                                               *)
advance(t, from, to, now) ==
  IF expired(now)
  THEN transition_to(t, plan, "Failed", now) /\ UNCHANGED <<plan, deadline>>
  ELSE IF state \in from /\ is_valid_path_swap_transition(state, to)
       THEN transition_to(t, plan, to, now) /\ UNCHANGED <<plan, deadline>>
       ELSE Refuse(t)

(* The five calls, once they have the gate.  complete_receiver tests no      *)
(* state of its own.                                                         *)
Enter(t) ==
  LET c == thread[t]
  IN  /\ c.pc = "wait" /\ gate = "free"
      /\ \/ c.call = "begin" /\ begin_swap(t, c.now, c.plan)
         \/ c.call = "receiver_accepts_bidir" /\ advance(t, {"Draining"}, "BidirReceive", c.now)
         \/ c.call = "sender_observed_drain_ack" /\ advance(t, {"BidirReceive"}, "NewPathFlushing", c.now)
         \/ c.call = "commit_sender" /\ advance(t, {"NewPathFlushing"}, "Complete", c.now)
         \/ c.call = "complete_receiver" /\ advance(t, Live \union {"Stable", "Complete", "Failed"}, "Complete", c.now)
      /\ UNCHANGED <<state, observer, clock>>

\* state_.store, and the gate is released.
StoreState(t) ==
  /\ thread[t].pc = "store"
  /\ state' = thread[t].next
  /\ gate' = "free"
  /\ thread' = [thread EXCEPT ![t] = Idle]
  /\ UNCHANGED <<plan, deadline, audit, observer, clock>>

\* state(): no gate.
Observe ==
  /\ observer.pc = "idle"
  /\ observer' = [pc |-> "saw", saw |-> state, since |-> audit.sequence]
  /\ UNCHANGED <<gate, state, plan, deadline, audit, thread, clock>>

\* event_count and event_at take the gate.
ReadAudit ==
  /\ observer.pc = "saw" /\ gate = "free"
  /\ observer' = [observer EXCEPT !.pc = "idle"]
  /\ UNCHANGED <<gate, state, plan, deadline, audit, thread, clock>>

Calls == {"begin", "receiver_accepts_bidir", "sender_observed_drain_ack", "commit_sender", "complete_receiver"}

Next ==
  \/ \E t \in Threads :
       Enter(t) \/ StoreState(t) \/ \E c \in Calls, p \in Plans \union {None} : Call(t, c, p)
  \/ Observe \/ ReadAudit \/ Tick

Spec == Init /\ [][Next]_vars

TypeOK ==
  /\ gate \in Threads \union {"free"}
  /\ state \in Live \union {"Stable", "Complete", "Failed"}
  /\ deadline \in 0..MaxTime /\ audit.count \in 0..MaxEvents

(* The event with a sequence number, at the slot event_at finds it in.       *)
Event(s) == audit.events[(s - 1) % MaxEvents]
Oldest == audit.sequence - audit.count + 1
Newest == Event(audit.sequence)

(* The surviving events are the last ones, in their order and each at the    *)
(* slot its number gives, and form one chain of valid transitions that ends  *)
(* in the state, or in the one about to be stored (transition_to).           *)
AuditIsTheHistory ==
  /\ \A s \in Oldest..audit.sequence : Event(s).sequence = s
  /\ \A s \in Oldest..audit.sequence : is_valid_path_swap_transition(Event(s).from, Event(s).to)
  /\ \A s \in Oldest + 1..audit.sequence : Event(s).from = Event(s - 1).to
  /\ audit.count > 0 => Newest.to = IF gate = "free" THEN state ELSE thread[gate].next

(* The plan of a running swap is the one it began with: a second begin_swap, *)
(* from whatever moment its caller read the clock, does not replace it.      *)
PlanIsTheSwaps ==
  /\ audit.count > 0 => Newest.plan = plan
  /\ \A s \in Oldest + 1..audit.sequence : Event(s).to # "Draining" => Event(s).plan = Event(s - 1).plan

(* A swap moves only up to its deadline, and fails only past it.             *)
InTime == audit.count > 0 => (Newest.to = "Failed" <=> Newest.at > deadline)

(* A reader that sees a state and then takes the gate finds the event of     *)
(* that state, unless as many events as the ring holds came in between.      *)
ObserverFindsEvent ==
  (observer.pc = "saw" /\ observer.saw # "Stable" /\ gate = "free" /\ audit.sequence - observer.since < MaxEvents - 1)
    => \E s \in Oldest..audit.sequence : Event(s).to = observer.saw

(* What the audit ring and the plan say of a swap is what happened.          *)
SwapInv == TypeOK /\ AuditIsTheHistory /\ PlanIsTheSwaps /\ InTime /\ ObserverFindsEvent
=============================================================================
