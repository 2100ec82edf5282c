----------------------------- MODULE Lifeguard -----------------------------
(* One LifeguardSwim (canopy/Lifeguard.h): a SwimMembership wrapped with a   *)
(* local health multiplier per peer and a bounded queue of multiplier        *)
(* events.  The round-trip window, which only scales a timeout, is left out. *)
EXTENDS SwimMembership

CONSTANTS Local, Others,          \* the local identity and the remote ones
          MinLhm, MaxLhm, Penalty, Recovery,
          MaxEvents,              \* slots of the event queue
          MaxIncarnation          \* bound on the incarnations reached

VARIABLES swim,     \* the embedded membership
          lhm,      \* slots_: peer and multiplier, in insertion order
          events    \* the queue of multiplier events

vars == <<swim, lhm, events>>

(* What another process may say of a peer.                                   *)
Gossip ==
  {[peer |-> p, state |-> s, misses |-> IF s = "Alive" THEN 0 ELSE 1, inc |-> i] :
     p \in Others \union {Local}, s \in SwimState, i \in 1..MaxIncarnation}

TypeOK ==
  /\ Len(swim.slots) <= MaxPeers
  /\ \A i \in DOMAIN lhm : lhm[i] \in [peer : Others \union {Local}, value : MinLhm..MaxLhm]
  /\ Len(events) <= MaxEvents

Init ==
  /\ swim = Empty
  /\ lhm = <<>>
  /\ events = <<>>

HasSlot(slots, p) == \E i \in DOMAIN slots : slots[i].peer = p

SlotOf(slots, p) == CHOOSE i \in DOMAIN slots : slots[i].peer = p

ensure_slot(slots, p) ==
  IF HasSlot(slots, p) \/ Len(slots) = MaxPeers THEN slots
  ELSE Append(slots, [peer |-> p, value |-> MinLhm])

penalized(value) == Min({MaxLhm, value + Penalty})

recovered(value) ==
  IF value <= MinLhm \/ value - MinLhm <= Recovery THEN MinLhm ELSE value - Recovery

(* A multiplier moves to a new value and the change is queued; a full queue  *)
(* drops its oldest event.                                                   *)
SetLhm(slots, p, value) ==
  /\ lhm' = [slots EXCEPT ![SlotOf(slots, p)].value = value]
  /\ events' = Append(IF Len(events) = MaxEvents THEN Tail(events) ELSE events,
                      [peer |-> p, prior |-> slots[SlotOf(slots, p)].value, next |-> value])

\* Faulty: the change is not queued.
Penalize_silent(slots, p) ==
  /\ lhm' = [slots EXCEPT ![SlotOf(slots, p)].value = penalized(@)]
  /\ UNCHANGED events

Penalize(slots, p) == SetLhm(slots, p, penalized(slots[SlotOf(slots, p)].value))

Recover(slots, p) == SetLhm(slots, p, recovered(slots[SlotOf(slots, p)].value))

Bounded(m) == \A i \in DOMAIN m.slots : m.slots[i].inc <= MaxIncarnation

AddPeer(p) ==
  /\ ~Known(swim, p) /\ ~Full(swim)
  /\ swim' = add_peer(swim, p)
  /\ lhm' = ensure_slot(lhm, p)
  /\ UNCHANGED events

(* on_ack and on_indirect_ack: the peer lives and its multiplier recovers.   *)
OnAck(p) ==
  /\ Known(swim, p) /\ HasSlot(lhm, p)
  /\ swim' = mark_alive(swim, p) /\ Bounded(swim')
  /\ Recover(lhm, p)

(* on_ping_timeout and on_indirect_timeout: a Dead peer is left alone by the *)
(* membership and is penalized all the same.                                 *)
OnTimeout(p) ==
  /\ Known(swim, p) /\ HasSlot(lhm, p)
  /\ swim' = miss(swim, p) /\ Bounded(swim')
  /\ Penalize(lhm, p)

(* The probe's deadline is scaled by the multiplier, which stays as it is.   *)
NextProbe ==
  /\ Probeable(swim) # {}
  /\ swim' = next_probe(swim)
  /\ UNCHANGED <<lhm, events>>

OnNoLossWindow(p) ==
  /\ HasSlot(lhm, p)
  /\ Recover(lhm, p)
  /\ UNCHANGED swim

(* A suspicion of the local process is answered with a refutation, which the *)
(* caller sends, and is not applied.                                         *)
Refutes(event) == event.peer = Local /\ event.state = "Suspect"

ApplyGossip(event) ==
  /\ ~Refutes(event)
  /\ Known(swim, event.peer) \/ ~Full(swim)
  /\ swim' = apply_gossip(swim, event)
  /\ LET slots == ensure_slot(lhm, event.peer)
     IN  IF event.state # "Alive" THEN Penalize(slots, event.peer)
         ELSE lhm' = slots /\ UNCHANGED events
   
AcknowledgeEvents(count) ==
  /\ events' = SubSeq(events, Min({count, Len(events)}) + 1, Len(events))
  /\ UNCHANGED <<swim, lhm>>

Next ==
  \/ \E p \in Others : AddPeer(p)
  \/ \E p \in Others \union {Local} : OnAck(p) \/ OnTimeout(p) \/ OnNoLossWindow(p)
  \/ NextProbe
  \/ \E event \in Gossip : ApplyGossip(event)
  \/ \E count \in 1..MaxEvents : AcknowledgeEvents(count)

Spec == Init /\ [][Next]_vars

(* Every member has a multiplier and every multiplier belongs to a member,   *)
(* in the same slot, whether the member came from add_peer or from gossip:   *)
(* no probe finds its peer without a timeout, and no capacity refusal of one *)
(* table leaves the other ahead (add_peer, apply_gossip, ensure_slot_).      *)
SlotPerMember ==
  /\ Len(lhm) = Len(swim.slots)
  /\ \A i \in DOMAIN lhm : lhm[i].peer = swim.slots[i].peer

(* A reader of the event queue can rebuild each multiplier: the events of a  *)
(* peer chain, each starting where the one before it ended, and the last one *)
(* ends at the peer's multiplier, across evictions and acknowledgements      *)
(* (penalize_lhm_, recover_lhm_, append_event_, acknowledge_events).         *)
EventsChain ==
  \A i \in DOMAIN events :
    LET later == {j \in DOMAIN events : j > i /\ events[j].peer = events[i].peer}
    IN  events[i].next = IF later = {} THEN lhm[SlotOf(lhm, events[i].peer)].value
                         ELSE events[Min(later)].prior

(* A multiplier per member, and an event queue that explains it.             *)
LifeguardInv == TypeOK /\ SlotPerMember /\ EventsChain
===========================================================================
