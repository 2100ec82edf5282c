-------------------------- MODULE SwimMembership --------------------------
(* The operations of one SwimMembership (canopy/Swim.h) as functions on a    *)
(* record: the dense peer slots, the probe cursor and the piggyback queue.   *)
(* A call that the code refuses with an error returns the record unchanged.  *)
(* The identities are opaque; the clock readings, sequence numbers and the   *)
(* staleness that health() reports carry no control and are left out.        *)
EXTENDS Naturals, Sequences, FiniteSetsExt

CONSTANTS MaxPeers,          \* slots of the peer table
          MaxPiggyback,      \* slots of the piggyback queue
          SuspicionMisses,   \* SwimConfig::suspicion_misses
          MissMax            \* where consecutive_misses saturates (UINT32_MAX)

SwimState == {"Alive", "Suspect", "Dead"}

Empty == [slots |-> <<>>, probe_cursor |-> 0, piggyback |-> <<>>]

state_rank(s) == CASE s = "Alive" -> 0 [] s = "Suspect" -> 1 [] OTHER -> 2

Known(m, p) == \E i \in DOMAIN m.slots : m.slots[i].peer = p

find_index(m, p) == CHOOSE i \in DOMAIN m.slots : m.slots[i].peer = p

Slot(m, p) == m.slots[find_index(m, p)]

(* A full queue drops its oldest event.                                      *)
append_event(q, event) ==
  Append(IF Len(q) = MaxPiggyback THEN Tail(q) ELSE q, event)

(* Every change of a slot, and every new slot, queues an event that carries  *)
(* the new health.                                                           *)
WithSlot(m, i, slot) ==
  [m EXCEPT !.slots[i] = slot, !.piggyback = append_event(@, slot)]

WithNewSlot(m, slot) ==
  [m EXCEPT !.slots = Append(@, slot), !.piggyback = append_event(@, slot)]

Full(m) == Len(m.slots) = MaxPeers

add_peer(m, p) ==
  IF Known(m, p) \/ Full(m) THEN m
  ELSE WithNewSlot(m, [peer |-> p, state |-> "Alive", misses |-> 0, inc |-> 1])

mark_alive(m, p) ==
  IF ~Known(m, p) THEN m
  ELSE WithSlot(m, find_index(m, p),
                [peer |-> p, state |-> "Alive", misses |-> 0, inc |-> Slot(m, p).inc + 1])

(* remove_peer keeps the slot and marks it Dead.                             *)
mark_dead(m, p) ==
  IF ~Known(m, p) \/ Slot(m, p).state = "Dead" THEN m
  ELSE WithSlot(m, find_index(m, p),
                [Slot(m, p) EXCEPT !.state = "Dead", !.inc = @ + 1])

miss(m, p) ==
  IF ~Known(m, p) \/ Slot(m, p).state = "Dead" THEN m
  ELSE LET missed == Min({Slot(m, p).misses + 1, MissMax})
       IN  WithSlot(m, find_index(m, p),
                    [peer   |-> p,
                     state  |-> IF missed >= SuspicionMisses THEN "Dead" ELSE "Suspect",
                     misses |-> missed,
                     inc    |-> Slot(m, p).inc + 1])

\* Faulty: among equals the last one wins.
event_newer_latest_wins(incoming, slot) == incoming.inc >= slot.inc

event_newer(incoming, slot) ==
  IF incoming.inc # slot.inc THEN incoming.inc > slot.inc
  ELSE state_rank(incoming.state) > state_rank(slot.state)

apply_gossip(m, event) ==
  IF ~Known(m, event.peer) THEN IF Full(m) THEN m ELSE WithNewSlot(m, event)
  ELSE IF event_newer(event, Slot(m, event.peer))
       THEN WithSlot(m, find_index(m, event.peer), event)
       ELSE m

(* The offsets from the cursor at which a peer that is not Dead sits.        *)
Probeable(m) ==
  {k \in 0..(Len(m.slots) - 1) :
     m.slots[((m.probe_cursor + k) % Len(m.slots)) + 1].state # "Dead"}

ProbeIndex(m) == ((m.probe_cursor + Min(Probeable(m))) % Len(m.slots)) + 1

(* The cursor moves past the peer that was probed.                           *)
next_probe(m) == [m EXCEPT !.probe_cursor = ProbeIndex(m) % Len(m.slots)]

acknowledge_piggybacks(m, count) ==
  LET n == Min({Len(m.piggyback), count})
  IN  [m EXCEPT !.piggyback = SubSeq(@, n + 1, Len(@))]
===========================================================================
