------------------------------- MODULE Swim -------------------------------
(* Several observers, each with a SwimMembership of its own, exchange their  *)
(* piggybacked events over a network that loses, repeats and reorders them.  *)
(* `wire` holds every event that some batch carried: an event that is never  *)
(* taken from it is lost, one that is taken again is a duplicate.            *)
EXTENDS SwimMembership

CONSTANTS Nodes, Peers, MaxIncarnation    \* bound on the incarnations reached

VARIABLES member,   \* the SwimMembership of each node
          wire,     \* the events sent by some piggyback batch
          heard,    \* history: the healths each node produced or applied
          waited    \* history: probes of a node since it last probed a live peer

vars == <<member, wire, heard, waited>>

Health(slot) == [peer |-> slot.peer, inc |-> slot.inc, state |-> slot.state]

IsLive(m, p) == Known(m, p) /\ Slot(m, p).state # "Dead"

TypeOK ==
  /\ \A n \in Nodes :
       /\ Len(member[n].slots) <= MaxPeers
       /\ member[n].probe_cursor \in 0..MaxPeers
       /\ Len(member[n].piggyback) <= MaxPiggyback
       /\ \A i \in DOMAIN member[n].slots :
            member[n].slots[i] \in [peer : Peers, state : SwimState,
                                    misses : 0..MissMax, inc : 1..MaxIncarnation]
  /\ heard \in [Nodes -> SUBSET [peer : Peers, inc : 1..MaxIncarnation, state : SwimState]]

Init ==
  /\ member = [n \in Nodes |-> Empty]
  /\ wire = {}
  /\ heard = [n \in Nodes |-> {}]
  /\ waited = [n \in Nodes |-> [p \in Peers |-> 0]]

(* Node n's membership becomes m, because of a health it now knows.          *)
Becomes(n, m, health) ==
  /\ member' = [member EXCEPT ![n] = m]
  /\ heard' = [heard EXCEPT ![n] = @ \union health]
  /\ waited' = [waited EXCEPT ![n] = [p \in Peers |-> IF IsLive(m, p) THEN @[p] ELSE 0]]

Produces(n, m, p) ==
  /\ m # member[n]
  /\ Slot(m, p).inc <= MaxIncarnation
  /\ Becomes(n, m, {Health(Slot(m, p))})
  /\ UNCHANGED wire

AddPeer(n, p) == Produces(n, add_peer(member[n], p), p)

RemovePeer(n, p) == Produces(n, mark_dead(member[n], p), p)

(* An ack may be late: the timeout may have killed the peer before.          *)
OnAck(n, p) == Produces(n, mark_alive(member[n], p), p)

(* on_ping_timeout and on_indirect_timeout are one function.                 *)
OnPingTimeout(n, p) == Produces(n, miss(member[n], p), p)

ApplyGossip(n, event) ==
  /\ Becomes(n, apply_gossip(member[n], event),
             IF Known(member[n], event.peer) \/ ~Full(member[n]) THEN {Health(event)} ELSE {})
  /\ UNCHANGED wire

NextProbe(n) ==
  /\ Probeable(member[n]) # {}
  /\ LET target == member[n].slots[ProbeIndex(member[n])].peer
     IN  waited' = [waited EXCEPT ![n] =
                      [p \in Peers |-> IF p # target /\ IsLive(member[n], p) THEN @[p] + 1 ELSE 0]]
  /\ member' = [member EXCEPT ![n] = next_probe(@)]
  /\ UNCHANGED <<wire, heard>>

Send(n) ==
  /\ wire' = wire \union {member[n].piggyback[i] : i \in DOMAIN member[n].piggyback}
  /\ UNCHANGED <<member, heard, waited>>

AcknowledgePiggybacks(n, count) ==
  /\ member' = [member EXCEPT ![n] = acknowledge_piggybacks(@, count)]
  /\ UNCHANGED <<wire, heard, waited>>

Next ==
  \E n \in Nodes :
    \/ \E p \in Peers : AddPeer(n, p) \/ RemovePeer(n, p) \/ OnAck(n, p) \/ OnPingTimeout(n, p)
    \/ \E event \in wire : ApplyGossip(n, event)
    \/ NextProbe(n)
    \/ Send(n)
    \/ \E count \in 1..MaxPiggyback : AcknowledgePiggybacks(n, count)

Spec == Init /\ [][Next]_vars

(* A health is at least as new as another: a higher incarnation, or the same *)
(* incarnation and a state that is no better.                                *)
AtLeast(h, g) ==
  h.inc > g.inc \/ (h.inc = g.inc /\ state_rank(h.state) >= state_rank(g.state))

(* The slot of a peer is the newest of all the healths the node ever learned *)
(* of that peer, in whatever order, however often and by whichever mix of    *)
(* its own probes and of gossip it learned them; so two nodes that learned   *)
(* the same healths hold the same state and incarnation (event_newer_,       *)
(* mark_alive_, mark_dead_, miss_, apply_gossip).                            *)
SlotIsNewestHeard ==
  \A n \in Nodes : \A h \in heard[n] :
    /\ Known(member[n], h.peer)
    /\ Health(Slot(member[n], h.peer)) \in heard[n]
    /\ AtLeast(Health(Slot(member[n], h.peer)), h)

(* What a node gossips of a peer never contradicts what it believes: the     *)
(* last event its queue holds of a peer is the peer's slot, and the earlier  *)
(* ones are older (append_event_ and its eviction, acknowledge_piggybacks).  *)
QueueEndsAtSlot ==
  \A n \in Nodes : LET q == member[n].piggyback IN
    \A i \in DOMAIN q :
      LET later == {j \in DOMAIN q : j > i /\ q[j].peer = q[i].peer}
      IN  IF later = {} THEN q[i] = Slot(member[n], q[i].peer)
          ELSE ~AtLeast(Health(q[i]), Health(q[Min(later)]))

(* The probe rotation starves nobody: while a peer is not Dead it is probed  *)
(* before as many probes go elsewhere as there are slots, whichever peers    *)
(* join, die or revive meanwhile (next_probe and probe_cursor_).             *)
ProbeRotation ==
  \A n \in Nodes : \A p \in Peers :
    IsLive(member[n], p) => waited[n][p] < Len(member[n].slots)

(* What an observer keeps: the newest belief of every peer, gossip that      *)
(* agrees with it, and a probe rotation that starves nobody.                 *)
SwimInv == TypeOK /\ SlotIsNewestHeard /\ QueueEndsAtSlot /\ ProbeRotation
===========================================================================
