------------------------------- MODULE Clocks -------------------------------
(* The two clocks of the canopy, one of each per node.                       *)
(*                                                                           *)
(* Hlc (canopy/Hlc.h): the compare-exchange loop makes an update one step    *)
(* from the state it replaces; the wall clock it read before may be any      *)
(* value, also an earlier one.                                               *)
(*                                                                           *)
(* VectorClock (canopy/VectorClock.h): an array of atomics that threads      *)
(* share.  A call loads, raises or bumps one slot at a time, so the calls of *)
(* two threads interleave between slots; on_recv(VectorClock), on_send(      *)
(* VectorClock) and the comparisons are made of these calls.                 *)
(*                                                                           *)
(* A stamp may be received late, again or never.                             *)
EXTENDS Naturals, Sequences, FiniteSets

CONSTANTS MaxNodes,
          Threads, Home,             \* the threads, and the node whose VectorClock each uses
          Calls,                     \* the calls they make
          MaxPhysical, MaxCounter,   \* UINT64_MAX and UINT32_MAX
          MaxStamps, MaxEvents,      \* bounds: the updates of the Hlcs, the bumps of the VectorClocks
          MaxWire                    \* and the snapshots in flight

Nodes == 1..MaxNodes

VARIABLES hlc,         \* per node: the packed state, a physical time and a counter
          stamps,      \* history: every update of an Hlc, with the updates in its causal past
          stamped,     \* history: per node, the updates in the causal past of its Hlc
          clock,       \* per node: entries_
          call,        \* per thread: the call in progress
          wire,        \* the snapshots in flight, as sparse deltas
          events,      \* history: every bump; of a send, what it returned and its causal past
          past,        \* history: per node, the bumps of the calls that its clock has behind it
          overlapped   \* history: has a thread begun a call inside another's on the same clock

hlcVars == <<hlc, stamps, stamped>>
clockVars == <<clock, call, wire, events, past, overlapped>>
vars == <<hlcVars, clockVars>>

NoEntries == [m \in Nodes |-> 0]
NoCall == [op |-> "none", pc |-> "idle", slot |-> 1, entries |-> NoEntries, before |-> {}, event |-> 0]

Init ==
  /\ hlc = [n \in Nodes |-> [physical |-> 0, counter |-> 0]]
  /\ stamps = <<>> /\ stamped = [n \in Nodes |-> {}]
  /\ clock = [n \in Nodes |-> NoEntries]
  /\ call = [t \in Threads |-> NoCall]
  /\ wire = {} /\ events = <<>>
  /\ past = [n \in Nodes |-> {}]
  /\ overlapped = FALSE

Larger(a, b) == IF a < b THEN b ELSE a
-----------------------------------------------------------------------------
(* Hlc.                                                                      *)

\* Faulty: a full counter wraps.
bumped_wrapping(p, c) == [physical |-> p, counter |-> (c + 1) % (MaxCounter + 1)]

(* A full counter carries into the physical time; at the end of time both    *)
(* stay.                                                                     *)
bumped(p, c) ==
  IF c # MaxCounter THEN [physical |-> p, counter |-> c + 1]
  ELSE IF p # MaxPhysical THEN [physical |-> p + 1, counter |-> 0]
  ELSE [physical |-> p, counter |-> c]

local_event(old, now) ==
  IF now > old.physical THEN [physical |-> now, counter |-> 0]
  ELSE bumped(old.physical, old.counter)

recv_event(old, peer, now) ==
  LET l == Larger(Larger(old.physical, peer.physical), now)
  IN  CASE l = old.physical /\ l = peer.physical -> bumped(l, Larger(old.counter, peer.counter))
        [] l = old.physical /\ l # peer.physical -> bumped(l, old.counter)
        [] l # old.physical /\ l = peer.physical -> bumped(l, peer.counter)
        [] OTHER                                 -> [physical |-> l, counter |-> 0]

\* An update of the Hlc of n to this state, after the updates in `before`.
Stamp(n, stamp, before) ==
  /\ Len(stamps) < MaxStamps
  /\ hlc' = [hlc EXCEPT ![n] = stamp]
  /\ stamps' = Append(stamps, [hlc |-> stamp, past |-> before])
  /\ stamped' = [stamped EXCEPT ![n] = before \union {Len(stamps) + 1}]
  /\ UNCHANGED clockVars

(* now, which is on_send too, and on_recv of a stamp that was sent.          *)
Now(n, wall) == Stamp(n, local_event(hlc[n], wall), stamped[n])

OnRecv(n, s, wall) ==
  Stamp(n, recv_event(hlc[n], stamps[s].hlc, wall), stamped[n] \union stamps[s].past \union {s})
-----------------------------------------------------------------------------
(* VectorClock.                                                              *)

(* A sparse delta leaves the zero entries out; reading it puts them back.    *)
sparse_delta(entries) == {<<m, entries[m]>> : m \in {x \in Nodes : entries[x] # 0}}

from_sparse_delta(delta) ==
  [m \in Nodes |-> IF \E d \in delta : d[1] = m THEN (CHOOSE d \in delta : d[1] = m)[2] ELSE 0]

(* The calls: what each does first.                                          *)
FirstStep == [on_local_event |-> "bump", on_send |-> "bump", on_recv |-> "merge",
              apply_delta |-> "merge", snapshot |-> "read"]

\* The threads inside a call on the clock of n.
Busy(n) == {t \in Threads : Home[t] = n /\ call[t].pc # "idle"}

\* The call that thread t begins: the entries it merges, and the bumps it is after.
Begin(t, op, entries, before) ==
  [NoCall EXCEPT !.op = op, !.pc = FirstStep[op], !.entries = entries, !.before = past[Home[t]] \union before]

\* The call c of thread t ends, and what it knows is behind the clock.
Finish(t, c) ==
  /\ call' = [call EXCEPT ![t] = NoCall]
  /\ past' = [past EXCEPT ![Home[t]] = @ \union c.before \union ({c.event} \ {0})]

Continue(t, c) == call' = [call EXCEPT ![t] = c] /\ UNCHANGED past

(* merge_snapshot_ raises one slot; after the last, on_recv bumps.           *)
MergeSlot(t, c) ==
  /\ c.pc = "merge"
  /\ clock' = [clock EXCEPT ![Home[t]][c.slot] = Larger(@, c.entries[c.slot])]
  /\ IF c.slot < MaxNodes THEN Continue(t, [c EXCEPT !.slot = @ + 1])
     ELSE IF c.op = "on_recv" THEN Continue(t, [c EXCEPT !.pc = "bump"])
     ELSE Finish(t, c)
  /\ UNCHANGED <<wire, events>>

(* bump_slot_ is an event; on_send takes a snapshot after it.                *)
BumpSlot(t, c) ==
  LET n == Home[t]
      done == [c EXCEPT !.event = Len(events) + 1, !.pc = "read", !.slot = 1]
  IN  /\ c.pc = "bump" /\ Len(events) < MaxEvents
      /\ clock' = [clock EXCEPT ![n][n] = @ + 1]
      /\ events' = Append(events, [node |-> n, sent |-> FALSE, entries |-> NoEntries, past |-> {}])
      /\ IF c.op = "on_send" THEN Continue(t, done) ELSE Finish(t, done)
      /\ UNCHANGED wire

\* A snapshot goes out; a full network loses another one (external).
Send(m) ==
  \E kept \in SUBSET wire :
    /\ kept = wire \/ (Cardinality(wire) = MaxWire /\ Cardinality(kept) = MaxWire - 1)
    /\ Cardinality(kept \union {m}) <= MaxWire
    /\ wire' = kept \union {m}

(* snapshot loads one slot; after the last it may be sent.                   *)
ReadSlot(t, c) ==
  LET read == [c EXCEPT !.entries[c.slot] = clock[Home[t]][c.slot]]
  IN  /\ c.pc = "read"
      /\ IF c.slot < MaxNodes
         THEN Continue(t, [read EXCEPT !.slot = @ + 1]) /\ UNCHANGED <<wire, events>>
         ELSE /\ Finish(t, c)
              /\ Send([delta |-> sparse_delta(read.entries), past |-> c.before \union ({c.event} \ {0})])
              /\ events' = IF c.event = 0 THEN events
                           ELSE [events EXCEPT ![c.event].sent = TRUE, ![c.event].entries = read.entries,
                                               ![c.event].past = c.before]
      /\ UNCHANGED clock

SlotStep(t, c) ==
  /\ MergeSlot(t, c) \/ BumpSlot(t, c) \/ ReadSlot(t, c)
  /\ overlapped' = (overlapped \/ Busy(Home[t]) \ {t} # {})
  /\ UNCHANGED hlcVars

\* A call begins with its first step.
Call(t) ==
  /\ call[t].pc = "idle"
  /\ \/ \E op \in {"on_local_event", "on_send", "snapshot"} \intersect Calls : SlotStep(t, Begin(t, op, NoEntries, {}))
     \/ \E op \in {"on_recv", "apply_delta"} \intersect Calls, m \in wire :
          SlotStep(t, Begin(t, op, from_sparse_delta(m.delta), m.past))

InCall(t) == call[t].pc # "idle" /\ SlotStep(t, call[t])
-----------------------------------------------------------------------------
Next ==
  \/ \E n \in Nodes, wall \in 1..MaxPhysical : Now(n, wall) \/ \E s \in DOMAIN stamps : OnRecv(n, s, wall)
  \/ \E t \in Threads : Call(t) \/ InCall(t)

Spec == Init /\ [][Next]_vars

TypeOK ==
  /\ hlc \in [Nodes -> [physical : 0..MaxPhysical, counter : 0..MaxCounter]]
  /\ clock \in [Nodes -> [Nodes -> 0..MaxEvents]]
  /\ \A t \in Threads : call[t].pc \in {"idle", "merge", "bump", "read"} /\ call[t].slot \in Nodes
  /\ past \in [Nodes -> SUBSET (DOMAIN events)]

Earlier(a, b) == a.physical < b.physical \/ (a.physical = b.physical /\ a.counter < b.counter)

EndOfTime == [physical |-> MaxPhysical, counter |-> MaxCounter]

(* The hybrid clock respects causality: an event is stamped later than every *)
(* event in its causal past, on any node, although wall clocks disagree and  *)
(* step back and counters overflow into the physical time; only the largest  *)
(* stamp repeats (local_event, recv_event, bumped_).                         *)
HlcRespectsCausality ==
  \A f \in DOMAIN stamps : \A e \in stamps[f].past :
    Earlier(stamps[e].hlc, stamps[f].hlc) \/ stamps[f].hlc = EndOfTime

HappensBefore(v, w) == v # w /\ \A n \in Nodes : v[n] <= w[n]

(* What on_send returns respects causality, slot by slot and whatever other  *)
(* threads do to the clock meanwhile: happens_before holds from an event to  *)
(* every later one that it is in the causal past of, where a call is after   *)
(* those that had returned on its clock when it began, and after what it     *)
(* merges.  On clocks whose calls never overlapped it holds for no other     *)
(* pair, across sparse deltas, stale and repeated messages (on_send,         *)
(* on_recv, apply_delta, sparse_delta).                                      *)
VectorClockFollowsCausality ==
  \A e, f \in {i \in DOMAIN events : events[i].sent} :
    LET ordered == HappensBefore(events[e].entries, events[f].entries)
    IN  /\ e \in events[f].past => ordered
        /\ ~overlapped /\ ordered => e \in events[f].past

(* No bump is lost: the own entry of a clock counts its events, under        *)
(* concurrent bumps and merges of stale and of its own snapshots, and no     *)
(* other clock is ahead of it (bump_slot_, atomic_max_).                     *)
OwnEntryCounts ==
  \A n \in Nodes :
    /\ clock[n][n] = Cardinality({e \in DOMAIN events : events[e].node = n})
    /\ \A m \in Nodes : clock[m][n] <= clock[n][n]

(* Both clocks order events as causality does.                               *)
StampsFollowCausality == TypeOK /\ HlcRespectsCausality /\ VectorClockFollowsCausality /\ OwnEntryCounts
=============================================================================
