--------------------------- MODULE ConnectionPool ---------------------------
(* The pool of transport connections (cntp/ConnectionPoolRuntime.h).  Every  *)
(* operation holds the gate from its first read to its last write and is one *)
(* step here; a lease holder reads its slot between them, with no gate.  A   *)
(* connection is its remote and its socket.  A refused call changes nothing. *)
EXTENDS Naturals, FiniteSets, FiniteSetsExt

CONSTANTS Connections,             \* as [remote, socket]
          Holders,                 \* who may hold a lease
          MaxRemotes, MaxPerRemote,
          Limit,                   \* config_.max_per_remote
          MaxIdle, Times,
          MaxEvents,
          MaxSequence              \* bound on the events of a behaviour

Size == MaxRemotes * MaxPerRemote
Remotes == {c.remote : c \in Connections}
NoConnection == [remote |-> "none", socket |-> 0]

VARIABLES slots, distinct_remotes,
          audit,   \* events_, next_event_, event_count_ and sequence_
          lease    \* per holder: the slot index of its LeaseGuard, or 0, and the connection it was given

vars == <<slots, distinct_remotes, audit, lease>>

Empty == [connection |-> NoConnection, leased |-> FALSE, quarantined |-> FALSE, healthy |-> TRUE, last_used |-> 0]
NoLease == [slot |-> 0, connection |-> NoConnection]
NoEvent == [kind |-> "None", connection |-> NoConnection]

Init ==
  /\ slots = [i \in 1..Size |-> Empty]
  /\ distinct_remotes = 0
  /\ audit = [events |-> [i \in 0..MaxEvents - 1 |-> NoEvent], next |-> 0, count |-> 0, sequence |-> 0]
  /\ lease = [h \in Holders |-> NoLease]

Holding(s, remote) == {i \in 1..Size : s[i].connection.remote = remote}
has_remote(s, remote) == Holding(s, remote) # {}
per_remote_limit == IF Limit < MaxPerRemote THEN Limit ELSE MaxPerRemote

append_event(a, kind, connection) ==
  [events |-> [a.events EXCEPT ![a.next] = [kind |-> kind, connection |-> connection]],
   next |-> (a.next + 1) % MaxEvents,
   count |-> IF a.count < MaxEvents THEN a.count + 1 ELSE a.count,
   sequence |-> a.sequence + 1]

(* drain_slot on each slot of a set, in the order of the array.              *)
drain_slots(s, which, kind) ==
  LET log[i \in 0..Size] == IF i = 0 THEN audit
                            ELSE IF i \in which THEN append_event(log[i - 1], kind, s[i].connection) ELSE log[i - 1]
  IN  /\ slots' = [i \in 1..Size |-> IF i \in which THEN Empty ELSE s[i]]
      /\ audit' = log[Size]
      /\ audit'.sequence <= MaxSequence

\* Faulty: the counter goes down with every drain of the remote.
Forget_any(remote) ==
  distinct_remotes' = IF slots' # slots THEN distinct_remotes - 1 ELSE distinct_remotes

(* The counter goes down with the last slot of a remote.                     *)
Forget(remote) ==
  distinct_remotes' =
    IF has_remote(slots, remote) /\ ~has_remote(slots', remote) THEN distinct_remotes - 1 ELSE distinct_remotes

Admits(remote) ==
  /\ has_remote(slots, remote) \/ distinct_remotes < MaxRemotes
  /\ Cardinality(Holding(slots, remote)) < per_remote_limit

Free == {i \in 1..Size : slots[i].connection = NoConnection}

(* The first free slot takes the connection.  It is moved in: a connection   *)
(* that is in the pool is in nobody's hands.                                 *)
add_connection(c, now) ==
  /\ audit.sequence < MaxSequence
  /\ \A i \in 1..Size : slots[i].connection # c
  /\ Admits(c.remote) /\ Free # {}
  /\ slots' = [slots EXCEPT ![Min(Free)] = [Empty EXCEPT !.connection = c, !.last_used = now]]
  /\ distinct_remotes' = IF has_remote(slots, c.remote) THEN distinct_remotes ELSE distinct_remotes + 1
  /\ audit' = append_event(audit, "Added", c)
  /\ UNCHANGED lease

(* The first slot of the remote that is healthy and not leased, unless a     *)
(* quarantined one comes before it.                                          *)
Lease(h, remote, now) ==
  LET usable == {i \in Holding(slots, remote) : slots[i].healthy /\ ~slots[i].leased /\ ~slots[i].quarantined}
      i == Min(usable)
  IN  /\ audit.sequence < MaxSequence
      /\ lease[h] = NoLease /\ usable # {}
      /\ \A j \in Holding(slots, remote) : slots[j].quarantined => j > i
      /\ slots' = [slots EXCEPT ![i].leased = TRUE, ![i].last_used = now]
      /\ audit' = append_event(audit, "Leased", slots[i].connection)
      /\ lease' = [lease EXCEPT ![h] = [slot |-> i, connection |-> slots[i].connection]]
      /\ UNCHANGED distinct_remotes

(* return_index, from reset or from the destructor of the guard: a slot that *)
(* was quarantined or marked while it was out is drained now.                *)
Return(h) ==
  LET i == lease[h].slot
      s == slots[i]
  IN  /\ lease[h] # NoLease
      /\ lease' = [lease EXCEPT ![h] = NoLease]
      /\ IF s.connection = NoConnection \/ ~s.leased
         THEN UNCHANGED <<slots, audit, distinct_remotes>>
         ELSE IF s.quarantined \/ ~s.healthy
         THEN /\ drain_slots(slots, {i}, IF s.quarantined THEN "DrainedQuarantined" ELSE "EvictedUnhealthy")
              /\ Forget(s.connection.remote)
         ELSE /\ audit.sequence < MaxSequence
              /\ slots' = [slots EXCEPT ![i].leased = FALSE]
              /\ audit' = append_event(audit, "Returned", s.connection)
              /\ UNCHANGED distinct_remotes

mark_unhealthy(c) ==
  /\ \E i \in 1..Size : slots[i].connection = c /\ slots[i].healthy
  /\ slots' = [i \in 1..Size |-> IF slots[i].connection = c THEN [slots[i] EXCEPT !.healthy = FALSE] ELSE slots[i]]
  /\ UNCHANGED <<distinct_remotes, audit, lease>>

evict_unhealthy(remote) ==
  /\ drain_slots(slots, {i \in Holding(slots, remote) : ~slots[i].leased /\ ~slots[i].healthy}, "EvictedUnhealthy")
  /\ Forget(remote)
  /\ UNCHANGED lease

evict_idle(remote, now) ==
  /\ drain_slots(slots, {i \in Holding(slots, remote) :
                           ~slots[i].leased /\ now >= slots[i].last_used /\ now - slots[i].last_used >= MaxIdle},
                 "EvictedIdle")
  /\ Forget(remote)
  /\ UNCHANGED lease

(* A leased slot is marked and stays; the others go.                         *)
drain_quarantined(remote) ==
  LET mine == Holding(slots, remote)
  IN  /\ drain_slots([i \in 1..Size |-> IF i \in mine THEN [slots[i] EXCEPT !.quarantined = TRUE] ELSE slots[i]],
                     {i \in mine : ~slots[i].leased}, "DrainedQuarantined")
      /\ Forget(remote)
      /\ UNCHANGED lease

Next ==
  \/ \E c \in Connections : mark_unhealthy(c) \/ \E now \in Times : add_connection(c, now)
  \/ \E h \in Holders : Return(h) \/ \E r \in Remotes, now \in Times : Lease(h, r, now)
  \/ \E r \in Remotes : evict_unhealthy(r) \/ drain_quarantined(r) \/ \E now \in Times : evict_idle(r, now)

Spec == Init /\ [][Next]_vars

TypeOK ==
  /\ slots \in [1..Size -> [connection : Connections \union {NoConnection}, leased : BOOLEAN,
                            quarantined : BOOLEAN, healthy : BOOLEAN, last_used : Times]]
  /\ distinct_remotes \in Nat /\ audit.count \in 0..MaxEvents

(* The cached count of remotes is the number of remotes in the pool, and the *)
(* limits on both hold after any order of drains and late returns.           *)
CountIsExact ==
  /\ distinct_remotes = Cardinality({r \in Remotes : has_remote(slots, r)})
  /\ distinct_remotes <= MaxRemotes
  /\ \A r \in Remotes : Cardinality(Holding(slots, r)) <= per_remote_limit

(* The last PoolFull of add_connection is never reached: whoever passes both *)
(* limits finds a free slot.                                                 *)
AdmittedFindsSlot == \A r \in Remotes : Admits(r) => Free # {}

(* A holder's slot stays its own until the guard is reset: no eviction, no   *)
(* drain and no other lease takes it, so what operator-> reads is the        *)
(* connection the lease gave.                                                *)
LeaseIsKept ==
  /\ \A h \in Holders : lease[h] # NoLease => /\ slots[lease[h].slot].leased
                                              /\ slots[lease[h].slot].connection = lease[h].connection
  /\ \A i \in 1..Size : slots[i].leased <=> Cardinality({h \in Holders : lease[h].slot = i}) = 1

(* A quarantined slot is in the pool only as long as its holder keeps it.    *)
QuarantineDrains == \A i \in 1..Size : slots[i].quarantined => slots[i].leased

(* The newest surviving event of a connection tells where it is: event_at    *)
(* read from the newest back agrees with the slots.                          *)
EventAt(k) == LET base == (audit.next + MaxEvents - audit.count) % MaxEvents IN audit.events[(base + k) % MaxEvents]
EventsTellThePool ==
  \A k \in 0..audit.count - 1 :
    LET e == EventAt(k)
        where == {i \in 1..Size : slots[i].connection = e.connection}
    IN  (\A j \in k + 1..audit.count - 1 : EventAt(j).connection # e.connection) =>
          CASE e.kind \in {"Added", "Returned"} -> \E i \in where : ~slots[i].leased
            [] e.kind = "Leased" -> \E i \in where : slots[i].leased
            [] OTHER -> where = {}

(* The bookkeeping of the pool after any order of its operations.            *)
PoolInv == TypeOK /\ CountIsExact /\ AdmittedFindsSlot /\ LeaseIsKept /\ QuarantineDrains /\ EventsTellThePool
=============================================================================
