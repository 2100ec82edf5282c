---------------------------- MODULE Scuttlebutt ----------------------------
(* Anti-entropy between processes that each hold a ScuttlebuttSync           *)
(* (canopy/Scuttlebutt.h) and one bounded grow-only set per key, the CRDT it *)
(* carries.  The network keeps at most MaxWire messages: it may lose one,    *)
(* deliver it again or deliver it late, and anyone may process it (external).*)
EXTENDS Naturals, FiniteSets, Sequences

CONSTANTS Nodes, Keys,
          InitialPeers,  \* the peers each process is minted with
          Writers,       \* the processes that write
          Capacity,      \* slots of a replicated set
          MaxVersion,    \* bound on the changes one process publishes of a key
          MaxWire        \* bound on the messages in flight

VARIABLES peers,      \* per node: the known origins, itself included
          keys,       \* per node: the registered keys
          versions,   \* per node, origin and key: the version held
          state,      \* per node and key: the set, its elements are writes
          wire,       \* messages in flight
          published   \* history: per origin and key, the deltas it published, oldest first

vars == <<peers, keys, versions, state, wire, published>>

Writes == Nodes \X (1..MaxVersion)

TypeOK ==
  /\ peers \in [Nodes -> SUBSET Nodes]
  /\ keys \in [Nodes -> SUBSET Keys]
  /\ versions \in [Nodes -> [Nodes -> [Keys -> 0..MaxVersion]]]
  /\ state \in [Nodes -> [Keys -> SUBSET Writes]]
  /\ Cardinality(wire) <= MaxWire

Init ==
  /\ peers = [n \in Nodes |-> InitialPeers[n] \union {n}]
  /\ keys = [n \in Nodes |-> {}]
  /\ versions = [n \in Nodes |-> [o \in Nodes |-> [k \in Keys |-> 0]]]
  /\ state = [n \in Nodes |-> [k \in Keys |-> {}]]
  /\ wire = {}
  /\ published = [o \in Nodes |-> [k \in Keys |-> <<>>]]

AddPeer(n, p) ==
  /\ p \notin peers[n]
  /\ peers' = [peers EXCEPT ![n] = @ \union {p}]
  /\ UNCHANGED <<keys, versions, state, wire, published>>

RegisterState(n, k) ==
  /\ k \notin keys[n]
  /\ keys' = [keys EXCEPT ![n] = @ \union {k}]
  /\ UNCHANGED <<peers, versions, state, wire, published>>

(* The owner of the set adds an element; publish_local_change comes later.   *)
LocalWrite(n, k) ==
  LET write == <<n, Len(published[n][k]) + 1>>
  IN  /\ n \in Writers /\ k \in keys[n]
      /\ Len(published[n][k]) < MaxVersion
      /\ write \notin state[n][k]
      /\ Cardinality(state[n][k]) < Capacity
      /\ state' = [state EXCEPT ![n][k] = @ \union {write}]
      /\ UNCHANGED <<peers, keys, versions, wire, published>>

Delta(o, k, v, s) == [kind |-> "delta", origin |-> o, key |-> k, version |-> v, state |-> s]

Send(messages) ==
  /\ Cardinality(wire \union messages) <= MaxWire
  /\ wire' = wire \union messages

PublishLocalChange(n, k) ==
  /\ n \in Writers /\ k \in keys[n]
  /\ Len(published[n][k]) < MaxVersion
  /\ versions' = [versions EXCEPT ![n][n][k] = @ + 1]
  /\ published' = [published EXCEPT ![n][k] = Append(@, [version |-> versions'[n][n][k], state |-> state[n][k]])]
  /\ Send({Delta(n, k, versions'[n][n][k], state[n][k])})
  /\ UNCHANGED <<peers, keys, state>>

Held(n) == {e \in Nodes \X Keys : e[1] \in peers[n] /\ e[2] \in keys[n] /\ versions[n][e[1]][e[2]] # 0}

(* A digest names the entries that were ever written.                        *)
Digest(n) ==
  /\ Send({[kind |-> "digest",
            entries |-> [e \in Held(n) |-> versions[n][e[1]][e[2]]]]})
  /\ UNCHANGED <<peers, keys, versions, state, published>>

(* One entry with an origin or a key the process does not know refuses the   *)
(* whole digest.  Otherwise it requests what the digest has newer, and sends *)
(* what it has newer itself (the offers).                                    *)
Comparable(n, d) == \A e \in DOMAIN d.entries : e[1] \in peers[n] /\ e[2] \in keys[n]

CompareDigest(n, d) ==
  /\ d.kind = "digest" /\ Comparable(n, d)
  /\ LET newer  == {e \in DOMAIN d.entries : d.entries[e] > versions[n][e[1]][e[2]]}
         offers == {e \in Held(n) : e \notin DOMAIN d.entries \/ d.entries[e] < versions[n][e[1]][e[2]]}
     IN  Send({[kind |-> "request", origin |-> e[1], key |-> e[2], version |-> d.entries[e]] : e \in newer}
              \union {Delta(e[1], e[2], versions[n][e[1]][e[2]], state[n][e[2]]) : e \in offers})
  /\ UNCHANGED <<peers, keys, versions, state, published>>

(* The delta carries the version held and the whole current state of the key,*)
(* whoever the origin is.                                                    *)
DeltaForRequest(n, r) ==
  /\ r.kind = "request" /\ r.origin \in peers[n] /\ r.key \in keys[n]
  /\ LET held == versions[n][r.origin][r.key]
     IN  /\ held >= r.version /\ held # 0
         /\ Send({Delta(r.origin, r.key, held, state[n][r.key])})
  /\ UNCHANGED <<peers, keys, versions, state, published>>

\* Faulty: the version moves before the merge is admitted.
ApplyDelta_version_first(n, d) ==
  /\ d.kind = "delta" /\ d.origin \in peers[n] /\ d.key \in keys[n]
  /\ d.version > versions[n][d.origin][d.key]
  /\ versions' = [versions EXCEPT ![n][d.origin][d.key] = d.version]
  /\ state' = IF Cardinality(state[n][d.key] \union d.state) > Capacity THEN state
              ELSE [state EXCEPT ![n][d.key] = @ \union d.state]
  /\ UNCHANGED <<peers, keys, wire, published>>

(* An older version is ignored.  A merge that would overflow the set is      *)
(* refused and leaves both the set and the version as they were.             *)
ApplyDelta(n, d) ==
  /\ d.kind = "delta" /\ d.origin \in peers[n] /\ d.key \in keys[n]
  /\ d.version > versions[n][d.origin][d.key]
  /\ Cardinality(state[n][d.key] \union d.state) <= Capacity
  /\ state' = [state EXCEPT ![n][d.key] = @ \union d.state]
  /\ versions' = [versions EXCEPT ![n][d.origin][d.key] = d.version]
  /\ UNCHANGED <<peers, keys, wire, published>>

(* Versions below a floor are forgotten, those of the process itself too:    *)
(* its own version is the counter it publishes from, which then starts again *)
(* until a delta of its own comes back.                                      *)
CompactPeerVersions(n, o, floor) ==
  /\ o \in peers[n]
  /\ versions' = [versions EXCEPT ![n][o] =
                    [k \in Keys |-> IF k \in keys[n] /\ @[k] < floor THEN 0 ELSE @[k]]]
  /\ UNCHANGED <<peers, keys, state, wire, published>>

(* The network forgets a message (external).                                 *)
Drop(m) == wire' = wire \ {m} /\ UNCHANGED <<peers, keys, versions, state, published>>

Next ==
  \/ \E n \in Nodes :
       \/ \E p \in Nodes : AddPeer(n, p)
       \/ \E k \in Keys : RegisterState(n, k) \/ LocalWrite(n, k) \/ PublishLocalChange(n, k)
       \/ Digest(n)
       \/ \E m \in wire : CompareDigest(n, m) \/ DeltaForRequest(n, m) \/ ApplyDelta(n, m)
       \/ \E o \in Nodes, floor \in 2..(MaxVersion + 1) : CompactPeerVersions(n, o, floor)
  \/ \E m \in wire : Drop(m)

Spec == Init /\ [][Next]_vars

(* A version is a promise about content: a process that holds version v of   *)
(* an origin's key has merged everything the origin's set held when it       *)
(* published v, whoever relayed it and however old the request it answered.  *)
(* So skipping a delta whose version is not newer loses nothing              *)
(* (publish_local_change, delta_for_request, apply_delta).  An origin that   *)
(* compacted its own versions publishes a number twice; one of the two is    *)
(* covered then.                                                             *)
VersionCoversState ==
  \A n, o \in Nodes, k \in Keys :
    versions[n][o][k] # 0 =>
      \E i \in DOMAIN published[o][k] :
        /\ published[o][k][i].version = versions[n][o][k]
        /\ published[o][k][i].state \subseteq state[n][k]

(* The versions of an origin number what it published: it has not compacted  *)
(* its own, or got them back before it published again.                      *)
Counts(o, k) ==
  /\ versions[o][o][k] = Len(published[o][k])
  /\ \A i \in DOMAIN published[o][k] : published[o][k][i].version = i

Unpublished(n, k) ==
  LET p == published[n][k] IN ~(\A w \in state[n][k] : w[1] = n => w[2] <= Len(p))

(* Anti-entropy converges to one state: when every process holds each        *)
(* origin's own version of a key, the versions count what was published, and *)
(* nobody has a write it did not publish, all the replicas of the key are    *)
(* equal; no digest can then hide a difference (digest, compare_digest,      *)
(* apply_delta).                                                             *)
SyncedReplicasAgree ==
  \A k \in Keys :
    (/\ \A n, o \in Nodes : versions[n][o][k] = versions[o][o][k]
     /\ \A n \in Nodes : Counts(n, k) /\ ~Unpublished(n, k)) =>
       \A n, m \in Nodes : state[n][k] = state[m][k]

(* Versions that keep their promise, and replicas that agree once in step.   *)
ScuttlebuttInv == TypeOK /\ VersionCoversState /\ SyncedReplicasAgree
===========================================================================
