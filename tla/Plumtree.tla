----------------------------- MODULE Plumtree -----------------------------
(* The broadcast trees of several processes (canopy/Plumtree.h) and the      *)
(* messages their plans ask for.  The class only returns plans; the process  *)
(* around it sends them (external): the payload to the eager peers of a      *)
(* plan, the summary of its history to the lazy ones, and the payload again  *)
(* to a peer that requests it.  Messages are delivered in any order.         *)
EXTENDS Naturals, Sequences, SequencesExt

CONSTANTS Nodes, Ids,
          Overlay,      \* the active view each tree is minted from, in order
          Later,        \* the peers a tree may be given after that
          Fanout, MaxHistory,
          MaxRemembered \* bound on the ids one node takes for new

VARIABLES links,        \* per node: the dense link slots, a peer and a state
          eager_count,  \* per node: the counter beside them
          history,      \* per node: the ring of message ids
          cursor,       \* per node: where the ring is written next
          count,        \* per node: how much of the ring is live
          wire,         \* the messages in flight
          remembered    \* history: every id each node remembered, in order

treeVars == <<links, eager_count>>
ringVars == <<history, cursor, count, remembered>>
vars == <<treeVars, ringVars, wire>>

TypeOK ==
  /\ \A n \in Nodes : links[n] \in Seq([peer : Nodes, eager : BOOLEAN])
  /\ eager_count \in [Nodes -> 0..Fanout]
  /\ cursor \in [Nodes -> 0..(MaxHistory - 1)]
  /\ count \in [Nodes -> 0..MaxHistory]

EagerIndices(ls) == {i \in DOMAIN ls : ls[i].eager}

(* add_link_: an eager link past the fanout becomes a lazy one.              *)
add_link(tree, peer, eager) ==
  LET e == eager /\ tree.eager # Fanout
  IN  [links |-> Append(tree.links, [peer |-> peer, eager |-> e]),
       eager |-> IF e THEN tree.eager + 1 ELSE tree.eager]

Minted(peers) ==
  FoldLeft(LAMBDA tree, p : add_link(tree, p, TRUE), [links |-> <<>>, eager |-> 0], peers)

Init ==
  /\ links = [n \in Nodes |-> Minted(Overlay[n]).links]
  /\ eager_count = [n \in Nodes |-> Minted(Overlay[n]).eager]
  /\ history = [n \in Nodes |-> [i \in 0..(MaxHistory - 1) |-> CHOOSE id \in Ids : TRUE]]
  /\ cursor = [n \in Nodes |-> 0]
  /\ count = [n \in Nodes |-> 0]
  /\ wire = {}
  /\ remembered = [n \in Nodes |-> <<>>]

Linked(n, p) == \E i \in DOMAIN links[n] : links[n][i].peer = p

find_link(n, p) == CHOOSE i \in DOMAIN links[n] : links[n][i].peer = p

SetTree(n, tree) ==
  /\ links' = [links EXCEPT ![n] = tree.links]
  /\ eager_count' = [eager_count EXCEPT ![n] = tree.eager]

(* add_eager_peer and add_lazy_peer.                                         *)
AddPeer(n, p, eager) ==
  /\ p \in Later[n] /\ ~Linked(n, p)
  /\ SetTree(n, add_link([links |-> links[n], eager |-> eager_count[n]], p, eager))
  /\ UNCHANGED <<ringVars, wire>>

(* A lazy link becomes eager in the place of the first other eager one when  *)
(* the fanout is spent.                                                      *)
promote_eager(n, i) ==
  LET others == EagerIndices(links[n]) \ {i}
      full   == eager_count[n] = Fanout
      rest   == IF full /\ others # {} THEN [links[n] EXCEPT ![Min(others)].eager = FALSE]
                ELSE links[n]
      spent  == IF full /\ others # {} THEN eager_count[n] - 1 ELSE eager_count[n]
  IN  IF links[n][i].eager THEN [links |-> links[n], eager |-> eager_count[n]]
      ELSE IF spent = Fanout THEN [links |-> rest, eager |-> spent]
      ELSE [links |-> [rest EXCEPT ![i].eager = TRUE], eager |-> spent + 1]

demote(n, i) ==
  IF links[n][i].eager
  THEN [links |-> [links[n] EXCEPT ![i].eager = FALSE], eager |-> eager_count[n] - 1]
  ELSE [links |-> links[n], eager |-> eager_count[n]]

seen(n, id) == \E i \in 0..(count[n] - 1) : history[n][i] = id

remember(n, id) ==
  IF seen(n, id) THEN UNCHANGED ringVars
  ELSE /\ Len(remembered[n]) < MaxRemembered
       /\ history' = [history EXCEPT ![n][cursor[n]] = id]
       /\ cursor' = [cursor EXCEPT ![n] = (@ + 1) % MaxHistory]
       /\ count' = [count EXCEPT ![n] = IF @ < MaxHistory THEN @ + 1 ELSE @]
       /\ remembered' = [remembered EXCEPT ![n] = Append(@, id)]

(* Oldest first: the ring is read from the cursor back by the live count.    *)
ihave_summary(n, h, c, k) == [j \in 1..k |-> h[n][(c + MaxHistory - k + (j - 1)) % MaxHistory]]

Payload(from, to, id) == [kind |-> "payload", from |-> from, to |-> to, ids |-> {id}]

\* Faulty: the lazy peers are told nothing.
Plan_eager_only(n, id, tree, except) ==
  {Payload(n, l.peer, id) : l \in {x \in Range(tree.links) : x.eager /\ x.peer # except}}

(* build_broadcast_plan_ over the links of the tree after the call, and its  *)
(* sending: the summary is the one after the call too.                       *)
Plan(n, id, tree, except) ==
  {IF l.eager THEN Payload(n, l.peer, id)
   ELSE [kind |-> "ihave", from |-> n, to |-> l.peer,
         ids |-> Range(ihave_summary(n, history', cursor'[n], count'[n]))] :
     l \in {x \in Range(tree.links) : x.peer # except}}

Publish(n, id) ==
  /\ \A m \in Nodes : id \notin Range(remembered[m])     \* a payload of its own
  /\ remember(n, id)
  /\ wire' = wire \union Plan(n, id, [links |-> links[n], eager |-> eager_count[n]], n)
  /\ UNCHANGED treeVars

(* A duplicate makes its sender lazy; a new id makes its sender eager, is    *)
(* remembered and goes on to everyone else.                                  *)
ReceiveMessage(m) ==
  /\ m.kind = "payload"
  /\ LET n == m.to  id == CHOOSE x \in m.ids : TRUE
     IN  IF ~Linked(n, m.from) THEN UNCHANGED <<treeVars, ringVars>> /\ wire' = wire \ {m}
         ELSE LET i == find_link(n, m.from)
              IN  IF seen(n, id)
                  THEN SetTree(n, demote(n, i)) /\ UNCHANGED ringVars /\ wire' = wire \ {m}
                  ELSE /\ SetTree(n, promote_eager(n, i))
                       /\ remember(n, id)
                       /\ wire' = (wire \ {m}) \union Plan(n, id, promote_eager(n, i), m.from)

(* The ids that are not in the history are requested and the source becomes  *)
(* eager.                                                                    *)
ReceiveIHave(m) ==
  /\ m.kind = "ihave"
  /\ LET n == m.to  requested == {id \in m.ids : ~seen(n, id)}
     IN  IF ~Linked(n, m.from) \/ requested = {}
         THEN UNCHANGED treeVars /\ wire' = wire \ {m}
         ELSE /\ SetTree(n, promote_eager(n, find_link(n, m.from)))
              /\ wire' = (wire \ {m}) \union
                   {[kind |-> "request", from |-> n, to |-> m.from, ids |-> requested]}
  /\ UNCHANGED ringVars

(* The source answers a repair plan with the payloads it still knows.        *)
ServeRequest(m) ==
  /\ m.kind = "request"
  /\ wire' = (wire \ {m}) \union {Payload(m.to, m.from, id) : id \in {x \in m.ids : seen(m.to, x)}}
  /\ UNCHANGED <<treeVars, ringVars>>

Next ==
  \/ \E n \in Nodes : \/ \E id \in Ids : Publish(n, id)
                      \/ \E p \in Nodes, eager \in BOOLEAN : AddPeer(n, p, eager)
  \/ \E m \in wire : ReceiveMessage(m) \/ ReceiveIHave(m) \/ ServeRequest(m)

Spec == Init /\ [][Next]_vars

(* The counter beside the links is the number of eager links, so it never    *)
(* passes the fanout and never wraps below zero, through promotions that     *)
(* take the place of another link and demotions by duplicates (add_link_,    *)
(* promote_eager_, receive_message).                                         *)
EagerCountExact == \A n \in Nodes : eager_count[n] = Cardinality(EagerIndices(links[n]))

(* A summary names exactly the newest MaxHistory ids the process remembered, *)
(* oldest first, also after the ring wrapped; so an id is taken for new a    *)
(* second time only when MaxHistory others came in between (remember_,       *)
(* seen_, ihave_summary).                                                    *)
SummaryIsNewest ==
  \A n \in Nodes :
    LET r == remembered[n]
    IN  ihave_summary(n, history, cursor[n], count[n]) =
          SubSeq(r, IF Len(r) > MaxHistory THEN Len(r) - MaxHistory + 1 ELSE 1, Len(r))

Published == UNION {Range(remembered[n]) : n \in Nodes}

(* Eager pushes and repairs together reach everyone: once no message is in   *)
(* flight, and while the history has room for everything published, every    *)
(* process has every published id, although duplicates keep demoting links   *)
(* and promotions keep evicting them (build_broadcast_plan_,                 *)
(* receive_message, receive_ihave).                                          *)
QuietMeansDelivered ==
  wire = {} /\ Cardinality(Published) <= MaxHistory =>
    \A n \in Nodes : Range(remembered[n]) = Published

(* A link count and a history that are exact, and a broadcast that reaches   *)
(* everyone.                                                                 *)
PlumtreeInv == TypeOK /\ EagerCountExact /\ SummaryIsNewest /\ QuietMeansDelivered
===========================================================================
