------------------------------ MODULE MCCanopy ------------------------------
(* The components of the canopy, one at a time: `part` says which component  *)
(* a behaviour is about, and x1 to x9 are that component's variables.        *)
(* Membership and broadcast are taken twice, with the instances that reach   *)
(* their different corners: two nodes and one peer (rumours meet), one node  *)
(* and three peers (the probe cursor wraps, the table fills); an overlay of  *)
(* three nodes with a lazy link and a node that joins late, and one of two   *)
(* whose history ring wraps.  Synchronisation is taken three times: a relay  *)
(* and a set that overflows, two nodes that start knowing nobody, and a      *)
(* request that reaches a node with an older version than it asks for.  The  *)
(* clocks are taken three times: hybrid clocks with a counter that           *)
(* overflows, vector clocks of one thread each, and one that two threads     *)
(* share.                                                                    *)
EXTENDS Naturals, Sequences, Parts

Rumours == INSTANCE Swim WITH
  member <- x1, wire <- x2, heard <- x3, waited <- x4,
  Nodes <- {"n1", "n2"}, Peers <- {"p1"}, MaxIncarnation <- 3,
  MaxPeers <- 2, MaxPiggyback <- 2, SuspicionMisses <- 2, MissMax <- 3

Probes == INSTANCE Swim WITH
  member <- x1, wire <- x2, heard <- x3, waited <- x4,
  Nodes <- {"n1"}, Peers <- {"p1", "p2", "p3"}, MaxIncarnation <- 2,
  MaxPeers <- 2, MaxPiggyback <- 2, SuspicionMisses <- 2, MissMax <- 3

Guard == INSTANCE Lifeguard WITH
  swim <- x1, lhm <- x2, events <- x3,
  Local <- "me", Others <- {"p1", "p2"}, MinLhm <- 1, MaxLhm <- 3, Penalty <- 1, Recovery <- 2,
  MaxEvents <- 2, MaxIncarnation <- 2,
  MaxPeers <- 2, MaxPiggyback <- 1, SuspicionMisses <- 2, MissMax <- 3

Views == INSTANCE HyParView WITH
  active <- x1, passive <- x2, aborted <- x3,
  Peers <- {"p1", "p2", "p3", "p4", "p5"}, ActiveSize <- 2, PassiveSize <- 2, MaxSample <- 2

Lazy == INSTANCE Plumtree WITH
  links <- x1, eager_count <- x2, history <- x3, cursor <- x4, count <- x5, wire <- x6, remembered <- x7,
  Nodes <- {"a", "b", "c"}, Ids <- {1, 2},
  Overlay <- [a |-> <<"b", "c">>, b |-> <<"a", "c">>, c |-> <<"b">>],
  Later <- [a |-> {}, b |-> {}, c |-> {"a"}],
  Fanout <- 1, MaxHistory <- 2, MaxRemembered <- 4

Wrap == INSTANCE Plumtree WITH
  links <- x1, eager_count <- x2, history <- x3, cursor <- x4, count <- x5, wire <- x6, remembered <- x7,
  Nodes <- {"a", "b"}, Ids <- {1, 2, 3},
  Overlay <- [a |-> <<"b">>, b |-> <<"a">>], Later <- [a |-> {}, b |-> {}],
  Fanout <- 1, MaxHistory <- 2, MaxRemembered <- 5

Relay == INSTANCE Scuttlebutt WITH
  peers <- x1, keys <- x2, versions <- x3, state <- x4, wire <- x5, published <- x6,
  Nodes <- {"a", "b", "c"}, Keys <- {"k"},
  InitialPeers <- [a |-> {"a", "b", "c"}, b |-> {"a", "b", "c"}, c |-> {"b"}],
  Writers <- {"a", "b"}, Capacity <- 2, MaxVersion <- 1, MaxWire <- 2

Pair == INSTANCE Scuttlebutt WITH
  peers <- x1, keys <- x2, versions <- x3, state <- x4, wire <- x5, published <- x6,
  Nodes <- {"a", "b"}, Keys <- {"k"}, InitialPeers <- [a |-> {}, b |-> {}],
  Writers <- {"a", "b"}, Capacity <- 3, MaxVersion <- 2, MaxWire <- 1

Late == INSTANCE Scuttlebutt WITH
  peers <- x1, keys <- x2, versions <- x3, state <- x4, wire <- x5, published <- x6,
  Nodes <- {"a", "b", "c"}, Keys <- {"k"}, InitialPeers <- [n \in {"a", "b", "c"} |-> {"a", "b", "c"}],
  Writers <- {"a"}, Capacity <- 3, MaxVersion <- 2, MaxWire <- 2

Merge == INSTANCE Crdt WITH
  kind <- x1, state <- x2, saved <- x3, seen <- x4, savedSeen <- x5,
  Replicas <- {1, 2}, Values <- {1, 2}, Capacity <- 2, Saturation <- 3, MaxWrites <- 3,
  Kinds <- {"GSet", "OrSet", "LwwRegister", "PNCounter", "MVRegister", "RgaList"}

Hybrid == INSTANCE Clocks WITH
  hlc <- x1, stamps <- x2, stamped <- x3, clock <- x4, call <- x5, wire <- x6, events <- x7, past <- x8, overlapped <- x9,
  MaxNodes <- 2, Threads <- {}, Home <- <<>>, Calls <- {}, MaxPhysical <- 2, MaxCounter <- 1, MaxStamps <- 5, MaxEvents <- 0,
  MaxWire <- 0

Apart == INSTANCE Clocks WITH
  hlc <- x1, stamps <- x2, stamped <- x3, clock <- x4, call <- x5, wire <- x6, events <- x7, past <- x8, overlapped <- x9,
  MaxNodes <- 2, Threads <- {1, 2}, Home <- <<1, 2>>,
  Calls <- {"on_local_event", "on_send", "on_recv", "apply_delta", "snapshot"},
  MaxPhysical <- 1, MaxCounter <- 1, MaxStamps <- 0, MaxEvents <- 3, MaxWire <- 1

Shared == INSTANCE Clocks WITH
  hlc <- x1, stamps <- x2, stamped <- x3, clock <- x4, call <- x5, wire <- x6, events <- x7, past <- x8, overlapped <- x9,
  MaxNodes <- 2, Threads <- {1, 2, 3}, Home <- <<1, 1, 2>>,
  Calls <- {"on_send", "on_recv", "on_local_event"},
  MaxPhysical <- 1, MaxCounter <- 1, MaxStamps <- 0, MaxEvents <- 3, MaxWire <- 1

CanopyInit ==
  \/ part = "rumours" /\ Rumours!Init /\ Zero5
  \/ part = "probes" /\ Probes!Init /\ Zero5
  \/ part = "guard" /\ Guard!Init /\ Zero4
  \/ part = "views" /\ Views!Init /\ Zero4
  \/ part = "lazy" /\ Lazy!Init /\ Zero8
  \/ part = "wrap" /\ Wrap!Init /\ Zero8
  \/ part = "relay" /\ Relay!Init /\ Zero7
  \/ part = "pair" /\ Pair!Init /\ Zero7
  \/ part = "late" /\ Late!Init /\ Zero7
  \/ part = "merge" /\ Merge!Init /\ Zero6
  \/ part = "hybrid" /\ Hybrid!Init /\ Zero10
  \/ part = "apart" /\ Apart!Init /\ Zero10
  \/ part = "shared" /\ Shared!Init /\ Zero10

RumoursStep == part = "rumours" /\ Rumours!Next /\ UNCHANGED Idle5
ProbesStep == part = "probes" /\ Probes!Next /\ UNCHANGED Idle5
GuardStep == part = "guard" /\ Guard!Next /\ UNCHANGED Idle4
ViewsStep == part = "views" /\ Views!Next /\ UNCHANGED Idle4
LazyStep == part = "lazy" /\ Lazy!Next /\ UNCHANGED Idle8
WrapStep == part = "wrap" /\ Wrap!Next /\ UNCHANGED Idle8
RelayStep == part = "relay" /\ Relay!Next /\ UNCHANGED Idle7
PairStep == part = "pair" /\ Pair!Next /\ UNCHANGED Idle7
LateStep == part = "late" /\ Late!Next /\ UNCHANGED Idle7
MergeStep == part = "merge" /\ Merge!Next /\ UNCHANGED Idle6
HybridStep == part = "hybrid" /\ Hybrid!Next /\ UNCHANGED Idle10
ApartStep == part = "apart" /\ Apart!Next /\ UNCHANGED Idle10
SharedStep == part = "shared" /\ Shared!Next /\ UNCHANGED Idle10

CanopyNext ==
  \/ RumoursStep \/ ProbesStep \/ GuardStep \/ ViewsStep \/ LazyStep
  \/ WrapStep \/ RelayStep \/ PairStep \/ LateStep \/ MergeStep
  \/ HybridStep \/ ApartStep \/ SharedStep

(* Swim: a belief is the newest health heard, the gossip agrees with it, and *)
(* the probe rotation starves no live peer.                                  *)
SwimInv ==
  /\ part = "rumours" => Rumours!SwimInv
  /\ part = "probes" => Probes!SwimInv

(* Lifeguard: members and multipliers stay in step, and the queued events    *)
(* form one unbroken chain.                                                  *)
LifeguardInv == part = "guard" => Guard!LifeguardInv

(* HyParView: no peer is in a view twice or in both, the checks of populate  *)
(* cover every refusal of its insertions, and the active view shrinks only   *)
(* when nobody is left to promote.                                           *)
ViewsSound ==
  /\ [](part = "views" => Views!ViewsInv)
  /\ [][part = "views" => Views!RefillStep]_partVars

(* Plumtree: the eager count and the summary are exact, and when nothing is  *)
(* in flight every node has what was published.                              *)
PlumtreeInv ==
  /\ part = "lazy" => Lazy!PlumtreeInv
  /\ part = "wrap" => Wrap!PlumtreeInv

(* Scuttlebutt: a version a node claims is backed by the state it holds, and *)
(* replicas with equal versions have equal states.                           *)
ScuttlebuttInv ==
  /\ part = "relay" => Relay!ScuttlebuttInv
  /\ part = "pair" => Pair!ScuttlebuttInv
  /\ part = "late" => Late!ScuttlebuttInv

(* Crdt: a replica is the meaning of the writes it has seen.                 *)
ReplicaIsItsWrites == part = "merge" => Merge!ReplicaIsItsWrites

(* Clocks: hybrid stamps respect causality, so do vector clocks that threads *)
(* share, and those of one thread each are causality.                        *)
StampsFollowCausality ==
  /\ part = "hybrid" => Hybrid!StampsFollowCausality
  /\ part = "apart" => Apart!StampsFollowCausality
  /\ part = "shared" => Shared!StampsFollowCausality
=============================================================================
