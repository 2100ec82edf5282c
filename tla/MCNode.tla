------------------------------- MODULE MCNode -------------------------------
(* The shared structures of a node, one at a time: the recording ring, whose *)
(* variables are its own and rest in the other parts, the multi-producer     *)
(* ring, the work-stealing deque, the transport, the quarantine, and the     *)
(* canopy of module MCCanopy.                                                *)
(*                                                                           *)
(* The recording ring has four slots and two of its four arrays, driven to   *)
(* six appends: the write position passes the end of the arrays, and a pop   *)
(* of three slots wraps too.  Two ops tell a stale slot from a new one.  The *)
(* multi-producer ring has two words of two bits, so a push of three spans   *)
(* both, one of four fills the ring, and six items go round it.  The deque   *)
(* of two slots is pushed five items: both ends go round twice.              *)
(*                                                                           *)
(* Two threads and an observer move a flow between two plans, with an audit  *)
(* ring of two events that goes round.  The pool is taken twice: one remote  *)
(* admitted and a second refused, with a limit of two connections and two    *)
(* holders, and two remotes with one holder.  The credits are taken twice:   *)
(* two sockets that share two slots, and two sockets that compete for one.   *)
(* The quarantine is taken twice: a table of one cog that a second one does  *)
(* not fit in, with two probes and a deadline of two, and one of two cogs.   *)
EXTENDS TraceRing, MCCanopy

Mpsc == INSTANCE MpscRing WITH
  head <- x1, tail <- x2, cells <- x3, ready <- x4, producer <- x5, consumer <- x6, popped <- x7,
  Producers <- {"p1", "p2"}, Capacity <- 4, WordBits <- 2, PushSizes <- {1, 3, 4}, PopSizes <- {1, 5},
  MaxItems <- 6

Steal == INSTANCE ChaseLevDeque WITH
  top <- x1, bottom <- x2, buffer <- x3, owner <- x4, thief <- x5, pushed <- x6, taken <- x7,
  Thieves <- {"h1", "h2"}, Capacity <- 2, MaxItems <- 5

PathMove == INSTANCE PathSwap WITH
  gate <- x1, state <- x2, plan <- x3, deadline <- x4, audit <- x5, thread <- x6, observer <- x7, clock <- x8,
  Threads <- {"a", "b"}, Plans <- {[id |-> 1, timeout |-> 1], [id |-> 2, timeout |-> 1]},
  MaxEvents <- 2, MaxTime <- 2, MaxSequence <- 3

Pool == INSTANCE ConnectionPool WITH
  slots <- x1, distinct_remotes <- x2, audit <- x3, lease <- x4,
  Connections <- {[remote |-> "r", socket |-> 1], [remote |-> "r", socket |-> 2], [remote |-> "s", socket |-> 3]},
  Holders <- {"h1", "h2"}, MaxRemotes <- 1, MaxPerRemote <- 2, Limit <- 2, MaxIdle <- 1, Times <- {0, 1},
  MaxEvents <- 3, MaxSequence <- 8

Pools == INSTANCE ConnectionPool WITH
  slots <- x1, distinct_remotes <- x2, audit <- x3, lease <- x4,
  Connections <- {[remote |-> "r", socket |-> 1], [remote |-> "r", socket |-> 2], [remote |-> "s", socket |-> 3]},
  Holders <- {"h1"}, MaxRemotes <- 2, MaxPerRemote <- 2, Limit <- 2, MaxIdle <- 1, Times <- {0, 1},
  MaxEvents <- 3, MaxSequence <- 5

Credits == INSTANCE Backpressure WITH
  fd_bits <- x1, credit_bytes <- x2, start_gate <- x3, live_connections <- x4, sequence <- x5, thread <- x6,
  balance <- x7, accepted <- x8,
  Threads <- {"a", "b"}, Sockets <- {"s", "t"}, MaxFlows <- 2, Amounts <- {1, 2}, MaxCredit <- 3,
  MaxConnections <- 1, MaxCalls <- 2

Scarce == INSTANCE Backpressure WITH
  fd_bits <- x1, credit_bytes <- x2, start_gate <- x3, live_connections <- x4, sequence <- x5, thread <- x6,
  balance <- x7, accepted <- x8,
  Threads <- {"a", "b"}, Sockets <- {"s", "t"}, MaxFlows <- 1, Amounts <- {2}, MaxCredit <- 3,
  MaxConnections <- 1, MaxCalls <- 3

Full == INSTANCE Quarantine WITH
  slots <- x1, audit <- x2, clock <- x3, logged <- x4, streak <- x5, loaded <- x6,
  Cogs <- {"a", "b"}, MaxCogs <- 1, ProbeCount <- 2, Deadline <- 2, MaxEvents <- 2, MaxSequence <- 1,
  MaxTime <- 3, MaxLog <- 4

Wards == INSTANCE Quarantine WITH
  slots <- x1, audit <- x2, clock <- x3, logged <- x4, streak <- x5, loaded <- x6,
  Cogs <- {"a", "b"}, MaxCogs <- 2, ProbeCount <- 1, Deadline <- 1, MaxEvents <- 2, MaxSequence <- 1,
  MaxTime <- 1, MaxLog <- 3

TransportInit ==
  \/ part = "move" /\ PathMove!Init /\ Zero9
  \/ part = "pool" /\ Pool!Init /\ Zero5
  \/ part = "pools" /\ Pools!Init /\ Zero5
  \/ part = "credits" /\ Credits!Init /\ Zero9
  \/ part = "scarce" /\ Scarce!Init /\ Zero9
  \/ part = "full" /\ Full!Init /\ Zero7
  \/ part = "wards" /\ Wards!Init /\ Zero7

MoveStep == part = "move" /\ PathMove!Next /\ UNCHANGED Idle9
PoolStep == part = "pool" /\ Pool!Next /\ UNCHANGED Idle5
PoolsStep == part = "pools" /\ Pools!Next /\ UNCHANGED Idle5
CreditsStep == part = "credits" /\ Credits!Next /\ UNCHANGED Idle9
ScarceStep == part = "scarce" /\ Scarce!Next /\ UNCHANGED Idle9
FullStep == part = "full" /\ Full!Next /\ UNCHANGED Idle7
WardsStep == part = "wards" /\ Wards!Next /\ UNCHANGED Idle7

TransportNext == MoveStep \/ PoolStep \/ PoolsStep \/ CreditsStep \/ ScarceStep \/ FullStep \/ WardsStep

NodeInit ==
  /\ Init
  /\ \/ part = "ring" /\ Zero1
     \/ part = "mpsc" /\ Mpsc!Init /\ Zero8
     \/ part = "steal" /\ Steal!Init /\ Zero8
     \/ CanopyInit
     \/ TransportInit

RingStep == part = "ring" /\ Next /\ UNCHANGED Idle1
MpscStep == part = "mpsc" /\ Mpsc!Next /\ UNCHANGED Idle8 /\ UNCHANGED vars
StealStep == part = "steal" /\ Steal!Next /\ UNCHANGED Idle8 /\ UNCHANGED vars
CanopyStep == CanopyNext /\ UNCHANGED vars
TransportStep == TransportNext /\ UNCHANGED vars

\* The bounds end a behaviour of the other parts; the ring never stops.
Ended == part # "ring" /\ UNCHANGED <<vars, partVars>>

NodeNext ==
  \/ RingStep \/ MpscStep \/ StealStep \/ CanopyStep \/ TransportStep \/ Ended

NodeSpec == NodeInit /\ [][NodeNext]_<<vars, partVars>>

(* MpscRing: the consumer is given every item once, in the order of the      *)
(* claims; the ready bits are the backlog; a refused push had no room.       *)
MpscInv == part = "mpsc" => Mpsc!MpscInv

(* ChaseLevDeque: every step is a step of the double-ended queue, and no     *)
(* item is lost or handed out twice.                                         *)
ImplementsWorkDeque ==
  /\ part = "steal" => Steal!Deque!Init
  /\ [](part = "steal" => Steal!DequeInv)
  /\ [][part = "steal" => Steal!Deque!Next \/ UNCHANGED <<Steal!Contents, x7>>]_partVars

(* PathSwap: the audit ring is the history of the state, the plan and the    *)
(* deadline are those of the swap under way, and an observer finds the event *)
(* of what it saw.                                                           *)
SwapInv == part = "move" => PathMove!SwapInv

(* ConnectionPool: the counts are exact, a connection that is admitted finds *)
(* a slot, a lease keeps its connection until it is returned, and a remote   *)
(* in quarantine drains.                                                     *)
PoolInv ==
  /\ part = "pool" => Pool!PoolInv
  /\ part = "pools" => Pools!PoolInv

(* Backpressure: a socket has one slot, its credit is what was granted less  *)
(* what was consumed, and the live connections are those accepted.           *)
CreditsInv ==
  /\ part = "credits" => Credits!CreditsInv
  /\ part = "scarce" => Scarce!CreditsInv

(* Quarantine: the audit events tell the state of a cog, recovery has its    *)
(* probes, and a cog becomes permanent only after its deadline.              *)
QuarantineSound ==
  /\ [](part = "full" => Full!QuarantineInv)
  /\ [](part = "wards" => Wards!QuarantineInv)
  /\ [][part = "full" => Full!PermanentStep]_partVars
  /\ [][part = "wards" => Wards!PermanentStep]_partVars
=============================================================================
