------------------------------- MODULE MCLive -------------------------------
(* The components whose waits must end: the owner mailbox, whose variables   *)
(* are its own and rest in the other parts, the snapshot, the sealed schema  *)
(* tables, the alignment walk of dispatch and the refresh daemon.            *)
(*                                                                           *)
(* Nothing in the owner mailbox counts without a reset: with three callers   *)
(* its state space is finite, stages starting and callers calling any number *)
(* of times.  A reader of the snapshot copies three words against three      *)
(* publishes.  Two producers register three hashes in two calls each around  *)
(* a seal.  The walk follows an iteration that ends with the operation it    *)
(* begins with, from every phase, with a rollback or a load in between.  The *)
(* daemon is taken three times: one verdict that expires, with a backoff of  *)
(* three terms, two verdicts of which a cycle may admit one, and one that    *)
(* never expires.                                                            *)
EXTENDS OwnerMailbox, Parts

CONSTANT None   \* a null pointer

Snapshot == INSTANCE AtomicSnapshot WITH
  seq <- x1, storage <- x2, writer <- x3, published <- x4, reader <- x5,
  Readers <- {"r1"}, Words <- 3, MaxPublishes <- 3

Schema == INSTANCE SchemaTable WITH
  phase <- x1, entries <- x2, count <- x3, producer <- x4, sealer <- x5, registered <- x6,
  Producers <- {"p1", "p2"}, Sealers <- {"s1"}, Hashes <- 1..3, Names <- {5}, MaxRegistrations <- 2

Walk == INSTANCE Replay WITH
  program <- x1, phase <- x2, slot <- x3, activation <- x4, pos <- x5, active <- x6, cursor <- x7, mode <- x8,
  cache <- x9, undo <- x10, published <- x11, restores <- x12, turns <- x13, recent <- x14, missed <- x15,
  skewed <- x16, resetting <- x17, divergedAt <- x18,
  Iterations <- {[ops |-> <<"a", "b", "c", "a">>, plan |-> TRUE]},
  K <- 3, CAP <- 2, MaxTurns <- 0, MaxPublished <- 2, MaxRestores <- 1

Refresh == INSTANCE RefreshDaemon WITH
  now <- x1, working <- x2, file <- x3, view <- x4, thread <- x5, wakeup <- x6, stop_requested <- x7, backoff <- x8,
  last_result <- x9, owner <- x10, failures <- x11,
  Verdicts <- {"v"}, Lasting <- {}, MaxTime <- 2, Ttl <- 1, InitialBackoff <- 1, MaxBackoff <- 3, Multiplier <- 2,
  MaxFailures <- 3

Partial == INSTANCE RefreshDaemon WITH
  now <- x1, working <- x2, file <- x3, view <- x4, thread <- x5, wakeup <- x6, stop_requested <- x7, backoff <- x8,
  last_result <- x9, owner <- x10, failures <- x11,
  Verdicts <- {"v", "w"}, Lasting <- {}, MaxTime <- 1, Ttl <- 1, InitialBackoff <- 1, MaxBackoff <- 1,
  Multiplier <- 2, MaxFailures <- 1

Fixed == INSTANCE RefreshDaemon WITH
  now <- x1, working <- x2, file <- x3, view <- x4, thread <- x5, wakeup <- x6, stop_requested <- x7, backoff <- x8,
  last_result <- x9, owner <- x10, failures <- x11,
  Verdicts <- {"w"}, Lasting <- {"w"}, MaxTime <- 2, Ttl <- 1, InitialBackoff <- 1, MaxBackoff <- 1, Multiplier <- 2,
  MaxFailures <- 1

LiveInit ==
  /\ Init
  /\ \/ part = "mailbox" /\ Zero1
     \/ part = "snapshot" /\ Snapshot!Init /\ Zero6
     \/ part = "schema" /\ Schema!Init /\ Zero7
     \/ part = "walk" /\ Walk!Init
     \/ part = "refresh" /\ Refresh!Init /\ Zero12
     \/ part = "partial" /\ Partial!Init /\ Zero12
     \/ part = "fixed" /\ Fixed!Init /\ Zero12

MailboxStep == part = "mailbox" /\ Next /\ UNCHANGED Idle1
SnapshotStep == part = "snapshot" /\ Snapshot!Next /\ UNCHANGED Idle6 /\ UNCHANGED vars
SchemaStep == part = "schema" /\ Schema!Next /\ UNCHANGED Idle7 /\ UNCHANGED vars
WalkStep == part = "walk" /\ Walk!Next /\ UNCHANGED Idle19 /\ UNCHANGED vars
RefreshStep == part = "refresh" /\ Refresh!Next /\ UNCHANGED Idle12 /\ UNCHANGED vars
PartialStep == part = "partial" /\ Partial!Next /\ UNCHANGED Idle12 /\ UNCHANGED vars
FixedStep == part = "fixed" /\ Fixed!Next /\ UNCHANGED Idle12 /\ UNCHANGED vars

\* The bounds end a behaviour of these; the mailbox and the daemon never stop.
Ended == part \in {"snapshot", "schema", "walk"} /\ UNCHANGED <<vars, partVars>>

LiveNext == MailboxStep \/ SnapshotStep \/ SchemaStep \/ WalkStep \/ RefreshStep \/ PartialStep \/ FixedStep \/ Ended

\* The fairness of each component, as its module states it; the daemon with the
\* lasting verdict is here for its safety only.
LiveSpec ==
  /\ LiveInit /\ [][LiveNext]_<<vars, partVars>>
  /\ WF_<<vars, partVars>>(part = "mailbox" /\ StageStep /\ UNCHANGED partVars)
  /\ \A c \in Callers : WF_<<vars, partVars>>(part = "mailbox" /\ CallerStep(c) /\ UNCHANGED partVars)
  /\ WF_<<vars, partVars>>(part = "snapshot" /\ (Snapshot!StoreWord \/ Snapshot!PublishEnd) /\ SnapshotStep)
  /\ WF_<<vars, partVars>>(part = "snapshot" /\ Snapshot!Read("r1") /\ SnapshotStep)
  /\ \A p \in {"p1", "p2"} : WF_<<vars, partVars>>(part = "schema" /\ Schema!Register(p) /\ SchemaStep)
  /\ WF_<<vars, partVars>>(part = "schema" /\ Schema!Seal("s1") /\ SchemaStep)
  /\ WF_<<vars, partVars>>(part = "walk" /\ (Walk!dispatch_op \/ Walk!SignalReset) /\ WalkStep)
  /\ WF_<<vars, partVars>>(part = "refresh" /\ Refresh!Running /\ RefreshStep)
  /\ WF_<<vars, partVars>>(part = "refresh" /\ Refresh!Stopping /\ RefreshStep)
  /\ WF_<<vars, partVars>>(part = "partial" /\ Partial!Running /\ PartialStep)
  /\ WF_<<vars, partVars>>(part = "partial" /\ Partial!Stopping /\ PartialStep)

(* AtomicSnapshot: a load returns one published value, and no old one.       *)
SnapshotInv == part = "snapshot" => Snapshot!SnapshotInv

(* AtomicSnapshot: a load ends.                                              *)
LoadReturns ==
  (part = "snapshot" /\ x5["r1"].pc = "sample" /\ x5["r1"].kind = "load") ~> (part = "snapshot" /\ x5["r1"].pc = "got")

(* SchemaTable: a sealed table is complete and does not change, and a        *)
(* registered name is found.                                                 *)
SchemaSound ==
  /\ [](part = "schema" => Schema!SchemaInv)
  /\ [][part = "schema" => Schema!StillStep]_partVars

(* SchemaTable: every registration and every seal returns.                   *)
CallsReturn ==
  /\ \A p \in {"p1", "p2"} : (part = "schema" /\ x4[p].pc # "idle") ~> (part = "schema" /\ x4[p].pc = "idle")
  /\ (part = "schema" /\ x5["s1"] = "sealing") ~> (part = "schema" /\ x5["s1"] = "done")

(* Replay: a walk along the iteration that the program repeats ends.         *)
WalkEnds == (part = "walk" /\ x4 # None /\ x4.region = x1) ~> (part = "walk" /\ x6 # None)

(* RefreshDaemon: the file is whole, an admitted ledger is on file and in    *)
(* the view, the backoff counts the failures, and a token in the semaphore   *)
(* is a stop.                                                                *)
LedgerInv ==
  /\ part = "refresh" => Refresh!LedgerInv
  /\ part = "partial" => Partial!LedgerInv
  /\ part = "fixed" => Fixed!LedgerInv

(* RefreshDaemon: stop returns before the period of the wait has to end.     *)
DaemonStops ==
  /\ (part = "refresh" /\ x10 = "release") ~> (part = "refresh" /\ x10 \in {"idle", "none"})
  /\ (part = "partial" /\ x10 = "release") ~> (part = "partial" /\ x10 \in {"idle", "none"})
=============================================================================
