------------------------------ MODULE MCVigil -------------------------------
(* The algorithms of a Vigil, one at a time: the region store, whose         *)
(* variables are its own and rest in the other parts, the transaction log,   *)
(* the iteration detector, dispatch with alignment, replay and recovery, the *)
(* memory plans, the object store, and the kernel cache.                     *)
(*                                                                           *)
(* The region store has the smallest transaction log, a cache and a compile  *)
(* queue of one region, and six regions: enough for a region to leave the    *)
(* log, the queue and the cache and be freed, and for a store of five to     *)
(* fill.  Two writes of the held regions are one before and one during or    *)
(* after a sweep.  The transaction log of four slots has seven claims, so it *)
(* wraps past kept slots.  The detector sees every stream of two keys up to  *)
(* thirteen ops, with restarts anywhere: a window of two ops and a ring of   *)
(* eleven admit periods of two to four ops, four being the shortest body in  *)
(* which the copies of a window differ in number; thirteen ops overflow the  *)
(* ring by two, or let a period be reported, broken and met again.           *)
(*                                                                           *)
(* The program of the replay has three iterations that share operations: one *)
(* ends with the operation it begins with, one is a square, one has no plan; *)
(* it turns once.  Plans are taken twice: three addresses over four          *)
(* operations for the planner, two addresses and a second iteration for the  *)
(* switch.  The object store commits twice, at the same step or at two, and  *)
(* survives two crashes and a failed write, with a cache smaller than its    *)
(* objects.  The kernel cache is taken twice: two contents with the same     *)
(* home slot and two kernels, and one content and three kernels, of which    *)
(* one can lie in a second slot of its pair.                                 *)
EXTENDS RegionStore, Parts

Log == INSTANCE TransactionLog WITH log <- x1, step <- x2, N <- 4, MaxSteps <- 7

Detector == INSTANCE IterationDetector WITH
  det <- x1, stream <- x2, checks <- x3,
  K <- 2, HISTORY <- 11, Keys <- {"a", "b"}, NoKey <- "none",
  MAX_CANDIDATES <- 2, REFUTED_CAPACITY <- 2, MaxChecks <- 13

Dispatch == INSTANCE Replay WITH
  program <- x1, phase <- x2, slot <- x3, activation <- x4, pos <- x5, active <- x6, cursor <- x7, mode <- x8,
  cache <- x9, undo <- x10, published <- x11, restores <- x12, turns <- x13, recent <- x14, missed <- x15,
  skewed <- x16, resetting <- x17, divergedAt <- x18,
  Iterations <- {[ops |-> <<"a", "b", "c", "a">>, plan |-> TRUE], [ops |-> <<"a", "b", "a", "b">>, plan |-> TRUE],
                 [ops |-> <<"b", "c">>, plan |-> FALSE]},
  K <- 3, CAP <- 2, MaxTurns <- 1, MaxPublished <- 2, MaxRestores <- 2

Plan == INSTANCE MemoryPlan WITH
  old <- x1, alt <- x2, split <- x3, pc <- x4, region <- x5, cursor <- x6, eager <- x7, extern <- x8, pool <- x9,
  wrong <- x10,
  Ptrs <- 1..3, NoPtr <- 0, Sizes <- {1, 2}, SlotCap <- 5, MaxFree <- 2, MaxPerOp <- 1,
  MaxOps <- 4, MaxAlternate <- 0

Switch == INSTANCE MemoryPlan WITH
  old <- x1, alt <- x2, split <- x3, pc <- x4, region <- x5, cursor <- x6, eager <- x7, extern <- x8, pool <- x9,
  wrong <- x10,
  Ptrs <- 1..2, NoPtr <- 0, Sizes <- {1, 2}, SlotCap <- 5, MaxFree <- 2, MaxPerOp <- 1,
  MaxOps <- 4, MaxAlternate <- 3

Store == INSTANCE Cipher WITH
  obj <- x1, objDisk <- x2, headFile <- x3, headDisk <- x4, logFile <- x5, logDisk <- x6, up <- x7, head <- x8,
  log <- x9, cache <- x10, step <- x11, call <- x12, written <- x13, begun <- x14, crashes <- x15, failures <- x16,
  Hashes <- {"a", "b"}, None <- "none", CacheEntries <- 1, MaxStep <- 1,
  MaxCrashes <- 2, MaxFailures <- 1, MaxCommits <- 2

Collide == INSTANCE KernelCache WITH
  content <- x1, row <- x2, kernel <- x3, size <- x4, thread <- x5, returned <- x6, superseded <- x7,
  Writers <- {"t1", "t2"}, Readers <- {"reader"}, Contents <- {1, 3}, Rows <- {0, 1},
  Kernels <- 1..2, NoKernel <- 0, Capacity <- 2

Replace == INSTANCE KernelCache WITH
  content <- x1, row <- x2, kernel <- x3, size <- x4, thread <- x5, returned <- x6, superseded <- x7,
  Writers <- {"t1", "t2"}, Readers <- {"reader"}, Contents <- {1}, Rows <- {0, 1},
  Kernels <- 1..3, NoKernel <- 0, Capacity <- 2

VigilInit ==
  /\ Init
  /\ \/ part = "regions" /\ Zero1
     \/ part = "log" /\ Log!Init /\ Zero3
     \/ part = "detector" /\ Detector!Init /\ Zero4
     \/ part = "dispatch" /\ Dispatch!Init
     \/ part = "plan" /\ Plan!Init /\ Zero11
     \/ part = "switch" /\ Switch!Init /\ Zero11
     \/ part = "store" /\ Store!Init /\ Zero17
     \/ part = "collide" /\ Collide!Init /\ Zero8
     \/ part = "replace" /\ Replace!Init /\ Zero8

RegionsStep == part = "regions" /\ Next /\ UNCHANGED Idle1
LogStep == part = "log" /\ Log!Next /\ UNCHANGED Idle3
DetectorStep == part = "detector" /\ Detector!Next /\ UNCHANGED Idle4
DispatchStep == part = "dispatch" /\ Dispatch!Next /\ UNCHANGED Idle19
PlanStep == part = "plan" /\ Plan!Next /\ UNCHANGED Idle11
SwitchStep == part = "switch" /\ Switch!Next /\ UNCHANGED Idle11
StoreStep == part = "store" /\ Store!Next /\ UNCHANGED Idle17
CollideStep == part = "collide" /\ Collide!Next /\ UNCHANGED Idle8
ReplaceStep == part = "replace" /\ Replace!Next /\ UNCHANGED Idle8

OtherStep ==
  \/ LogStep \/ DetectorStep \/ DispatchStep \/ PlanStep \/ SwitchStep \/ StoreStep
  \/ CollideStep \/ ReplaceStep

\* The bounds end a behaviour of the other parts; these two never stop.
Ended == part \notin {"log", "detector"} /\ UNCHANGED <<vars, partVars>>

VigilNext == RegionsStep \/ (OtherStep /\ UNCHANGED vars) \/ Ended

VigilSpec == VigilInit /\ [][VigilNext]_<<vars, partVars>>

(* TransactionLog: every step is a step of the undo stack, a claim keeps its *)
(* top, and the active pointer, the places of the displaced transactions and *)
(* the slot of the last claim agree.                                         *)
ImplementsStack ==
  /\ part = "log" => Log!Undo!Init
  /\ [](part = "log" => Log!LogInv)
  /\ [][part = "log" => Log!ClaimStep /\ (Log!Undo!Next \/ UNCHANGED <<x1.active, Log!Displaced>>)]_partVars

(* IterationDetector: the kept history is the end of the stream, the table   *)
(* leads to the newest copy of each window, and a reported iteration is a    *)
(* square, begins where its window is rarest and is not refuted.             *)
DetectorInv == part = "detector" => Detector!DetectorInv /\ Detector!ReportsAreSound

(* IterationDetector: a search accepts the shortest period there is, and the *)
(* positions move as DetectorPositions says.                                 *)
ChecksAreSound == [][part = "detector" => Detector!FindsShortest /\ Detector!PositionStep]_partVars

(* Replay: mode() and the context agree, an operation replays only where the *)
(* program stands, and a region from before a divergence does not come back. *)
ReplayInv == part = "dispatch" => Dispatch!ReplayInv

(* MemoryPlan: slots that live at the same time share no block, a replayed   *)
(* operation reads what the program would, and a switch keeps the values     *)
(* still in the old pool.                                                    *)
PlanInv ==
  /\ part = "plan" => Plan!PlanInv
  /\ part = "switch" => Switch!PlanInv

(* Cipher: what a store wrote is whole while it has its name, over crashes   *)
(* and power losses, and the resident cache holds nothing the files do not.  *)
ObjectsStayWhole == part = "store" => Store!ObjectsStayWhole

(* Cipher: a process starts from the newest commit, and the reloaded log is  *)
(* the history of the commits.                                               *)
RecoveredIsHistory == part = "store" => Store!RecoveredIsHistory

(* KernelCache: a lookup serves a kernel of the pair it asked for, finds one *)
(* after an insert of the pair returned, and none that was replaced before.  *)
LookupInv ==
  /\ part = "collide" => Collide!LookupInv
  /\ part = "replace" => Replace!LookupInv
=============================================================================
