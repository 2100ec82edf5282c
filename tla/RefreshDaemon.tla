--------------------------- MODULE RefreshDaemon ---------------------------
(* The refresh daemon of the capability ledger (ledger/RefreshDaemon.h): a   *)
(* thread that remeasures the verdicts that are absent or expired, commits   *)
(* the ledger to its file and publishes a view, then waits for a period that *)
(* grows while nothing is admitted.  Its owner starts it, stops it through a *)
(* stop token and a binary semaphore, starts it again or destroys it.  A     *)
(* process may die at any step, and the machine may lose power: the rename   *)
(* of a commit is not synced, so either file may be there afterwards.  A     *)
(* ledger is a function from verdicts to the time of their measurement, 0    *)
(* for an absent one; the clock may jump either way, and reads 0 when dead.  *)
EXTENDS Naturals, FiniteSets

CONSTANTS Verdicts, MaxTime,
          Lasting, Ttl,         \* the verdicts that never expire, and the ttl of the others
          InitialBackoff, MaxBackoff, Multiplier,
          MaxFailures           \* where the history of failures saturates

VARIABLES now,                  \* the wall clock
          working,              \* working_
          file,                 \* what the temporary and the ledger's name hold, and what the name has on disk
          view,                 \* published_, without the time at which it was minted
          thread,               \* the loop: step, and the locals of its cycle
          wakeup,               \* wakeup_, a binary semaphore
          stop_requested,       \* the stop token of the running thread
          backoff,              \* backoff_seconds_
          last_result,          \* last_result_
          owner,                \* the thread that owns the daemon
          failures              \* history: cycles in a row that admitted nothing they had to measure

vars == <<now, working, file, view, thread, wakeup, stop_requested, backoff, last_result, owner, failures>>
memory == <<working, view, thread, wakeup, stop_requested, backoff, last_result, owner, failures>>
control == <<wakeup, stop_requested, owner>>

Empty == [v \in Verdicts |-> 0]
Blank == [entries |-> Empty, synced |-> TRUE]
NoThread == [pc |-> "none", at |-> 0, queue |-> {}, admitted |-> FALSE, result |-> "NothingToDo"]

Init ==
  /\ now = 1
  /\ file = [tmp |-> Blank, target |-> Blank, durable |-> Blank]
  /\ working = Empty /\ view = Empty /\ thread = NoThread
  /\ wakeup = 0 /\ stop_requested = FALSE /\ owner = "none"
  /\ backoff = 0 /\ last_result = "NothingToDo" /\ failures = 0

\* The memory of the daemon goes with its owner or its process.
Gone ==
  /\ working' = Empty /\ view' = Empty /\ thread' = NoThread
  /\ wakeup' = 0 /\ stop_requested' = FALSE /\ owner' = "none"
  /\ backoff' = 0 /\ last_result' = "NothingToDo" /\ failures' = 0

(* An entry measured in the future of the clock counts as expired.           *)
is_expired_at(v, t) == v \notin Lasting /\ (t < working[v] \/ t - working[v] >= Ttl)

next_backoff(previous) ==
  IF previous = 0 THEN InitialBackoff
  ELSE IF previous * Multiplier >= MaxBackoff THEN MaxBackoff ELSE previous * Multiplier

outcome_resets_backoff(result) == result \in {"Admitted", "NothingToDo"}

refresh_plan(t) == {v \in Verdicts : working[v] = 0 \/ is_expired_at(v, t)}

Step(pc) == thread' = [thread EXCEPT !.pc = pc]

(* mint_refresh_daemon: the file of this host, or an empty ledger when it    *)
(* cannot be read; the constructor publishes it.                             *)
mint_refresh_daemon ==
  /\ owner = "none"
  /\ \E seed \in {file.target.entries, Empty} : working' = seed /\ view' = seed
  /\ owner' = "idle"
  /\ UNCHANGED <<now, file, thread, wakeup, stop_requested, backoff, last_result, failures>>

\* Faulty: the token of an earlier stop stays in the semaphore.
start_no_drain ==
  /\ owner = "idle" /\ thread.pc = "none"
  /\ stop_requested' = FALSE
  /\ Step("loop")
  /\ UNCHANGED <<now, working, file, view, wakeup, backoff, last_result, owner, failures>>

(* start drains the semaphore, and the new thread has a new stop token.      *)
start ==
  /\ owner = "idle" /\ thread.pc = "none"
  /\ wakeup' = 0 /\ stop_requested' = FALSE
  /\ Step("loop")
  /\ UNCHANGED <<now, working, file, view, backoff, last_result, owner, failures>>

request_stop ==
  /\ owner = "idle" /\ thread.pc # "none"
  /\ stop_requested' = TRUE
  /\ owner' = "release"
  /\ UNCHANGED <<now, working, file, view, thread, wakeup, backoff, last_result, failures>>

\* Faulty: the sleeper is not woken.
Release_nothing ==
  /\ owner = "release"
  /\ owner' = "join"
  /\ UNCHANGED <<now, working, file, view, thread, wakeup, stop_requested, backoff, last_result, failures>>

Release ==
  /\ owner = "release"
  /\ wakeup' = 1
  /\ owner' = "join"
  /\ UNCHANGED <<now, working, file, view, thread, stop_requested, backoff, last_result, failures>>

Join ==
  /\ owner = "join" /\ thread.pc = "exited"
  /\ thread' = NoThread
  /\ owner' = "idle"
  /\ UNCHANGED <<now, working, file, view, wakeup, stop_requested, backoff, last_result, failures>>

Destroy ==
  /\ owner = "idle" /\ thread.pc = "none"
  /\ Gone
  /\ UNCHANGED <<now, file>>

(* The head of the loop and the first half of run_one_cycle: a dead clock    *)
(* refuses, and an unfit host is not measured.                               *)
BeginCycle ==
  /\ thread.pc = "loop"
  /\ \E fit \in BOOLEAN :
       LET queue == refresh_plan(now)
           Goto(pc, result) == thread' = [pc |-> pc, at |-> now, queue |-> IF pc = "probe" THEN queue ELSE {},
                                          admitted |-> FALSE, result |-> result]
       IN  IF stop_requested THEN Step("exited")
           ELSE IF now = 0 THEN Goto("pause", "AllRefused")
           ELSE IF queue = {} THEN Goto("record", "NothingToDo")
           ELSE IF ~fit THEN Goto("record", "SkippedUnfitHost")
           ELSE Goto("probe", "AllRefused")
  /\ UNCHANGED <<now, working, file, view, backoff, last_result, failures, control>>

(* One turn of run_refresh: the measurement is refused, or admitted with the *)
(* time the cycle began.                                                     *)
Probe ==
  /\ thread.pc = "probe" /\ thread.queue # {}
  /\ \E v \in thread.queue, admitted \in BOOLEAN :
       /\ working' = IF admitted THEN [working EXCEPT ![v] = thread.at] ELSE working
       /\ thread' = [thread EXCEPT !.queue = @ \ {v}, !.admitted = @ \/ admitted]
  /\ UNCHANGED <<now, file, view, backoff, last_result, failures, control>>

Probed ==
  /\ thread.pc = "probe" /\ thread.queue = {}
  /\ thread' = [thread EXCEPT !.pc = IF thread.admitted THEN "write" ELSE "record",
                              !.result = IF thread.admitted THEN "Admitted" ELSE "AllRefused"]
  /\ UNCHANGED <<now, working, file, view, backoff, last_result, failures, control>>

(* commit_ledger: write the temporary, sync it, rename it.  The view is      *)
(* published even when one of them fails.  A temporary that is left behind   *)
(* is truncated before it is written again, and nobody reads it.             *)
CommitFails ==
  /\ thread.pc \in {"write", "sync", "rename"}
  /\ thread' = [thread EXCEPT !.pc = "publish", !.result = "CommitFailed"]
  /\ file' = [file EXCEPT !.tmp = Blank]
  /\ UNCHANGED <<now, working, view, backoff, last_result, failures, control>>

WriteTemporary ==
  /\ thread.pc = "write"
  /\ file' = [file EXCEPT !.tmp = [entries |-> working, synced |-> FALSE]]
  /\ Step("sync")
  /\ UNCHANGED <<now, working, view, backoff, last_result, failures, control>>

SyncTemporary ==
  /\ thread.pc = "sync"
  /\ file' = [file EXCEPT !.tmp.synced = TRUE]
  /\ Step("rename")
  /\ UNCHANGED <<now, working, view, backoff, last_result, failures, control>>

Rename ==
  /\ thread.pc = "rename"
  /\ file' = [file EXCEPT !.target = file.tmp, !.tmp = Blank]
  /\ Step("publish")
  /\ UNCHANGED <<now, working, view, backoff, last_result, failures, control>>

(* The view that readers load is replaced whole.                             *)
publish_ ==
  /\ thread.pc = "publish"
  /\ view' = working
  /\ Step("record")
  /\ UNCHANGED <<now, working, file, backoff, last_result, failures, control>>

Record ==
  /\ thread.pc = "record"
  /\ last_result' = thread.result
  /\ Step("pause")
  /\ UNCHANGED <<now, working, file, view, backoff, failures, control>>

(* The tail of the loop: the length of the wait.                             *)
Pause ==
  /\ thread.pc = "pause"
  /\ IF outcome_resets_backoff(thread.result)
     THEN backoff' = 0 /\ failures' = 0
     ELSE backoff' = next_backoff(backoff) /\ failures' = IF failures < MaxFailures THEN failures + 1 ELSE failures
  /\ thread' = [NoThread EXCEPT !.pc = "wait"]
  /\ UNCHANGED <<now, working, file, view, last_result, control>>

(* try_acquire_for: the token, or the end of the period.                     *)
Woken ==
  /\ thread.pc = "wait" /\ wakeup = 1
  /\ wakeup' = 0
  /\ Step("loop")
  /\ UNCHANGED <<now, working, file, view, stop_requested, backoff, last_result, owner, failures>>

PeriodEnds ==
  /\ thread.pc = "wait"
  /\ Step("loop")
  /\ UNCHANGED <<now, working, file, view, backoff, last_result, failures, control>>

(* The clock of the host, and the kernel that writes the directory back.     *)
SetClock ==
  /\ now' \in 0..MaxTime
  /\ UNCHANGED <<file, memory>>

WriteBack ==
  /\ file' = [file EXCEPT !.durable = file.target]
  /\ UNCHANGED <<now, memory>>

(* The process dies.  Its files stay, except in a power cut, which leaves    *)
(* the name with what the directory held on disk or what was written back    *)
(* just then, and a file that was not synced unreadable.                     *)
Die ==
  /\ owner # "none"
  /\ Gone
  /\ \E power \in BOOLEAN, left \in {file.target, file.durable} :
       LET read == [entries |-> IF left.synced THEN left.entries ELSE Empty, synced |-> TRUE]
       IN  file' = IF power THEN [tmp |-> Blank, target |-> read, durable |-> read] ELSE [file EXCEPT !.tmp = Blank]
  /\ UNCHANGED now

Commit == CommitFails \/ WriteTemporary \/ SyncTemporary \/ Rename

(* The steps of the loop that nothing but the scheduler and the probes       *)
(* delay.                                                                    *)
Running == BeginCycle \/ Probe \/ Probed \/ Commit \/ publish_ \/ Record \/ Pause \/ Woken

Stopping == Release \/ Join

Next ==
  \/ mint_refresh_daemon \/ start \/ request_stop \/ Stopping \/ Destroy
  \/ Running \/ PeriodEnds
  \/ SetClock \/ WriteBack \/ Die

(* The loop's thread and a thread inside stop keep running.  The end of the  *)
(* period is not in it: it may be hours away.                                *)
Fairness == WF_vars(Running) /\ WF_vars(Stopping)

Spec == Init /\ [][Next]_vars /\ Fairness

Ledgers == [Verdicts -> 0..MaxTime]
Files == [entries : Ledgers, synced : BOOLEAN]
Results == {"NothingToDo", "Admitted", "AllRefused", "SkippedUnfitHost", "CommitFailed"}

TypeOK ==
  /\ working \in Ledgers
  /\ file \in [tmp : Files, target : Files, durable : Files]
  /\ view \in Ledgers
  /\ wakeup \in 0..1 /\ stop_requested \in BOOLEAN
  /\ last_result \in Results
  /\ owner \in {"none", "idle", "release", "join"}

(* Whatever a power cut leaves under the ledger's name is a whole ledger:    *)
(* the name never leads to a file that was not synced (commit_ledger syncs   *)
(* before it renames).                                                       *)
NameLeadsToWholeFile == file.target.synced /\ file.durable.synced

InCycle == thread.pc \in {"probe", "write", "sync", "rename", "publish"}

(* last_result Admitted means that the file holds the ledger and readers see *)
(* it, also after later cycles that did not count (a dead clock) and stops.  *)
AdmittedIsOnFile ==
  owner # "none" /\ ~InCycle /\ thread.pc # "record" /\ last_result = "Admitted" =>
    file.target.entries = working /\ view = working

(* The backoff is the schedule's term for the cycles in a row that failed,   *)
(* across stops and starts, and 0 after one that did not.                    *)
BackoffCountsFailures ==
  LET term[n \in 0..MaxFailures] == IF n = 0 THEN 0 ELSE next_backoff(term[n - 1])
  IN  owner # "none" => backoff = term[failures]

(* A wait is cut short only by a stop: a token in the semaphore of a thread  *)
(* that runs comes from the stop that is in progress, also after a stop      *)
(* whose loop had already exited and left its token behind (start drains     *)
(* it).  The release of a stop finds the binary semaphore empty.             *)
TokenMeansStop ==
  /\ owner # "none" /\ thread.pc \notin {"none", "exited"} /\ wakeup = 1 => stop_requested
  /\ owner = "release" => wakeup = 0

LedgerInv ==
  TypeOK /\ NameLeadsToWholeFile /\ AdmittedIsOnFile /\ BackoffCountsFailures /\ TokenMeansStop

(* What the comments say of a refresh: it "becomes visible only when it is    *)
(* finished and committed", and the view is replaced "after a successful     *)
(* commit".  So what publish_ makes visible is what the file holds.          *)
VisibleOnlyCommitted == [][publish_ => file.target.entries = view']_vars

(* stop returns without the period of the wait having to end: the token      *)
(* reaches the loop wherever it is, and the loop sees the stop.              *)
DaemonStops == owner = "release" ~> owner \in {"idle", "none"}
=============================================================================
