----------------------------- MODULE OwnerMailbox -----------------------------
(***************************************************************************)
(* The mailbox through which any thread runs a job on the state that the   *)
(* publish stage owns (the transaction log, the region store): the word    *)
(* owner_mailbox_ of BackgroundThread, run_on_publish_stage on the caller's *)
(* side, and open, serve and close on the stage's side.                    *)
(*                                                                         *)
(* One step is one access to a shared word, or one whole job or            *)
(* publication: a job and a publication touch only state that their owner  *)
(* holds, so what matters is whose steps they overlap.  A weak             *)
(* compare-and-swap may fail with the expected value in the word.          *)
(***************************************************************************)
EXTENDS Naturals

CONSTANTS Callers,   \* threads that call run_on_publish_stage
          NoJob      \* the null OwnerJob pointer held by the stage

Sentinels == {"closed", "inline", "null"}

ASSUME CallersAssumption == /\ Callers \cap Sentinels = {}
                            /\ NoJob \notin Callers

VARIABLES
    mailbox,   \* owner_mailbox_: a sentinel, or the caller whose record it is
    s_pc,      \* where the publish stage is, "off" when no stage runs
    s_job,     \* the record the stage read from the mailbox
    c_pc,      \* where each caller is in run_on_publish_stage
    done,      \* done[c]: the flag of the record of caller c
    runs       \* runs[c]: how often the job of the current call of c has run

stageVars == <<s_pc, s_job>>
vars == <<mailbox, s_pc, s_job, c_pc, done, runs>>

\* The stage is inside OwnerMailboxScope, between its open and its close.
OpenPcs == {"serve", "job", "clear", "done", "pop", "publish", "close"}
\* The stage holds a record of a caller.
HoldPcs == {"job", "clear", "done", "last", "last_done"}
StagePcs == {"off", "open"} \cup OpenPcs \cup HoldPcs
CallerPcs == {"idle", "load", "post", "wait", "claim", "run", "unlock"}

Init ==
    /\ mailbox = "closed"
    /\ s_pc = "off"
    /\ s_job = NoJob
    /\ c_pc = [c \in Callers |-> "idle"]
    /\ done = [c \in Callers |-> FALSE]
    /\ runs = [c \in Callers |-> 0]

-----------------------------------------------------------------------------
(* The publish stage.                                                      *)

\* start() begins a stage once the previous one has been joined.
StartStage ==
    /\ s_pc = "off"
    /\ s_pc' = "open"
    /\ UNCHANGED <<mailbox, s_job, c_pc, done, runs>>

\* Faulty: opens over a caller that runs its job inline.
OpenWithoutWaiting ==
    /\ s_pc = "open"
    /\ mailbox' = "null"
    /\ s_pc' = "serve"
    /\ UNCHANGED <<s_job, c_pc, done, runs>>

\* open_owner_mailbox_: the stage spins while a caller runs a job inline.
OpenMailbox ==
    /\ s_pc = "open"
    /\ mailbox = "closed"
    /\ mailbox' = "null"
    /\ s_pc' = "serve"
    /\ UNCHANGED <<s_job, c_pc, done, runs>>

\* serve_owner_mailbox_, its load: no job waits, or the stage takes the job.
LoadJob ==
    /\ s_pc = "serve"
    /\ \/ /\ mailbox = "null"
          /\ s_pc' = "pop"
          /\ UNCHANGED s_job
       \/ /\ mailbox \in Callers
          /\ s_job' = mailbox
          /\ s_pc' = "job"
    /\ UNCHANGED <<mailbox, c_pc, done, runs>>

\* serve_owner_mailbox_: the job runs on the stage.
RunJob ==
    /\ s_pc = "job"
    /\ runs' = [runs EXCEPT ![s_job] = @ + 1]
    /\ s_pc' = "clear"
    /\ UNCHANGED <<mailbox, s_job, c_pc, done>>

\* serve_owner_mailbox_: the word is free before the caller may return.
ClearMailbox ==
    /\ s_pc = "clear"
    /\ mailbox' = "null"
    /\ s_pc' = "done"
    /\ UNCHANGED <<s_job, c_pc, done, runs>>

\* serve_owner_mailbox_: the last access to the record.
StoreDone ==
    /\ s_pc = "done"
    /\ done' = [done EXCEPT ![s_job] = TRUE]
    /\ s_job' = NoJob
    /\ s_pc' = "pop"
    /\ UNCHANGED <<mailbox, c_pc, runs>>

\* MakeRegionFn, its pop: no message or a marker, a region, or the sentinel.
PopMessage ==
    /\ s_pc = "pop"
    /\ s_pc' \in {"serve", "publish", "close"}
    /\ UNCHANGED <<mailbox, s_job, c_pc, done, runs>>

\* MakeRegionFn: the publication in hand, with its region callback, ends.
FinishPublish ==
    /\ s_pc = "publish"
    /\ s_pc' = "serve"
    /\ UNCHANGED <<mailbox, s_job, c_pc, done, runs>>

\* Faulty: a close that stores the sentinel and looks at no last job.
CloseDropsLast ==
    /\ s_pc = "close"
    /\ mailbox' = "closed"
    /\ s_pc' = "off"
    /\ UNCHANGED <<s_job, c_pc, done, runs>>

\* close_owner_mailbox_: one exchange closes the word and takes a last job.
CloseMailbox ==
    /\ s_pc = "close"
    /\ mailbox' = "closed"
    /\ \/ /\ mailbox = "null"
          /\ s_pc' = "off"
          /\ UNCHANGED s_job
       \/ /\ mailbox \in Callers
          /\ s_job' = mailbox
          /\ s_pc' = "last"
    /\ UNCHANGED <<c_pc, done, runs>>

\* close_owner_mailbox_: the last job runs on the stage, the word is closed.
RunLast ==
    /\ s_pc = "last"
    /\ runs' = [runs EXCEPT ![s_job] = @ + 1]
    /\ s_pc' = "last_done"
    /\ UNCHANGED <<mailbox, s_job, c_pc, done>>

StoreLastDone ==
    /\ s_pc = "last_done"
    /\ done' = [done EXCEPT ![s_job] = TRUE]
    /\ s_job' = NoJob
    /\ s_pc' = "off"
    /\ UNCHANGED <<mailbox, c_pc, runs>>

-----------------------------------------------------------------------------
(* A caller of run_on_publish_stage.                                       *)

\* The call: a fresh record on the caller's stack.
Call(c) ==
    /\ c_pc[c] = "idle"
    /\ c_pc' = [c_pc EXCEPT ![c] = "load"]
    /\ done' = [done EXCEPT ![c] = FALSE]
    /\ runs' = [runs EXCEPT ![c] = 0]
    /\ UNCHANGED <<mailbox, stageVars>>

\* The load: a null word is posted to, a closed one claimed; a job in flight
\* makes the caller spin.
LoadMailbox(c) ==
    /\ c_pc[c] = "load"
    /\ \/ /\ mailbox = "null"
          /\ c_pc' = [c_pc EXCEPT ![c] = "post"]
       \/ /\ mailbox = "closed"
          /\ c_pc' = [c_pc EXCEPT ![c] = "claim"]
    /\ UNCHANGED <<mailbox, stageVars, done, runs>>

\* The compare-and-swap to the record succeeds.
Post(c) ==
    /\ c_pc[c] = "post"
    /\ mailbox = "null"
    /\ mailbox' = c
    /\ c_pc' = [c_pc EXCEPT ![c] = "wait"]
    /\ UNCHANGED <<stageVars, done, runs>>

\* The compare-and-swap from closed to inline succeeds.
Claim(c) ==
    /\ c_pc[c] = "claim"
    /\ mailbox = "closed"
    /\ mailbox' = "inline"
    /\ c_pc' = [c_pc EXCEPT ![c] = "run"]
    /\ UNCHANGED <<stageVars, done, runs>>

\* Either compare-and-swap fails, for a changed word or spuriously.
Retry(c) ==
    /\ c_pc[c] \in {"post", "claim"}
    /\ c_pc' = [c_pc EXCEPT ![c] = "load"]
    /\ UNCHANGED <<mailbox, stageVars, done, runs>>

\* The job runs on its caller.
RunInline(c) ==
    /\ c_pc[c] = "run"
    /\ runs' = [runs EXCEPT ![c] = @ + 1]
    /\ c_pc' = [c_pc EXCEPT ![c] = "unlock"]
    /\ UNCHANGED <<mailbox, stageVars, done>>

\* The caller gives the word back as it found it, and returns.
Unlock(c) ==
    /\ c_pc[c] = "unlock"
    /\ mailbox' = "closed"
    /\ c_pc' = [c_pc EXCEPT ![c] = "idle"]
    /\ UNCHANGED <<stageVars, done, runs>>

\* The caller reads done and returns; its record is gone.
Return(c) ==
    /\ c_pc[c] = "wait"
    /\ done[c]
    /\ c_pc' = [c_pc EXCEPT ![c] = "idle"]
    /\ UNCHANGED <<mailbox, stageVars, done, runs>>

-----------------------------------------------------------------------------
StageStep == \/ OpenMailbox \/ LoadJob \/ RunJob \/ ClearMailbox \/ StoreDone
             \/ PopMessage \/ FinishPublish
             \/ CloseMailbox \/ RunLast \/ StoreLastDone

CallerStep(c) == \/ LoadMailbox(c) \/ Post(c) \/ Claim(c) \/ Retry(c)
                 \/ RunInline(c) \/ Unlock(c) \/ Return(c)

Next == \/ StartStage
        \/ StageStep
        \/ \E c \in Callers : Call(c) \/ CallerStep(c)

Spec == Init /\ [][Next]_vars

\* The stage never sleeps: every wait in it is a spin, and a publication is
\* bounded.  A caller inside the call spins too.  Nothing makes a stage start
\* or a caller call.
Fairness == /\ WF_vars(StageStep)
            /\ \A c \in Callers : WF_vars(CallerStep(c))

FairSpec == Spec /\ Fairness

-----------------------------------------------------------------------------
\* The types; a job runs at most once for each call.
TypeOK ==
    /\ mailbox \in Sentinels \cup Callers
    /\ s_pc \in StagePcs
    /\ s_job \in Callers \cup {NoJob}
    /\ c_pc \in [Callers -> CallerPcs]
    /\ done \in [Callers -> BOOLEAN]
    /\ runs \in [Callers -> {0, 1}]

\* The word says who owns the state: a stage has it open, or one caller has
\* it inline, or nobody has it.
WordNamesOwner ==
    /\ s_pc \in OpenPcs <=> mailbox \notin {"closed", "inline"}
    /\ \A c \in Callers : c_pc[c] \in {"run", "unlock"} => mailbox = "inline"
    /\ \A c, d \in Callers : {c_pc[c], c_pc[d]} \subseteq {"run", "unlock"} => c = d

\* A record is in flight from the post to the store of done, in the word or
\* in the hands of the stage, and its caller waits for as long.
RecordInFlight ==
    /\ s_pc \in HoldPcs <=> s_job \in Callers
    /\ s_pc \in {"job", "clear"} => mailbox = s_job
    /\ s_pc = "done" => mailbox # s_job
    /\ \A c \in Callers :
          (c_pc[c] = "wait" /\ ~done[c]) <=> (mailbox = c \/ s_job = c)
    /\ \A c \in Callers : done[c] => c_pc[c] \in {"wait", "idle"}

\* A job that ran is one whose caller is on its way out.
RunsCounted ==
    \A c \in Callers :
        /\ c_pc[c] \in {"load", "post", "claim", "run"} => runs[c] = 0
        /\ c_pc[c] = "unlock" => runs[c] = 1
        /\ mailbox = c => (runs[c] = 1 <=> s_pc = "clear")
        /\ s_job = c => (runs[c] = 1 <=> s_pc \in {"clear", "done", "last_done"})
        /\ done[c] => runs[c] = 1

\* The inductive invariant.
MailboxInv == TypeOK /\ WordNamesOwner /\ RecordInFlight /\ RunsCounted

\* BackgroundThread.h, "the job and the region callback never overlap": no
\* caller runs a job inline while the stage has a publication in hand.
JobNeverOverlapsPublication ==
    s_pc = "publish" => \A c \in Callers : c_pc[c] # "run"

\* A record lives on its caller's stack: whoever can still reach it, through
\* the word or the stage's pointer, finds the caller inside the call and
\* unable to leave it.
RecordOutlivesStage ==
    \A c \in Callers : mailbox = c \/ s_job = c => c_pc[c] = "wait" /\ ~done[c]

\* A call returns with its job run, and run once, whichever side ran it.
ReturnsAfterOneRun ==
    [][\A c \in Callers : c_pc[c] # "idle" /\ c_pc'[c] = "idle" => runs'[c] = 1]_vars

\* The threads that run a job or a publication now.
Owners == {c \in Callers : c_pc[c] = "run"}
          \cup (IF s_pc \in {"job", "publish", "last"} THEN {NoJob} ELSE {})

\* The state has one owner, the window of the last job of a closing stage
\* apart.
OneOwnerWhileOpen == s_pc # "last" => \A a, b \in Owners : a = b

\* A posted job is served, by the stage that was open or by its close: the
\* wait on done ends.
PostedJobReturns == \A c \in Callers : c_pc[c] = "wait" ~> c_pc[c] = "idle"
===============================================================================
