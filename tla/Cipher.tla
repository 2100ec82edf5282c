------------------------------- MODULE Cipher -------------------------------
(* The object store of one Vigil (src/Cipher.cpp, crucible/Cipher.h): object *)
(* files, the HEAD file and the append-only log, through process crashes,    *)
(* power losses and failing writes.  A file has the state that reads see and *)
(* the state that is on disk; a power loss keeps something between the two.  *)
(* HEAD and the log are in the root, which is flushed after them.  The       *)
(* directory of an object is never flushed, so its name is on disk only when *)
(* the kernel wrote it back by itself.  A log record is appended as a whole  *)
(* unless a write fails half way.                                            *)
EXTENDS Naturals, Sequences, SequencesExt, FiniteSets

CONSTANTS Hashes,        \* content hashes
          None,          \* the none hash
          CacheEntries,  \* MAX_RESIDENT_CACHE_ENTRIES
          MaxStep,       \* bound on the regions one process publishes
          MaxCrashes, MaxFailures, MaxCommits    \* bounds

VARIABLES obj,                   \* per hash: absent, partial or whole
          objDisk,               \* per hash: the bytes on disk, and is the name
          headFile, headDisk,    \* the hash HEAD names, or None
          logFile, logDisk,      \* the records of the log, some torn
          up,                    \* is a process running
          head, log, cache,      \* head_, log_ and the resident cache
          step,                  \* Vigil::step_
          call,                  \* the call in progress: its step and its hash
          written,               \* history: the hashes that store wrote and returned, and no
                                 \* power loss took the name of since
          begun,                 \* history: the commits record_event began, and which returned
          crashes, failures      \* how many crashes and failed writes so far

fileVars == <<obj, objDisk, headFile, headDisk, logFile, logDisk>>
memVars == <<head, log, cache, step>>
history == <<written, begun>>
vars == <<fileVars, memVars, up, call, history, crashes, failures>>

Resting == [pc |-> "idle", hash |-> None, step |-> 0, commits |-> FALSE]

TypeOK ==
  /\ obj \in [Hashes -> {"absent", "partial", "whole"}]
  /\ objDisk \in [Hashes -> [bytes : {"absent", "partial", "whole"}, named : BOOLEAN]]
  /\ {headFile, headDisk, head} \subseteq Hashes \union {None}
  /\ IsPrefix(logDisk, logFile)
  /\ Len(cache) <= CacheEntries
  /\ step \in 0..MaxStep /\ crashes \in 0..MaxCrashes /\ failures \in 0..MaxFailures

Init ==
  /\ obj = [h \in Hashes |-> "absent"]
  /\ objDisk = [h \in Hashes |-> [bytes |-> "absent", named |-> FALSE]]
  /\ headFile = None /\ headDisk = None
  /\ logFile = <<>> /\ logDisk = <<>>
  /\ up = TRUE
  /\ head = None /\ log = <<>> /\ cache = <<>> /\ step = 0
  /\ call = Resting
  /\ written = {} /\ begun = <<>>
  /\ crashes = 0 /\ failures = 0

Goto(pc) == call' = [call EXCEPT !.pc = pc]

(* A write, a flush or a rename that fails.                                  *)
Fail == failures < MaxFailures /\ failures' = failures + 1

(* remember_cached_bytes: least recently used first.                         *)
Remember(h) ==
  IF Contains(cache, h) THEN cache
  ELSE Append(IF Len(cache) = CacheEntries THEN Tail(cache) ELSE cache, h)

(* What follows a store that returned: persist commits, others are done.     *)
Returned == IF call.commits THEN Goto("commit") ELSE call' = Resting

(* on_region_ready bumps the step of a new region.                           *)
PublishRegion ==
  /\ up /\ step < MaxStep
  /\ step' = step + 1
  /\ UNCHANGED <<fileVars, head, log, cache, up, call, history, crashes, failures>>

(* persist stores the active region: one that was published, or the head     *)
(* that Vigil::load made active.                                             *)
HasActive(h) == step > 0 \/ (h = head /\ obj[h] = "whole")

(* store and Vigil::persist start alike: an object that exists is flushed    *)
(* and reported, another one is created.                                     *)
StartStore(h, commits) ==
  /\ up /\ call.pc = "idle" /\ Len(begun) < MaxCommits
  /\ commits => HasActive(h)
  /\ IF obj[h] # "absent"
     THEN call' = [pc |-> "flush_existing", hash |-> h, step |-> 0, commits |-> commits] /\ UNCHANGED obj
     ELSE /\ call' = [pc |-> "write", hash |-> h, step |-> 0, commits |-> commits]
          /\ obj' = [obj EXCEPT ![h] = "partial"]
  /\ UNCHANGED <<objDisk, headFile, headDisk, logFile, logDisk, memVars, up, history, crashes, failures>>

FlushExisting ==
  /\ up /\ call.pc = "flush_existing"
  /\ \/ /\ objDisk' = [objDisk EXCEPT ![call.hash].bytes = obj[call.hash]]
        /\ Returned
        /\ UNCHANGED failures
     \/ Fail /\ call' = Resting /\ UNCHANGED objDisk
  /\ UNCHANGED <<obj, headFile, headDisk, logFile, logDisk, memVars, up, written, begun, crashes>>

(* The bytes reach the kernel when the stream is closed; a write that fails  *)
(* leaves the file behind.                                                   *)
WriteObject ==
  /\ up /\ call.pc = "write"
  /\ \/ obj' = [obj EXCEPT ![call.hash] = "whole"] /\ Goto("flush") /\ UNCHANGED failures
     \/ Fail /\ call' = Resting /\ UNCHANGED obj
  /\ UNCHANGED <<objDisk, headFile, headDisk, logFile, logDisk, memVars, up, history, crashes>>

\* Faulty: the object is not flushed before its hash is returned.
FlushObject_skipped ==
  /\ up /\ call.pc = "flush"
  /\ cache' = Remember(call.hash)
  /\ written' = written \union {call.hash}
  /\ Returned
  /\ UNCHANGED <<fileVars, head, log, step, up, begun, crashes, failures>>

(* fdatasync flushes the bytes of the object, and not the directory that has *)
(* its name.                                                                 *)
FlushObject ==
  /\ up /\ call.pc = "flush"
  /\ \/ /\ objDisk' = [objDisk EXCEPT ![call.hash].bytes = obj[call.hash]]
        /\ cache' = Remember(call.hash)
        /\ written' = written \union {call.hash}
        /\ Returned
        /\ UNCHANGED failures
     \/ Fail /\ call' = Resting /\ UNCHANGED <<objDisk, cache, written>>
  /\ UNCHANGED <<obj, headFile, headDisk, logFile, logDisk, head, log, step, up, begun, crashes>>

(* The process is gone, and its memory with it.                              *)
Die ==
  /\ up' = FALSE /\ call' = Resting
  /\ head' = None /\ log' = <<>> /\ cache' = <<>> /\ step' = 0

Regresses == log # <<>> /\ step < Last(log).step

(* record_event reads the clock and then advance_head: the steps of the log  *)
(* never decrease, or the contract ends the process; then head_ moves.       *)
AdvanceHead ==
  /\ up /\ call.pc = "commit"
  /\ \/ Fail /\ call' = Resting /\ UNCHANGED <<up, memVars, begun>>
     \/ Regresses /\ Die /\ UNCHANGED <<begun, failures>>
     \/ /\ ~Regresses
        /\ head' = call.hash
        /\ call' = [call EXCEPT !.pc = "head", !.step = step]
        /\ begun' = Append(begun, [step |-> step, hash |-> call.hash, returned |-> FALSE])
        /\ UNCHANGED <<up, log, cache, step, failures>>
  /\ UNCHANGED <<fileVars, written, crashes>>

(* atomic_write_at_: the new content is written beside HEAD and flushed,     *)
(* then renamed over it, then the directory is flushed.  Each may fail, and  *)
(* advance_head goes on.                                                     *)
ReplaceHead ==
  /\ up /\ call.pc = "head"
  /\ \/ headFile' = call.hash /\ Goto("head_flush") /\ UNCHANGED failures
     \/ Fail /\ Goto("append") /\ UNCHANGED headFile
  /\ UNCHANGED <<obj, objDisk, headDisk, logFile, logDisk, memVars, up, history, crashes>>

\* Faulty: the directory is not flushed after the rename.
FlushHead_skipped ==
  /\ up /\ call.pc = "head_flush"
  /\ Goto("append")
  /\ UNCHANGED <<fileVars, memVars, up, history, crashes, failures>>

FlushHead ==
  /\ up /\ call.pc = "head_flush"
  /\ Goto("append")
  /\ \/ headDisk' = headFile /\ UNCHANGED failures
     \/ Fail /\ UNCHANGED headDisk
  /\ UNCHANGED <<obj, objDisk, headFile, logFile, logDisk, memVars, up, history, crashes>>

(* The commit goes to log_ in memory and to the log file.  A write that      *)
(* fails may leave the record torn inside its step, its hash or its stamp.   *)
AppendLog ==
  LET record == [step |-> call.step, hash |-> call.hash, upto |-> "end"]
  IN  /\ up /\ call.pc = "append"
      /\ log' = Append(log, [step |-> call.step, hash |-> call.hash])
      /\ \/ logFile' = Append(logFile, record) /\ Goto("log_flush") /\ UNCHANGED failures
         \/ /\ Fail /\ Goto("return")
            /\ \/ UNCHANGED logFile
               \/ \E cut \in {"step", "hash", "stamp"} :
                     logFile' = Append(logFile, [record EXCEPT !.upto = cut])
      /\ UNCHANGED <<obj, objDisk, headFile, headDisk, logDisk, head, cache, step, up, history, crashes>>

FlushLog ==
  /\ up /\ call.pc = "log_flush"
  /\ Goto("return")
  /\ \/ logDisk' = logFile /\ UNCHANGED failures
     \/ Fail /\ UNCHANGED logDisk
  /\ UNCHANGED <<obj, objDisk, headFile, headDisk, logFile, memVars, up, history, crashes>>

ReturnCommit ==
  /\ up /\ call.pc = "return"
  /\ begun' = [begun EXCEPT ![Len(begun)].returned = TRUE]
  /\ call' = Resting
  /\ UNCHANGED <<fileVars, memVars, up, written, crashes, failures>>

(* load_content_addressed: the cache first, then the file; one that is not   *)
(* whole is refused.                                                         *)
Load(h) ==
  /\ up /\ call.pc = "idle"
  /\ \/ Contains(cache, h) /\ cache' = Append(Remove(cache, h), h)
     \/ ~Contains(cache, h) /\ obj[h] = "whole" /\ cache' = Remember(h)
     \/ ~Contains(cache, h) /\ obj[h] # "whole" /\ UNCHANGED cache
  /\ UNCHANGED <<fileVars, head, log, step, up, call, history, crashes, failures>>

(* The process dies and the files stay as reads see them.                    *)
Crash ==
  /\ up /\ crashes < MaxCrashes
  /\ Die /\ crashes' = crashes + 1
  /\ UNCHANGED <<fileVars, history, failures>>

(* Of what was not flushed, anything may be lost; appended records are lost  *)
(* from the end.                                                             *)
Between(disk, seen) ==
  IF disk = seen THEN {seen} ELSE IF seen = "whole" THEN {disk, "partial", "whole"} ELSE {disk, seen}

Left(h) == Between(objDisk[h].bytes, obj[h]) \union (IF objDisk[h].named THEN {} ELSE {"absent"})

PowerLoss ==
  /\ up /\ crashes < MaxCrashes
  /\ Die /\ crashes' = crashes + 1
  /\ obj' \in {f \in [Hashes -> {"absent", "partial", "whole"}] : \A h \in Hashes : f[h] \in Left(h)}
  /\ objDisk' = [h \in Hashes |-> [bytes |-> obj'[h], named |-> obj'[h] # "absent"]]
  /\ headFile' \in {headDisk, headFile} /\ headDisk' = headFile'
  /\ \E n \in Len(logDisk)..Len(logFile) : logFile' = SubSeq(logFile, 1, n)
  /\ logDisk' = logFile'
  /\ written' = {h \in written : obj'[h] # "absent"}
  /\ UNCHANGED <<begun, failures>>

(* load_log reads line by line.  A torn record has no newline and the next   *)
(* one continues its line: after a torn step the two numbers read as one     *)
(* (steps have one digit here), after a later tear the line is malformed.  A *)
(* line at the end of the file may lack its newline and part of its stamp.   *)
ReadRecord(acc, r) ==
  LET s == 10 * acc.digits + r.step
      read == IF acc.bad THEN acc.lines ELSE Append(acc.lines, [step |-> s, hash |-> r.hash])
  IN  IF r.upto = "end" THEN [lines |-> read, tail |-> read, bad |-> FALSE, digits |-> 0]
      ELSE [lines |-> acc.lines, tail |-> IF r.upto = "stamp" THEN read ELSE acc.lines,
            bad |-> acc.bad \/ r.upto # "step", digits |-> s]

InOrder(acc, line) ==
  IF acc # <<>> /\ line.step < Last(acc).step THEN acc ELSE Append(acc, line)

load_log(file) ==
  FoldLeft(InOrder, <<>>,
           FoldLeft(ReadRecord, [lines |-> <<>>, tail |-> <<>>, bad |-> FALSE, digits |-> 0], file).tail)

(* A new process opens the store: the log is read, and HEAD overrides its    *)
(* last entry unless it is missing.  Vigil's step starts again.              *)
Open ==
  /\ ~up
  /\ up' = TRUE
  /\ log' = load_log(logFile)
  /\ head' = IF headFile # None THEN headFile ELSE IF log' = <<>> THEN None ELSE Last(log').hash
  /\ cache' = <<>> /\ step' = 0
  /\ UNCHANGED <<fileVars, call, history, crashes, failures>>

Commit == AdvanceHead \/ ReplaceHead \/ FlushHead \/ AppendLog \/ FlushLog \/ ReturnCommit

Next ==
  \/ PublishRegion \/ (\E h \in Hashes : Load(h) \/ StartStore(h, TRUE) \/ StartStore(h, FALSE))
  \/ FlushExisting \/ WriteObject \/ FlushObject \/ Commit
  \/ Crash \/ PowerLoss \/ Open

Spec == Init /\ [][Next]_vars
-----------------------------------------------------------------------------
(* A hash that store returned after writing the object itself loads while    *)
(* its name is in the directory: a process crash takes neither, and a power  *)
(* loss may take the name, but never leaves it with a part of the bytes, as  *)
(* the flush comes before the return.  A later store then flushes a whole    *)
(* object, or creates it anew.                                               *)
WrittenStaysWhole == \A h \in written : obj[h] = "whole"

(* The resident cache never answers for an object that the files could not:  *)
(* an object is remembered after its bytes were written, not before.         *)
CacheIsBackedByFiles == \A i \in DOMAIN cache : obj[cache[i]] = "whole"

(* The head of a running process, recovered or not, is a commit that was     *)
(* begun, and while no write failed, none that returned is newer: a crash    *)
(* loses at most the commit in progress.                                     *)
HeadIsNewestCommit ==
  up => \/ head = None /\ (failures = 0 => \A i \in DOMAIN begun : ~begun[i].returned)
        \/ \E i \in DOMAIN begun :
             /\ begun[i].hash = head
             /\ failures = 0 => \A j \in i + 1..Len(begun) : ~begun[j].returned

(* While no write failed, the log of a running process is the sequence of    *)
(* the commits that returned, with those a crash interrupted either in their *)
(* place or left out, so hash_at_step answers from the true history.         *)
LogIsCommitHistory ==
  up /\ failures = 0 =>
    \E kept \in SUBSET DOMAIN begun :
      /\ \A i \in DOMAIN begun : begun[i].returned => i \in kept
      /\ log = LET picked == SetToSortSeq(kept, <)
               IN  [k \in DOMAIN picked |-> [step |-> begun[picked[k]].step, hash |-> begun[picked[k]].hash]]

(* What the comment of store promises: a hash that it returns is loadable    *)
(* after a crash, whichever path returned it, so the file is whole at least  *)
(* when persist goes on to commit that hash.                                 *)
StoredIsLoadable == call.pc = "commit" => obj[call.hash] = "whole"

(* What store and load keep over crashes and power losses: written objects   *)
(* are whole while they have their names, and the cache answers only for     *)
(* whole files.                                                              *)
ObjectsStayWhole == TypeOK /\ WrittenStaysWhole /\ CacheIsBackedByFiles

(* What open recovers: the newest commit and the history of the commits.     *)
RecoveredIsHistory == HeadIsNewestCommit /\ LogIsCommitHistory
===========================================================================
