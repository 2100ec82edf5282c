--------------------------- MODULE AtomicSnapshot ---------------------------
(* The seqlock (fixy/concurrent/AtomicSnapshot.h): one writer brackets the   *)
(* word stores of a value between two increments of a counter, readers copy  *)
(* the words between two loads of it and retry when they differ.  The        *)
(* release stores and acquire loads of the words keep each side in program   *)
(* order, so each access is one step.                                        *)
EXTENDS Naturals, Sequences

CONSTANTS Readers, Words, MaxPublishes

VARIABLES seq,
          storage,    \* the payload words; publish k stores k in every word
          writer,     \* 0 outside publish, else the next word to store
          published,  \* how many publishes returned
          reader      \* per reader: step, first counter sample, words copied

vars == <<seq, storage, writer, published, reader>>

Idle == [pc |-> "idle", kind |-> "load", pre |-> 0, buf |-> <<>>, from |-> 0]

TypeOK ==
  /\ seq \in 2..(2 * MaxPublishes + 2)
  /\ storage \in [1..Words -> 0..MaxPublishes]
  /\ writer \in 0..(Words + 1) /\ published \in 0..MaxPublishes
  /\ \A r \in Readers : reader[r].pc \in {"idle", "sample", "copy", "check", "got", "nothing"}

(* AtomicSnapshot(initial) stores the words and sets the counter to 2.       *)
Init ==
  /\ seq = 2 /\ writer = 0 /\ published = 0
  /\ storage = [w \in 1..Words |-> 0]
  /\ reader = [r \in Readers |-> Idle]

\* Faulty: the sequence does not turn odd.
PublishBegin_no_bump ==
  /\ writer = 0 /\ published < MaxPublishes
  /\ writer' = 1
  /\ UNCHANGED <<seq, storage, published, reader>>

PublishBegin ==
  /\ writer = 0 /\ published < MaxPublishes
  /\ seq' = seq + 1
  /\ writer' = 1
  /\ UNCHANGED <<storage, published, reader>>

StoreWord ==
  /\ writer \in 1..Words
  /\ storage' = [storage EXCEPT ![writer] = published + 1]
  /\ writer' = writer + 1
  /\ UNCHANGED <<seq, published, reader>>

PublishEnd ==
  /\ writer = Words + 1
  /\ seq' = seq + 1
  /\ published' = published + 1
  /\ writer' = 0
  /\ UNCHANGED <<storage, reader>>

(* A call of load or try_load; `from` is what had been published before it.  *)
Call(r, kind) ==
  /\ reader[r].pc \in {"idle", "got", "nothing"}
  /\ reader' = [reader EXCEPT ![r] = [Idle EXCEPT !.pc = "sample", !.kind = kind, !.from = published]]
  /\ UNCHANGED <<seq, storage, writer, published>>

(* The first sample: load spins while it is odd, try_load gives up.          *)
Sample(r) ==
  /\ reader[r].pc = "sample"
  /\ \/ /\ seq % 2 = 0
        /\ reader' = [reader EXCEPT ![r].pc = "copy", ![r].pre = seq, ![r].buf = <<>>]
     \/ /\ seq % 2 = 1 /\ reader[r].kind = "try_load"
        /\ reader' = [reader EXCEPT ![r].pc = "nothing"]
  /\ UNCHANGED <<seq, storage, writer, published>>

CopyWord(r) ==
  LET w == Len(reader[r].buf) + 1
  IN  /\ reader[r].pc = "copy"
      /\ reader' = [reader EXCEPT ![r].buf = Append(@, storage[w]),
                                  ![r].pc = IF w = Words THEN "check" ELSE "copy"]
      /\ UNCHANGED <<seq, storage, writer, published>>

\* Faulty: the sequence is not compared with the first sample.
Check_parity_only(r) ==
  /\ reader[r].pc = "check"
  /\ reader' = [reader EXCEPT ![r].pc = IF seq % 2 = 0 THEN "got"
                                        ELSE IF reader[r].kind = "load" THEN "sample" ELSE "nothing"]
  /\ UNCHANGED <<seq, storage, writer, published>>

(* The second sample decides: load retries, try_load gives up.               *)
Check(r) ==
  /\ reader[r].pc = "check"
  /\ reader' = [reader EXCEPT ![r].pc = IF seq = reader[r].pre THEN "got"
                                        ELSE IF reader[r].kind = "load" THEN "sample" ELSE "nothing"]
  /\ UNCHANGED <<seq, storage, writer, published>>

Write == PublishBegin \/ StoreWord \/ PublishEnd
Read(r) == Sample(r) \/ CopyWord(r) \/ Check(r)

Next == Write \/ \E r \in Readers : Read(r) \/ \E k \in {"load", "try_load"} : Call(r, k)

(* A thread inside a call keeps running; nobody has to publish or to call.   *)
Fairness ==
  /\ WF_vars(StoreWord \/ PublishEnd)
  /\ \A r \in Readers : WF_vars(Read(r))

Spec == Init /\ [][Next]_vars /\ Fairness

(* A value that load or try_load returns is one value that was published,    *)
(* all its words from the same publish, and none older than the last publish *)
(* that returned before the call began (the two counter samples).            *)
SnapshotIsOneFreshValue ==
  \A r \in Readers : reader[r].pc = "got" =>
    \E v \in reader[r].from..published : \A w \in 1..Words : reader[r].buf[w] = v

(* Once the writer stops publishing, a load returns: retries end when no     *)
(* publish overlaps the copy.                                                *)
LoadReturns ==
  \A r \in Readers :
    reader[r].pc = "sample" /\ reader[r].kind = "load" ~> reader[r].pc = "got"

(* The shape of the snapshot, and what its readers are given.                *)
SnapshotInv == TypeOK /\ SnapshotIsOneFreshValue
===========================================================================
