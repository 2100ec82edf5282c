------------------------- MODULE SharedStateProofs --------------------------
(***************************************************************************)
(* Three pieces of state that threads share without a lock, for every      *)
(* number of threads.                                                      *)
(*   The mailbox of the publish stage: its invariant, and what it says     *)
(* about the overlap of a job with a publication, the lifetime of a record *)
(* and the number of times a job runs.                                     *)
(*   The snapshot: what a reader is given is one publish, whole and fresh. *)
(*   The credits: a socket has one slot, no credit and no connection is    *)
(* lost.                                                                   *)
(***************************************************************************)
EXTENDS OwnerMailbox, Sequences, TLAPS

-----------------------------------------------------------------------------
(* The mailbox.                                                            *)

\* The word starts closed and no record is in flight.
LEMMA InitMailbox == Init => MailboxInv
BY CallersAssumption DEF Init, MailboxInv, TypeOK, WordNamesOwner, RecordInFlight,
   RunsCounted, Sentinels, StagePcs, OpenPcs, HoldPcs, CallerPcs

\* Each step of the stage keeps the invariant: start, open, serve, the
\* publication and the close.
LEMMA StageInv == MailboxInv /\ (StartStage \/ StageStep) => MailboxInv'
<1> SUFFICES ASSUME MailboxInv, StartStage \/ StageStep PROVE MailboxInv'
  OBVIOUS
<1> USE CallersAssumption
    DEF MailboxInv, TypeOK, WordNamesOwner, RecordInFlight, RunsCounted,
        Sentinels, StagePcs, OpenPcs, HoldPcs, CallerPcs
<1>1. CASE StartStage     BY <1>1 DEF StartStage
<1>2. CASE OpenMailbox    BY <1>2 DEF OpenMailbox
<1>3. CASE LoadJob        BY <1>3 DEF LoadJob
<1>4. CASE RunJob         BY <1>4 DEF RunJob
<1>5. CASE ClearMailbox   BY <1>5 DEF ClearMailbox
<1>6. CASE StoreDone      BY <1>6 DEF StoreDone
<1>7. CASE PopMessage     BY <1>7 DEF PopMessage
<1>8. CASE FinishPublish  BY <1>8 DEF FinishPublish
<1>9. CASE CloseMailbox   BY <1>9 DEF CloseMailbox
<1>10. CASE RunLast       BY <1>10 DEF RunLast
<1>11. CASE StoreLastDone BY <1>11 DEF StoreLastDone
<1> QED BY <1>1, <1>2, <1>3, <1>4, <1>5, <1>6, <1>7, <1>8, <1>9, <1>10, <1>11
        DEF StageStep

\* Each step of a caller keeps the invariant: the call, the load, the two
\* compare-and-swaps and their failure, the inline run and both returns.
LEMMA CallerInv ==
    ASSUME NEW c \in Callers, MailboxInv, Call(c) \/ CallerStep(c) PROVE MailboxInv'
<1> USE CallersAssumption
    DEF MailboxInv, TypeOK, WordNamesOwner, RecordInFlight, RunsCounted,
        Sentinels, StagePcs, OpenPcs, HoldPcs, CallerPcs, stageVars
<1>1. CASE Call(c)        BY <1>1 DEF Call
<1>2. CASE LoadMailbox(c) BY <1>2 DEF LoadMailbox
<1>3. CASE Post(c)        BY <1>3 DEF Post
<1>4. CASE Claim(c)       BY <1>4 DEF Claim
<1>5. CASE Retry(c)       BY <1>5 DEF Retry
<1>6. CASE RunInline(c)   BY <1>6 DEF RunInline
<1>7. CASE Unlock(c)      BY <1>7 DEF Unlock
<1>8. CASE Return(c)      BY <1>8 DEF Return
<1> QED BY <1>1, <1>2, <1>3, <1>4, <1>5, <1>6, <1>7, <1>8 DEF CallerStep

\* MailboxInv is inductive.
LEMMA MailboxStep == MailboxInv /\ [Next]_vars => MailboxInv'
<1> SUFFICES ASSUME MailboxInv, [Next]_vars PROVE MailboxInv'
  OBVIOUS
<1>1. CASE StartStage \/ StageStep
  BY <1>1, StageInv
<1>2. CASE \E c \in Callers : Call(c) \/ CallerStep(c)
  BY <1>2, CallerInv
<1>3. CASE UNCHANGED vars
  BY <1>3 DEF vars, MailboxInv, TypeOK, WordNamesOwner, RecordInFlight, RunsCounted
<1> QED BY <1>1, <1>2, <1>3 DEF Next

\* The mailbox is well-formed in every reachable state, with any number of
\* callers and of stage starts.
THEOREM MailboxCorrect == Spec => []MailboxInv
BY InitMailbox, MailboxStep, PTL DEF Spec

\* No caller runs its job inline while the stage has a publication in hand.
THEOREM NoOverlap == Spec => []JobNeverOverlapsPublication
<1>1. MailboxInv => JobNeverOverlapsPublication
  BY Zenon DEF MailboxInv, WordNamesOwner, JobNeverOverlapsPublication, OpenPcs
<1> QED BY <1>1, MailboxCorrect, PTL

\* One thread at a time runs a job or a publication, the window in which a
\* closing stage runs its last job apart.
THEOREM OneOwner == Spec => []OneOwnerWhileOpen
<1>1. MailboxInv => OneOwnerWhileOpen
  BY DEF MailboxInv, WordNamesOwner, OneOwnerWhileOpen, Owners, OpenPcs
<1> QED BY <1>1, MailboxCorrect, PTL

\* The stage reaches only records whose caller waits in the call.
THEOREM RecordLifetime == Spec => []RecordOutlivesStage
<1>1. MailboxInv => RecordOutlivesStage
  BY DEF MailboxInv, RecordInFlight, RecordOutlivesStage
<1> QED BY <1>1, MailboxCorrect, PTL

\* A call returns after exactly one run of its job.
THEOREM OneRunPerCall == Spec => ReturnsAfterOneRun
<1>1. MailboxInv /\ [Next]_vars
        => [\A c \in Callers : c_pc[c] # "idle" /\ c_pc'[c] = "idle" => runs'[c] = 1]_vars
  <2> SUFFICES ASSUME MailboxInv, Next, NEW c \in Callers, c_pc[c] # "idle", c_pc'[c] = "idle"
               PROVE  runs'[c] = 1
    BY DEF vars
  <2>1. c_pc' # c_pc
    OBVIOUS
  <2>2. PICK d \in Callers : Call(d) \/ CallerStep(d)
    BY <2>1 DEF Next, StartStage, StageStep, OpenMailbox, LoadJob, RunJob, ClearMailbox,
       StoreDone, PopMessage, FinishPublish, CloseMailbox, RunLast, StoreLastDone
  <2>3. Unlock(c) \/ Return(c)
    BY <2>2 DEF Call, CallerStep, LoadMailbox, Post, Claim, Retry, RunInline, Unlock, Return,
       MailboxInv, TypeOK
  <2> QED BY <2>3 DEF Unlock, Return, MailboxInv, RunsCounted
<1> QED BY <1>1, MailboxCorrect, PTL DEF Spec, ReturnsAfterOneRun

-----------------------------------------------------------------------------
(* The snapshot.                                                           *)

CONSTANTS Readers, Words, MaxPublishes
VARIABLES seq, storage, writer, published, reader

Snapshot == INSTANCE AtomicSnapshot

(* A snapshot has a word and any number of publishes. *)
SnapshotSizes == Words \in Nat \ {0} /\ MaxPublishes \in Nat

(* The counter is odd exactly during a publish, and the words before the
   writer are new. *)
WriterInv ==
    /\ published \in 0 .. MaxPublishes /\ writer \in 0 .. (Words + 1)
    /\ writer # 0 => published < MaxPublishes
    /\ seq = 2 * published + (IF writer = 0 THEN 2 ELSE 3)
    /\ storage \in [1 .. Words -> Nat]
    /\ \A w \in 1 .. Words : storage[w] = IF w < writer THEN published + 1 ELSE published

(* The steps of a reader and the fields of its call. *)
ReaderPcs == {"idle", "sample", "copy", "check", "got", "nothing"}
ReaderSet == [pc : ReaderPcs, kind : {"load", "try_load"}, pre : Nat, buf : Seq(Nat), from : Nat]

(* As long as the counter is the one a reader sampled, no publish has begun
   and every word copied is of the last one. *)
CopyInv(c) ==
    /\ c.pc = "copy" => Len(c.buf) < Words
    /\ c.pc = "check" => Len(c.buf) = Words
    /\ c.pc \in {"copy", "check"} =>
         /\ c.pre <= seq
         /\ c.pre = seq => writer = 0 /\ \A w \in 1 .. Len(c.buf) : c.buf[w] = published

(* What a reader is given, and how old it may be. *)
GivenInv(c) ==
    /\ c.from <= published
    /\ c.pc = "got" => \E v \in c.from .. published : \A w \in 1 .. Words : c.buf[w] = v

ReadersInv ==
    /\ reader \in [Readers -> ReaderSet]
    /\ \A r \in Readers : CopyInv(reader[r]) /\ GivenInv(reader[r])

(* The inductive invariant of the snapshot. *)
SeqlockInv == WriterInv /\ ReadersInv

(* At the start the first value is whole and no reader has begun. *)
LEMMA SeqlockInit == ASSUME SnapshotSizes PROVE Snapshot!Init => SeqlockInv
<1> SUFFICES ASSUME Snapshot!Init PROVE SeqlockInv
  OBVIOUS
<1>1. WriterInv
  BY DEF SnapshotSizes, Snapshot!Init, WriterInv
<1>2. ReadersInv
  BY DEF SnapshotSizes, Snapshot!Init, Snapshot!Idle, ReadersInv, ReaderSet, ReaderPcs, CopyInv, GivenInv
<1> QED
  BY <1>1, <1>2 DEF SeqlockInv

(* Each step of publish() keeps it: the odd counter, a word, the even counter. *)
LEMMA WriteStep == ASSUME SnapshotSizes, SeqlockInv, Snapshot!Write PROVE SeqlockInv'
<1>0. WriterInv /\ ReadersInv /\ UNCHANGED reader
  BY DEF SeqlockInv, Snapshot!Write, Snapshot!PublishBegin, Snapshot!StoreWord, Snapshot!PublishEnd
<1>1. WriterInv'
  <2>1. CASE Snapshot!PublishBegin
    BY <1>0, <2>1 DEF SnapshotSizes, WriterInv, Snapshot!PublishBegin
  <2>2. CASE Snapshot!StoreWord
    BY <1>0, <2>2 DEF SnapshotSizes, WriterInv, Snapshot!StoreWord
  <2>3. CASE Snapshot!PublishEnd
    BY <1>0, <2>3 DEF SnapshotSizes, WriterInv, Snapshot!PublishEnd
  <2> QED
    BY <2>1, <2>2, <2>3 DEF Snapshot!Write
(* A publish moves the counter past every sample, and no word changes before. *)
<1>2. /\ seq \in Nat /\ published \in Nat /\ published' \in Nat /\ published <= published'
      /\ \/ seq' = seq + 1
         \/ writer # 0 /\ seq' = seq
  <2>1. /\ published \in Nat /\ published' \in Nat /\ seq \in Nat
    BY <1>0, <1>1 DEF WriterInv
  <2>2. CASE Snapshot!PublishBegin
    BY <2>1, <2>2 DEF Snapshot!PublishBegin
  <2>3. CASE Snapshot!StoreWord
    BY <2>1, <2>3 DEF Snapshot!StoreWord
  <2>4. CASE Snapshot!PublishEnd
    BY <2>1, <2>4 DEF Snapshot!PublishEnd
  <2> QED
    BY <2>2, <2>3, <2>4 DEF Snapshot!Write
<1>3. ASSUME NEW r \in Readers PROVE CopyInv(reader[r])' /\ GivenInv(reader[r])'
  <2>1. reader[r] \in ReaderSet /\ reader'[r] = reader[r] /\ CopyInv(reader[r]) /\ GivenInv(reader[r])
    BY <1>0 DEF ReadersInv
  <2>2. reader[r].pre \in Nat /\ reader[r].from \in Nat
    BY <2>1 DEF ReaderSet
  <2>3. CopyInv(reader[r])'
    BY <1>2, <2>1, <2>2 DEF CopyInv
  <2>4. GivenInv(reader[r])'
    BY <1>2, <2>1, <2>2 DEF GivenInv
  <2> QED
    BY <2>3, <2>4
<1> QED
  BY <1>0, <1>1, <1>3 DEF SeqlockInv, ReadersInv

(* Each step of a load or a try_load keeps it: the sample, a word of the
   copy, the check of the counter. *)
LEMMA ReadStep ==
    ASSUME SnapshotSizes, SeqlockInv, NEW r \in Readers,
           Snapshot!Read(r) \/ \E k \in {"load", "try_load"} : Snapshot!Call(r, k)
    PROVE  SeqlockInv'
<1> DEFINE c == reader[r]
           d == reader'[r]
<1>0. /\ WriterInv /\ ReadersInv /\ UNCHANGED <<seq, storage, writer, published>>
      /\ Words \in Nat /\ seq \in Nat /\ published \in Nat
      /\ c \in ReaderSet /\ CopyInv(c) /\ GivenInv(c)
  BY DEF SnapshotSizes, SeqlockInv, WriterInv, ReadersInv, Snapshot!Read, Snapshot!Call, Snapshot!Sample,
         Snapshot!CopyWord, Snapshot!Check
<1>1. WriterInv'
  BY <1>0 DEF WriterInv
<1>2. ASSUME d \in ReaderSet, reader' = [reader EXCEPT ![r] = d], CopyInv(d), GivenInv(d)
      PROVE  SeqlockInv'
  <2>1. reader' \in [Readers -> ReaderSet]
    BY <1>0, <1>2 DEF ReadersInv
  <2>2. ASSUME NEW q \in Readers PROVE CopyInv(reader'[q]) /\ GivenInv(reader'[q])
    <3>1. q # r => reader'[q] = reader[q]
      BY <1>0, <1>2 DEF ReadersInv
    <3> QED
      BY <1>0, <1>2, <3>1 DEF ReadersInv
  <2>3. \A q \in Readers : CopyInv(reader[q])' /\ GivenInv(reader[q])'
    BY <1>0, <2>2 DEF CopyInv, GivenInv
  <2> QED
    BY <1>1, <2>1, <2>3 DEF SeqlockInv, ReadersInv
<1>3. CASE \E k \in {"load", "try_load"} : Snapshot!Call(r, k)
  <2>1. PICK k \in {"load", "try_load"} : Snapshot!Call(r, k)
    BY <1>3
  <2>2. /\ d = [pc |-> "sample", kind |-> k, pre |-> 0, buf |-> << >>, from |-> published]
        /\ reader' = [reader EXCEPT ![r] = d]
    BY <1>0, <2>1, Zenon DEF ReadersInv, Snapshot!Call, Snapshot!Idle
  <2> QED
    BY <1>0, <1>2, <2>2 DEF ReaderSet, ReaderPcs, CopyInv, GivenInv
<1>4. CASE Snapshot!Sample(r)
  <2>1. CASE /\ d = [c EXCEPT !.pc = "copy", !.pre = seq, !.buf = << >>] /\ seq % 2 = 0
             /\ reader' = [reader EXCEPT ![r] = d]
    <3>1. writer = 0
      BY <1>0, <2>1 DEF WriterInv
    <3>2. d \in ReaderSet /\ d.pc = "copy" /\ d.pre = seq /\ d.buf = << >> /\ d.from = c.from
      <4>1. << >> \in Seq(Nat) /\ seq \in Nat
        BY <1>0
      <4> QED
        BY <1>0, <2>1, <4>1, Zenon DEF ReaderSet, ReaderPcs
    <3>3. CopyInv(d)
      BY <1>0, <3>1, <3>2 DEF SnapshotSizes, CopyInv
    <3>4. GivenInv(d)
      BY <1>0, <3>2, Zenon DEF GivenInv
    <3> QED
      BY <1>2, <2>1, <3>2, <3>3, <3>4, Zenon
  <2>2. CASE d = [c EXCEPT !.pc = "nothing"] /\ reader' = [reader EXCEPT ![r] = d]
    BY <1>0, <1>2, <2>2 DEF ReaderSet, ReaderPcs, CopyInv, GivenInv
  <2> QED
    BY <1>0, <1>4, <2>1, <2>2, Zenon DEF ReadersInv, Snapshot!Sample
<1>5. CASE Snapshot!CopyWord(r)
  <2> DEFINE w == Len(c.buf) + 1
  <2>1. /\ c.pc = "copy" /\ c.buf \in Seq(Nat) /\ Len(c.buf) \in Nat /\ w \in 1 .. Words
        /\ storage[w] \in Nat
    <3>1. c.pc = "copy" /\ c.buf \in Seq(Nat)
      BY <1>0, <1>5, Zenon DEF Snapshot!CopyWord, ReaderSet
    <3>2. Len(c.buf) \in Nat /\ Len(c.buf) < Words
      BY <1>0, <3>1 DEF CopyInv
    <3>3. w \in 1 .. Words
      BY <1>0, <3>2
    <3> QED
      BY <1>0, <3>1, <3>2, <3>3, Zenon DEF WriterInv
  <2>2. /\ d = [c EXCEPT !.buf = Append(c.buf, storage[w]), !.pc = IF w = Words THEN "check" ELSE "copy"]
        /\ reader' = [reader EXCEPT ![r] = d]
    BY <1>0, <1>5, Zenon DEF ReadersInv, ReaderSet, Snapshot!CopyWord
  <2>3. /\ d \in ReaderSet /\ d.pc = (IF w = Words THEN "check" ELSE "copy")
        /\ d.buf = Append(c.buf, storage[w]) /\ d.pre = c.pre /\ d.from = c.from
    <3>1. Append(c.buf, storage[w]) \in Seq(Nat)
      BY <2>1
    <3>2. /\ d.pc = (IF w = Words THEN "check" ELSE "copy")
          /\ d.buf = Append(c.buf, storage[w]) /\ d.pre = c.pre /\ d.from = c.from
      BY <1>0, <2>2, Zenon DEF ReaderSet
    <3>3. (IF w = Words THEN "check" ELSE "copy") \in ReaderPcs
      BY Zenon DEF ReaderPcs
    <3>4. d \in ReaderSet
      BY <1>0, <2>2, <3>1, <3>3, Zenon DEF ReaderSet
    <3> QED
      BY <3>2, <3>4, Zenon
  <2>4. CopyInv(d)
    <3>1. Len(d.buf) = w /\ \A i \in 1 .. w : d.buf[i] = IF i = w THEN storage[w] ELSE c.buf[i]
      BY <2>1, <2>3
    <3>2. c.pre <= seq /\ (c.pre = seq => /\ writer = 0 /\ storage[w] = published
                                          /\ \A i \in 1 .. Len(c.buf) : c.buf[i] = published)
      BY <1>0, <2>1 DEF CopyInv, WriterInv
    <3> QED
      BY <1>0, <2>1, <2>3, <3>1, <3>2, SMTT(30) DEF CopyInv
  <2>5. GivenInv(d)
    BY <1>0, <2>3 DEF GivenInv
  <2> QED
    BY <1>2, <2>2, <2>3, <2>4, <2>5
<1>6. CASE Snapshot!Check(r)
  <2>1. /\ c.pc = "check" /\ reader' = [reader EXCEPT ![r] = d]
        /\ d = [c EXCEPT !.pc = IF seq = c.pre THEN "got" ELSE IF c.kind = "load" THEN "sample" ELSE "nothing"]
    BY <1>0, <1>6 DEF ReadersInv, ReaderSet, Snapshot!Check
  <2>2. /\ d \in ReaderSet /\ d.buf = c.buf /\ d.from = c.from /\ c.from \in Nat
        /\ d.pc = IF seq = c.pre THEN "got" ELSE IF c.kind = "load" THEN "sample" ELSE "nothing"
    BY <1>0, <2>1 DEF ReaderSet, ReaderPcs
  <2>3. CopyInv(d)
    BY <2>2 DEF CopyInv
  <2>4. GivenInv(d)
    <3>1. c.from <= published /\ published \in c.from .. published
      BY <1>0, <2>2 DEF GivenInv
    <3>2. seq = c.pre => \A w \in 1 .. Words : c.buf[w] = published
      BY <1>0, <2>1 DEF CopyInv
    <3> QED
      BY <2>2, <3>1, <3>2 DEF GivenInv
  <2> QED
    BY <1>2, <2>1, <2>2, <2>3, <2>4
<1> QED
  BY <1>3, <1>4, <1>5, <1>6 DEF Snapshot!Read

(* For every number of readers and of words: a load or a try_load that gives
   a value gives one whole publish, not older than the call
   (AtomicSnapshot.h: publish, load, try_load_once). *)
THEOREM SnapshotsAreWhole ==
    ASSUME SnapshotSizes PROVE Snapshot!Spec => []Snapshot!SnapshotInv
<1>1. SeqlockInv /\ [Snapshot!Next]_(Snapshot!vars) => SeqlockInv'
  <2> SUFFICES ASSUME SeqlockInv, [Snapshot!Next]_(Snapshot!vars) PROVE SeqlockInv'
    OBVIOUS
  <2>1. CASE UNCHANGED Snapshot!vars
    <3>1. UNCHANGED <<seq, storage, writer, published, reader>>
      BY <2>1 DEF Snapshot!vars
    <3> QED
      BY <3>1 DEF SeqlockInv, WriterInv, ReadersInv, CopyInv, GivenInv
  <2> QED
    BY <2>1, WriteStep, ReadStep DEF Snapshot!Next
<1>2. SeqlockInv => Snapshot!SnapshotInv
  <2> SUFFICES ASSUME SeqlockInv PROVE Snapshot!SnapshotInv
    OBVIOUS
  <2>1. Snapshot!TypeOK
    BY DEF SnapshotSizes, SeqlockInv, WriterInv, ReadersInv, ReaderSet, ReaderPcs, Snapshot!TypeOK
  <2>2. Snapshot!SnapshotIsOneFreshValue
    BY DEF SeqlockInv, ReadersInv, GivenInv, Snapshot!SnapshotIsOneFreshValue
  <2> QED
    BY <2>1, <2>2 DEF Snapshot!SnapshotInv
<1> QED
  BY <1>1, <1>2, SeqlockInit, PTL DEF Snapshot!Spec

-----------------------------------------------------------------------------
(* The credits.                                                            *)

CONSTANTS Threads, Sockets, MaxFlows, Amounts, MaxCredit, MaxConnections, MaxCalls
VARIABLES fd_bits, credit_bytes, start_gate, live_connections, sequence, thread, balance, accepted

Credits == INSTANCE Backpressure

(* A set of natural numbers has a least one. *)
LeastNumber == \A S \in SUBSET Nat : S # {} => \E n \in S : \A m \in S : n <= m

(* The sizes of the table and of a word; the two keys that stand for no
   socket, and the free gate, are not among the sockets and the threads. *)
CreditSizes ==
    /\ MaxFlows \in Nat /\ MaxCredit \in Nat /\ MaxConnections \in Nat /\ Amounts \subseteq 1 .. MaxCredit
    /\ {"empty", "reserved"} \cap Sockets = {} /\ "free" \notin Threads

Slots == 1 .. MaxFlows

(* The steps of a thread, those under the gate among them. *)
GatePcs == {"search", "reserve", "credit", "publish"}
FlowPcs == GatePcs \cup {"start", "grant", "consume", "exchange"}
ThreadSet ==
    [pc : FlowPcs \cup {"idle", "accept", "release", "live", "decide"},
     call : {"none", "start", "grant", "consume", "accept", "release"},
     fd : Sockets \cup {"empty"}, bytes : 0 .. MaxCredit, slot : 0 .. MaxFlows, observed : Nat, calls : Nat]

FlowTypes ==
    /\ fd_bits \in [Slots -> Sockets \cup {"empty", "reserved"}]
    /\ credit_bytes \in [Slots -> 0 .. MaxCredit]
    /\ balance \in [Sockets -> Nat]
    /\ start_gate \in Threads \cup {"free"}
    /\ thread \in [Threads -> ThreadSet]

(* A socket has one slot, whose credit is the balance of the socket. *)
SlotsInv ==
    /\ \A i, j \in Slots : fd_bits[i] \in Sockets /\ fd_bits[i] = fd_bits[j] => i = j
    /\ \A i \in Slots : fd_bits[i] \in Sockets => credit_bytes[i] = balance[fd_bits[i]]

(* What a thread in a step knows of the slots: under the gate, that its
   socket has none and that the one it reserved is its own; in an exchange,
   that the slot it found is still the one of its socket. *)
ThreadInv(t, c) ==
    /\ c.pc \in GatePcs <=> start_gate = t
    /\ c.pc \in FlowPcs => c.fd \in Sockets
    /\ c.pc \in {"reserve", "credit", "publish"} => \A i \in Slots : fd_bits[i] # c.fd
    /\ c.pc \in {"credit", "publish"} => c.slot \in Slots /\ fd_bits[c.slot] = "reserved"
    /\ c.pc = "publish" => credit_bytes[c.slot] = c.bytes
    /\ c.pc = "exchange" => c.slot \in Slots /\ fd_bits[c.slot] = c.fd /\ c.observed <= MaxCredit
ThreadsInv == \A t \in Threads : ThreadInv(t, thread[t])

AdmissionInv == live_connections \in 0 .. MaxConnections /\ accepted = live_connections

(* The inductive invariant of the credits. *)
BackpressureInv == FlowTypes /\ SlotsInv /\ ThreadsInv /\ AdmissionInv

LEMMA CreditsInit == ASSUME CreditSizes PROVE Credits!Init => BackpressureInv
<1> SUFFICES ASSUME Credits!Init PROVE BackpressureInv
  OBVIOUS
<1> USE DEF Credits!Init, CreditSizes, Credits!Slots, Slots, Credits!Empty, Credits!Idle
<1>1. FlowTypes
  BY DEF FlowTypes, ThreadSet, FlowPcs, GatePcs
<1>2. SlotsInv
  BY DEF SlotsInv
<1>3. ThreadsInv
  BY DEF ThreadsInv, ThreadInv, FlowPcs, GatePcs
<1>4. AdmissionInv
  BY DEF AdmissionInv
<1> QED
  BY <1>1, <1>2, <1>3, <1>4 DEF BackpressureInv

(* The first slot of a search. *)
LEMMA FirstSlot ==
    ASSUME LeastNumber, NEW x, Credits!find(x) # {}
    PROVE  Credits!Min(Credits!find(x)) \in Slots /\ fd_bits[Credits!Min(Credits!find(x))] = x
<1> DEFINE S == Credits!find(x)
<1>1. S \subseteq Slots /\ S \in SUBSET Nat /\ \A i \in S : fd_bits[i] = x
  BY DEF Credits!find, Credits!Slots, Slots
<1> HIDE DEF S
<1>2. \E n \in S : \A m \in S : n <= m
  BY <1>1, Zenon DEF LeastNumber, S
<1>3. Credits!Min(S) \in S
  BY <1>2, Zenon DEF Credits!Min
<1> QED
  BY <1>1, <1>3, Zenon DEF S

(* A step that leaves the slots, their credit and the gate alone keeps what
   the other threads know. *)
LEMMA ThreadMoves ==
    ASSUME FlowTypes, SlotsInv, ThreadsInv, NEW t \in Threads, NEW d \in ThreadSet,
           UNCHANGED <<fd_bits, credit_bytes, start_gate, balance>>,
           thread' = [thread EXCEPT ![t] = d], ThreadInv(t, d)
    PROVE  FlowTypes' /\ SlotsInv' /\ ThreadsInv'
<1>1. FlowTypes'
  BY DEF FlowTypes
<1>2. SlotsInv'
  BY DEF SlotsInv
<1>3. ASSUME NEW u \in Threads PROVE ThreadInv(u, thread'[u])
  <2>1. u # t => thread'[u] = thread[u]
    BY DEF FlowTypes
  <2>2. thread'[t] = d
    BY SMTT(30) DEF FlowTypes
  <2> QED
    BY <2>1, <2>2 DEF ThreadsInv
<1>4. ThreadsInv'
  BY <1>3 DEF ThreadsInv, ThreadInv
<1> QED
  BY <1>1, <1>2, <1>4

(* The calls, and the loads and decisions that write only the thread's own
   state or the count of connections. *)
LEMMA LocalStep ==
    ASSUME CreditSizes, BackpressureInv, NEW t \in Threads,
           \/ \E call \in {"start", "grant", "consume"}, s \in Sockets, n \in Amounts :
                 Credits!Call(t, call, s, n)
           \/ \E call \in {"accept", "release"} : Credits!Call(t, call, "empty", 0)
           \/ Credits!NotFound(t) \/ Credits!LoadCredit(t) \/ Credits!LoadLive(t)
           \/ Credits!Accept(t) \/ Credits!Decide(t) \/ Credits!Release(t)
    PROVE  FlowTypes' /\ SlotsInv' /\ ThreadsInv'
<1> DEFINE c == thread[t]
<1> USE DEF Credits!Empty
<1>0. /\ FlowTypes /\ SlotsInv /\ ThreadsInv /\ AdmissionInv /\ c \in ThreadSet /\ ThreadInv(t, c)
      /\ UNCHANGED <<fd_bits, credit_bytes, start_gate, balance>>
  BY Zenon DEF BackpressureInv, FlowTypes, ThreadsInv, Credits!Call, Credits!NotFound, Credits!LoadCredit,
         Credits!LoadLive, Credits!Accept, Credits!Decide, Credits!Release, Credits!flows
<1>1. \A d \in ThreadSet : thread' = [thread EXCEPT ![t] = d] /\ ThreadInv(t, d)
                           => FlowTypes' /\ SlotsInv' /\ ThreadsInv'
  BY <1>0, ThreadMoves, Zenon
(* A call that is over. *)
<1>2. ASSUME c.pc \notin GatePcs, Credits!Done(t) PROVE FlowTypes' /\ SlotsInv' /\ ThreadsInv'
  <2> DEFINE d == Credits!Idle(c.calls)
  <2>1. d \in ThreadSet /\ d.pc = "idle"
    BY <1>0 DEF ThreadSet, Credits!Idle, CreditSizes
  <2>2. thread' = [thread EXCEPT ![t] = d]
    BY <1>2, Zenon DEF Credits!Done
  <2> HIDE DEF d
  <2>3. ThreadInv(t, d)
    BY <1>0, <1>2, <2>1 DEF ThreadInv, GatePcs, FlowPcs
  <2> QED
    BY <1>1, <2>1, <2>2, <2>3, Zenon
(* A step that changes the place of the thread and the word it observed. *)
<1>3. ASSUME NEW pc \in {"live", "decide"}, NEW o \in Nat, c.pc \notin GatePcs,
             thread' = [thread EXCEPT ![t] = [c EXCEPT !.pc = pc, !.observed = o]]
      PROVE  FlowTypes' /\ SlotsInv' /\ ThreadsInv'
  <2> DEFINE d == [c EXCEPT !.pc = pc, !.observed = o]
  <2>1. d \in ThreadSet /\ d.pc = pc
    BY <1>0, Zenon DEF ThreadSet
  <2> HIDE DEF d
  <2>2. ThreadInv(t, d)
    BY <1>0, <1>3, <2>1 DEF ThreadInv, GatePcs, FlowPcs
  <2> QED
    BY <1>1, <1>3, <2>1, <2>2, Zenon DEF d
<1>4. ASSUME NEW call \in {"start", "grant", "consume", "accept", "release"}, NEW s \in Sockets \cup {"empty"},
             NEW n \in 0 .. MaxCredit, Credits!Call(t, call, s, n),
             call \in {"start", "grant", "consume"} => s \in Sockets
      PROVE  FlowTypes' /\ SlotsInv' /\ ThreadsInv'
  <2> DEFINE d == [Credits!Idle(c.calls + 1) EXCEPT !.pc = call, !.call = call, !.fd = s, !.bytes = n]
  <2>1. d \in ThreadSet /\ d.pc = call /\ d.fd = s
    <3> DEFINE e == Credits!Idle(c.calls + 1)
    <3>1. e \in ThreadSet
      BY <1>0 DEF ThreadSet, CreditSizes, Credits!Idle
    <3> HIDE DEF e
    <3>2. [e EXCEPT !.pc = call, !.call = call, !.fd = s, !.bytes = n] \in ThreadSet
      BY <3>1, Zenon DEF ThreadSet, FlowPcs
    <3>3. [e EXCEPT !.pc = call, !.call = call, !.fd = s, !.bytes = n].pc = call
      BY <3>1, Zenon DEF ThreadSet
    <3>4. [e EXCEPT !.pc = call, !.call = call, !.fd = s, !.bytes = n].fd = s
      BY <3>1, Zenon DEF ThreadSet
    <3> QED
      BY <3>2, <3>3, <3>4, Zenon DEF e
  <2>2. c.pc = "idle" /\ thread' = [thread EXCEPT ![t] = d]
    BY <1>0, <1>4, Zenon DEF Credits!Call, FlowTypes
  <2> HIDE DEF d
  <2>3. ThreadInv(t, d)
    BY <1>0, <1>4, <2>1, <2>2 DEF ThreadInv, GatePcs, FlowPcs
  <2> QED
    BY <1>1, <2>1, <2>2, <2>3, Zenon
<1>5. CASE \E call \in {"start", "grant", "consume"}, s \in Sockets, n \in Amounts :
              Credits!Call(t, call, s, n)
  BY <1>4, <1>5 DEF CreditSizes
<1>6. CASE \E call \in {"accept", "release"} : Credits!Call(t, call, "empty", 0)
  BY <1>4, <1>6 DEF CreditSizes
<1>7. CASE Credits!NotFound(t)
  <2> DEFINE d == [c EXCEPT !.pc = "reserve"]
  <2>1. d \in ThreadSet /\ d.pc = "reserve" /\ d.fd = c.fd
    BY <1>0 DEF ThreadSet, FlowPcs, GatePcs
  <2>2. c.pc = "search" /\ thread' = [thread EXCEPT ![t] = d] /\ \A i \in Slots : fd_bits[i] # c.fd
    BY <1>0, <1>7, SMTT(30) DEF Credits!NotFound, Credits!Step, Credits!find, Credits!Slots, Slots, FlowTypes
  <2> HIDE DEF d
  <2>3. ThreadInv(t, d)
    BY <1>0, <2>1, <2>2 DEF ThreadInv, GatePcs, FlowPcs
  <2> QED
    BY <1>1, <2>1, <2>2, <2>3, Zenon
<1>8. CASE Credits!LoadCredit(t)
  <2>1. c.pc \in {"grant", "consume"}
    BY <1>8, Zenon DEF Credits!LoadCredit
  <2>2. CASE Credits!find(c.fd) = {}
    BY <1>2, <1>8, <2>1, <2>2 DEF Credits!LoadCredit, GatePcs
  <2>3. CASE Credits!find(c.fd) # {}
    <3>1. PICK i \in Credits!find(c.fd) :
               thread' = [thread EXCEPT ![t].pc = "exchange", ![t].slot = i, ![t].observed = credit_bytes[i]]
      BY <1>8, <2>3, Zenon DEF Credits!LoadCredit
    <3> DEFINE d == [c EXCEPT !.pc = "exchange", !.slot = i, !.observed = credit_bytes[i]]
    <3>2. i \in Slots /\ i \in 0 .. MaxFlows /\ fd_bits[i] = c.fd
      BY DEF Credits!find, Credits!Slots, Slots
    <3>3. credit_bytes[i] \in 0 .. MaxCredit /\ credit_bytes[i] \in Nat /\ credit_bytes[i] <= MaxCredit
      BY <1>0, <3>2 DEF FlowTypes, CreditSizes
    <3>4. /\ d \in ThreadSet /\ d.pc = "exchange" /\ d.slot = i /\ d.observed = credit_bytes[i]
          /\ d.fd = c.fd
      BY <1>0, <3>2, <3>3, Zenon DEF ThreadSet, FlowPcs
    <3>5. thread' = [thread EXCEPT ![t] = d]
      BY <1>0, <3>1, Zenon DEF FlowTypes
    <3> HIDE DEF d
    <3>6. ThreadInv(t, d)
      BY <1>0, <2>1, <3>2, <3>3, <3>4 DEF ThreadInv, GatePcs, FlowPcs
    <3> QED
      BY <1>1, <3>4, <3>5, <3>6, Zenon
  <2> QED
    BY <2>2, <2>3, Zenon
<1>9. CASE Credits!LoadLive(t)
  <2>1. c.pc \notin GatePcs
    BY <1>9 DEF Credits!LoadLive, GatePcs
  <2>2. CASE Credits!Done(t)
    BY <1>2, <2>1, <2>2, Zenon
  <2>3. CASE thread' = [thread EXCEPT ![t].pc = "live", ![t].observed = live_connections]
    <3>1. live_connections \in Nat
      BY <1>0 DEF AdmissionInv, CreditSizes
    <3>2. thread' = [thread EXCEPT ![t] = [c EXCEPT !.pc = "live", !.observed = live_connections]]
      BY <1>0, <2>3, Zenon DEF FlowTypes
    <3> QED
      BY <1>3, <2>1, <3>1, <3>2, Zenon
  <2> QED
    BY <1>9, <2>2, <2>3, Zenon DEF Credits!LoadLive
<1>10. CASE Credits!Accept(t) \/ Credits!Decide(t) \/ Credits!Release(t)
  <2>1. c.pc \in {"live", "decide"} /\ c.pc \notin GatePcs /\ c.observed \in Nat
    BY <1>0, <1>10 DEF Credits!Accept, Credits!Decide, Credits!Release, GatePcs, ThreadSet
  <2>2. CASE Credits!Done(t)
    BY <1>2, <2>1, <2>2, Zenon
  <2>3. CASE Credits!Step(t, "decide")
    <3>1. thread' = [thread EXCEPT ![t] = [c EXCEPT !.pc = "decide", !.observed = c.observed]]
      BY <1>0, <2>3, Zenon DEF FlowTypes, Credits!Step, ThreadSet
    <3> QED
      BY <1>3, <2>1, <3>1, Zenon
  <2>4. CASE thread' = [thread EXCEPT ![t].observed = live_connections] /\ c.pc = "live"
    <3>1. live_connections \in Nat
      BY <1>0 DEF AdmissionInv, CreditSizes
    <3>2. thread' = [thread EXCEPT ![t] = [c EXCEPT !.pc = "live", !.observed = live_connections]]
      BY <1>0, <2>4, Zenon DEF FlowTypes, ThreadSet
    <3> QED
      BY <1>3, <2>1, <3>1, <3>2, Zenon
  <2> QED
    BY <1>10, <2>2, <2>3, <2>4, Zenon DEF Credits!Accept, Credits!Decide, Credits!Release
<1> QED
  BY <1>5, <1>6, <1>7, <1>8, <1>9, <1>10, Zenon

(* The steps of start_flow under the gate, from its entry to the key that
   is published last, and the exchange of a grant or a consume. *)
LEMMA FlowStep ==
    ASSUME CreditSizes, LeastNumber, BackpressureInv, NEW t \in Threads,
           \/ Credits!EnterStart(t) \/ Credits!Restart(t) \/ Credits!ReserveSlot(t)
           \/ Credits!StoreCredit(t) \/ Credits!PublishFlow(t) \/ Credits!ExchangeCredit(t)
    PROVE  FlowTypes' /\ SlotsInv' /\ ThreadsInv'
<1> DEFINE c == thread[t]
<1> USE DEF Credits!Empty, Credits!Reserved
<1>0. FlowTypes /\ SlotsInv /\ ThreadsInv /\ c \in ThreadSet /\ ThreadInv(t, c)
  BY Zenon DEF BackpressureInv, FlowTypes, ThreadsInv
<1>1. /\ t # "free" /\ "empty" \notin Sockets /\ "reserved" \notin Sockets
      /\ c.bytes \in 0 .. MaxCredit /\ c.bytes \in Nat /\ c.calls \in Nat
  BY <1>0 DEF CreditSizes, ThreadSet
(* The other threads know what they knew, and the one that moves what it has to. *)
<1>2. ASSUME NEW d \in ThreadSet, thread' = [thread EXCEPT ![t] = d], ThreadInv(t, d)',
             \A u \in Threads \ {t} : \A x \in ThreadSet : ThreadInv(u, x) => ThreadInv(u, x)'
      PROVE  ThreadsInv' /\ thread' \in [Threads -> ThreadSet]
  <2>1. thread' \in [Threads -> ThreadSet]
    BY <1>0, <1>2, Zenon DEF FlowTypes
  <2>2. ASSUME NEW u \in Threads PROVE ThreadInv(u, thread[u])'
    <3>1. CASE u = t
      <4>1. thread'[u] = d
        BY <1>0, <1>2, <3>1, Zenon DEF FlowTypes
      <4> QED
        BY <1>2, <3>1, <4>1, Zenon DEF ThreadInv
    <3>2. CASE u # t
      <4>1. thread'[u] = thread[u] /\ thread[u] \in ThreadSet /\ ThreadInv(u, thread[u])
        BY <1>0, <1>2, <3>2, Zenon DEF FlowTypes, ThreadsInv
      <4>2. PICK x \in ThreadSet : x = thread[u] /\ ThreadInv(u, x)
        BY <4>1, Zenon
      <4>3. ThreadInv(u, x)'
        BY <1>2, <3>2, <4>2, Zenon
      <4> QED
        BY <4>1, <4>2, <4>3, Zenon DEF ThreadInv
    <3> QED
      BY <3>1, <3>2, Zenon
  <2> QED
    BY <2>1, <2>2, Zenon DEF ThreadsInv
(* A call that ends. *)
<1>3. ASSUME Credits!Done(t) 
      PROVE  \E d \in ThreadSet : d.pc = "idle" /\ thread' = [thread EXCEPT ![t] = d]
  <2> DEFINE e == Credits!Idle(c.calls)
  <2>1. e \in ThreadSet /\ e.pc = "idle"
    BY <1>1 DEF ThreadSet, Credits!Idle, CreditSizes
  <2>2. thread' = [thread EXCEPT ![t] = e]
    BY <1>0, <1>3, Zenon DEF Credits!Done, FlowTypes
  <2> HIDE DEF e
  <2> QED
    BY <2>1, <2>2, Zenon
<1>4. ASSUME NEW d \in ThreadSet, d.pc = "idle", start_gate' # t PROVE ThreadInv(t, d)'
  BY <1>4 DEF ThreadInv, GatePcs, FlowPcs
(* Under the gate, no other thread is, and no socket loses its slot. *)
<1>5. ASSUME c.pc \in GatePcs \/ start_gate = "free", start_gate' \in {t, "free"},
             \A i \in Slots : fd_bits[i] \in Sockets => fd_bits'[i] = fd_bits[i],
             NEW u \in Threads \ {t}, NEW x \in ThreadSet, ThreadInv(u, x)
      PROVE  ThreadInv(u, x)'
  <2>1. u # "free" /\ u # t
    BY DEF CreditSizes
  <2>2. start_gate # u /\ start_gate' # u
    BY <1>0, <1>1, <1>5, <2>1, Zenon DEF ThreadInv
  <2>3. x.pc \notin GatePcs
    BY <1>5, <2>2, Zenon DEF ThreadInv
  <2>4. x.pc = "exchange" => x.fd \in Sockets /\ fd_bits'[x.slot] = x.fd
    BY <1>5, Zenon DEF ThreadInv, FlowPcs
  <2> QED
    BY <1>5, <2>2, <2>3, <2>4 DEF ThreadInv, GatePcs
<1>6. CASE Credits!EnterStart(t)
  <2>1. /\ c.pc = "start" /\ start_gate = "free" /\ start_gate' = t
        /\ thread' = [thread EXCEPT ![t] = [c EXCEPT !.pc = "search"]]
        /\ UNCHANGED <<fd_bits, credit_bytes, balance>>
    BY <1>0, <1>6, Zenon DEF Credits!EnterStart, Credits!Step, FlowTypes
  <2>2. [c EXCEPT !.pc = "search"] \in ThreadSet
    BY <1>0, Zenon DEF ThreadSet, FlowPcs, GatePcs
  <2>3. PICK d \in ThreadSet : d = [c EXCEPT !.pc = "search"]
    BY <2>2, Zenon
  <2>4. d.pc = "search" /\ d.fd \in Sockets
    BY <1>0, <2>1, <2>3 DEF ThreadSet, ThreadInv, FlowPcs
  <2>5. ThreadInv(t, d)'
    BY <2>1, <2>4 DEF ThreadInv, GatePcs, FlowPcs
  <2>6. ThreadsInv' /\ thread' \in [Threads -> ThreadSet]
    BY <1>2, <1>5, <2>1, <2>3, <2>5, Zenon
  <2> QED
    BY <1>0, <2>1, <2>6 DEF FlowTypes, SlotsInv
<1>7. CASE Credits!Restart(t)
  <2> DEFINE m == Credits!Min(Credits!find(c.fd))
  <2>1. /\ c.pc = "search" /\ start_gate' = "free" /\ Credits!Done(t) /\ UNCHANGED fd_bits
        /\ credit_bytes' = [credit_bytes EXCEPT ![m] = c.bytes]
        /\ balance' = [balance EXCEPT ![c.fd] = c.bytes]
        /\ Credits!find(c.fd) # {}
    BY <1>7, Zenon DEF Credits!Restart
  <2>2. m \in Slots /\ fd_bits[m] = c.fd /\ c.fd \in Sockets
    BY <1>0, <2>1, FirstSlot, Zenon DEF ThreadInv, FlowPcs, GatePcs
  <2> HIDE DEF m
  <2>3. PICK d \in ThreadSet : d.pc = "idle" /\ thread' = [thread EXCEPT ![t] = d]
    BY <1>3, <2>1, Zenon
  <2>4. ThreadsInv' /\ thread' \in [Threads -> ThreadSet]
    <3>1. c.pc \in GatePcs /\ start_gate' # t
      BY <1>1, <2>1, Zenon DEF GatePcs
    <3> QED
      BY <1>2, <1>4, <1>5, <2>1, <2>3, <3>1, Zenon
  <2>5. SlotsInv'
    BY <1>0, <2>1, <2>2 DEF SlotsInv, FlowTypes
  <2>6. FlowTypes'
    BY <1>0, <1>1, <2>1, <2>2, <2>4 DEF FlowTypes
  <2> QED
    BY <2>4, <2>5, <2>6, Zenon
<1>8. CASE Credits!ReserveSlot(t)
  <2> DEFINE m == Credits!Min(Credits!find("empty"))
  <2>1. /\ c.pc = "reserve" /\ UNCHANGED <<credit_bytes, balance>>
    BY <1>8, Zenon DEF Credits!ReserveSlot
  <2>2. CASE Credits!find("empty") = {}
    <3>1. start_gate' = "free" /\ Credits!Done(t) /\ UNCHANGED fd_bits
      BY <1>8, <2>2, Zenon DEF Credits!ReserveSlot
    <3>2. PICK d \in ThreadSet : d.pc = "idle" /\ thread' = [thread EXCEPT ![t] = d]
      BY <1>3, <3>1, Zenon
    <3>3. c.pc \in GatePcs /\ start_gate' # t
      BY <1>1, <2>1, <3>1, Zenon DEF GatePcs
    <3>4. ThreadsInv' /\ thread' \in [Threads -> ThreadSet]
      BY <1>2, <1>4, <1>5, <3>1, <3>2, <3>3, Zenon
    <3> QED
      BY <1>0, <2>1, <3>1, <3>4 DEF FlowTypes, SlotsInv
  <2>3. CASE Credits!find("empty") # {}
    <3>1. /\ fd_bits' = [fd_bits EXCEPT ![m] = "reserved"] /\ UNCHANGED start_gate
          /\ thread' = [thread EXCEPT ![t].pc = "credit", ![t].slot = m]
      BY <1>8, <2>3, Zenon DEF Credits!ReserveSlot
    <3>2. m \in Slots /\ fd_bits[m] = "empty" /\ m \in 0 .. MaxFlows
      BY <2>3, FirstSlot DEF Slots
    <3> HIDE DEF m
    <3>3. [c EXCEPT !.pc = "credit", !.slot = m] \in ThreadSet
      BY <1>0, <3>2, Zenon DEF ThreadSet, FlowPcs, GatePcs
    <3>4. PICK d \in ThreadSet : d = [c EXCEPT !.pc = "credit", !.slot = m]
      BY <3>3, Zenon
    <3>5. d.pc = "credit" /\ d.slot = m /\ d.fd = c.fd /\ thread' = [thread EXCEPT ![t] = d]
      <4>1. d.pc = "credit" /\ d.slot = m /\ d.fd = c.fd
        BY <1>0, <3>4 DEF ThreadSet
      <4>2. thread' = [thread EXCEPT ![t] = [c EXCEPT !.pc = "credit", !.slot = m]]
        BY <1>0, <3>1, Zenon DEF FlowTypes
      <4> QED
        BY <3>4, <4>1, <4>2, Zenon
    <3>6. \A i \in Slots : fd_bits'[i] = IF i = m THEN "reserved" ELSE fd_bits[i]
      BY <1>0, <3>1, Zenon DEF FlowTypes
    <3>7. c.fd \in Sockets /\ start_gate = t /\ \A i \in Slots : fd_bits[i] # c.fd
      BY <1>0, <2>1, Zenon DEF ThreadInv, FlowPcs, GatePcs
    <3>8. ThreadInv(t, d)'
      BY <1>1, <3>1, <3>2, <3>5, <3>6, <3>7 DEF ThreadInv, GatePcs, FlowPcs
    <3>9. \A i \in Slots : fd_bits[i] \in Sockets => fd_bits'[i] = fd_bits[i]
      BY <1>1, <3>2, <3>6, Zenon
    <3>10. ThreadsInv' /\ thread' \in [Threads -> ThreadSet]
      BY <1>2, <1>5, <2>1, <3>1, <3>5, <3>7, <3>8, <3>9, Zenon DEF GatePcs
    <3>11. SlotsInv'
      BY <1>0, <1>1, <2>1, <3>6 DEF SlotsInv
    <3>12. FlowTypes'
      BY <1>0, <2>1, <3>1, <3>2, <3>10 DEF FlowTypes
    <3> QED
      BY <3>10, <3>11, <3>12, Zenon
  <2> QED
    BY <2>2, <2>3, Zenon
<1>9. CASE Credits!StoreCredit(t)
  <2>1. /\ c.pc = "credit" /\ UNCHANGED <<fd_bits, start_gate, balance>>
        /\ credit_bytes' = [credit_bytes EXCEPT ![c.slot] = c.bytes]
        /\ thread' = [thread EXCEPT ![t] = [c EXCEPT !.pc = "publish"]]
    BY <1>0, <1>9, Zenon DEF Credits!StoreCredit, Credits!Step, FlowTypes
  <2>2. /\ c.slot \in Slots /\ fd_bits[c.slot] = "reserved" /\ c.fd \in Sockets /\ start_gate = t
        /\ \A i \in Slots : fd_bits[i] # c.fd
    BY <1>0, <2>1, Zenon DEF ThreadInv, FlowPcs, GatePcs
  <2>3. [c EXCEPT !.pc = "publish"] \in ThreadSet
    BY <1>0, Zenon DEF ThreadSet, FlowPcs, GatePcs
  <2>4. PICK d \in ThreadSet : d = [c EXCEPT !.pc = "publish"]
    BY <2>3, Zenon
  <2>5. d.pc = "publish" /\ d.slot = c.slot /\ d.fd = c.fd /\ d.bytes = c.bytes
    BY <1>0, <2>4, Zenon DEF ThreadSet
  <2>6. \A i \in Slots : credit_bytes'[i] = IF i = c.slot THEN c.bytes ELSE credit_bytes[i]
    BY <1>0, <2>1, Zenon DEF FlowTypes
  <2>7. ThreadInv(t, d)'
    BY <2>1, <2>2, <2>5, <2>6 DEF ThreadInv, GatePcs, FlowPcs
  <2>8. ThreadsInv' /\ thread' \in [Threads -> ThreadSet]
    BY <1>2, <1>5, <2>1, <2>2, <2>4, <2>7, Zenon DEF GatePcs
  <2>9. SlotsInv'
    BY <1>0, <1>1, <2>1, <2>2, <2>6 DEF SlotsInv
  <2>10. FlowTypes'
    BY <1>0, <1>1, <2>1, <2>2, <2>8 DEF FlowTypes
  <2> QED
    BY <2>8, <2>9, <2>10, Zenon
<1>10. CASE Credits!PublishFlow(t)
  <2>1. /\ c.pc = "publish" /\ start_gate' = "free" /\ Credits!Done(t) /\ UNCHANGED credit_bytes
        /\ fd_bits' = [fd_bits EXCEPT ![c.slot] = c.fd]
        /\ balance' = [balance EXCEPT ![c.fd] = c.bytes]
    BY <1>10, Zenon DEF Credits!PublishFlow
  <2>2. /\ c.slot \in Slots /\ fd_bits[c.slot] = "reserved" /\ c.fd \in Sockets
        /\ \A i \in Slots : fd_bits[i] # c.fd
        /\ credit_bytes[c.slot] = c.bytes
    BY <1>0, <2>1, Zenon DEF ThreadInv, FlowPcs, GatePcs
  <2>3. PICK d \in ThreadSet : d.pc = "idle" /\ thread' = [thread EXCEPT ![t] = d]
    BY <1>3, <2>1, Zenon
  <2>4. \A i \in Slots : fd_bits'[i] = IF i = c.slot THEN c.fd ELSE fd_bits[i]
    BY <1>0, <2>1, Zenon DEF FlowTypes
  <2>5. \A i \in Slots : fd_bits[i] \in Sockets => fd_bits'[i] = fd_bits[i]
    BY <1>1, <2>2, <2>4, Zenon
  <2>6. ThreadsInv' /\ thread' \in [Threads -> ThreadSet]
    <3>1. c.pc \in GatePcs /\ start_gate' # t
      BY <1>1, <2>1, Zenon DEF GatePcs
    <3> QED
      BY <1>2, <1>4, <1>5, <2>1, <2>3, <2>5, <3>1, Zenon
  <2>7. \A s \in Sockets : balance'[s] = IF s = c.fd THEN c.bytes ELSE balance[s]
    BY <1>0, <2>1, Zenon DEF FlowTypes
  <2>8. SlotsInv'
    BY <1>0, <2>1, <2>2, <2>4, <2>7 DEF SlotsInv
  <2>9. FlowTypes'
    BY <1>0, <1>1, <2>1, <2>2, <2>6 DEF FlowTypes
  <2> QED
    BY <2>6, <2>8, <2>9, Zenon
(* The word still holds what was observed, and that is the balance. *)
<1>11. CASE Credits!ExchangeCredit(t)
  <2>1. /\ c.pc = "exchange" /\ UNCHANGED <<fd_bits, start_gate>>
        /\ c.slot \in Slots /\ fd_bits[c.slot] = c.fd /\ c.observed <= MaxCredit /\ c.fd \in Sockets
        /\ c.observed \in Nat /\ start_gate # t
    BY <1>0, <1>11, Zenon DEF Credits!ExchangeCredit, ThreadInv, ThreadSet, FlowPcs, GatePcs
  <2>2. CASE Credits!Done(t) /\ UNCHANGED <<credit_bytes, balance>>
    <3>1. PICK d \in ThreadSet : d.pc = "idle" /\ thread' = [thread EXCEPT ![t] = d]
      BY <1>3, <2>2, Zenon
    <3>2. \A u \in Threads : \A x \in ThreadSet : ThreadInv(u, x) => ThreadInv(u, x)'
      BY <2>1, <2>2, Zenon DEF ThreadInv
    <3>3. ThreadsInv' /\ thread' \in [Threads -> ThreadSet]
      BY <1>2, <1>4, <2>1, <3>1, <3>2, Zenon
    <3> QED
      BY <1>0, <2>1, <2>2, <3>3 DEF FlowTypes, SlotsInv
  <2>3. CASE /\ thread' = [thread EXCEPT ![t].observed = credit_bytes[c.slot]]
             /\ UNCHANGED <<credit_bytes, balance>>
    <3>1. credit_bytes[c.slot] \in Nat /\ credit_bytes[c.slot] <= MaxCredit
      BY <1>0, <2>1 DEF FlowTypes, CreditSizes
    <3>2. [c EXCEPT !.observed = credit_bytes[c.slot]] \in ThreadSet
      BY <1>0, <3>1, Zenon DEF ThreadSet
    <3>3. PICK d \in ThreadSet : d = [c EXCEPT !.observed = credit_bytes[c.slot]]
      BY <3>2, Zenon
    <3>4. /\ d.pc = "exchange" /\ d.slot = c.slot /\ d.fd = c.fd /\ d.observed <= MaxCredit
          /\ thread' = [thread EXCEPT ![t] = d]
      BY <1>0, <2>1, <2>3, <3>1, <3>3, Zenon DEF ThreadSet, FlowTypes
    <3>5. ThreadInv(t, d)'
      BY <2>1, <3>4 DEF ThreadInv, GatePcs, FlowPcs
    <3>6. \A u \in Threads : \A x \in ThreadSet : ThreadInv(u, x) => ThreadInv(u, x)'
      BY <2>1, <2>3, Zenon DEF ThreadInv
    <3>7. ThreadsInv' /\ thread' \in [Threads -> ThreadSet]
      BY <1>2, <3>4, <3>5, <3>6, Zenon
    <3> QED
      BY <1>0, <2>1, <2>3, <3>7 DEF FlowTypes, SlotsInv
  <2>4. CASE /\ Credits!Fits(c) /\ credit_bytes[c.slot] = c.observed
             /\ credit_bytes' = [credit_bytes EXCEPT ![c.slot] = Credits!Moved(c, c.observed)]
             /\ balance' = [balance EXCEPT ![c.fd] = Credits!Moved(c, @)]
             /\ Credits!Done(t)
    <3>1. balance[c.fd] = c.observed
      BY <1>0, <2>1, <2>4, Zenon DEF SlotsInv
    <3>2. PICK k \in 0 .. MaxCredit : k = Credits!Moved(c, c.observed)
      BY <1>1, <2>1, <2>4 DEF Credits!Fits, Credits!Moved, CreditSizes
    <3>3. /\ \A i \in Slots : credit_bytes'[i] = IF i = c.slot THEN k ELSE credit_bytes[i]
          /\ \A s \in Sockets : balance'[s] = IF s = c.fd THEN k ELSE balance[s]
      <4>1. balance' = [balance EXCEPT ![c.fd] = k]
        BY <2>4, <3>1, <3>2, Zenon
      <4>2. credit_bytes' = [credit_bytes EXCEPT ![c.slot] = k]
        BY <2>4, <3>2, Zenon
      <4> QED
        BY <1>0, <4>1, <4>2, Zenon DEF FlowTypes
    <3>4. PICK d \in ThreadSet : d.pc = "idle" /\ thread' = [thread EXCEPT ![t] = d]
      BY <1>3, <2>4, Zenon
    <3>5. ASSUME NEW u \in Threads \ {t}, NEW x \in ThreadSet, ThreadInv(u, x) PROVE ThreadInv(u, x)'
      <4>1. x.pc = "publish" => credit_bytes'[x.slot] = x.bytes
        <5>1. x.pc = "publish" => /\ x.slot \in Slots /\ fd_bits[x.slot] = "reserved"
                                  /\ credit_bytes[x.slot] = x.bytes
          BY <3>5, Zenon DEF ThreadInv
        <5>2. fd_bits[c.slot] # "reserved"
          BY <1>1, <2>1, Zenon
        <5> QED
          BY <3>3, <5>1, <5>2, Zenon
      <4> QED
        BY <2>1, <3>5, <4>1, Zenon DEF ThreadInv
    <3>6. ThreadsInv' /\ thread' \in [Threads -> ThreadSet]
      BY <1>2, <1>4, <2>1, <3>4, <3>5, Zenon
    <3>7. SlotsInv'
      BY <1>0, <2>1, <3>3 DEF SlotsInv
    <3>8. FlowTypes'
      BY <1>0, <2>1, <2>4, <3>1, <3>2, <3>6 DEF FlowTypes, CreditSizes
    <3> QED
      BY <3>6, <3>7, <3>8, Zenon
  <2> QED
    BY <1>11, <2>2, <2>3, <2>4, Zenon DEF Credits!ExchangeCredit
<1> QED
  BY <1>6, <1>7, <1>8, <1>9, <1>10, <1>11, Zenon

(* The compare-exchanges of the count of connections: what an accept or a
   release writes it computed from the word it finds. *)
LEMMA AdmissionStep ==
    ASSUME CreditSizes, BackpressureInv, NEW t \in Threads,
           \/ Credits!Accept(t) \/ Credits!Release(t) \/ UNCHANGED <<live_connections, accepted>>
    PROVE  AdmissionInv'
<1>1. live_connections \in 0 .. MaxConnections /\ accepted = live_connections /\ MaxConnections \in Nat
  BY DEF BackpressureInv, AdmissionInv, CreditSizes
<1>2. \/ UNCHANGED <<live_connections, accepted>>
      \/ live_connections < MaxConnections /\ live_connections' = live_connections + 1 /\ accepted' = accepted + 1
      \/ live_connections # 0 /\ live_connections' = live_connections - 1 /\ accepted' = accepted - 1
  BY Zenon DEF Credits!Accept, Credits!Release
<1> QED
  BY <1>1, <1>2 DEF AdmissionInv

(* Every step keeps the inductive invariant. *)
LEMMA CreditsStep ==
    ASSUME CreditSizes, LeastNumber, BackpressureInv, [Credits!Next]_Credits!vars
    PROVE  BackpressureInv'
<1>1. CASE UNCHANGED Credits!vars
  <2> USE <1>1 DEF Credits!vars
  <2>1. FlowTypes' /\ SlotsInv'
    BY Zenon DEF BackpressureInv, FlowTypes, SlotsInv
  <2>2. ThreadsInv' /\ AdmissionInv'
    BY Zenon DEF BackpressureInv, ThreadsInv, ThreadInv, AdmissionInv
  <2> QED
    BY <2>1, <2>2, Zenon DEF BackpressureInv
<1>2. CASE Credits!Next
  <2>1. PICK t \in Threads :
          \/ \E call \in {"start", "grant", "consume"}, s \in Sockets, n \in Amounts : Credits!Call(t, call, s, n)
          \/ \E call \in {"accept", "release"} : Credits!Call(t, call, "empty", 0)
          \/ Credits!EnterStart(t) \/ Credits!Restart(t) \/ Credits!NotFound(t) \/ Credits!ReserveSlot(t)
          \/ Credits!StoreCredit(t) \/ Credits!PublishFlow(t) \/ Credits!LoadCredit(t)
          \/ Credits!ExchangeCredit(t) \/ Credits!LoadLive(t) \/ Credits!Accept(t) \/ Credits!Decide(t)
          \/ Credits!Release(t)
    BY <1>2, Zenon DEF Credits!Next, Credits!Empty
  <2>2. FlowTypes' /\ SlotsInv' /\ ThreadsInv'
    BY <2>1, LocalStep, FlowStep, Zenon
  <2>3. Credits!Accept(t) \/ Credits!Release(t) \/ UNCHANGED <<live_connections, accepted>>
    BY <2>1, Zenon DEF Credits!Call, Credits!EnterStart, Credits!Restart, Credits!NotFound, Credits!ReserveSlot,
       Credits!StoreCredit, Credits!PublishFlow, Credits!LoadCredit, Credits!ExchangeCredit, Credits!LoadLive,
       Credits!Decide, Credits!admission
  <2>4. AdmissionInv'
    BY <2>3, AdmissionStep, Zenon
  <2> QED
    BY <2>2, <2>4, Zenon DEF BackpressureInv
<1> QED
  BY <1>1, <1>2, Zenon

F == INSTANCE FiniteSetTheorems
W == INSTANCE WellFoundedInduction

(* What the producers and the acceptors rely on follows from it. *)
LEMMA CreditsState == ASSUME CreditSizes, BackpressureInv PROVE Credits!CreditsInv
<1> USE DEF Credits!Empty, Credits!Reserved, Credits!Slots, Slots
<1>0. FlowTypes /\ SlotsInv /\ AdmissionInv
  BY Zenon DEF BackpressureInv
<1>1. Credits!TypeOK
  BY <1>0 DEF Credits!TypeOK, FlowTypes, AdmissionInv
<1>2. Credits!CreditIsBalance
  BY <1>0, Zenon DEF Credits!CreditIsBalance, SlotsInv
<1>3. Credits!LiveIsAccepted
  BY <1>0, Zenon DEF Credits!LiveIsAccepted, AdmissionInv
<1>4. Credits!OneSlotPerSocket
  <2> SUFFICES ASSUME NEW s \in Sockets PROVE Credits!Cardinality(Credits!find(s)) <= 1
    BY Zenon DEF Credits!OneSlotPerSocket
  <2>1. CASE Credits!find(s) = {}
    <3>1. Credits!Cardinality({}) = 0
      BY F!FS_EmptySet, Zenon DEF F!Cardinality, Credits!Cardinality
    <3> QED
      BY <2>1, <3>1
  <2>2. CASE Credits!find(s) # {}
    <3>1. PICK i : Credits!find(s) = {i}
      <4>1. PICK i \in Credits!find(s) : TRUE
        BY <2>2, Zenon
      <4>2. \A j \in Credits!find(s) : j = i
        BY <1>0, <4>1, Zenon DEF Credits!find, SlotsInv
      <4> QED
        BY <4>1, <4>2, Zenon
    <3>2. Credits!Cardinality({i}) = 1
      BY F!FS_Singleton, Zenon DEF F!Cardinality, Credits!Cardinality
    <3> QED
      BY <3>1, <3>2
  <2> QED
    BY <2>1, <2>2, Zenon
<1> QED
  BY <1>1, <1>2, <1>3, <1>4, Zenon DEF Credits!CreditsInv

(* A set of natural numbers has a least one: its order is well founded. *)
LEMMA LeastHolds == LeastNumber
<1> SUFFICES ASSUME NEW S \in SUBSET Nat, S # {} PROVE \E n \in S : \A m \in S : n <= m
  BY Zenon DEF LeastNumber
<1> DEFINE R == W!OpToRel(<, Nat)
<1>1. W!IsWellFoundedOn(R, Nat)
  BY W!NatLessThanWellFounded, Zenon
<1>2. \A a, b \in Nat : a < b => <<a, b>> \in R
  BY DEF W!OpToRel
<1> HIDE DEF R
<1>3. PICK x \in S : \A y \in S : ~ (<<y, x>> \in R)
  BY <1>1, W!WFMin, Zenon
<1>4. ASSUME NEW y \in S PROVE x <= y
  <2>1. x \in Nat /\ y \in Nat
    OBVIOUS
  <2>2. ~(y < x)
    BY <1>2, <1>3, <2>1, Zenon
  <2> QED
    BY <2>1, <2>2
<1> QED
  BY <1>4

(* For every table of flows, every word size and every number of threads and
   sockets: a socket has one slot, the credit in it is what the last start
   gave and the grants and consumes since then left, and the live count is
   the accepts less the releases and stays within the limit
   (BackpressureRuntime.h: start_flow, grant_credit, consume_credit,
   try_accept_connection, release_connection). *)
THEOREM CreditsAreKept == ASSUME CreditSizes PROVE Credits!Spec => []Credits!CreditsInv
<1>1. Credits!Init => BackpressureInv
  BY CreditsInit, Zenon
<1>2. BackpressureInv /\ [Credits!Next]_Credits!vars => BackpressureInv'
  BY CreditsStep, LeastHolds, Zenon
<1>3. BackpressureInv => Credits!CreditsInv
  BY CreditsState, Zenon
<1> QED
  BY <1>1, <1>2, <1>3, PTL DEF Credits!Spec
=============================================================================
