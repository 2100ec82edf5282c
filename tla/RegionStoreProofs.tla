-------------------------- MODULE RegionStoreProofs -------------------------
(***************************************************************************)
(* No region is freed under a reader, for every size of the table, of the  *)
(* log, of the cache and of the compile queue.                             *)
(*                                                                         *)
(* The argument.  A region leaves the view of the foreground only when the *)
(* stage publishes past it, and the sweep then notes the generation, the   *)
(* number of complete writes at the time the stage read the cells.  It     *)
(* frees the region at a later generation that does not name it.  A region *)
(* the foreground holds is therefore named in the last complete write, or  *)
(* the foreground took it since that write, and then it had not left at    *)
(* that write (HeldSafe).  The sweep may run long after the cells were     *)
(* read; what the foreground took in between was in the publication slot,  *)
(* so it is the region published last, which no sweep frees (SweepSafe).   *)
(***************************************************************************)
EXTENDS RegionStore, TransactionOpsProofs

\* A region or a null pointer.
Optional == Regions \cup {None}

\* The foreground holds these regions itself; restored is on its way to the
\* context.
Holds == {activation, active, restored} \cup Range(cache)

\* The write of held_regions_ is not in progress: the cells are those of the
\* last complete one.
Quiet == f_pc \notin {"write", "end"}

\* A cell names the region.
Named(r) == \E i \in Cells : cells[i] = r

\* The types of the stage.
StageTypes ==
    /\ built \in 0 .. MaxRegions
    /\ live \subseteq 1 .. built /\ IsFiniteSet(live) /\ Cardinality(live) <= STORE
    /\ left_generation \in [live -> 0 .. MaxWrites \cup {NOT_LEFT}]
    /\ uncompiled \in Seq(live) /\ Len(uncompiled) <= QUEUE
    /\ last_published \in live \cup {None}
    /\ s_pc \in {"idle", "slot", "marks", "sequence", "cells", "recheck", "sweep"}
    /\ s_seq \in Nat /\ s_cell \in Cells /\ s_read \subseteq Optional
    /\ handed \in Optional /\ generation \in Nat
    /\ generation <= sequence \div 2
    /\ s_seq <= sequence
    /\ s_pc \in {"cells", "recheck"} => s_seq % 2 = 0

\* The types of the foreground, where its program counter and the parity of
\* the sequence agree, and where its regions are in the table.
ForegroundTypes ==
    /\ sequence \in 0 .. 2 * MaxWrites
    /\ cells \in [Cells -> Optional]
    /\ f_pc \in {"idle", "job", "restored", "read", "begin", "write", "end"}
    /\ Quiet => sequence % 2 = 0
    /\ ~Quiet => sequence % 2 = 1
    /\ f_pc \in {"job", "restored", "begin"} => sequence < 2 * MaxWrites
    /\ f_cell \in Cells
    /\ cache \in Seq(live) /\ Len(cache) <= CACHE
    /\ {slot, activation, active, restored} \subseteq live \cup {None}
    /\ {active_region, reading} \subseteq Optional
    /\ restored # None => f_pc = "restored"

\* The log is well formed, holds the transactions of published regions, and
\* its regions are in the table.
LogHolds ==
    /\ WellFormed(tx)
    /\ \A i \in DOMAIN tx.ring : tx.ring[i].step \in 1 .. built
    /\ RegionsOf(tx) \subseteq live
    /\ s_pc \in {"sequence", "cells", "recheck", "sweep"} => RegionsOf(tx) \subseteq held

\* A region in the slot, and the one published last, have not left.
SlotInView ==
    /\ slot # None => left_generation[slot] = NOT_LEFT
    /\ last_published # None => left_generation[last_published] = NOT_LEFT
    /\ s_pc # "slot" => slot \in {None, last_published}

\* The write in progress: the cells before f_cell name what they should.
WriteSoFar ==
    /\ f_pc = "write" => \A i \in 1 .. f_cell - 1 : cells[i] = Holder(i)
    /\ f_pc = "end" => \A i \in Cells : cells[i] = Holder(i)

\* What the callback has read is what the cells are, while no write began.
ReadSoFar ==
    sequence = s_seq =>
      /\ s_pc = "cells" => \A i \in 1 .. s_cell - 1 : cells[i] \in s_read
      /\ s_pc = "recheck" => \A i \in Cells : cells[i] \in s_read

\* A region the foreground holds and the last complete write does not name
\* has not left, or left no earlier than that write.
HeldSafe ==
    Quiet => \A r \in Holds \ {None} :
      \/ Named(r) \/ left_generation[r] = NOT_LEFT \/ left_generation[r] >= sequence \div 2

\* No region the foreground holds is one the sweep is about to free; and one
\* the sweep is about to mark as left is in the last complete write, or no
\* write completed since the cells were read.
SweepSafe ==
    s_pc = "sweep" => \A r \in Holds \ {None} :
      /\ r \in held \/ r = last_published \/ left_generation[r] = NOT_LEFT \/ left_generation[r] >= generation
      /\ Quiet => Named(r) \/ r = last_published \/ generation = sequence \div 2

\* The inductive invariant.
StoreInv ==
    /\ StageTypes /\ ForegroundTypes /\ LogHolds /\ SlotInView
    /\ WriteSoFar /\ ReadSoFar /\ HeldSafe /\ SweepSafe

\* What is used of finite sets: the empty one, a subset, one more element.
\* Lemma CountingHolds proves it below from the theorems of the library.
CountingFacts ==
    /\ IsFiniteSet({}) /\ Cardinality({}) = 0
    /\ \A S : IsFiniteSet(S) => Cardinality(S) \in Nat
    /\ \A S, T : IsFiniteSet(S) /\ T \subseteq S => IsFiniteSet(T) /\ Cardinality(T) <= Cardinality(S)
    /\ \A S, x : IsFiniteSet(S) /\ x \notin S =>
         IsFiniteSet(S \cup {x}) /\ Cardinality(S \cup {x}) = Cardinality(S) + 1

\* One more element.
LEMMA OneMore ==
    ASSUME CountingFacts, NEW S, IsFiniteSet(S), NEW x, x \notin S
    PROVE  IsFiniteSet(S \cup {x}) /\ Cardinality(S \cup {x}) = Cardinality(S) + 1
<1>1. \A U, y : IsFiniteSet(U) /\ y \notin U =>
        IsFiniteSet(U \cup {y}) /\ Cardinality(U \cup {y}) = Cardinality(U) + 1
  BY Zenon DEF CountingFacts
<1> QED
  BY <1>1, Zenon

\* Part of a sequence.
LEMMA SubSeqProperties ==
    ASSUME NEW S, NEW s \in Seq(S), NEW m \in 1 .. Len(s) + 1, NEW n \in m - 1 .. Len(s)
    PROVE  /\ SubSeq(s, m, n) \in Seq(S) /\ Len(SubSeq(s, m, n)) = n - m + 1
           /\ \A i \in 1 .. n - m + 1 : SubSeq(s, m, n)[i] = s[m + i - 1]
OBVIOUS

\* Range of a sequence, and a sequence over another set.
LEMMA SeqRange ==
    ASSUME NEW S, NEW s \in Seq(S)
    PROVE  /\ Range(s) \subseteq S
           /\ \A T : Range(s) \subseteq T => s \in Seq(T)
           /\ \A i \in DOMAIN s : s[i] \in Range(s)
           /\ \A x \in Range(s) : \E i \in 1 .. Len(s) : s[i] = x
<1>1. /\ Len(s) \in Nat /\ DOMAIN s = 1 .. Len(s) /\ s \in [1 .. Len(s) -> S]
  BY LenProperties
<1>2. ASSUME NEW T, Range(s) \subseteq T PROVE s \in Seq(T)
  <2>1. s \in [1 .. Len(s) -> T]
    BY <1>1, <1>2 DEF Range
  <2> QED
    BY <1>1, <2>1, FunctionSeq
<1> QED
  BY <1>1, <1>2 DEF Range

\* The newest n of a sequence that had at most n and got one more.
LEMMA NewestFacts ==
    ASSUME NEW S, NEW s \in Seq(S), NEW r \in S, NEW n \in Nat \ {0}, Len(s) <= n,
           NEW z, z = Newest(n, Append(s, r))
    PROVE  z \in Seq(S) /\ Len(z) <= n /\ Range(z) \subseteq Range(s) \cup {r}
<1> DEFINE t == Append(s, r)
           k == Len(s)
<1>1. t \in Seq(S) /\ Len(t) = k + 1 /\ k \in Nat /\ DOMAIN s = 1 .. k
      /\ \A i \in 1 .. k + 1 : t[i] = IF i = k + 1 THEN r ELSE s[i]
  BY AppendProperties, LenProperties
<1>2. \A i \in 1 .. k + 1 : t[i] \in Range(s) \cup {r}
  BY <1>1, SeqRange
<1>5. z = Newest(n, t)
  OBVIOUS
<1>6. n \in Nat /\ k <= n /\ n # 0
  OBVIOUS
<1> HIDE DEF t, k
<1>3. CASE k + 1 <= n
  <2>1. z = t
    BY <1>1, <1>3, <1>5 DEF Newest
  <2>2. Range(t) \subseteq Range(s) \cup {r}
    BY <1>1, <1>2, SeqRange
  <2> QED
    BY <1>1, <1>3, <2>1, <2>2
<1>4. CASE ~(k + 1 <= n)
  <2>1. z = SubSeq(t, Len(t) - n + 1, Len(t))
    <3>1. ~(Len(t) <= n)
      BY <1>1, <1>4
    <3> QED
      BY <1>5, <3>1, Zenon DEF Newest
  <2>2. k = n
    BY <1>1, <1>4, <1>6
  <2>6. Len(t) - n + 1 = 2 /\ Len(t) = k + 1
    BY <1>1, <1>6, <2>2
  <2>3. z = SubSeq(t, 2, k + 1)
    BY <2>1, <2>6, Zenon
  <2>4. z \in Seq(S) /\ Len(z) = k /\ \A i \in 1 .. k : z[i] = t[i + 1]
    BY <1>1, <2>2, <2>3, SubSeqProperties, SMTT(30)
  <2>5. Range(z) \subseteq Range(s) \cup {r}
    <3> SUFFICES ASSUME NEW x \in Range(z) PROVE x \in Range(s) \cup {r}
      OBVIOUS
    <3>1. PICK i \in 1 .. Len(z) : z[i] = x
      BY <2>4, SeqRange
    <3>2. i + 1 \in 1 .. k + 1 /\ z[i] = t[i + 1]
      BY <1>1, <2>4
    <3> QED
      BY <1>2, <3>1, <3>2
  <2> QED
    BY <2>2, <2>4, <2>5
<1> QED
  BY <1>3, <1>4

\* What an insertion makes of the cache.
LEMMA InsertedFacts ==
    ASSUME NEW S, NEW c \in Seq(S), NEW r \in S, Len(c) <= CACHE, NEW d \in Inserted(c, r)
    PROVE  d \in Seq(S) /\ Len(d) <= CACHE /\ Range(d) \subseteq Range(c) \cup {r}
<1>1. CACHE \in Nat \ {0}
  BY StoreAssumption
<1>2. d = c \/ d = Newest(CACHE, Append(c, r))
  BY DEF Inserted
<1> QED
  BY <1>1, <1>2, NewestFacts

\* What the foreground holds is in the table, or nothing.
LEMMA HoldsTyped ==
    ASSUME ForegroundTypes
    PROVE  /\ Holds \subseteq live \cup {None}
           /\ Range(cache) \subseteq live
<1>1. Range(cache) \subseteq live
  BY SeqRange DEF ForegroundTypes
<1> QED
  BY <1>1 DEF ForegroundTypes, Holds

\* The null pointer and the generation of a region in view are no numbers.
LEMMA NotARegion == None \notin Nat /\ None \notin Regions /\ NOT_LEFT \notin Nat /\ CACHE \in Nat /\ CACHE > 0
                    /\ MaxWrites \in Nat /\ MaxRegions \in Nat
  BY RingAssumption, StoreAssumption DEF Regions

\* Nothing is published.
LEMMA StoreInit == ASSUME CountingFacts, Init PROVE StoreInv
<1> USE DEF Init
<1>1. IsFiniteSet({}) /\ Cardinality({}) = 0 /\ \A S : << >> \in Seq(S) /\ Len(<< >>) = 0
  BY DEF CountingFacts
<1>2. Range(<< >>) = {}
  BY DEF Range
<1>3. STORE \in Nat /\ QUEUE \in Nat /\ 1 \in Cells
  BY StoreAssumption DEF Cells
<1>4. StageTypes
  <2>1. left_generation \in [live -> 0 .. MaxWrites \cup {NOT_LEFT}]
    OBVIOUS
  <2>2. generation <= sequence \div 2
    OBVIOUS
  <2>3. built \in 0 .. MaxRegions /\ live \subseteq 1 .. built /\ Cardinality(live) <= STORE
        /\ Len(uncompiled) <= QUEUE
    BY <1>1, <1>3, NotARegion
  <2> QED
    BY <1>1, <1>3, <2>1, <2>2, <2>3, SMTT(30) DEF StageTypes, Optional
<1>5. ForegroundTypes
  BY <1>1, <1>3, NotARegion DEF ForegroundTypes, Quiet, Optional
<1>6. EmptyLog.ring = << >> /\ EmptyLog.active = None /\ EmptyLog.displacements = 0
      /\ DOMAIN EmptyLog.ring = {}
  BY DEF EmptyLog
<1>7. WellFormed(EmptyLog)
  <2>1. EmptyLog \in Logs
    BY DEF EmptyLog, Logs
  <2>2. Len(EmptyLog.ring) <= N
    BY <1>6, RingAssumption
  <2> QED
    BY <1>6, <2>1, <2>2, SMTT(30) DEF WellFormed, StepsDistinct, ActiveAgrees, PlacesAgree, RegionsKept
<1>8. RegionsOf(EmptyLog) = {}
  BY <1>6 DEF RegionsOf, Entries
<1>9. LogHolds
  BY <1>6, <1>7, <1>8 DEF LogHolds
<1>10. SlotInView /\ WriteSoFar /\ ReadSoFar /\ SweepSafe
  BY DEF SlotInView, WriteSoFar, ReadSoFar, SweepSafe
<1>11. HeldSafe
  BY <1>2 DEF HeldSafe, Holds
<1> QED
  BY <1>4, <1>5, <1>9, <1>10, <1>11, SMTT(30) DEF StoreInv

\* The table holds regions.
LEMMA LiveRegions == ASSUME StageTypes PROVE live \subseteq Regions
<1>1. built \in Nat /\ built <= MaxRegions /\ live \subseteq 1 .. built /\ MaxRegions \in Nat
  BY NotARegion DEF StageTypes
<1> QED
  BY <1>1 DEF Regions

\* The parts of the invariant a step of the callback cannot touch.
LEMMA CallbackKeeps ==
    ASSUME ForegroundTypes, WriteSoFar, HeldSafe, slot' \in {slot, last_published}, StageTypes,
           UNCHANGED <<table, active_region, sequence, cells, foreground>>
    PROVE  ForegroundTypes' /\ WriteSoFar' /\ HeldSafe' /\ Holds' = Holds /\ Quiet' = Quiet
           /\ \A r : Named(r)' = Named(r)
<1> USE DEF table, foreground, holders
<1>1. ForegroundTypes'
  BY DEF ForegroundTypes, Quiet, StageTypes
<1>2. WriteSoFar'
  BY DEF WriteSoFar, Holder
<1>3. Holds' = Holds /\ (Quiet' = Quiet) /\ (\A r : Named(r)' = Named(r))
  BY DEF Holds, Quiet, Named
<1>4. HeldSafe'
  BY DEF HeldSafe, Holds, Quiet, Named
<1> QED
  BY <1>1, <1>2, <1>3, <1>4, SMTT(30)

\* on_region_ready hands over the region published last.
LEMMA PublishSlotKeeps == ASSUME StoreInv, PublishSlot PROVE StoreInv'
<1>0. /\ StageTypes /\ ForegroundTypes /\ LogHolds /\ SlotInView
      /\ WriteSoFar /\ ReadSoFar /\ HeldSafe /\ SweepSafe
  BY DEF StoreInv
<1>1. /\ s_pc = "slot" /\ slot' = last_published /\ s_pc' = "marks"
      /\ UNCHANGED <<table, active_region, callback, marks, sequence, cells, foreground>>
  BY DEF PublishSlot
<1>2. ForegroundTypes' /\ WriteSoFar' /\ HeldSafe'
  BY <1>0, <1>1, CallbackKeeps, SMTT(30)
<1>3. StageTypes'
  BY <1>0, <1>1, SMTT(30) DEF StageTypes, table, callback, marks
<1>4. LogHolds'
  BY <1>0, <1>1 DEF LogHolds, table
<1>5. SlotInView'
  BY <1>0, <1>1 DEF SlotInView, table
<1>6. ReadSoFar' /\ SweepSafe'
  BY <1>1, SMTT(30) DEF ReadSoFar, SweepSafe
<1> QED
  BY <1>2, <1>3, <1>4, <1>5, <1>6, SMTT(30) DEF StoreInv

\* on_region_ready notes the regions of the log.
LEMMA MarkHandedKeeps == ASSUME StoreInv, MarkHanded PROVE StoreInv'
<1>0. /\ StageTypes /\ ForegroundTypes /\ LogHolds /\ SlotInView
      /\ WriteSoFar /\ ReadSoFar /\ HeldSafe /\ SweepSafe
  BY DEF StoreInv
<1>1. /\ s_pc = "marks" /\ held' = RegionsOf(tx) /\ handed' = slot /\ s_pc' = "sequence"
      /\ UNCHANGED <<table, active_region, callback, generation, slot, sequence, cells, foreground>>
  BY DEF MarkHanded
<1>2. ForegroundTypes' /\ WriteSoFar' /\ HeldSafe'
  BY <1>0, <1>1, CallbackKeeps, SMTT(30)
<1>3. StageTypes'
  <2>1. slot \in Optional
    BY <1>0, LiveRegions, SMTT(30) DEF ForegroundTypes, Optional
  <2> QED
    BY <1>0, <1>1, <2>1, SMTT(30) DEF StageTypes, table, callback
<1>4. LogHolds'
  BY <1>0, <1>1, SMTT(30) DEF LogHolds, table
<1>5. SlotInView'
  BY <1>0, <1>1 DEF SlotInView, table
<1>6. ReadSoFar' /\ SweepSafe'
  BY <1>1, SMTT(30) DEF ReadSoFar, SweepSafe
<1> QED
  BY <1>2, <1>3, <1>4, <1>5, <1>6 DEF StoreInv

\* mark_held_regions_ starts to read the cells.
LEMMA ReadSequenceKeeps == ASSUME StoreInv, ReadSequence PROVE StoreInv'
<1>0. /\ StageTypes /\ ForegroundTypes /\ LogHolds /\ SlotInView
      /\ WriteSoFar /\ ReadSoFar /\ HeldSafe /\ SweepSafe
  BY DEF StoreInv
<1>1. /\ s_pc = "sequence" /\ sequence % 2 = 0 /\ s_seq' = sequence
      /\ s_cell' = 1 /\ s_read' = {} /\ s_pc' = "cells"
      /\ UNCHANGED <<table, active_region, marks, slot, sequence, cells, foreground>>
  BY DEF ReadSequence
<1>2. ForegroundTypes' /\ WriteSoFar' /\ HeldSafe'
  BY <1>0, <1>1, CallbackKeeps, SMTT(30)
<1>3. StageTypes'
  <2>1. sequence \in Nat /\ 1 \in Cells
    BY <1>0, NotARegion, SMTT(30) DEF ForegroundTypes, Cells
  <2> QED
    BY <1>0, <1>1, <2>1, SMTT(30) DEF StageTypes, table, marks
<1>4. LogHolds'
  BY <1>0, <1>1, SMTT(30) DEF LogHolds, table, marks
<1>5. SlotInView'
  BY <1>0, <1>1 DEF SlotInView, table
<1>6. ReadSoFar' /\ SweepSafe'
  BY <1>1 DEF ReadSoFar, SweepSafe
<1> QED
  BY <1>2, <1>3, <1>4, <1>5, <1>6 DEF StoreInv

\* mark_held_regions_ reads one cell.
LEMMA ReadCellKeeps == ASSUME StoreInv, ReadCell PROVE StoreInv'
<1>0. /\ StageTypes /\ ForegroundTypes /\ LogHolds /\ SlotInView
      /\ WriteSoFar /\ ReadSoFar /\ HeldSafe /\ SweepSafe
  BY DEF StoreInv
<1>1. /\ s_pc = "cells" /\ s_read' = s_read \cup {cells[s_cell]}
      /\ \/ s_cell = CACHE + 2 /\ s_pc' = "recheck" /\ s_cell' = 1
         \/ s_cell # CACHE + 2 /\ s_cell' = s_cell + 1 /\ s_pc' = "cells"
      /\ UNCHANGED <<table, active_region, s_seq, marks, slot, sequence, cells, foreground>>
  BY DEF ReadCell
<1>2. ForegroundTypes' /\ WriteSoFar' /\ HeldSafe'
  BY <1>0, <1>1, CallbackKeeps, SMTT(30)
<1>7. s_cell \in 1 .. CACHE + 2 /\ cells[s_cell] \in Optional /\ s_read \subseteq Optional
  BY <1>0 DEF StageTypes, ForegroundTypes, Cells
<1>3. StageTypes'
  <2>1. s_cell' \in Cells /\ s_read' \subseteq Optional
    BY <1>1, <1>7, NotARegion, SMTT(30) DEF Cells
  <2>2. s_pc' \in {"cells", "recheck"}
    BY <1>1, SMTT(30)
  <2> QED
    BY <1>0, <1>1, <2>1, <2>2, SMTT(30) DEF StageTypes, table, marks
<1>4. LogHolds'
  BY <1>0, <1>1, SMTT(30) DEF LogHolds, table, marks
<1>5. SlotInView'
  BY <1>0, <1>1, SMTT(30) DEF SlotInView, table
<1>6. ReadSoFar'
  <2> SUFFICES ASSUME sequence = s_seq
               PROVE  /\ s_pc' = "cells" => \A i \in 1 .. s_cell' - 1 : cells[i] \in s_read'
                      /\ s_pc' = "recheck" => \A i \in Cells : cells[i] \in s_read'
    BY <1>1 DEF ReadSoFar
  <2>1. \A i \in 1 .. s_cell - 1 : cells[i] \in s_read
    BY <1>0, <1>1 DEF ReadSoFar
  <2>2. \A i \in 1 .. s_cell : cells[i] \in s_read'
    BY <1>1, <1>7, <2>1, SMTT(30)
  <2> QED
    BY <1>1, <1>7, <2>2, NotARegion, SMTT(30) DEF Cells
<1>8. SweepSafe'
  BY <1>1 DEF SweepSafe
<1> QED
  BY <1>2, <1>3, <1>4, <1>5, <1>6, <1>8, SMTT(30) DEF StoreInv

\* mark_held_regions_: an unchanged sequence makes the cells one write.
LEMMA RecheckKeeps == ASSUME StoreInv, RecheckSequence PROVE StoreInv'
<1>0. /\ StageTypes /\ ForegroundTypes /\ LogHolds /\ SlotInView
      /\ WriteSoFar /\ ReadSoFar /\ HeldSafe /\ SweepSafe
  BY DEF StoreInv
<1>1. /\ s_pc = "recheck"
      /\ \/ /\ sequence = s_seq /\ held' = (held \cup s_read) \ {None}
            /\ generation' = s_seq \div 2 /\ s_pc' = "sweep"
         \/ s_pc' = "sequence" /\ held' = held /\ generation' = generation
      /\ s_seq' = 0 /\ s_read' = {}
      /\ UNCHANGED <<table, active_region, s_cell, handed, slot, sequence, cells, foreground>>
  BY DEF RecheckSequence
<1>2. /\ ForegroundTypes' /\ WriteSoFar' /\ HeldSafe' /\ Holds' = Holds /\ Quiet' = Quiet
      /\ \A r : Named(r)' = Named(r)
  BY <1>0, <1>1, CallbackKeeps, SMTT(30)
<1>3. StageTypes'
  <2>1. sequence \in Nat /\ sequence \div 2 \in Nat
    BY <1>0 DEF ForegroundTypes
  <2>2. generation' \in Nat /\ generation' <= sequence' \div 2 /\ s_seq' \in Nat /\ s_seq' <= sequence'
    BY <1>0, <1>1, <2>1, SMTT(30) DEF StageTypes
  <2>3. s_pc' \in {"sweep", "sequence"}
    BY <1>1, SMTT(30)
  <2> QED
    BY <1>0, <1>1, <2>2, <2>3, SMTT(30) DEF StageTypes, table
<1>4. LogHolds'
  <2>1. RegionsOf(tx) \subseteq held /\ None \notin RegionsOf(tx)
    BY <1>0, <1>1, SMTT(30) DEF LogHolds, RegionsOf
  <2>2. RegionsOf(tx) \subseteq held'
    BY <1>1, <2>1, SMTT(30)
  <2> QED
    BY <1>0, <1>1, <2>2, SMTT(30) DEF LogHolds, table
<1>5. SlotInView'
  BY <1>0, <1>1, SMTT(30) DEF SlotInView, table
<1>6. ReadSoFar'
  BY <1>1 DEF ReadSoFar
<1>7. ASSUME sequence = s_seq, s_pc' = "sweep" PROVE SweepSafe'
  <2>1. /\ held' = (held \cup s_read) \ {None} /\ generation' = sequence \div 2
    BY <1>1, <1>7, SMTT(30)
  <2>2. Quiet
    BY <1>0, <1>1, <1>7, SMTT(30) DEF StageTypes, ForegroundTypes
  <2>3. \A i \in Cells : cells[i] \in s_read
    BY <1>0, <1>1, <1>7, SMTT(30) DEF ReadSoFar
  <2>4. left_generation' = left_generation /\ sequence' = sequence /\ last_published' = last_published
    BY <1>1, SMTT(30) DEF table
  <2> SUFFICES ASSUME NEW r \in Holds \ {None}
               PROVE  r \in held' \/ left_generation[r] = NOT_LEFT \/ left_generation[r] >= generation'
    BY <1>2, <2>1, <2>4, SMTT(30) DEF SweepSafe
  <2>5. CASE Named(r)
    BY <2>1, <2>3, <2>5, SMTT(30) DEF Named
  <2>6. CASE left_generation[r] = NOT_LEFT \/ left_generation[r] >= sequence \div 2
    BY <2>1, <2>6, SMTT(30)
  <2> QED
    BY <1>0, <2>2, <2>5, <2>6, SMTT(30) DEF HeldSafe
<1>8. SweepSafe'
  BY <1>1, <1>7, SMTT(30) DEF SweepSafe
<1> QED
  BY <1>2, <1>3, <1>4, <1>5, <1>6, <1>8, SMTT(30) DEF StoreInv

\* sweep_regions_ frees nothing that is held, and marks as left only what the
\* cells it read do not keep.
LEMMA SweepKeeps == ASSUME CountingFacts, StoreInv, SweepRegions PROVE StoreInv'
<1>0. /\ StageTypes /\ ForegroundTypes /\ LogHolds /\ SlotInView
      /\ WriteSoFar /\ ReadSoFar /\ HeldSafe /\ SweepSafe
  BY DEF StoreInv
<1> DEFINE left(r) == IF InView(r) THEN NOT_LEFT
                      ELSE IF left_generation[r] = NOT_LEFT THEN generation
                      ELSE left_generation[r]
<1>1. /\ s_pc = "sweep" /\ live' = {r \in live : ~Frees(r)}
      /\ left_generation' = [r \in live' |-> left(r)]
      /\ held' = {} /\ handed' = None /\ generation' = 0 /\ s_pc' = "idle"
      /\ UNCHANGED <<built, last_published, uncompiled, tx, callback, active_region, slot,
                     sequence, cells, foreground>>
  BY SMTT(30) DEF SweepRegions
<1>2. /\ generation \in Nat /\ sequence \in Nat /\ sequence <= 2 * MaxWrites
      /\ generation <= sequence \div 2 /\ MaxWrites \in Nat
      /\ left_generation \in [live -> 0 .. MaxWrites \cup {NOT_LEFT}]
  BY <1>0, NotARegion DEF StageTypes, ForegroundTypes
<1>3. generation \in 0 .. MaxWrites
  BY <1>2
<1>4. \A r \in live' : r \in live /\ left_generation'[r] = left(r)
  BY <1>1
<1>5. last_published # None => /\ last_published \in live'
                               /\ left_generation'[last_published] = NOT_LEFT
  <2>1. ASSUME last_published # None PROVE last_published \in live'
    BY <1>0, <1>1, <2>1, SMTT(30) DEF StageTypes, Frees, InView
  <2> QED
    BY <1>4, <2>1, SMTT(30) DEF InView
<1>6. slot # None => slot \in live' /\ left_generation'[slot] = NOT_LEFT
  BY <1>0, <1>1, <1>5, SMTT(30) DEF SlotInView
<1>7. RegionsOf(tx) \cup Range(uncompiled) \subseteq live'
  <2>1. RegionsOf(tx) \subseteq held /\ RegionsOf(tx) \subseteq live
    BY <1>0, <1>1, SMTT(30) DEF LogHolds
  <2>2. Range(uncompiled) \subseteq live
    BY <1>0, SeqRange DEF StageTypes
  <2> QED
    BY <1>1, <2>1, <2>2, SMTT(30) DEF Frees, IsHeld
<1>8. Holds \ {None} \subseteq live'
  <2> SUFFICES ASSUME NEW r \in Holds \ {None} PROVE r \in live'
    OBVIOUS
  <2>1. r \in live
    BY <1>0, HoldsTyped, SMTT(30)
  <2>2. r \in held \/ r = last_published \/ left_generation[r] = NOT_LEFT \/ left_generation[r] >= generation
    BY <1>0, <1>1 DEF SweepSafe
  <2>3. left_generation[r] \in Nat \/ left_generation[r] = NOT_LEFT
    BY <1>2, <2>1, SMTT(30)
  <2>4. ~Frees(r)
    BY <1>2, <2>2, <2>3, SMTT(30) DEF Frees, InView, IsHeld
  <2> QED
    BY <1>1, <2>1, <2>4, SMTT(30)
<1>9. /\ activation' = activation /\ active' = active /\ restored' = restored /\ cache' = cache
      /\ f_pc' = f_pc /\ f_cell' = f_cell /\ reading' = reading
  BY <1>1 DEF foreground, holders
<1>10. Range(cache) \subseteq live'
  <2>1. None \notin Range(cache)
    BY <1>0, HoldsTyped, NotARegion, LiveRegions, SMTT(30)
  <2> QED
    BY <1>8, <2>1, SMTT(30) DEF Holds
<1>11. StageTypes'
  <2>1. IsFiniteSet(live') /\ Cardinality(live') <= Cardinality(live) /\ live' \subseteq live
    <3>1. live' \subseteq live /\ IsFiniteSet(live)
      BY <1>0, <1>1, SMTT(30) DEF StageTypes
    <3> QED
      BY <3>1, SMTT(30) DEF CountingFacts
  <2>2. Cardinality(live') <= STORE
    <3>1. Cardinality(live') \in Nat /\ Cardinality(live) \in Nat /\ Cardinality(live) <= STORE /\ STORE \in Nat
      BY <1>0, <2>1, StoreAssumption, SMTT(30) DEF StageTypes, CountingFacts
    <3> QED
      BY <2>1, <3>1, SMTT(30)
  <2>3. left_generation' \in [live' -> 0 .. MaxWrites \cup {NOT_LEFT}]
    <3>1. \A r \in live' : left(r) \in 0 .. MaxWrites \cup {NOT_LEFT}
      BY <1>2, <1>3, <1>4, SMTT(30)
    <3> HIDE DEF left
    <3> QED
      BY <1>1, <3>1, SMTT(30)
  <2>4. uncompiled \in Seq(live')
    BY <1>0, <1>7, SeqRange, SMTT(30) DEF StageTypes
  <2>5. generation' \in Nat /\ generation' <= sequence' \div 2
    BY <1>1, <1>2, SMTT(30)
  <2>6. /\ last_published' \in live' \cup {None} /\ handed' \in Optional
        /\ live' \subseteq 1 .. built' /\ Len(uncompiled') <= QUEUE /\ s_read' \subseteq Optional
        /\ s_seq' \in Nat /\ s_seq' <= sequence' /\ s_cell' \in Cells /\ built' \in 0 .. MaxRegions
    <3>1. last_published' \in live' \cup {None} /\ handed' \in Optional
      BY <1>1, <1>5, Zenon DEF Optional
    <3>2. live' \subseteq 1 .. built' /\ built' \in 0 .. MaxRegions /\ Len(uncompiled') <= QUEUE
      BY <1>0, <1>1, <2>1, SMTT(30) DEF StageTypes
    <3>3. s_read' \subseteq Optional /\ s_seq' \in Nat /\ s_seq' <= sequence' /\ s_cell' \in Cells
      BY <1>0, <1>1, SMTT(30) DEF StageTypes, callback
    <3> QED
      BY <3>1, <3>2, <3>3, Zenon
  <2> QED
    BY <1>1, <2>1, <2>2, <2>3, <2>4, <2>5, <2>6, SMTT(30) DEF StageTypes
<1>12. ForegroundTypes'
  <2>1. cache' \in Seq(live') /\ {slot, activation, active, restored}' \subseteq live' \cup {None}
    <3>1. cache \in Seq(live')
      BY <1>0, <1>10, SeqRange, SMTT(60) DEF ForegroundTypes
    <3> QED
      BY <1>1, <1>6, <1>8, <1>9, <3>1 DEF Holds
  <2> QED
    BY <1>0, <1>1, <1>9, <2>1 DEF ForegroundTypes, Quiet
<1>13. LogHolds'
  BY <1>0, <1>1, <1>7, SMTT(30) DEF LogHolds
<1>14. SlotInView'
  BY <1>0, <1>1, <1>5, <1>6, SMTT(30) DEF SlotInView
<1>15. WriteSoFar' /\ ReadSoFar' /\ SweepSafe'
  BY <1>0, <1>1, <1>9, SMTT(30) DEF WriteSoFar, Holder, ReadSoFar, SweepSafe
<1>16. HeldSafe'
  <2>1. Holds' = Holds /\ Quiet' = Quiet /\ sequence' = sequence /\ \A r : Named(r)' = Named(r)
    BY <1>1, <1>9, SMTT(30) DEF Holds, Quiet, Named
  <2> SUFFICES ASSUME Quiet, NEW r \in Holds \ {None}
               PROVE  Named(r) \/ left_generation'[r] = NOT_LEFT \/ left_generation'[r] >= sequence \div 2
    BY <2>1, SMTT(30) DEF HeldSafe
  <2>2. left_generation'[r] = left(r)
    BY <1>4, <1>8, SMTT(30)
  <2>3. CASE InView(r)
    BY <2>2, <2>3, SMTT(30)
  <2>4. CASE ~InView(r) /\ left_generation[r] = NOT_LEFT
    <3>1. left_generation'[r] = generation
      BY <2>2, <2>4, SMTT(30)
    <3>2. Named(r) \/ generation = sequence \div 2
      BY <1>0, <1>1, <2>4, SMTT(30) DEF SweepSafe, InView
    <3> QED
      BY <1>2, <3>1, <3>2, SMTT(30)
  <2>5. CASE ~InView(r) /\ left_generation[r] # NOT_LEFT
    <3>1. left_generation'[r] = left_generation[r]
      BY <2>2, <2>5, SMTT(30)
    <3> QED
      BY <1>0, <2>5, <3>1, SMTT(30) DEF HeldSafe
  <2> QED
    BY <2>3, <2>4, <2>5, SMTT(30)
<1> QED
  BY <1>0, <1>11, <1>12, <1>13, <1>14, <1>15, <1>16, SMTT(30) DEF StoreInv

\* The regions a log names, slot by slot.
LEMMA RegionsAre ==
    ASSUME NEW l
    PROVE  /\ \A x : x \in RegionsOf(l) <=> x # None /\ \E i \in DOMAIN l.ring : l.ring[i].region = x
  BY SMTT(30) DEF RegionsOf, Entries

\* begin_tx, commit and activate of a publication: the log stays well formed
\* and names one more region at most.
LEMMA PublishTx ==
    ASSUME HaveGreatest, NEW l, WellFormed(l), NEW s \in Nat, \A i \in DOMAIN l.ring : l.ring[i].step # s,
           NEW z, z = Activate(Commit(BeginTx(l, s), s, s), s)
    PROVE  /\ WellFormed(z) /\ RegionsOf(z) \subseteq RegionsOf(l) \cup {s}
           /\ \A i \in DOMAIN z.ring : \/ z.ring[i].step = s
                                       \/ \E k \in DOMAIN l.ring : z.ring[i].step = l.ring[k].step
<1> DEFINE b == BeginTx(l, s)
           c == Len(b.ring)
<1>1. /\ WellFormed(b) /\ c \in DOMAIN b.ring /\ b.ring[c] = Recording(s)
      /\ \A i \in DOMAIN b.ring : b.ring[i] = Recording(s) \/ \E k \in DOMAIN l.ring : b.ring[i] = l.ring[k]
  BY BeginKeeps, SMTT(30)
<1>2. Recording(s).step = s /\ Recording(s).region = None
  BY SMTT(30) DEF Recording
<1> DEFINE m == Commit(b, s, s)
<1>3. b.ring[c].step = s /\ m = Commit(b, b.ring[c].step, s)
  BY <1>1, <1>2, SMTT(60)
<1> HIDE DEF b, c, m
<1>4. /\ WellFormed(m) /\ DOMAIN m.ring = DOMAIN b.ring
      /\ \A i \in DOMAIN b.ring : m.ring[i].step = b.ring[i].step /\ (i # c => m.ring[i] = b.ring[i])
      /\ m.ring[c].region \in {b.ring[c].region, s}
  BY <1>1, <1>3, CommitKeeps, SMTT(60)
<1>5. z = Activate(m, m.ring[c].step) /\ c \in DOMAIN m.ring
  BY <1>1, <1>3, <1>4, SMTT(60) DEF m, b
<1>6. WellFormed(z) /\ SameSlots(m, z)
  BY <1>4, <1>5, ActivateKeeps, SMTT(60)
<1>7. /\ DOMAIN z.ring = DOMAIN b.ring
      /\ \A i \in DOMAIN b.ring : z.ring[i].step = b.ring[i].step /\ z.ring[i].region = m.ring[i].region
  BY <1>4, <1>6, SMTT(30) DEF SameSlots
<1>8. ASSUME NEW x \in RegionsOf(z) PROVE x \in RegionsOf(l) \cup {s}
  <2>1. PICK i \in DOMAIN b.ring : m.ring[i].region = x
    BY <1>7, RegionsAre, SMTT(30)
  <2>2. x # None
    BY RegionsAre, SMTT(30)
  <2>3. CASE i = c
    BY <1>1, <1>2, <1>4, <2>1, <2>2, <2>3, SMTT(60)
  <2>4. CASE i # c
    <3>1. b.ring[i].region = x
      BY <1>4, <2>1, <2>4, SMTT(60)
    <3>2. PICK k \in DOMAIN l.ring : l.ring[k].region = x
      BY <1>1, <1>2, <2>2, <3>1, SMTT(60)
    <3> QED
      BY <2>2, <3>2, RegionsAre, SMTT(60)
  <2> QED
    BY <2>3, <2>4, SMTT(30)
<1>9. \A i \in DOMAIN z.ring : \/ z.ring[i].step = s
                               \/ \E k \in DOMAIN l.ring : z.ring[i].step = l.ring[k].step
  BY <1>1, <1>2, <1>7, SMTT(30)
<1> QED
  BY <1>6, <1>8, <1>9, SMTT(60)

\* publish_region: a region that fits the table is published, one that does
\* not is discarded.
LEMMA PublishRegionKeeps == ASSUME HaveGreatest, CountingFacts, StoreInv, PublishRegion PROVE StoreInv'
<1>0. /\ StageTypes /\ ForegroundTypes /\ LogHolds /\ SlotInView
      /\ WriteSoFar /\ ReadSoFar /\ HeldSafe /\ SweepSafe
  BY DEF StoreInv
<1>1. /\ s_pc = "idle" /\ built < MaxRegions /\ built' = built + 1
      /\ UNCHANGED <<callback, marks, slot, sequence, cells, foreground>>
      /\ built \in Nat /\ live \subseteq 1 .. built /\ MaxRegions \in Nat
  BY <1>0, NotARegion, SMTT(30) DEF PublishRegion, StageTypes
<1>2. /\ activation' = activation /\ active' = active /\ restored' = restored /\ cache' = cache
      /\ f_pc' = f_pc /\ f_cell' = f_cell /\ reading' = reading
  BY <1>1 DEF foreground, holders
<1>3. /\ built' \in 0 .. MaxRegions /\ live \subseteq 1 .. built' /\ built' \notin live /\ built' \in Nat
      /\ built' \in Regions /\ 1 .. built \subseteq 1 .. built'
  BY <1>1, SMTT(30) DEF Regions
<1>4. /\ Holds' = Holds /\ Quiet' = Quiet /\ sequence' = sequence /\ cells' = cells
      /\ \A r : Named(r)' = Named(r)
  BY <1>1, <1>2, SMTT(30) DEF Holds, Quiet, Named
<1>5. CASE Cardinality(live) = STORE
  <2>1. UNCHANGED <<live, left_generation, last_published, uncompiled, tx, active_region, s_pc>>
    BY <1>5, SMTT(30) DEF PublishRegion
  <2>2. StageTypes'
    BY <1>0, <1>1, <1>3, <2>1, SMTT(60) DEF StageTypes, callback, marks
  <2>3. ForegroundTypes'
    BY <1>0, <1>1, <1>2, <2>1, SMTT(60) DEF ForegroundTypes, Quiet
  <2>4. LogHolds'
    BY <1>0, <1>1, <1>3, <2>1, SMTT(30) DEF LogHolds
  <2>5. SlotInView' /\ WriteSoFar' /\ ReadSoFar' /\ SweepSafe'
    BY <1>0, <1>1, <1>2, <2>1, SMTT(30) DEF SlotInView, WriteSoFar, Holder, ReadSoFar, SweepSafe, callback
  <2>6. HeldSafe'
    BY <1>0, <1>4, <2>1, SMTT(30) DEF HeldSafe
  <2> QED
    BY <2>2, <2>3, <2>4, <2>5, <2>6, SMTT(30) DEF StoreInv
<1>6. CASE Cardinality(live) # STORE
  <2>1. /\ live' = live \cup {built'}
        /\ left_generation' = [r \in live' |-> IF r = built' THEN NOT_LEFT ELSE left_generation[r]]
        /\ last_published' = built'
        /\ uncompiled' = Newest(QUEUE, Append(uncompiled, built'))
        /\ active_region' = built'
        /\ tx' = Activate(Commit(BeginTx(tx, built'), built', built'), built')
        /\ s_pc' = "slot"
    BY <1>6, SMTT(30) DEF PublishRegion
  <2>2. /\ left_generation'[built'] = NOT_LEFT
        /\ \A r \in live : r \in live' /\ left_generation'[r] = left_generation[r]
    BY <1>3, <2>1, SMTT(30)
  <2>3. IsFiniteSet(live') /\ Cardinality(live') <= STORE
    <3>1. IsFiniteSet(live) /\ Cardinality(live) <= STORE /\ Cardinality(live) \in Nat /\ STORE \in Nat
      BY <1>0, StoreAssumption, SMTT(30) DEF StageTypes, CountingFacts
    <3>2. IsFiniteSet(live') /\ Cardinality(live') = Cardinality(live) + 1
      <4>1. live' = live \cup {built'} /\ built' \notin live
        BY <1>3, <2>1, Zenon
      <4>2. PICK x : x = built'
        OBVIOUS
      <4>3. IsFiniteSet(live \cup {x}) /\ Cardinality(live \cup {x}) = Cardinality(live) + 1
        BY <3>1, <4>1, <4>2, OneMore, Zenon
      <4> QED
        BY <4>1, <4>2, <4>3, Zenon
    <3> QED
      BY <1>6, <3>1, <3>2, SMTT(30)
  <2>4. uncompiled' \in Seq(live') /\ Len(uncompiled') <= QUEUE
    <3>1. uncompiled \in Seq(live) /\ Len(uncompiled) <= QUEUE /\ QUEUE \in Nat \ {0}
      BY <1>0, StoreAssumption, SMTT(30) DEF StageTypes
    <3>2. uncompiled \in Seq(live') /\ built' \in live'
      BY <2>1, <3>1, SeqRange, SMTT(30)
    <3>3. PICK S, r, z : S = live' /\ r = built' /\ z = uncompiled'
      OBVIOUS
    <3>4. uncompiled \in Seq(S) /\ r \in S /\ z = Newest(QUEUE, Append(uncompiled, r))
      BY <2>1, <3>2, <3>3, SMTT(30)
    <3>5. z \in Seq(S) /\ Len(z) <= QUEUE
      BY <3>1, <3>4, NewestFacts, SMTT(60)
    <3> QED
      BY <3>3, <3>5, SMTT(30)
  <2>5. StageTypes'
    <3>1. left_generation' \in [live' -> 0 .. MaxWrites \cup {NOT_LEFT}]
      BY <1>0, <2>1, ZenonT(60) DEF StageTypes
    <3>2. live' \subseteq 1 .. built'
      BY <1>1, <1>3, <2>1
    <3> QED
      BY <1>0, <1>1, <1>3, <2>1, <2>3, <2>4, <3>1, <3>2, SMTT(60) DEF StageTypes, callback, marks
  <2>6. ForegroundTypes'
    <3>1. cache' \in Seq(live') /\ {slot, activation, active, restored}' \subseteq live' \cup {None}
      <4>1. cache \in Seq(live')
        BY <1>0, <2>1, SeqRange, SMTT(30) DEF ForegroundTypes
      <4> QED
        BY <1>0, <1>1, <1>2, <2>1, <4>1, SMTT(60) DEF ForegroundTypes
    <3>2. active_region' \in Optional
      BY <1>3, <2>1, SMTT(60) DEF Optional
    <3> QED
      BY <1>0, <1>1, <1>2, <3>1, <3>2 DEF ForegroundTypes, Quiet
  <2>7. LogHolds'
    <3>1. \A i \in DOMAIN tx.ring : tx.ring[i].step # built'
      BY <1>0, <1>1, SMTT(60) DEF LogHolds
    <3>2. /\ WellFormed(tx') /\ RegionsOf(tx') \subseteq RegionsOf(tx) \cup {built'}
          /\ \A i \in DOMAIN tx'.ring : \/ tx'.ring[i].step = built'
                                        \/ \E k \in DOMAIN tx.ring : tx'.ring[i].step = tx.ring[k].step
      <4>1. WellFormed(tx)
        BY <1>0, SMTT(30) DEF LogHolds
      <4>2. PICK s \in Nat : s = built'
        BY <1>3
      <4>3. PICK z : z = Activate(Commit(BeginTx(tx, s), s, s), s)
        OBVIOUS
      <4>4. z = tx'
        BY <2>1, <4>2, <4>3, SMTT(30)
      <4>5. \A i \in DOMAIN tx.ring : tx.ring[i].step # s
        BY <3>1, <4>2, SMTT(60)
      <4>6. /\ WellFormed(z) /\ RegionsOf(z) \subseteq RegionsOf(tx) \cup {s}
            /\ \A i \in DOMAIN z.ring : \/ z.ring[i].step = s
                                        \/ \E k \in DOMAIN tx.ring : z.ring[i].step = tx.ring[k].step
        BY <4>1, <4>3, <4>5, PublishTx, SMTT(60)
      <4> QED
        BY <4>2, <4>4, <4>6, SMTT(60)
    <3>3. \A i \in DOMAIN tx'.ring : tx'.ring[i].step \in 1 .. built'
      BY <1>0, <1>1, <1>3, <3>2, SMTT(60) DEF LogHolds
    <3>4. RegionsOf(tx') \subseteq live'
      BY <1>0, <2>1, <3>2, SMTT(60) DEF LogHolds
    <3> QED
      BY <2>1, <3>2, <3>3, <3>4, SMTT(60) DEF LogHolds
  <2>8. SlotInView'
    BY <1>0, <1>1, <2>1, <2>2, SMTT(30) DEF SlotInView, ForegroundTypes
  <2>9. WriteSoFar' /\ ReadSoFar' /\ SweepSafe'
    BY <1>0, <1>1, <1>2, <2>1, SMTT(60) DEF WriteSoFar, Holder, ReadSoFar, SweepSafe
  <2>10. HeldSafe'
    <3>1. \A r \in Holds \ {None} : left_generation'[r] = left_generation[r]
      BY <1>0, <2>2, HoldsTyped, SMTT(60)
    <3> QED
      BY <1>0, <1>4, <3>1, SMTT(60) DEF HeldSafe
  <2> QED
    BY <2>5, <2>6, <2>7, <2>8, <2>9, <2>10, SMTT(60) DEF StoreInv
<1> QED
  BY <1>5, <1>6, SMTT(30)

\* The job of Vigil::rollback: the restored region is in the log, so in the
\* table, and back in view.
LEMMA RollbackJobKeeps == ASSUME HaveGreatest, StoreInv, RollbackJob PROVE StoreInv'
<1>0. /\ StageTypes /\ ForegroundTypes /\ LogHolds /\ SlotInView
      /\ WriteSoFar /\ ReadSoFar /\ HeldSafe /\ SweepSafe
  BY DEF StoreInv
<1>1. /\ s_pc = "idle" /\ f_pc = "job" /\ tx' = Rollback(tx)
      /\ UNCHANGED <<built, live, last_published, uncompiled, s_pc, callback, marks,
                     active_region, slot, sequence, cells, f_cell, reading, holders>>
      /\ \/ /\ Previous(tx) = None /\ f_pc' = "idle" /\ restored' = restored
            /\ left_generation' = left_generation
         \/ /\ Previous(tx) # None /\ f_pc' = "restored" /\ restored' = ActiveRegion(tx')
            /\ left_generation' = [left_generation EXCEPT ![restored'] = NOT_LEFT]
  BY SMTT(30) DEF RollbackJob
<1>2. activation' = activation /\ active' = active /\ cache' = cache /\ restored = None
  BY <1>0, <1>1, SMTT(30) DEF holders, ForegroundTypes
<1>3. /\ WellFormed(tx') /\ SameSlots(tx, tx')
      /\ Previous(tx) # None => ActiveRegion(tx') \in RegionsOf(tx)
  <2>1. PICK z : z = Rollback(tx)
    BY SMTT(60)
  <2>2. /\ WellFormed(z) /\ SameSlots(tx, z)
        /\ \/ Previous(tx) = None
           \/ \E p \in DOMAIN tx.ring : ActiveRegion(z) = tx.ring[p].region /\ tx.ring[p].region # None
    <3>1. WellFormed(tx)
      BY <1>0 DEF LogHolds
    <3> QED
      BY <2>1, <3>1, RollbackKeeps, SMTT(30)
  <2> QED
    BY <1>1, <2>1, <2>2, RegionsAre, SMTT(30)
<1>4. RegionsOf(tx') = RegionsOf(tx) /\ DOMAIN tx'.ring = DOMAIN tx.ring
      /\ \A i \in DOMAIN tx.ring : tx'.ring[i].step = tx.ring[i].step
  <2>1. /\ DOMAIN tx'.ring = DOMAIN tx.ring
        /\ \A i \in DOMAIN tx.ring : tx'.ring[i].step = tx.ring[i].step /\ tx'.ring[i].region = tx.ring[i].region
    BY <1>3 DEF SameSlots
  <2>2. \A x : x \in RegionsOf(tx') <=> x \in RegionsOf(tx)
    BY <2>1, RegionsAre
  <2> QED
    BY <2>1, <2>2, Zenon
<1>5. /\ restored' \in live \cup {None}
      /\ restored' # None => left_generation'[restored'] = NOT_LEFT /\ f_pc' = "restored"
      /\ left_generation' \in [live -> 0 .. MaxWrites \cup {NOT_LEFT}]
      /\ \A r \in live : left_generation'[r] \in {left_generation[r], NOT_LEFT}
  <2>1. left_generation \in [live -> 0 .. MaxWrites \cup {NOT_LEFT}]
    BY <1>0, SMTT(30) DEF StageTypes
  <2>2. CASE restored' = None /\ left_generation' = left_generation
    BY <2>1, <2>2, SMTT(30)
  <2>3. CASE /\ restored' \in live /\ left_generation' = [left_generation EXCEPT ![restored'] = NOT_LEFT]
             /\ f_pc' = "restored"
    BY <2>1, <2>3, SMTT(30)
  <2>4. Previous(tx) # None => ActiveRegion(tx') \in live
    BY <1>0, <1>3, SMTT(60) DEF LogHolds
  <2> QED
    BY <1>1, <1>2, <2>2, <2>3, <2>4
<1>6. StageTypes'
  BY <1>0, <1>1, <1>5, SMTT(60) DEF StageTypes, callback, marks
<1>7. ForegroundTypes'
  <2>1. f_pc' \in {"idle", "restored"}
    BY <1>1, SMTT(60)
  <2> QED
    BY <1>0, <1>1, <1>2, <1>5, <2>1, SMTT(60) DEF ForegroundTypes, Quiet
<1>8. LogHolds'
  BY <1>0, <1>1, <1>3, <1>4, ZenonT(60) DEF LogHolds
<1>9. SlotInView'
  BY <1>0, <1>1, <1>5, SMTT(60) DEF SlotInView, StageTypes, ForegroundTypes
<1>10. WriteSoFar' /\ ReadSoFar' /\ SweepSafe'
  BY <1>0, <1>1, SMTT(30) DEF WriteSoFar, ReadSoFar, SweepSafe, callback
<1>11. HeldSafe'
  <2>1. Quiet /\ sequence' = sequence /\ \A r : Named(r)' = Named(r)
    BY <1>1 DEF Quiet, Named
  <2>2. Holds' \subseteq Holds \cup {restored'}
    BY <1>2 DEF Holds
  <2>3. \A r \in Holds \ {None} : r \in live
    BY <1>0, HoldsTyped, SMTT(30)
  <2> SUFFICES ASSUME NEW r \in Holds' \ {None}
               PROVE  Named(r) \/ left_generation'[r] = NOT_LEFT \/ left_generation'[r] >= sequence \div 2
    BY <2>1, SMTT(30) DEF HeldSafe
  <2>4. CASE r = restored'
    BY <1>5, <2>4, SMTT(30)
  <2>5. CASE r \in Holds \ {None}
    <3>1. Named(r) \/ left_generation[r] = NOT_LEFT \/ left_generation[r] >= sequence \div 2
      BY <1>0, <2>1, <2>5, SMTT(30) DEF HeldSafe
    <3>2. left_generation'[r] \in {left_generation[r], NOT_LEFT}
      BY <1>5, <2>3, <2>5, SMTT(30)
    <3> QED
      BY <3>1, <3>2, SMTT(30)
  <2> QED
    BY <2>2, <2>4, <2>5, SMTT(30)
<1> QED
  BY <1>6, <1>7, <1>8, <1>9, <1>10, <1>11 DEF StoreInv

\* More writes, no fewer complete ones.
LEMMA HalfGrows == ASSUME NEW a \in Nat, NEW b \in Nat, b >= a PROVE a \div 2 <= b \div 2 /\ b \div 2 \in Nat
  OBVIOUS

\* A step of the foreground leaves the stage alone.
LEMMA StageKept ==
    ASSUME StageTypes, LogHolds, SlotInView, ForegroundTypes, UNCHANGED stage,
           sequence' \in Nat, sequence' >= sequence, slot' \in {slot, None}
    PROVE  StageTypes' /\ LogHolds' /\ SlotInView'
<1> USE DEF stage, table, callback, marks
<1>1. sequence \in Nat /\ generation \in Nat /\ generation <= sequence \div 2 /\ s_seq \in Nat /\ s_seq <= sequence
  BY SMTT(30) DEF StageTypes, ForegroundTypes
<1>2. generation <= sequence' \div 2 /\ s_seq <= sequence'
  <2>1. PICK a, b, g, q \in Nat : a = sequence /\ b = sequence' /\ g = generation /\ q = s_seq
    BY <1>1
  <2>3. g <= a \div 2 /\ q <= a /\ b >= a
    BY <1>1, <2>1
  <2>2. a \div 2 <= b \div 2 /\ b \div 2 \in Nat /\ a \div 2 \in Nat
    BY <2>3, HalfGrows
  <2>4. g <= b \div 2 /\ q <= b
    BY <2>2, <2>3
  <2> QED
    BY <2>1, <2>4, Zenon
<1>3. StageTypes'
  BY <1>2, Zenon DEF StageTypes
<1>4. LogHolds'
  BY DEF LogHolds
<1>5. SlotInView'
  BY DEF SlotInView
<1> QED
  BY <1>3, <1>4, <1>5, SMTT(60)

\* A cold path, before its write: the foreground may take the region in the
\* slot, which has not left, and hold nothing else it did not hold.
LEMMA QuietStep ==
    ASSUME StoreInv, ForegroundTypes', UNCHANGED <<stage, sequence, cells>>, Quiet, Quiet',
           Holds' \subseteq Holds \cup {slot, None}, slot' \in {slot, None}
    PROVE  StoreInv'
<1>0. /\ StageTypes /\ ForegroundTypes /\ LogHolds /\ SlotInView
      /\ WriteSoFar /\ ReadSoFar /\ HeldSafe /\ SweepSafe
  BY SMTT(30) DEF StoreInv
<1>1. StageTypes' /\ LogHolds' /\ SlotInView'
  <2>1. sequence \in Nat /\ sequence' = sequence
    BY <1>0 DEF ForegroundTypes
  <2> QED
    BY <1>0, <2>1, StageKept, SMTT(60)
<1>2. WriteSoFar'
  BY DEF WriteSoFar, Quiet
<1>3. /\ left_generation' = left_generation /\ s_pc' = s_pc /\ held' = held
      /\ generation' = generation /\ last_published' = last_published
      /\ s_seq' = s_seq /\ s_cell' = s_cell /\ s_read' = s_read
      /\ \A r : Named(r)' = Named(r)
  BY SMTT(30) DEF stage, table, callback, marks, Named
<1>4. ReadSoFar'
  BY <1>0, <1>3, SMTT(30) DEF ReadSoFar
<1>5. HeldSafe'
  <2> SUFFICES ASSUME NEW r \in Holds' \ {None}
               PROVE  Named(r) \/ left_generation[r] = NOT_LEFT \/ left_generation[r] >= sequence \div 2
    BY <1>3, SMTT(30) DEF HeldSafe
  <2>1. CASE r = slot
    BY <1>0, <2>1, SMTT(30) DEF SlotInView
  <2>2. CASE r \in Holds
    BY <1>0, <2>2, SMTT(30) DEF HeldSafe
  <2> QED
    BY <2>1, <2>2, SMTT(30)
<1>6. SweepSafe'
  <2> SUFFICES ASSUME s_pc = "sweep", NEW r \in Holds' \ {None}
               PROVE  /\ \/ r \in held \/ r = last_published \/ left_generation[r] = NOT_LEFT
                         \/ left_generation[r] >= generation
                      /\ Named(r) \/ r = last_published \/ generation = sequence \div 2
    BY <1>3, SMTT(30) DEF SweepSafe
  <2>1. CASE r = slot
    BY <1>0, <2>1, SMTT(30) DEF SlotInView
  <2>2. CASE r \in Holds
    BY <1>0, <2>2, SMTT(30) DEF SweepSafe
  <2> QED
    BY <2>1, <2>2, SMTT(30)
<1> QED
  BY <1>1, <1>2, <1>4, <1>5, <1>6 DEF StoreInv

\* dispatch_transition_.
LEMMA DispatchKeeps == ASSUME StoreInv, DispatchTransition PROVE StoreInv'
<1>0. StageTypes /\ ForegroundTypes
  BY SMTT(30) DEF StoreInv
<1> DEFINE walk == IF slot # None THEN slot ELSE activation
<1>1. /\ f_pc = "idle" /\ sequence < 2 * MaxWrites /\ walk # None
      /\ \/ activation' = walk /\ active' = active /\ cache' = cache
         \/ activation' = None /\ active' = walk /\ cache' \in Inserted(cache, walk)
         \/ activation' = None /\ active' = active /\ cache' = cache
      /\ slot' = None /\ f_pc' = "begin"
      /\ UNCHANGED <<stage, active_region, sequence, cells, f_cell, restored, reading>>
  BY SMTT(60) DEF DispatchTransition
<1>2. walk \in live /\ walk \in {slot, activation} /\ live' = live /\ restored = None
  BY <1>0, <1>1, SMTT(30) DEF ForegroundTypes, stage, table
<1> HIDE DEF walk
<1>3. cache' \in Seq(live) /\ Len(cache') <= CACHE /\ Range(cache') \subseteq Range(cache) \cup {walk}
  <2>1. cache \in Seq(live) /\ Len(cache) <= CACHE
    BY <1>0 DEF ForegroundTypes
  <2>2. PICK d : d = cache'
    BY SMTT(30)
  <2>3. d = cache \/ d \in Inserted(cache, walk)
    BY <1>1, <2>2, SMTT(30)
  <2>4. d \in Seq(live) /\ Len(d) <= CACHE /\ Range(d) \subseteq Range(cache) \cup {walk}
    BY <1>2, <2>1, <2>3, InsertedFacts, SMTT(60)
  <2> QED
    BY <2>2, <2>4, SMTT(30)
<1>4. ForegroundTypes'
  BY <1>0, <1>1, <1>2, <1>3, SMTT(60) DEF ForegroundTypes, Quiet
<1>5. Holds' \subseteq Holds \cup {slot, None} /\ Quiet /\ Quiet'
  BY <1>1, <1>2, <1>3, SMTT(30) DEF Holds, Quiet
<1> QED
  BY <1>1, <1>4, <1>5, QuietStep, SMTT(30)

\* handle_divergence_.
LEMMA DivergenceKeeps == ASSUME StoreInv, HandleDivergence PROVE StoreInv'
<1>0. StageTypes /\ ForegroundTypes
  BY DEF StoreInv
<1>1. PICK c \in (IF slot = None THEN {cache} ELSE Inserted(cache, slot)) :
         /\ cache' \in Inserted(c, active)
         /\ active' \in {None} \cup (Range(cache') \ {active})
  BY SMTT(30) DEF HandleDivergence
<1>2. /\ f_pc = "idle" /\ active # None /\ sequence < 2 * MaxWrites
      /\ slot' = None /\ activation' = None /\ f_pc' = "begin"
      /\ UNCHANGED <<stage, active_region, sequence, cells, f_cell, restored, reading>>
  BY SMTT(30) DEF HandleDivergence
<1>3. live' = live /\ restored = None /\ active \in live /\ slot \in live \cup {None}
  BY <1>0, <1>2, SMTT(30) DEF ForegroundTypes, stage, table
<1>4. c \in Seq(live) /\ Len(c) <= CACHE /\ Range(c) \subseteq Range(cache) \cup {slot}
  <2>1. cache \in Seq(live) /\ Len(cache) <= CACHE
    BY <1>0, SMTT(30) DEF ForegroundTypes
  <2>2. c = cache \/ (slot \in live /\ c \in Inserted(cache, slot))
    BY <1>1, <1>3, SMTT(30)
  <2> QED
    BY <2>1, <2>2, InsertedFacts, SMTT(30)
<1>5. cache' \in Seq(live) /\ Len(cache') <= CACHE /\ Range(cache') \subseteq Range(c) \cup {active}
  <2>1. PICK d : d = cache'
    OBVIOUS
  <2>2. d \in Inserted(c, active)
    BY <1>1, <2>1, SMTT(30)
  <2>3. d \in Seq(live) /\ Len(d) <= CACHE /\ Range(d) \subseteq Range(c) \cup {active}
    BY <1>3, <1>4, <2>2, InsertedFacts, SMTT(30)
  <2> QED
    BY <2>1, <2>3, SMTT(30)
<1>6. active' \in live \cup {None} /\ active' \in Range(cache') \cup {None}
  <2>1. Range(cache) \subseteq live
    BY <1>0, HoldsTyped, SMTT(60)
  <2>2. Range(cache') \subseteq live
    BY <1>3, <1>4, <1>5, <2>1, NotARegion, LiveRegions, <1>0, SeqRange, SMTT(60)
  <2> QED
    BY <1>1, <2>2, SMTT(30)
<1>7. ForegroundTypes'
  BY <1>0, <1>2, <1>3, <1>5, <1>6, SMTT(60) DEF ForegroundTypes, Quiet
<1>8. Holds' \subseteq Holds \cup {slot, None} /\ Quiet /\ Quiet'
  BY <1>2, <1>3, <1>4, <1>5, <1>6, SMTT(60) DEF Holds, Quiet
<1> QED
  BY <1>2, <1>7, <1>8, QuietStep, SMTT(60)

\* Vigil::rollback around its job.
LEMMA RollbackCallKeeps == ASSUME StoreInv, CallRollback \/ FinishRollback PROVE StoreInv'
<1>0. StageTypes /\ ForegroundTypes
  BY SMTT(30) DEF StoreInv
<1>1. CASE CallRollback
  <2>1. /\ f_pc = "idle" /\ sequence < 2 * MaxWrites /\ f_pc' = "job"
        /\ UNCHANGED <<stage, active_region, slot, sequence, cells, f_cell, restored, reading, holders>>
    BY <1>1, SMTT(60) DEF CallRollback
  <2>2. ForegroundTypes'
    BY <1>0, <2>1, SMTT(30) DEF ForegroundTypes, Quiet, holders, stage, table
  <2>3. Holds' = Holds /\ Quiet /\ Quiet'
    BY <2>1, SMTT(30) DEF Holds, Quiet, holders
  <2> QED
    BY <2>1, <2>2, <2>3, QuietStep, SMTT(30)
<1>2. CASE FinishRollback
  <2>1. /\ f_pc = "restored" /\ active_region' = restored /\ active' \in {None, restored}
        /\ restored' = None /\ f_pc' = "begin"
        /\ UNCHANGED <<stage, slot, sequence, cells, f_cell, reading, activation, cache>>
    BY <1>2, SMTT(30) DEF FinishRollback
  <2>2. restored \in Optional
    BY <1>0, LiveRegions, SMTT(60) DEF ForegroundTypes, Optional
  <2>3. ForegroundTypes'
    BY <1>0, <2>1, <2>2, SMTT(30) DEF ForegroundTypes, Quiet, stage, table
  <2>4. Holds' \subseteq Holds \cup {None} /\ Quiet /\ Quiet'
    BY <2>1, SMTT(30) DEF Holds, Quiet
  <2> QED
    BY <2>1, <2>3, <2>4, QuietStep, SMTT(60)
<1> QED
  BY <1>1, <1>2, SMTT(30)

\* persist and replay.
LEMMA ReadActiveKeeps == ASSUME StoreInv, ReadActive \/ EndRead PROVE StoreInv'
<1>0. StageTypes /\ ForegroundTypes
  BY DEF StoreInv
<1>1. /\ f_pc \in {"idle", "read"} /\ f_pc' \in {"idle", "read"} /\ reading' \in {active_region, None}
      /\ UNCHANGED <<stage, active_region, slot, sequence, cells, f_cell, restored, holders>>
  BY SMTT(30) DEF ReadActive, EndRead
<1>2. ForegroundTypes'
  <2>1. reading' \in Optional /\ restored = None
    BY <1>0, <1>1, SMTT(30) DEF ForegroundTypes, Optional
  <2> QED
    BY <1>0, <1>1, <2>1, SMTT(60) DEF ForegroundTypes, Quiet, holders, stage, table
<1>3. Holds' = Holds /\ Quiet /\ Quiet'
  BY <1>1, SMTT(30) DEF Holds, Quiet, holders
<1> QED
  BY <1>1, <1>2, <1>3, QuietStep, SMTT(30)

\* publish_held_regions_: the sequence turns odd.
LEMMA BeginWriteKeeps == ASSUME StoreInv, BeginWrite PROVE StoreInv'
<1>0. /\ StageTypes /\ ForegroundTypes /\ LogHolds /\ SlotInView
      /\ WriteSoFar /\ ReadSoFar /\ HeldSafe /\ SweepSafe
  BY DEF StoreInv
<1>1. /\ f_pc = "begin" /\ sequence' = sequence + 1 /\ f_cell' = 1 /\ f_pc' = "write"
      /\ UNCHANGED <<stage, active_region, slot, cells, restored, reading, holders>>
  BY SMTT(60) DEF BeginWrite
<1>2. sequence \in Nat /\ sequence < 2 * MaxWrites /\ sequence % 2 = 0 /\ MaxWrites \in Nat
      /\ s_seq \in Nat /\ s_seq <= sequence
  BY <1>0, <1>1, NotARegion, SMTT(30) DEF ForegroundTypes, Quiet, StageTypes
<1>3. sequence' \in 0 .. 2 * MaxWrites /\ sequence' \in Nat /\ sequence' >= sequence
      /\ sequence' % 2 = 1 /\ s_seq # sequence' /\ 1 \in Cells
  BY <1>1, <1>2, NotARegion, SMTT(60) DEF Cells
<1>4. StageTypes' /\ LogHolds' /\ SlotInView'
  BY <1>0, <1>1, <1>3, StageKept, SMTT(60)
<1>5. /\ left_generation' = left_generation /\ s_pc' = s_pc /\ held' = held /\ live' = live
      /\ generation' = generation /\ last_published' = last_published /\ s_seq' = s_seq
      /\ activation' = activation /\ active' = active /\ cache' = cache
  BY <1>1, SMTT(60) DEF stage, table, callback, marks, holders
<1>6. ForegroundTypes'
  BY <1>0, <1>1, <1>3, <1>5, SMTT(30) DEF ForegroundTypes, Quiet
<1>7. WriteSoFar'
  BY <1>1, SMTT(30) DEF WriteSoFar
<1>8. ReadSoFar'
  BY <1>3, <1>5, SMTT(30) DEF ReadSoFar
<1>9. ~Quiet' /\ Holds' = Holds
  BY <1>1, <1>5, SMTT(30) DEF Quiet, Holds
<1>10. HeldSafe' /\ SweepSafe'
  BY <1>0, <1>5, <1>9, SMTT(30) DEF HeldSafe, SweepSafe
<1> QED
  BY <1>4, <1>6, <1>7, <1>8, <1>10, SMTT(60) DEF StoreInv

\* What a cell is to name is a region of the table, or nothing.
LEMMA HolderTyped ==
    ASSUME StageTypes, ForegroundTypes, NEW i \in Cells
    PROVE  Holder(i) \in Optional
<1>1. live \subseteq Regions
  BY LiveRegions, SMTT(30)
<1>2. activation \in Optional /\ active \in Optional
  BY <1>1, SMTT(30) DEF ForegroundTypes, Optional
<1>3. ASSUME i \notin {1, 2}, i - 3 < Len(cache)
      PROVE  cache[Len(cache) - (i - 3)] \in Optional
  <2>1. /\ cache \in Seq(live) /\ Len(cache) \in Nat /\ DOMAIN cache = 1 .. Len(cache) /\ i \in Nat /\ i >= 3
    BY <1>3, LenProperties, NotARegion, SMTT(30) DEF ForegroundTypes, Cells
  <2>2. Len(cache) - (i - 3) \in DOMAIN cache
    BY <1>3, <2>1, SMTT(30)
  <2>3. cache[Len(cache) - (i - 3)] \in live
    BY <2>1, <2>2, LenProperties, SMTT(60)
  <2> QED
    BY <1>1, <2>3, SMTT(30) DEF Optional
<1> QED
  BY <1>2, <1>3, SMTT(30) DEF Holder, Optional

\* publish_held_regions_ writes a cell.
LEMMA WriteCellKeeps == ASSUME StoreInv, WriteCell PROVE StoreInv'
<1>0. /\ StageTypes /\ ForegroundTypes /\ LogHolds /\ SlotInView
      /\ WriteSoFar /\ ReadSoFar /\ HeldSafe /\ SweepSafe
  BY DEF StoreInv
<1>1. /\ f_pc = "write" /\ cells' = [cells EXCEPT ![f_cell] = Holder(f_cell)]
      /\ \/ f_cell = CACHE + 2 /\ f_pc' = "end" /\ f_cell' = 1
         \/ f_cell # CACHE + 2 /\ f_cell' = f_cell + 1 /\ f_pc' = "write"
      /\ UNCHANGED <<stage, active_region, slot, sequence, restored, reading, holders>>
  BY SMTT(30) DEF WriteCell
<1>2. /\ sequence \in Nat /\ sequence % 2 = 1 /\ sequence' = sequence /\ restored = None
      /\ f_cell \in 1 .. CACHE + 2 /\ CACHE \in Nat /\ cells \in [Cells -> Optional]
  BY <1>0, <1>1, NotARegion, SMTT(30) DEF ForegroundTypes, Quiet, Cells
<1>3. StageTypes' /\ LogHolds' /\ SlotInView'
  BY <1>0, <1>1, <1>2, StageKept, SMTT(60)
<1>4. /\ left_generation' = left_generation /\ s_pc' = s_pc /\ held' = held /\ live' = live
      /\ generation' = generation /\ last_published' = last_published /\ s_seq' = s_seq
      /\ activation' = activation /\ active' = active /\ cache' = cache
  BY <1>1, SMTT(60) DEF stage, table, callback, marks, holders
<1>5. ForegroundTypes'
  <2>1. Holder(f_cell) \in Optional
    BY <1>0, HolderTyped, SMTT(30) DEF ForegroundTypes
  <2>2. cells' \in [Cells -> Optional]
    BY <1>1, <1>2, <2>1, Zenon
  <2>3. f_cell' \in Cells /\ f_pc' \in {"write", "end"}
    BY <1>1, <1>2 DEF Cells
  <2> QED
    BY <1>0, <1>1, <1>2, <1>4, <2>2, <2>3, SMTT(60) DEF ForegroundTypes, Quiet
<1>6. WriteSoFar'
  <2>1. \A i : Holder(i)' = Holder(i)
    BY <1>4, SMTT(30) DEF Holder
  <2>2. \A i \in 1 .. f_cell - 1 : cells[i] = Holder(i)
    BY <1>0, <1>1, SMTT(30) DEF WriteSoFar
  <2>3. \A i \in 1 .. f_cell : cells'[i] = Holder(i)
    BY <1>1, <1>2, <2>2, SMTT(60) DEF Cells
  <2>4. f_pc' = "write" => \A i \in 1 .. f_cell' - 1 : cells'[i] = Holder(i)
    BY <1>1, <1>2, <2>3, SMTT(60)
  <2>5. f_pc' = "end" => \A i \in Cells : cells'[i] = Holder(i)
    BY <1>1, <1>2, <2>3, SMTT(30) DEF Cells
  <2> QED
    BY <2>1, <2>4, <2>5 DEF WriteSoFar
<1>7. ReadSoFar'
  <2>1. s_pc \in {"cells", "recheck"} => sequence # s_seq
    BY <1>0, <1>2, SMTT(30) DEF StageTypes
  <2> QED
    BY <1>2, <1>4, <2>1, SMTT(30) DEF ReadSoFar
<1>8. ~Quiet' /\ Holds' = Holds
  BY <1>1, <1>2, <1>4, SMTT(60) DEF Quiet, Holds
<1>9. HeldSafe' /\ SweepSafe'
  BY <1>0, <1>4, <1>8 DEF HeldSafe, SweepSafe
<1> QED
  BY <1>3, <1>5, <1>6, <1>7, <1>9 DEF StoreInv

\* publish_held_regions_: the write is complete and names all there is.
LEMMA EndWriteKeeps == ASSUME StoreInv, EndWrite PROVE StoreInv'
<1>0. /\ StageTypes /\ ForegroundTypes /\ LogHolds /\ SlotInView
      /\ WriteSoFar /\ ReadSoFar /\ HeldSafe /\ SweepSafe
  BY DEF StoreInv
<1>1. /\ f_pc = "end" /\ sequence' = sequence + 1 /\ f_pc' = "idle"
      /\ UNCHANGED <<stage, active_region, slot, cells, f_cell, restored, reading, holders>>
  BY SMTT(60) DEF EndWrite
<1>2. /\ sequence \in Nat /\ sequence % 2 = 1 /\ sequence <= 2 * MaxWrites /\ restored = None
      /\ MaxWrites \in Nat /\ s_seq \in Nat /\ s_seq <= sequence
  BY <1>0, <1>1, NotARegion, SMTT(30) DEF ForegroundTypes, Quiet, StageTypes
<1>3. sequence' \in 0 .. 2 * MaxWrites /\ sequence' \in Nat /\ sequence' >= sequence
      /\ sequence' % 2 = 0 /\ s_seq # sequence'
  BY <1>1, <1>2, SMTT(30)
<1>4. StageTypes' /\ LogHolds' /\ SlotInView'
  BY <1>0, <1>1, <1>3, StageKept, SMTT(60)
<1>5. /\ left_generation' = left_generation /\ s_pc' = s_pc /\ held' = held /\ live' = live
      /\ generation' = generation /\ last_published' = last_published /\ s_seq' = s_seq
      /\ activation' = activation /\ active' = active /\ cache' = cache
  BY <1>1, SMTT(60) DEF stage, table, callback, marks, holders
<1>6. ForegroundTypes'
  BY <1>0, <1>1, <1>2, <1>3, <1>5, SMTT(60) DEF ForegroundTypes, Quiet
<1>7. WriteSoFar' /\ ReadSoFar'
  BY <1>1, <1>3, <1>5, SMTT(30) DEF WriteSoFar, ReadSoFar
<1>8. Holds' = Holds
  BY <1>1, <1>5, SMTT(30) DEF Holds
<1>9. \A r \in Holds \ {None} : Named(r)'
  <2> SUFFICES ASSUME NEW r \in Holds \ {None} PROVE \E i \in Cells : Holder(i) = r
    BY <1>0, <1>1, SMTT(30) DEF WriteSoFar, Named
  <2>1. CASE r = activation \/ r = active
    <3>1. 1 \in Cells /\ 2 \in Cells /\ Holder(1) = activation /\ Holder(2) = active
      BY NotARegion DEF Cells, Holder
    <3> QED
      BY <2>1, <3>1
  <2>2. CASE r \in Range(cache)
    <3>1. cache \in Seq(live) /\ Len(cache) \in Nat /\ Len(cache) <= CACHE /\ CACHE \in Nat
      BY <1>0, LenProperties, NotARegion, SMTT(30) DEF ForegroundTypes
    <3>2. PICK j \in 1 .. Len(cache) : cache[j] = r
      BY <2>2, <3>1, SeqRange, SMTT(30)
    <3>5. Len(cache) - j + 3 \in Cells
      BY <3>1, SMTT(30) DEF Cells
    <3>3. PICK i \in Cells : i = Len(cache) - j + 3
      BY <3>5, SMTT(30)
    <3>4. i # 1 /\ i # 2 /\ i - 3 < Len(cache) /\ Len(cache) - (i - 3) = j
      BY <3>1, <3>3, SMTT(60)
    <3> QED
      BY <3>2, <3>4, SMTT(60) DEF Holder
  <2> QED
    BY <1>2, <2>1, <2>2, SMTT(30) DEF Holds
<1>10. HeldSafe' /\ SweepSafe'
  BY <1>0, <1>5, <1>8, <1>9, SMTT(30) DEF HeldSafe, SweepSafe
<1> QED
  BY <1>4, <1>6, <1>7, <1>10, SMTT(30) DEF StoreInv

\* Every step keeps the invariant.
LEMMA StoreStep == ASSUME HaveGreatest, CountingFacts, StoreInv, [Next]_vars PROVE StoreInv'
<1>1. CASE PublishRegion \/ PublishSlot \/ MarkHanded
  BY <1>1, PublishRegionKeeps, PublishSlotKeeps, MarkHandedKeeps, SMTT(30)
<1>2. CASE ReadSequence \/ ReadCell \/ RecheckSequence \/ SweepRegions
  BY <1>2, ReadSequenceKeeps, ReadCellKeeps, RecheckKeeps, SweepKeeps, SMTT(30)
<1>3. CASE RollbackJob \/ CallRollback \/ FinishRollback
  BY <1>3, RollbackJobKeeps, RollbackCallKeeps, SMTT(30)
<1>4. CASE DispatchTransition \/ HandleDivergence
  BY <1>4, DispatchKeeps, DivergenceKeeps, SMTT(30)
<1>5. CASE ReadActive \/ EndRead
  BY <1>5, ReadActiveKeeps, SMTT(30)
<1>6. CASE BeginWrite \/ WriteCell \/ EndWrite
  BY <1>6, BeginWriteKeeps, WriteCellKeeps, EndWriteKeeps, SMTT(30)
<1>7. CASE UNCHANGED vars
  <2>1. UNCHANGED <<stage, sequence, cells, slot, f_pc, f_cell, restored, reading, active_region, holders>>
    BY <1>7 DEF vars, foreground
  <2>2. StageTypes /\ ForegroundTypes /\ WriteSoFar /\ LogHolds /\ SlotInView /\ ReadSoFar
        /\ HeldSafe /\ SweepSafe
    BY DEF StoreInv
  <2>3. ForegroundTypes' /\ WriteSoFar'
    BY <2>1, <2>2, SMTT(30) DEF ForegroundTypes, Quiet, WriteSoFar, Holder, stage, table, holders
  <2>4. StageTypes' /\ LogHolds' /\ SlotInView'
    <3>1. sequence \in Nat /\ sequence' = sequence
      BY <2>1, <2>2, SMTT(30) DEF ForegroundTypes
    <3> QED
      BY <2>1, <2>2, <3>1, StageKept, SMTT(60)
  <2>5. ReadSoFar'
    BY <2>1, <2>2, SMTT(30) DEF ReadSoFar, stage, callback
  <2>6. Holds' = Holds /\ Quiet' = Quiet /\ \A r : Named(r)' = Named(r)
    BY <2>1, SMTT(60) DEF Holds, Quiet, Named, holders
  <2>7. HeldSafe' /\ SweepSafe'
    BY <2>1, <2>2, <2>6, SMTT(30) DEF HeldSafe, SweepSafe, stage, table, marks
  <2> QED
    BY <2>3, <2>4, <2>5, <2>7, SMTT(60) DEF StoreInv
<1> QED
  BY <1>1, <1>2, <1>3, <1>4, <1>5, <1>6, <1>7, SMTT(60) DEF Next

\* The invariant says what a run checks: the types and the capacities, and
\* that every region the two threads can read is in the table.
LEMMA StoreImplies == StoreInv => RegionInv
<1> SUFFICES ASSUME StoreInv PROVE RegionInv
  OBVIOUS
<1>0. StageTypes /\ ForegroundTypes /\ LogHolds
  BY DEF StoreInv
<1>1. live \subseteq Regions
  BY <1>0, LiveRegions, SMTT(60)
<1>2. Range(uncompiled) \subseteq live /\ Range(cache) \subseteq live
  BY <1>0, SeqRange, SMTT(60) DEF StageTypes, ForegroundTypes
<1>3. TypeOK
  BY <1>0, <1>1, Zenon DEF TypeOK, StageTypes, ForegroundTypes, LogHolds, Optional
<1>4. NoUseAfterFree
  BY <1>0, <1>2 DEF NoUseAfterFree, ForegroundReads, StageReads, ForegroundTypes, LogHolds
<1> QED
  BY <1>3, <1>4, SMTT(30) DEF RegionInv

-----------------------------------------------------------------------------

F == INSTANCE FiniteSetTheorems

\* The library counts as the model does.
LEMMA SameCounting ==
    \A S : /\ F!IsFiniteSet(S) <=> IsFiniteSet(S)
          /\ F!Cardinality(S) = Cardinality(S)
<1>1. TAKE S
<1>2. F!IsFiniteSet(S) <=> IsFiniteSet(S)
  BY Zenon DEF F!IsFiniteSet, IsFiniteSet
<1>3. F!Cardinality(S) = Cardinality(S)
  BY Zenon DEF F!Cardinality, Cardinality
<1> QED
  BY <1>2, <1>3, Zenon

\* What is used of finite sets.
LEMMA CountingHolds == CountingFacts
<1>1. IsFiniteSet({}) /\ Cardinality({}) = 0
  BY F!FS_EmptySet, SameCounting, Zenon
<1>2. ASSUME NEW S, IsFiniteSet(S), NEW T, T \subseteq S
      PROVE  IsFiniteSet(T) /\ Cardinality(T) <= Cardinality(S)
  <2>1. F!IsFiniteSet(S) 
    BY <1>2, SameCounting, Zenon
  <2>2. F!IsFiniteSet(T) /\ F!Cardinality(T) <= F!Cardinality(S)
    BY <1>2, <2>1, F!FS_Subset, Zenon
  <2> QED
    BY <2>2, SameCounting, Zenon
<1>3. ASSUME NEW S, IsFiniteSet(S), NEW x, x \notin S
      PROVE  IsFiniteSet(S \cup {x}) /\ Cardinality(S \cup {x}) = Cardinality(S) + 1
  <2>1. F!IsFiniteSet(S) 
    BY <1>3, SameCounting, Zenon
  <2>2. F!IsFiniteSet(S \cup {x}) /\ F!Cardinality(S \cup {x}) = F!Cardinality(S) + 1
    BY <1>3, <2>1, F!FS_AddElement, SMT
  <2> QED
    BY <2>2, SameCounting, Zenon
<1>4. ASSUME NEW S, IsFiniteSet(S) PROVE Cardinality(S) \in Nat
  BY <1>4, SameCounting, F!FS_CardinalityType, Zenon
<1> QED
  BY <1>1, <1>2, <1>3, <1>4, Zenon DEF CountingFacts

\* A set of naturals with a bound has a greatest element.
LEMMA GreatestNat == HaveGreatest
<1> SUFFICES ASSUME NEW k \in Nat, NEW S \in SUBSET (0 .. k), S # {}
             PROVE  \E n \in S : \A m \in S : m <= n
  BY Zenon DEF HaveGreatest
<1> DEFINE R == F!OpToRel(<, Nat)
           T == {x \in Nat : x <= k /\ k - x \in S}
<1>1. F!IsWellFoundedOn(R, Nat)
  BY F!NatLessThanWellFounded, Zenon
<1>2. \A a, b \in Nat : a < b => <<a, b>> \in R
  BY DEF F!OpToRel
<1>3. T # {} /\ T \subseteq Nat
  <2>1. PICK n \in S : TRUE
    BY Zenon
  <2>2. k - n \in Nat /\ k - n <= k /\ k - (k - n) = n
    OBVIOUS
  <2> QED
    BY <2>1, <2>2, Zenon
<1> HIDE DEF R
<1>4. PICK x \in T : \A y \in T : ~ (<<y, x>> \in R)
  BY <1>1, <1>3, F!WFMin, Zenon
<1>5. ASSUME NEW m \in S PROVE m <= k - x
  <2>1. k - m \in Nat /\ k - m <= k /\ k - (k - m) = m /\ x \in Nat /\ x <= k
    BY <1>4
  <2>2. k - m \in T
    BY <2>1
  <2>3. ~(k - m < x)
    BY <1>2, <1>4, <2>1, <2>2, Zenon
  <2> QED
    BY <2>1, <2>3
<1> QED
  BY <1>4, <1>5

\* The sweep of publish_region frees no region that the foreground or the
\* stage can still read, whatever the sizes of the table, of the log, of the
\* cache and of the compile queue, and however the callback, the rollback
\* job and the writes of held_regions_ interleave.
THEOREM RegionsAreSafe == Spec => []RegionInv
<1>1. Init => StoreInv
  BY StoreInit, CountingHolds
<1>2. StoreInv /\ [Next]_vars => StoreInv'
  BY StoreStep, CountingHolds, GreatestNat
<1>3. Spec => []StoreInv
  BY <1>1, <1>2, PTL DEF Spec
<1> QED
  BY <1>3, StoreImplies, PTL
=============================================================================
