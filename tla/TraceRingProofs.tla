-------------------------- MODULE TraceRingProofs ---------------------------
(***************************************************************************)
(* The ring is correct for every capacity, every batch size, every set of  *)
(* parallel arrays and every number of appends.                            *)
(***************************************************************************)
EXTENDS TraceRing, Integers, TLAPS

(* The domain and the elements of a sequence. *)
LEMMA LenProperties ==
    ASSUME NEW S, NEW s \in Seq(S)
    PROVE  /\ Len(s) \in Nat /\ DOMAIN s = 1 .. Len(s)
           /\ \A i \in 1 .. Len(s) : s[i] \in S
OBVIOUS

(* A function on an initial segment of the positive naturals is a sequence. *)
LEMMA FunctionSeq ==
    ASSUME NEW S, NEW n \in Nat, NEW s \in [1 .. n -> S]
    PROVE  s \in Seq(S) /\ Len(s) = n
OBVIOUS

(* Sequences with the same length and the same entries are the same. *)
LEMMA SameSeq ==
    ASSUME NEW S, NEW s \in Seq(S), NEW t \in Seq(S), NEW n,
           Len(s) = n, Len(t) = n, \A i \in 1 .. n : s[i] = t[i]
    PROVE  s = t
OBVIOUS

(* An element appended. *)
LEMMA AppendProperties ==
    ASSUME NEW S, NEW s \in Seq(S), NEW e \in S
    PROVE  /\ Append(s, e) \in Seq(S) /\ Len(Append(s, e)) = Len(s) + 1
           /\ Append(s, e)[Len(s) + 1] = e /\ \A i \in 1 .. Len(s) : Append(s, e)[i] = s[i]
OBVIOUS

(* A sequence after another. *)
LEMMA JoinProperties ==
    ASSUME NEW S, NEW s \in Seq(S), NEW t \in Seq(S)
    PROVE  /\ s \o t \in Seq(S) /\ Len(s \o t) = Len(s) + Len(t)
           /\ \A i \in 1 .. Len(s) + Len(t) :
                 (s \o t)[i] = IF i <= Len(s) THEN s[i] ELSE t[i - Len(s)]
OBVIOUS

(* The stretch from m + 1 to n of a sequence. *)
LEMMA Slice ==
    ASSUME NEW S, NEW s \in Seq(S), NEW m \in Nat, NEW n \in Nat,
           m <= n, n <= Len(s)
    PROVE  /\ SubSeq(s, m + 1, n) \in Seq(S) /\ Len(SubSeq(s, m + 1, n)) = n - m
           /\ \A i \in 1 .. n - m : SubSeq(s, m + 1, n)[i] = s[m + i]
OBVIOUS

(* The first n elements. *)
LEMMA Prefix ==
    ASSUME NEW S, NEW s \in Seq(S), NEW n \in Nat, n <= Len(s)
    PROVE  /\ SubSeq(s, 1, n) \in Seq(S) /\ Len(SubSeq(s, 1, n)) = n
           /\ \A i \in 1 .. n : SubSeq(s, 1, n)[i] = s[i]
OBVIOUS

(* Division with remainder by the capacity. *)
LEMMA DivMod ==
    ASSUME NEW i \in Nat
    PROVE  /\ i = CAPACITY * (i \div CAPACITY) + (i % CAPACITY)
           /\ i % CAPACITY \in 0 .. CAPACITY - 1
           /\ i \div CAPACITY \in Nat
BY CapacityAssumption, Z3

(* Two multiples of c that differ differ by at least c. *)
LEMMA MultiplesApart ==
    ASSUME NEW c \in Nat \ {0}, NEW a \in Nat, NEW b \in Nat, NEW r \in Nat,
           c * a + r < c * b + r, c * b + r - (c * a + r) < c
    PROVE  FALSE
<1>1. c * b - c * a < c /\ c * a < c * b
  BY Z3
<1>2. a + 1 <= b
  BY <1>1, Z3
<1>3. c * b >= c * (a + 1)
  BY <1>2, Z3
<1> QED
  BY <1>1, <1>3, Z3

(* Positions less than CAPACITY apart lie in different slots. *)
LEMMA SlotsDistinct ==
    ASSUME NEW i \in Nat, NEW j \in Nat, i < j, j - i < CAPACITY
    PROVE  Slot(i) # Slot(j)
<1>1. SUFFICES ASSUME i % CAPACITY = j % CAPACITY PROVE FALSE
  BY DEF Slot
<1>2. PICK a \in Nat, b \in Nat, r \in Nat :
          i = CAPACITY * a + r /\ j = CAPACITY * b + r
  BY DivMod, <1>1
<1> QED
  BY <1>2, CapacityAssumption, MultiplesApart

(* A position lies in a slot of the arrays. *)
LEMMA SlotInRange == ASSUME NEW i \in Nat PROVE Slot(i) \in 0 .. CAPACITY - 1
BY DivMod DEF Slot

-----------------------------------------------------------------------------
(* The empty ring satisfies the invariant. *)
LEMMA InitInv == Init => RingInv
BY CapacityAssumption, NoOpAssumption
   DEF Init, RingInv, TypeOK, CountersOrdered, HistoriesCounted,
       UnreadSlotsIntact, CopiesAgree, DeliveredIsAcceptedPrefix

(* try_append, its test of the private view of tail: the view lags behind
   tail, so a slot that it shows free is free. *)
LEMMA TryAppendInv ==
    ASSUME RingInv, NEW op \in Ops, TryAppend(op) PROVE RingInv'
<1> USE CapacityAssumption DEF RingInv, TryAppend, ring, consumer
<1>1. TypeOK'
  BY DEF TypeOK
<1>2. CountersOrdered' /\ HistoriesCounted'
  BY DEF TypeOK, CountersOrdered, HistoriesCounted
<1>3. UnreadSlotsIntact'
  BY DEF TypeOK, UnreadSlotsIntact
<1>4. CopiesAgree' /\ DeliveredIsAcceptedPrefix'
  BY DEF TypeOK, CopiesAgree, DeliveredIsAcceptedPrefix
<1> QED
  BY <1>1, <1>2, <1>3, <1>4

(* try_append, its refresh of the view: the second test uses tail itself. *)
LEMMA RefreshTailInv == ASSUME RingInv, RefreshTail PROVE RingInv'
<1> USE CapacityAssumption DEF RingInv, RefreshTail, consumer
<1>1. TypeOK'
  BY Zenon DEF TypeOK
<1>2. CountersOrdered' /\ HistoriesCounted'
  BY DEF TypeOK, CountersOrdered, HistoriesCounted
<1>3. UnreadSlotsIntact'
  BY DEF TypeOK, UnreadSlotsIntact
<1>4. CopiesAgree' /\ DeliveredIsAcceptedPrefix'
  BY DEF TypeOK, CopiesAgree, DeliveredIsAcceptedPrefix
<1> QED
  BY <1>1, <1>2, <1>3, <1>4

(* The slot being filled is outside the unread window. *)
LEMMA FillsFreeSlot ==
    ASSUME TypeOK, CountersOrdered, p_pc = "write",
           NEW i \in tail .. head - 1
    PROVE  Slot(i) # Slot(head)
BY SlotsDistinct, CapacityAssumption DEF TypeOK, CountersOrdered

(* A slot write of try_append disturbs no unread slot. *)
LEMMA WriteSlotInv ==
    ASSUME RingInv, NEW b \in Arrays, WriteSlot(b) PROVE RingInv'
<1> USE CapacityAssumption DEF RingInv, WriteSlot, consumer
<1>0. Slot(head) \in 0 .. CAPACITY - 1
  BY SlotInRange, Zenon DEF TypeOK
<1>1. TypeOK'
  BY <1>0 DEF TypeOK
<1>2. CountersOrdered' /\ HistoriesCounted'
  BY DEF TypeOK, CountersOrdered, HistoriesCounted
<1>3. UnreadSlotsIntact'
  <2>1. ASSUME NEW i \in tail .. head - 1, NEW a \in Arrays
        PROVE  slots'[a][Slot(i)] = accepted[i + 1]
    <3>1. Slot(i) # Slot(head)
      BY FillsFreeSlot
    <3>2. slots'[a][Slot(i)] = slots[a][Slot(i)]
      BY <1>0, <3>1 DEF TypeOK
    <3> QED
      BY <3>2 DEF UnreadSlotsIntact
  <2>2. ASSUME NEW a \in Arrays \ p_todo'
        PROVE  slots'[a][Slot(head)] = p_op
    BY <1>0, <2>2 DEF TypeOK, UnreadSlotsIntact
  <2> QED
    BY <2>1, <2>2 DEF UnreadSlotsIntact
<1>4. CopiesAgree' /\ DeliveredIsAcceptedPrefix'
  BY DEF TypeOK, CopiesAgree, DeliveredIsAcceptedPrefix
<1> QED
  BY <1>1, <1>2, <1>3, <1>4

(* The release of head adds one record, complete in every array. *)
LEMMA PublishHeadInv == ASSUME RingInv, PublishHead PROVE RingInv'
<1> USE CapacityAssumption DEF RingInv, PublishHead, consumer
<1>0. p_op \in Ops /\ accepted \in Seq(Ops) /\ Len(accepted) = head
  BY DEF TypeOK, CountersOrdered, HistoriesCounted
<1>a. /\ accepted' \in Seq(Ops) /\ Len(accepted') = head + 1
      /\ accepted'[head + 1] = p_op
      /\ \A i \in 1 .. head : accepted'[i] = accepted[i]
  BY <1>0 DEF TypeOK
<1>1. TypeOK'
  BY <1>a DEF TypeOK
<1>2. CountersOrdered' /\ HistoriesCounted'
  BY <1>a DEF TypeOK, CountersOrdered, HistoriesCounted
<1>3. UnreadSlotsIntact'
  <2>0. tail' .. head' - 1 = tail .. head
    BY DEF TypeOK
  <2> SUFFICES ASSUME NEW i \in tail .. head, NEW a \in Arrays
               PROVE  slots[a][Slot(i)] = accepted'[i + 1]
    BY <2>0, Zenon DEF UnreadSlotsIntact
  <2>1. CASE i = head
    BY <1>a, <2>1 DEF UnreadSlotsIntact
  <2>2. CASE i # head
    <3>1. i \in tail .. head - 1 /\ i + 1 \in 1 .. head
      BY <2>2 DEF TypeOK
    <3> QED
      BY <1>a, <3>1, Zenon DEF UnreadSlotsIntact
  <2> QED
    BY <2>1, <2>2, Zenon
<1>4. CopiesAgree'
  <2> SUFFICES ASSUME NEW a \in Arrays, NEW i \in 1 .. Len(c_out[a])
               PROVE  c_out[a][i] = accepted'[consumer_tail + i]
    BY Zenon DEF CopiesAgree
  <2>1. Len(c_out[a]) \in Nat /\ Len(c_out[a]) <= c_count
    BY DEF TypeOK, CopiesAgree
  <2>2. consumer_tail + c_count <= head
    BY DEF TypeOK, CountersOrdered
  <2>3. consumer_tail + i \in 1 .. head
    BY <2>1, <2>2 DEF TypeOK
  <2> QED
    BY <1>a, <2>3, Zenon DEF CopiesAgree
<1>5. DeliveredIsAcceptedPrefix'
  BY <1>a DEF TypeOK, DeliveredIsAcceptedPrefix, HistoriesCounted,
              CountersOrdered
<1> QED
  BY <1>1, <1>2, <1>3, <1>4, <1>5

(* try_pop_batch takes a count of published records. *)
LEMMA PopBatchInv ==
    ASSUME RingInv, NEW max_count \in 1 .. BATCH, PopBatch(max_count)
    PROVE  RingInv'
<1> USE CapacityAssumption, BatchAssumption
    DEF RingInv, PopBatch, ring, producer, SmallerOf
<1>0. c_count' \in Nat /\ c_count' > 0 /\ consumer_tail + c_count' <= head
  BY DEF TypeOK, CountersOrdered
<1>1. TypeOK'
  BY <1>0 DEF TypeOK
<1>2. CountersOrdered' /\ HistoriesCounted'
  BY <1>0 DEF TypeOK, CountersOrdered, HistoriesCounted
<1>3. UnreadSlotsIntact'
  BY DEF TypeOK, UnreadSlotsIntact
<1>4. CopiesAgree'
  BY <1>0 DEF TypeOK, CopiesAgree, CountersOrdered
<1>5. DeliveredIsAcceptedPrefix'
  BY DEF DeliveredIsAcceptedPrefix
<1> QED
  BY <1>1, <1>2, <1>3, <1>4, <1>5

(* A copy of try_pop_batch reads the record that was appended there. *)
LEMMA CopySlotInv ==
    ASSUME RingInv, NEW b \in Arrays, CopySlot(b) PROVE RingInv'
<1> USE CapacityAssumption DEF RingInv, CopySlot, ring, producer
<1> DEFINE n == Len(c_out[b])
           v == slots[b][Slot(consumer_tail + n)]
<1>0. n \in Nat /\ n < c_count /\ c_count \in Nat
      /\ consumer_tail \in Nat /\ tail = consumer_tail /\ head \in Nat
      /\ consumer_tail + c_count <= head
  BY DEF TypeOK, CountersOrdered
<1>a. consumer_tail + n \in tail .. head - 1
  BY <1>0
<1>b. v \in Ops \cup {NoOp} /\ v = accepted[consumer_tail + n + 1]
  <2>0. consumer_tail + n \in Nat
    BY <1>0
  <2>1. Slot(consumer_tail + n) \in 0 .. CAPACITY - 1
    BY <2>0, SlotInRange, Zenon
  <2> QED
    BY <1>a, <2>1 DEF TypeOK, UnreadSlotsIntact
<1>c. c_out' = [c_out EXCEPT ![b] = Append(c_out[b], v)]
  BY DEF TypeOK
<1>d. c_out[b] \in Seq(Ops \cup {NoOp})
  BY DEF TypeOK
<1> HIDE DEF v
<1>1. TypeOK'
  BY <1>b, <1>c, <1>d DEF TypeOK
<1>2. CountersOrdered' /\ HistoriesCounted'
  BY DEF TypeOK, CountersOrdered, HistoriesCounted
<1>3. UnreadSlotsIntact'
  BY DEF TypeOK, UnreadSlotsIntact
<1>4. CopiesAgree'
  <2> SUFFICES ASSUME NEW a \in Arrays
               PROVE  /\ Len(c_out'[a]) <= c_count
                      /\ \A i \in 1 .. Len(c_out'[a]) :
                            c_out'[a][i] = accepted[consumer_tail + i]
    BY DEF CopiesAgree
  <2>1. CASE a = b
    <3>1. c_out'[a] = Append(c_out[b], v)
      BY <1>c, <2>1 DEF TypeOK
    <3>2. /\ Len(Append(c_out[b], v)) = n + 1
          /\ Append(c_out[b], v)[n + 1] = v
          /\ \A i \in 1 .. n : Append(c_out[b], v)[i] = c_out[b][i]
      BY <1>b, <1>d
    <3>3. \A i \in 1 .. n : c_out[b][i] = accepted[consumer_tail + i]
      BY DEF CopiesAgree
    <3> HIDE DEF n
    <3>4. n + 1 <= c_count
      BY <1>0
    <3>5. ASSUME NEW i \in 1 .. n + 1
          PROVE  Append(c_out[b], v)[i] = accepted[consumer_tail + i]
      <4>1. CASE i = n + 1
        <5>1. consumer_tail + n + 1 = consumer_tail + i
          BY <1>0, <4>1
        <5> QED
          BY <3>2, <4>1, <5>1, <1>b
      <4>2. CASE i \in 1 .. n
        BY <3>2, <3>3, <4>2
      <4>3. i = n + 1 \/ i \in 1 .. n
        BY <1>0
      <4> QED
        BY <4>1, <4>2, <4>3, Zenon
    <3> QED
      BY <3>1, <3>2, <3>4, <3>5, SMTT(30)
  <2>2. CASE a # b
    <3>1. c_out'[a] = c_out[a]
      BY <1>c, <2>2 DEF TypeOK
    <3> QED
      BY <3>1, Zenon DEF CopiesAgree
  <2> QED
    BY <2>1, <2>2
<1>5. DeliveredIsAcceptedPrefix'
  BY DEF DeliveredIsAcceptedPrefix
<1> QED
  BY <1>1, <1>2, <1>3, <1>4, <1>5

(* The release of tail frees only slots that were copied. *)
LEMMA PublishTailInv == ASSUME RingInv, PublishTail PROVE RingInv'
<1> USE CapacityAssumption DEF RingInv, PublishTail, producer
<1> DEFINE Record == [Arrays -> Ops \cup {NoOp}]
           batch == [i \in 1 .. c_count |-> [a \in Arrays |-> c_out[a][i]]]
<1>0. /\ c_count \in Nat /\ consumer_tail \in Nat /\ head \in Nat
      /\ tail = consumer_tail /\ consumer_tail + c_count <= head
      /\ Len(delivered) = tail /\ Len(accepted) = head
      /\ delivered \in Seq(Record)
  BY DEF TypeOK, CountersOrdered, HistoriesCounted
<1>a. \A i \in 1 .. c_count, a \in Arrays :
          /\ c_out[a][i] \in Ops \cup {NoOp}
          /\ c_out[a][i] = accepted[consumer_tail + i]
  BY <1>0 DEF TypeOK, CopiesAgree
<1>b. batch \in Seq(Record) /\ Len(batch) = c_count
  <2>1. batch \in [1 .. c_count -> Record]
    BY <1>a
  <2> HIDE DEF batch, Record
  <2>2. batch \in Seq(Record)
    BY <1>0, <2>1, FunctionSeq
  <2>3. DOMAIN batch = 1 .. c_count
    BY <2>1
  <2>4. Len(batch) \in Nat /\ DOMAIN batch = 1 .. Len(batch)
    BY <2>2, LenProperties
  <2>5. Len(batch) = c_count
    BY <1>0, <2>3, <2>4
  <2> QED
    BY <2>2, <2>5
<1>c. delivered' = delivered \o batch
  OBVIOUS
<1>d. \A i \in 1 .. c_count, a \in Arrays :
          batch[i][a] = accepted[consumer_tail + i]
  BY <1>a, SMTT(30)
<1> HIDE DEF batch, Record
<1>e. /\ delivered' \in Seq(Record)
      /\ Len(delivered') = consumer_tail + c_count
      /\ \A i \in 1 .. consumer_tail : delivered'[i] = delivered[i]
      /\ \A i \in consumer_tail + 1 .. consumer_tail + c_count :
            delivered'[i] = batch[i - consumer_tail]
  <2> DEFINE both == delivered \o batch
  <2>1. /\ both \in Seq(Record)
        /\ Len(both) = Len(delivered) + Len(batch)
        /\ \A i \in 1 .. Len(delivered) + Len(batch) :
              both[i] = IF i <= Len(delivered) THEN delivered[i]
                        ELSE batch[i - Len(delivered)]
    BY <1>0, <1>b, JoinProperties
  <2>2. delivered' = both
    BY <1>c, Zenon
  <2> HIDE DEF both
  <2>3. Len(both) = consumer_tail + c_count
    BY <1>0, <1>b, <2>1
  <2>4. ASSUME NEW i \in 1 .. consumer_tail
        PROVE  both[i] = delivered[i]
    BY <1>0, <1>b, <2>1
  <2>5. ASSUME NEW i \in consumer_tail + 1 .. consumer_tail + c_count
        PROVE  both[i] = batch[i - consumer_tail]
    BY <1>0, <1>b, <2>1
  <2> QED
    BY <2>1, <2>2, <2>3, <2>4, <2>5, Zenon
<1>1. TypeOK'
  BY <1>0, <1>e DEF TypeOK, Record
<1>2. CountersOrdered' /\ HistoriesCounted'
  BY <1>0, <1>e DEF TypeOK, CountersOrdered, HistoriesCounted
<1>3. UnreadSlotsIntact'
  BY <1>0 DEF TypeOK, UnreadSlotsIntact
<1>4. CopiesAgree'
  BY DEF CopiesAgree
<1>5. DeliveredIsAcceptedPrefix'
  <2> SUFFICES ASSUME NEW i \in 1 .. consumer_tail + c_count, NEW a \in Arrays
               PROVE  delivered'[i][a] = accepted[i]
    BY <1>0, <1>e, SMTT(30) DEF DeliveredIsAcceptedPrefix
  <2>1. CASE i \in 1 .. consumer_tail
    BY <1>0, <1>e, <2>1 DEF DeliveredIsAcceptedPrefix
  <2>2. CASE i \in consumer_tail + 1 .. consumer_tail + c_count
    <3>1. i - consumer_tail \in 1 .. c_count
          /\ consumer_tail + (i - consumer_tail) = i
      BY <1>0, <2>2
    <3> QED
      BY <1>d, <1>e, <2>2, <3>1, Zenon
  <2> QED
    BY <1>0, <2>1, <2>2
<1> QED
  BY <1>1, <1>2, <1>3, <1>4, <1>5

(* reset leaves an empty ring. *)
LEMMA ResetInv == ASSUME RingInv, Reset PROVE RingInv'
<1> USE CapacityAssumption DEF RingInv, Reset, producer, consumer
<1>1. TypeOK'
  BY DEF TypeOK
<1>2. CountersOrdered' /\ HistoriesCounted' /\ UnreadSlotsIntact'
  BY DEF TypeOK, CountersOrdered, HistoriesCounted, UnreadSlotsIntact
<1>3. CopiesAgree' /\ DeliveredIsAcceptedPrefix'
  BY DEF TypeOK, CountersOrdered, CopiesAgree, DeliveredIsAcceptedPrefix
<1> QED
  BY <1>1, <1>2, <1>3

(* Every step of the two threads preserves the invariant. *)
LEMMA NextInv == RingInv /\ [Next]_vars => RingInv'
<1> SUFFICES ASSUME RingInv, [Next]_vars PROVE RingInv'
  OBVIOUS
<1>1. CASE Next
  BY <1>1, TryAppendInv, RefreshTailInv, WriteSlotInv, PublishHeadInv,
     PopBatchInv, CopySlotInv, PublishTailInv, ResetInv DEF Next
<1>2. CASE UNCHANGED vars
  BY <1>2 DEF vars, RingInv, TypeOK, CountersOrdered, HistoriesCounted,
              UnreadSlotsIntact, CopiesAgree, DeliveredIsAcceptedPrefix
<1> QED
  BY <1>1, <1>2

(* The ring's counters, slots and copies stay consistent: the stale view   *)
(* of tail in try_append never lets it overwrite an unread slot, and       *)
(* try_pop_batch never copies an unpublished one.                          *)
THEOREM RingCorrect == Spec => []RingInv
BY InitInv, NextInv, PTL DEF Spec

(* What the pops return is a prefix of what the appends accepted, with no  *)
(* torn record.                                                            *)
THEOREM Delivery == Spec => []DeliveredIsAcceptedPrefix
<1>1. RingInv => DeliveredIsAcceptedPrefix
  BY DEF RingInv
<1> QED
  BY <1>1, RingCorrect, PTL

(* The append in progress and the pop in progress never share a slot.      *)
THEOREM NoRace == Spec => []NoSlotRace
<1>1. RingInv => NoSlotRace
  <2> SUFFICES ASSUME RingInv, p_pc = "write", NEW i \in 0 .. c_count - 1
               PROVE  Slot(consumer_tail + i) # Slot(head)
    BY DEF NoSlotRace
  <2>1. consumer_tail + i \in tail .. head - 1
    BY DEF RingInv, TypeOK, CountersOrdered
  <2> QED
    BY <2>1, FillsFreeSlot DEF RingInv
<1> QED
  BY <1>1, RingCorrect, PTL

-----------------------------------------------------------------------------
(* The ring implements the bounded queue of TraceQueue.  What the queue    *)
(* holds, and what was taken from it: *)
Held == SubSeq(accepted, tail + 1, head)
Taken == [i \in 1 .. Len(delivered) |->
             delivered[i][CHOOSE a \in Arrays : TRUE]]

(* The stretch of no element. *)
LEMMA EmptyStretch ==
    ASSUME NEW s, NEW m \in Nat PROVE SubSeq(s, m + 1, m) = << >>
OBVIOUS

(* A prefix and the stretch after it are the longer prefix. *)
LEMMA Prefixes ==
    ASSUME NEW S, NEW s \in Seq(S), NEW k \in Nat, NEW n \in Nat,
           k <= n, n <= Len(s)
    PROVE  SubSeq(s, 1, k) \o SubSeq(s, k + 1, n) = SubSeq(s, 1, n)
<1> DEFINE a == SubSeq(s, 1, k)
           b == SubSeq(s, k + 1, n)
           c == SubSeq(s, 1, n)
<1>1. k <= Len(s)
  BY LenProperties
<1>2. a \in Seq(S) /\ Len(a) = k /\ \A i \in 1 .. k : a[i] = s[i]
  BY <1>1, Prefix
<1>3. b \in Seq(S) /\ Len(b) = n - k /\ \A i \in 1 .. n - k : b[i] = s[k + i]
  BY Slice
<1>4. c \in Seq(S) /\ Len(c) = n /\ \A i \in 1 .. n : c[i] = s[i]
  BY Prefix
<1> HIDE DEF a, b, c
<1>5. /\ a \o b \in Seq(S) /\ Len(a \o b) = n
      /\ \A i \in 1 .. n : (a \o b)[i] = IF i <= k THEN a[i] ELSE b[i - k]
  <2>1. /\ a \o b \in Seq(S) /\ Len(a \o b) = Len(a) + Len(b)
        /\ \A i \in 1 .. Len(a) + Len(b) : (a \o b)[i] = IF i <= Len(a) THEN a[i] ELSE b[i - Len(a)]
    BY <1>2, <1>3, JoinProperties, Zenon
  <2>2. Len(a) + Len(b) = n /\ Len(a) = k
    BY <1>2, <1>3
  <2> QED
    BY <2>1, <2>2, Zenon
<1>6. ASSUME NEW i \in 1 .. n PROVE (a \o b)[i] = c[i]
  <2>1. CASE i <= k
    <3>1. i \in 1 .. k
      BY <2>1
    <3> QED
      BY <1>2, <1>4, <1>5, <2>1, <3>1, Zenon
  <2>2. CASE ~(i <= k)
    <3>1. i - k \in 1 .. n - k /\ k + (i - k) = i
      BY <2>2
    <3>2. b[i - k] = s[k + (i - k)]
      BY <1>3, <3>1, Zenon
    <3> QED
      BY <1>4, <1>5, <2>2, <3>1, <3>2, Zenon
  <2> QED
    BY <2>1, <2>2, Zenon
<1>7. a \o b = c
  BY <1>4, <1>5, <1>6, SameSeq
<1> QED
  BY <1>7 DEF a, b, c

(* What the ring holds and what was taken are the two parts of what was
   accepted. *)
LEMMA HeldIs ==
    RingInv => /\ Held \in Seq(Ops) /\ Len(Held) = head - tail
               /\ \A i \in 1 .. head - tail : Held[i] = accepted[tail + i]
<1> SUFFICES ASSUME RingInv
             PROVE  /\ Held \in Seq(Ops) /\ Len(Held) = head - tail
                    /\ \A i \in 1 .. head - tail : Held[i] = accepted[tail + i]
  OBVIOUS
<1>1. /\ accepted \in Seq(Ops) /\ Len(accepted) = head
      /\ tail \in Nat /\ head \in Nat /\ tail <= head
  BY DEF RingInv, TypeOK, CountersOrdered, HistoriesCounted
<1> QED
  BY <1>1, Slice DEF Held

LEMMA TakenIs == RingInv => Taken = SubSeq(accepted, 1, tail)
<1> SUFFICES ASSUME RingInv PROVE Taken = SubSeq(accepted, 1, tail)
  OBVIOUS
<1>1. /\ accepted \in Seq(Ops) /\ Len(accepted) = head
      /\ tail \in Nat /\ head \in Nat /\ tail <= head /\ Len(delivered) = tail
  BY DEF RingInv, TypeOK, CountersOrdered, HistoriesCounted
<1>2. (CHOOSE a \in Arrays : TRUE) \in Arrays
  BY ArraysAssumption
<1>3. Taken = [i \in 1 .. tail |-> accepted[i]]
  BY <1>1, <1>2 DEF Taken, RingInv, DeliveredIsAcceptedPrefix
<1>4. /\ SubSeq(accepted, 1, tail) \in Seq(Ops)
      /\ Len(SubSeq(accepted, 1, tail)) = tail
      /\ \A i \in 1 .. tail : SubSeq(accepted, 1, tail)[i] = accepted[i]
  <2>1. 0 \in Nat /\ 0 + 1 = 1 /\ tail - 0 = tail /\ 0 <= tail /\ tail <= Len(accepted)
    BY <1>1
  <2>2. \A i \in 1 .. tail : 0 + i = i
    OBVIOUS
  <2>3. /\ SubSeq(accepted, 0 + 1, tail) \in Seq(Ops)
        /\ Len(SubSeq(accepted, 0 + 1, tail)) = tail - 0
        /\ \A i \in 1 .. tail - 0 : SubSeq(accepted, 0 + 1, tail)[i] = accepted[0 + i]
    BY <1>1, <2>1, Slice
  <2> QED
    BY <2>1, <2>2, <2>3
<1> QED
  BY <1>1, <1>3, <1>4, LenProperties

(* A step of the ring that leaves the counters and the histories alone is
   no step of the queue. *)
LEMMA Stutters ==
    ASSUME UNCHANGED <<accepted, delivered, tail, head, ok>>
    PROVE  UNCHANGED Queue!vars
BY DEF Queue!vars

(* A refusal finds the queue full: the second test of try_append uses tail
   itself. *)
LEMMA RefreshTailQueue ==
    ASSUME RingInv, RefreshTail PROVE [Queue!Next]_(Queue!vars)
<1> USE CapacityAssumption DEF RefreshTail
<1>1. CASE head - tail >= CAPACITY
  <2>1. Len(Held) = CAPACITY
    BY <1>1, HeldIs DEF RingInv, TypeOK, CountersOrdered
  <2>2. Held' = Held /\ Taken' = Taken /\ ok' = FALSE
    BY <1>1 DEF Held, Taken
  <2>3. Queue!Refuse
    BY <2>1, <2>2, Zenon DEF Queue!Refuse, Held, Taken
  <2> QED
    BY <2>3 DEF Queue!Next
<1>2. CASE ~(head - tail >= CAPACITY)
  BY <1>2, Stutters
<1> QED
  BY <1>1, <1>2

(* The release store of head is the accept. *)
LEMMA PublishHeadQueue ==
    ASSUME RingInv, PublishHead PROVE Queue!Next
<1> USE CapacityAssumption DEF PublishHead
<1>0. /\ Held' \in Seq(Ops) /\ Len(Held') = head' - tail'
      /\ \A i \in 1 .. head' - tail' : Held'[i] = accepted'[tail' + i]
  <2>1. RingInv'
    BY PublishHeadInv
  <2>2. (RingInv => /\ Held \in Seq(Ops) /\ Len(Held) = head - tail
                    /\ \A i \in 1 .. head - tail : Held[i] = accepted[tail + i])'
    BY HeldIs, PTL
  <2> QED
    BY <2>1, <2>2, Zenon
<1>1. /\ accepted \in Seq(Ops) /\ Len(accepted) = head /\ p_op \in Ops
      /\ tail \in Nat /\ head \in Nat /\ tail <= head /\ head - tail < CAPACITY
      /\ head' = head + 1 /\ tail' = tail /\ accepted' = Append(accepted, p_op)
  BY DEF RingInv, TypeOK, CountersOrdered, HistoriesCounted
<1>2. Len(Held) < CAPACITY
  BY <1>1, HeldIs
<1>3. Held' = Append(Held, p_op)
  <2>1. /\ Held' \in Seq(Ops) /\ Len(Held') = head + 1 - tail
        /\ \A i \in 1 .. head + 1 - tail : Held'[i] = accepted'[tail + i]
    BY <1>0, <1>1
  <2>2. /\ Held \in Seq(Ops) /\ Len(Held) = head - tail
        /\ \A i \in 1 .. head - tail : Held[i] = accepted[tail + i]
    BY HeldIs
  <2>3. /\ Append(Held, p_op) \in Seq(Ops)
        /\ Len(Append(Held, p_op)) = head + 1 - tail
        /\ \A i \in 1 .. head - tail : Append(Held, p_op)[i] = Held[i]
        /\ Append(Held, p_op)[head - tail + 1] = p_op
    BY <1>1, <2>2, AppendProperties
  <2>4. ASSUME NEW i \in 1 .. head + 1 - tail
        PROVE  Held'[i] = Append(Held, p_op)[i]
    <3>1. CASE i = head - tail + 1
      <4>1. tail + i = head + 1
        BY <1>1, <3>1
      <4>2. accepted'[head + 1] = p_op
        BY <1>1
      <4> QED
        BY <2>1, <2>3, <3>1, <4>1, <4>2, Zenon
    <3>2. CASE i # head - tail + 1
      <4>1. i \in 1 .. head - tail /\ tail + i \in 1 .. head
        BY <1>1, <3>2
      <4>2. accepted'[tail + i] = accepted[tail + i]
        BY <1>1, <4>1
      <4> QED
        BY <2>1, <2>2, <2>3, <4>1, <4>2, Zenon
    <3> QED
      BY <3>1, <3>2, Zenon
  <2> QED
    BY <2>1, <2>3, <2>4, SameSeq
<1>4. Taken' = Taken
  BY DEF Taken
<1>5. Queue!Accept(p_op)
  BY <1>2, <1>3, <1>4, Zenon DEF Queue!Accept, Held, Taken
<1> QED
  BY <1>1, <1>5 DEF Queue!Next

(* The release store of tail takes what the pop copied. *)
LEMMA PublishTailQueue ==
    ASSUME RingInv, PublishTail PROVE Queue!Next
<1> USE CapacityAssumption
<1>0. /\ Held' \in Seq(Ops) /\ Len(Held') = head' - tail'
      /\ \A i \in 1 .. head' - tail' : Held'[i] = accepted'[tail' + i]
      /\ Taken' = SubSeq(accepted', 1, tail')
  <2>1. RingInv'
    BY PublishTailInv
  <2>2. (RingInv => /\ Held \in Seq(Ops) /\ Len(Held) = head - tail
                    /\ \A i \in 1 .. head - tail : Held[i] = accepted[tail + i])'
    BY HeldIs, PTL
  <2>3. (RingInv => Taken = SubSeq(accepted, 1, tail))'
    BY TakenIs, PTL
  <2> QED
    BY <2>1, <2>2, <2>3
<1>1. PICK n \in Nat :
      /\ accepted \in Seq(Ops) /\ Len(accepted) = head
      /\ tail \in Nat /\ head \in Nat /\ tail <= head /\ head - tail <= CAPACITY
      /\ n > 0 /\ tail + n <= head
      /\ head' = head /\ tail' = tail + n /\ accepted' = accepted /\ ok' = ok
  BY DEF RingInv, TypeOK, CountersOrdered, HistoriesCounted, PublishTail
<1>2. /\ Held \in Seq(Ops) /\ Len(Held) = head - tail
      /\ \A i \in 1 .. head - tail : Held[i] = accepted[tail + i]
  BY HeldIs
<1>3. Taken = SubSeq(accepted, 1, tail) /\ Taken' = SubSeq(accepted, 1, tail + n)
  BY <1>0, <1>1, TakenIs
<1>4. SubSeq(Held, 1, n) = SubSeq(accepted, tail + 1, tail + n)
  <2>1. /\ SubSeq(accepted, tail + 1, tail + n) \in Seq(Ops)
        /\ Len(SubSeq(accepted, tail + 1, tail + n)) = tail + n - tail
        /\ \A i \in 1 .. tail + n - tail :
              SubSeq(accepted, tail + 1, tail + n)[i] = accepted[tail + i]
    <3>1. /\ accepted \in Seq(Ops) /\ tail \in Nat /\ tail + n \in Nat
          /\ tail <= tail + n /\ tail + n <= Len(accepted)
      BY <1>1
    <3> QED
      BY <3>1, Slice, SMTT(30)
  <2>2. /\ SubSeq(Held, 1, n) \in Seq(Ops) /\ Len(SubSeq(Held, 1, n)) = n
        /\ \A i \in 1 .. n : SubSeq(Held, 1, n)[i] = Held[i]
    <3>1. n \in Nat /\ n <= Len(Held) /\ Held \in Seq(Ops)
      BY <1>1, <1>2
    <3> QED
      BY <3>1, Prefix, Zenon
  <2>3. /\ tail + n - tail = n /\ \A i \in 1 .. n : i \in 1 .. head - tail
    BY <1>1
  <2>4. \A i \in 1 .. n : SubSeq(Held, 1, n)[i] = SubSeq(accepted, tail + 1, tail + n)[i]
    <3> SUFFICES ASSUME NEW i \in 1 .. n
                 PROVE  SubSeq(Held, 1, n)[i] = SubSeq(accepted, tail + 1, tail + n)[i]
      BY Zenon
    <3>1. i \in 1 .. head - tail /\ i \in 1 .. tail + n - tail
      BY <2>3, Zenon
    <3>2. SubSeq(accepted, tail + 1, tail + n)[i] = accepted[tail + i]
      BY <2>1, <3>1, Zenon
    <3> QED
      BY <1>2, <2>2, <3>1, <3>2, Zenon
  <2>5. /\ SubSeq(Held, 1, n) \in Seq(Ops) /\ Len(SubSeq(Held, 1, n)) = n
        /\ SubSeq(accepted, tail + 1, tail + n) \in Seq(Ops)
        /\ Len(SubSeq(accepted, tail + 1, tail + n)) = n
    BY <2>1, <2>2, <2>3
  <2> QED
    BY <2>4, <2>5, SameSeq
<1>5. Taken' = Taken \o SubSeq(Held, 1, n)
  <2>1. tail + n \in Nat /\ tail <= tail + n /\ tail + n <= Len(accepted)
    BY <1>1
  <2>2. SubSeq(accepted, 1, tail) \o SubSeq(accepted, tail + 1, tail + n)
          = SubSeq(accepted, 1, tail + n)
    BY <1>1, <2>1, Prefixes, Zenon
  <2> QED
    BY <1>3, <1>4, <2>2, Zenon
<1>6. Held' = SubSeq(Held, n + 1, Len(Held))
  <2>1. /\ Held' \in Seq(Ops) /\ Len(Held') = head - (tail + n)
        /\ \A i \in 1 .. head - (tail + n) : Held'[i] = accepted[tail + n + i]
    BY <1>0, <1>1
  <2>2. /\ SubSeq(Held, n + 1, head - tail) \in Seq(Ops)
        /\ Len(SubSeq(Held, n + 1, head - tail)) = head - tail - n
        /\ \A i \in 1 .. head - tail - n :
              SubSeq(Held, n + 1, head - tail)[i] = Held[n + i]
    BY <1>1, <1>2, Slice
  <2>3. head - tail - n = head - (tail + n)
    BY <1>1
  <2>4. ASSUME NEW i \in 1 .. head - (tail + n)
        PROVE  Held'[i] = SubSeq(Held, n + 1, head - tail)[i]
    <3>1. n + i \in 1 .. head - tail /\ tail + (n + i) = tail + n + i
      BY <1>1
    <3> QED
      BY <1>2, <2>1, <2>2, <2>3, <3>1
  <2> QED
    BY <1>2, <2>1, <2>2, <2>3, <2>4, SameSeq
<1>7. n \in 1 .. Len(Held) /\ n \in 1 .. CAPACITY
  BY <1>1, <1>2
<1>8. Queue!Take(n)
  BY <1>1, <1>5, <1>6, <1>7, Zenon DEF Queue!Take, Held, Taken
<1>9. \E k \in 1 .. CAPACITY : Queue!Take(k)
  BY <1>7, <1>8
<1> QED
  BY <1>9 DEF Queue!Next

(* Every step of the two threads is a step of the queue or none. *)
LEMMA NextQueue == RingInv /\ [Next]_vars => [Queue!Next]_(Queue!vars)
<1> SUFFICES ASSUME RingInv, [Next]_vars PROVE [Queue!Next]_(Queue!vars)
  OBVIOUS
<1>1. ASSUME NEW op \in Ops, TryAppend(op) PROVE UNCHANGED Queue!vars
  BY <1>1, Stutters DEF TryAppend, ring
<1>2. CASE RefreshTail
  BY <1>2, RefreshTailQueue
<1>3. ASSUME NEW a \in Arrays, WriteSlot(a) PROVE UNCHANGED Queue!vars
  BY <1>3, Stutters DEF WriteSlot
<1>4. CASE PublishHead
  BY <1>4, PublishHeadQueue
<1>5. ASSUME NEW max_count \in 1 .. BATCH, PopBatch(max_count)
      PROVE  UNCHANGED Queue!vars
  BY <1>5, Stutters DEF PopBatch, ring
<1>6. ASSUME NEW a \in Arrays, CopySlot(a) PROVE UNCHANGED Queue!vars
  BY <1>6, Stutters DEF CopySlot, ring
<1>7. CASE PublishTail
  BY <1>7, PublishTailQueue
<1>8. CASE Reset
  <2>1. Queue!Restart
    BY <1>8, EmptyStretch DEF Reset, Queue!Restart
  <2> QED
    BY <2>1 DEF Queue!Next
<1>9. CASE UNCHANGED vars
  BY <1>9, Stutters DEF vars
<1> QED
  BY <1>1, <1>2, <1>3, <1>4, <1>5, <1>6, <1>7, <1>8, <1>9 DEF Next

(* The recording ring implements the bounded queue that the pipeline takes *)
(* it for: an append that returns true adds one op at the end, one that    *)
(* returns false found CAPACITY unread ops, and a pop takes a run from the *)
(* front (try_append, try_pop_batch, reset).                               *)
THEOREM RingIsQueue == Spec => ImplementsQueue
<1>1. Init => Queue!Init
  BY EmptyStretch DEF Init, Queue!Init
<1> QED
  BY <1>1, NextQueue, RingCorrect, PTL DEF Spec, ImplementsQueue, Queue!Spec
=============================================================================
