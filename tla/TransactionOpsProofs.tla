------------------------ MODULE TransactionOpsProofs ------------------------
(***************************************************************************)
(* What the operations of TransactionLog do to a log, for every number of  *)
(* slots from four on.  The facts are stated slot by slot: which slots     *)
(* change and to what.  TransactionLogProofs and RegionStoreProofs build   *)
(* on them.                                                                *)
(***************************************************************************)
EXTENDS TransactionOps, TLAPS

\* The values of TxStatus.
Status == {"RECORDING", "CLOSED", "COMMITTED", "ACTIVE", "SUPERSEDED", "ROLLED_BACK"}
\* A slot of the ring.
Slot == [step : Nat, status : Status, order : Nat, region : Nat \cup {None}]
\* The ring, active_tx_ and the counter of displacements.
Logs == [ring : Seq(Slot), active : Nat \cup {None}, displacements : Nat]

\* No step is in two slots.
StepsDistinct(l) ==
    \A i, j \in DOMAIN l.ring : l.ring[i].step = l.ring[j].step => i = j

\* The active pointer leads to the one slot that is ACTIVE.
ActiveAgrees(l) ==
    /\ l.active # None => \E i \in DOMAIN l.ring : l.ring[i].step = l.active
    /\ \A i \in DOMAIN l.ring : (l.ring[i].status = "ACTIVE") <=> (l.ring[i].step = l.active)

\* Each superseded slot has a place of its own, none past the counter.
PlacesAgree(l) ==
    /\ \A i \in DOMAIN l.ring :
          l.ring[i].status = "SUPERSEDED" => l.ring[i].order \in 1 .. l.displacements
    /\ \A i, j \in DOMAIN l.ring :
          /\ l.ring[i].status = "SUPERSEDED" /\ l.ring[j].status = "SUPERSEDED"
          /\ l.ring[i].order = l.ring[j].order
          => i = j

\* A slot that was committed, and not rolled back since, has a region.
RegionsKept(l) ==
    \A i \in DOMAIN l.ring :
        l.ring[i].status \in {"COMMITTED", "ACTIVE", "SUPERSEDED"} => l.ring[i].region # None

\* A log as the operations leave it.
WellFormed(l) ==
    /\ l \in Logs /\ Len(l.ring) <= N
    /\ StepsDistinct(l) /\ ActiveAgrees(l) /\ PlacesAgree(l) /\ RegionsKept(l)

-----------------------------------------------------------------------------

\* The domain of a sequence.
LEMMA LenProperties ==
    ASSUME NEW S, NEW s \in Seq(S)
    PROVE  Len(s) \in Nat /\ DOMAIN s = 1 .. Len(s) /\ s \in [1 .. Len(s) -> S]
OBVIOUS

\* A function on an initial segment of the positive naturals is a sequence.
LEMMA FunctionSeq ==
    ASSUME NEW S, NEW n \in Nat, NEW s \in [1 .. n -> S]
    PROVE  s \in Seq(S) /\ Len(s) = n
OBVIOUS

\* The sequence without elements.
LEMMA EmptySeq ==
    ASSUME NEW S
    PROVE  << >> \in Seq(S) /\ Len(<< >>) = 0 /\ \A s \in Seq(S) : s # << >> => Len(s) \in Nat \ {0}
OBVIOUS

\* An element appended.
LEMMA AppendProperties ==
    ASSUME NEW S, NEW s \in Seq(S), NEW e \in S
    PROVE  /\ Append(s, e) \in Seq(S) /\ Len(Append(s, e)) = Len(s) + 1
           /\ Append(s, e)[Len(s) + 1] = e /\ \A i \in 1 .. Len(s) : Append(s, e)[i] = s[i]
OBVIOUS

\* The first element, and the others.
LEMMA HeadTailProperties ==
    ASSUME NEW S, NEW s \in Seq(S), s # << >>
    PROVE  /\ Head(s) \in S /\ Head(s) = s[1] /\ Tail(s) \in Seq(S) /\ Len(Tail(s)) = Len(s) - 1
           /\ \A i \in 1 .. Len(s) - 1 : Tail(s)[i] = s[i + 1]
OBVIOUS

-----------------------------------------------------------------------------

\* The types of the parts of a log, and its slots by their index.
LEMMA LogTypes ==
    ASSUME NEW l \in Logs
    PROVE  /\ l.ring \in Seq(Slot) /\ Len(l.ring) \in Nat /\ DOMAIN l.ring = 1 .. Len(l.ring)
           /\ l.active \in Nat \cup {None} /\ l.displacements \in Nat
           /\ \A i \in DOMAIN l.ring : /\ l.ring[i] \in Slot /\ l.ring[i] \in Entries(l)
                                       /\ l.ring[i].step \in Nat /\ l.ring[i].order \in Nat
                                       /\ l.ring[i].region \in Nat \cup {None}
                                       /\ l.ring[i].status \in Status
<1>1. l.ring \in Seq(Slot) /\ l.active \in Nat \cup {None} /\ l.displacements \in Nat
  BY DEF Logs
<1>2. /\ Len(l.ring) \in Nat /\ DOMAIN l.ring = 1 .. Len(l.ring)
      /\ \A i \in DOMAIN l.ring : l.ring[i] \in Slot
  BY <1>1, LenProperties
<1>3. \A i \in DOMAIN l.ring : l.ring[i] \in Entries(l)
  BY DEF Entries
<1>4. \A e \in Slot : /\ e.step \in Nat /\ e.order \in Nat /\ e.region \in Nat \cup {None}
                      /\ e.status \in Status
  BY DEF Slot
<1> QED
  BY <1>1, <1>2, <1>3, <1>4

\* A pointer leads to its slot.
LEMMA EntryFacts ==
    ASSUME NEW l, StepsDistinct(l), NEW i \in DOMAIN l.ring
    PROVE  Entry(l, l.ring[i].step) = l.ring[i]
<1>1. l.ring[i] \in Entries(l)
  BY DEF Entries
<1>2. \A e \in Entries(l) : e.step = l.ring[i].step => e = l.ring[i]
  BY DEF Entries, StepsDistinct
<1> QED
  BY <1>1, <1>2, Zenon DEF Entry

\* Updated writes the slot of its entry and no other.
LEMMA UpdatedFacts ==
    ASSUME NEW l \in Logs, NEW e \in Slot
    PROVE  /\ Updated(l, e) \in Logs
           /\ DOMAIN Updated(l, e).ring = DOMAIN l.ring /\ Len(Updated(l, e).ring) = Len(l.ring)
           /\ Updated(l, e).active = l.active /\ Updated(l, e).displacements = l.displacements
           /\ \A i \in DOMAIN l.ring :
                 Updated(l, e).ring[i] = IF l.ring[i].step = e.step THEN e ELSE l.ring[i]
<1> DEFINE r == [i \in DOMAIN l.ring |-> IF l.ring[i].step = e.step THEN e ELSE l.ring[i]]
<1>1. /\ l.ring \in Seq(Slot) /\ Len(l.ring) \in Nat /\ DOMAIN l.ring = 1 .. Len(l.ring)
      /\ \A i \in DOMAIN l.ring : l.ring[i] \in Slot
  BY LogTypes
<1>2. r \in Seq(Slot) /\ Len(r) = Len(l.ring)
  <2>1. r \in [1 .. Len(l.ring) -> Slot]
    BY <1>1
  <2> QED
    BY <1>1, <2>1, FunctionSeq, LenProperties
<1>3. Updated(l, e) = [l EXCEPT !.ring = r]
  BY DEF Updated
<1>4. DOMAIN r = DOMAIN l.ring /\ \A i \in DOMAIN l.ring : r[i] = IF l.ring[i].step = e.step THEN e ELSE l.ring[i]
  OBVIOUS
<1> HIDE DEF r
<1>5. /\ Updated(l, e).ring = r /\ Updated(l, e).active = l.active
      /\ Updated(l, e).displacements = l.displacements /\ Updated(l, e) \in Logs
  BY <1>2, <1>3 DEF Logs
<1> QED
  BY <1>2, <1>4, <1>5

\* The oldest slot leaves the front and an entry joins the end.
LEMMA ShiftFacts ==
    ASSUME NEW l \in Logs, Len(l.ring) > 0, NEW e \in Slot, NEW m,
           m = [l EXCEPT !.ring = Append(Tail(l.ring), e)]
    PROVE  /\ m \in Logs /\ Len(m.ring) = Len(l.ring) /\ DOMAIN m.ring = DOMAIN l.ring
           /\ m.active = l.active /\ m.displacements = l.displacements
           /\ \A i \in 1 .. Len(l.ring) - 1 : m.ring[i] = l.ring[i + 1]
           /\ m.ring[Len(l.ring)] = e
<1>1. l.ring \in Seq(Slot) /\ Len(l.ring) \in Nat /\ DOMAIN l.ring = 1 .. Len(l.ring)
  BY LogTypes
<1>2. /\ Tail(l.ring) \in Seq(Slot) /\ Len(Tail(l.ring)) = Len(l.ring) - 1
      /\ \A i \in 1 .. Len(l.ring) - 1 : Tail(l.ring)[i] = l.ring[i + 1]
  BY <1>1, HeadTailProperties, EmptySeq
<1> DEFINE r == Append(Tail(l.ring), e)
<1>3. /\ r \in Seq(Slot) /\ Len(r) = Len(l.ring) /\ r[Len(l.ring)] = e
      /\ \A i \in 1 .. Len(l.ring) - 1 : r[i] = l.ring[i + 1]
  <2>1. /\ r \in Seq(Slot) /\ Len(r) = Len(Tail(l.ring)) + 1
        /\ \A i \in 1 .. Len(Tail(l.ring)) : r[i] = Tail(l.ring)[i]
        /\ r[Len(Tail(l.ring)) + 1] = e
    BY <1>2, AppendProperties
  <2>2. Len(Tail(l.ring)) + 1 = Len(l.ring)
    BY <1>1, <1>2
  <2> HIDE DEF r
  <2> QED
    BY <1>2, <2>1, <2>2
<1> HIDE DEF r
<1>4. m = [l EXCEPT !.ring = r]
  BY DEF r
<1>5. /\ m.ring = r /\ m.active = l.active /\ m.displacements = l.displacements /\ m \in Logs
  BY <1>3, <1>4, Zenon DEF Logs
<1>6. DOMAIN r = 1 .. Len(r)
  BY <1>3, LenProperties
<1> QED
  BY <1>1, <1>3, <1>5, <1>6

\* An entry joins the end of a ring that is not full.
LEMMA GrowFacts ==
    ASSUME NEW l \in Logs, NEW e \in Slot, NEW m, m = [l EXCEPT !.ring = Append(l.ring, e)]
    PROVE  /\ m \in Logs /\ Len(m.ring) = Len(l.ring) + 1
           /\ m.active = l.active /\ m.displacements = l.displacements
           /\ \A i \in 1 .. Len(l.ring) : m.ring[i] = l.ring[i]
           /\ m.ring[Len(l.ring) + 1] = e
<1>1. l.ring \in Seq(Slot) /\ Len(l.ring) \in Nat
  BY LogTypes
<1> DEFINE r == Append(l.ring, e)
<1>2. /\ r \in Seq(Slot) /\ Len(r) = Len(l.ring) + 1
      /\ \A i \in 1 .. Len(l.ring) : r[i] = l.ring[i]
      /\ r[Len(l.ring) + 1] = e
  BY <1>1, AppendProperties
<1> HIDE DEF r
<1>3. m = [l EXCEPT !.ring = r]
  BY DEF r
<1>4. /\ m.ring = r /\ m.active = l.active /\ m.displacements = l.displacements /\ m \in Logs
  BY <1>2, <1>3, Zenon DEF Logs
<1> QED
  BY <1>2, <1>4

\* A pass keeps the log, or moves its oldest slot to the end because it has
\* to stay.
LEMMA PassFacts ==
    ASSUME NEW l \in Logs, NEW t, NEW m, m = Pass(l, t)
    PROVE  \/ m = l /\ (Len(l.ring) = N => l.ring[1].step \notin {l.active, t})
           \/ /\ Len(l.ring) = N /\ l.ring[1].step \in {l.active, t}
              /\ m \in Logs /\ Len(m.ring) = N /\ m.active = l.active
              /\ m.displacements = l.displacements
              /\ \A i \in 1 .. N - 1 : m.ring[i] = l.ring[i + 1]
              /\ m.ring[N] = l.ring[1]
<1>1. /\ l.ring \in Seq(Slot) /\ Len(l.ring) \in Nat /\ DOMAIN l.ring = 1 .. Len(l.ring)
      /\ \A i \in DOMAIN l.ring : l.ring[i] \in Slot
  BY LogTypes
<1>2. Len(l.ring) = N => Head(l.ring) = l.ring[1]
  BY <1>1, RingAssumption, HeadTailProperties, EmptySeq
<1>3. CASE Len(l.ring) = N /\ l.ring[1].step \in {l.active, t}
  <2>1. m = [l EXCEPT !.ring = Append(Tail(l.ring), l.ring[1])]
    BY <1>2, <1>3 DEF Pass
  <2>2. l.ring[1] \in Slot /\ Len(l.ring) > 0
    BY <1>1, <1>3, RingAssumption
  <2>3. PICK e \in Slot : e = l.ring[1]
    BY <2>2
  <2>4. m = [l EXCEPT !.ring = Append(Tail(l.ring), e)]
    BY <2>1, <2>3
  <2>5. /\ m \in Logs /\ Len(m.ring) = Len(l.ring)
        /\ m.active = l.active /\ m.displacements = l.displacements
        /\ \A i \in 1 .. Len(l.ring) - 1 : m.ring[i] = l.ring[i + 1]
        /\ m.ring[Len(l.ring)] = e
    BY <2>2, <2>4, ShiftFacts, SMTT(30)
  <2> QED
    BY <1>3, <2>3, <2>5
<1>4. CASE ~(Len(l.ring) = N /\ l.ring[1].step \in {l.active, t})
  <2>1. m = l
    BY <1>2, <1>4 DEF Pass
  <2> QED
    BY <1>4, <2>1
<1> QED
  BY <1>3, <1>4

\* The claim of a slot: where each slot of b comes from, d the one recycled.
Source(n, d, i) ==
    IF d = 0 THEN i
    ELSE IF i + d <= n THEN i + d ELSE i + d - n

\* The outcome of a claim in slot d, 0 for a slot never used before: the slot
\* is neither that of the active transaction nor that of the rollback target.
Claimed(l, b, s, d) ==
    /\ b \in Logs /\ b.active = l.active /\ b.displacements = l.displacements
    /\ d \in 0 .. 3
    /\ IF d = 0 THEN Len(l.ring) < N /\ Len(b.ring) = Len(l.ring) + 1
       ELSE /\ Len(l.ring) = N /\ Len(b.ring) = N
            /\ l.ring[d].step \notin Kept(l)
    /\ b.ring[Len(b.ring)] = Recording(s)
    /\ \A i \in 1 .. Len(b.ring) - 1 : b.ring[i] = l.ring[Source(Len(l.ring), d, i)]

\* begin_tx claims one of the three oldest slots, or a new one.
LEMMA BeginFacts ==
    ASSUME NEW l \in Logs, Len(l.ring) <= N, StepsDistinct(l), NEW s \in Nat
    PROVE  \E d \in 0 .. 3 : Claimed(l, BeginTx(l, s), s, d)
<1> DEFINE t == Previous(l)
           p == Pass(l, t)
           m == Pass(p, t)
           e == Recording(s)
           b == BeginTx(l, s)
<1>0. N \in Nat /\ N >= 4 /\ Kept(l) = {l.active, t}
  BY RingAssumption DEF Kept
<1>1. e \in Slot
  BY DEF Recording, Slot, Status
<1>2. b = [m EXCEPT !.ring = Append(IF Len(m.ring) = N THEN Tail(m.ring) ELSE m.ring, e)]
  BY DEF BeginTx
<1>3. /\ Len(l.ring) \in Nat /\ DOMAIN l.ring = 1 .. Len(l.ring)
  BY LogTypes
<1>4. \/ p = l /\ (Len(l.ring) = N => l.ring[1].step \notin {l.active, t})
      \/ /\ Len(l.ring) = N /\ l.ring[1].step \in {l.active, t}
         /\ p \in Logs /\ Len(p.ring) = N /\ p.active = l.active
         /\ p.displacements = l.displacements
         /\ \A i \in 1 .. N - 1 : p.ring[i] = l.ring[i + 1]
         /\ p.ring[N] = l.ring[1]
  BY PassFacts
<1>5. p \in Logs => \/ m = p /\ (Len(p.ring) = N => p.ring[1].step \notin {p.active, t})
                    \/ /\ Len(p.ring) = N /\ p.ring[1].step \in {p.active, t}
                       /\ m \in Logs /\ Len(m.ring) = N /\ m.active = p.active
                       /\ m.displacements = p.displacements
                       /\ \A i \in 1 .. N - 1 : m.ring[i] = p.ring[i + 1]
                       /\ m.ring[N] = p.ring[1]
  BY PassFacts
<1> HIDE DEF e, b, m, p, t
<1>6. ASSUME m \in Logs, Len(m.ring) = N
      PROVE  /\ b \in Logs /\ Len(b.ring) = N
             /\ b.active = m.active /\ b.displacements = m.displacements
             /\ \A i \in 1 .. N - 1 : b.ring[i] = m.ring[i + 1]
             /\ b.ring[N] = e
  <2>1. b = [m EXCEPT !.ring = Append(Tail(m.ring), e)]
    BY <1>2, <1>6
  <2>2. /\ b \in Logs /\ Len(b.ring) = Len(m.ring)
        /\ b.active = m.active /\ b.displacements = m.displacements
        /\ \A i \in 1 .. Len(m.ring) - 1 : b.ring[i] = m.ring[i + 1]
        /\ b.ring[Len(m.ring)] = e
    BY <1>0, <1>1, <1>6, <2>1, ShiftFacts
  <2> QED
    BY <1>6, <2>2
<1>7. CASE Len(l.ring) # N
  <2>1. m = l
    BY <1>4, <1>5, <1>7
  <2>2. b = [l EXCEPT !.ring = Append(l.ring, e)]
    BY <1>2, <1>7, <2>1
  <2>3. /\ b \in Logs /\ Len(b.ring) = Len(l.ring) + 1
        /\ b.active = l.active /\ b.displacements = l.displacements
        /\ \A i \in 1 .. Len(l.ring) : b.ring[i] = l.ring[i]
        /\ b.ring[Len(l.ring) + 1] = e
    BY <1>1, <2>2, GrowFacts
  <2>4. Claimed(l, b, s, 0)
    BY <1>0, <1>3, <1>7, <2>3 DEF Claimed, Source, e
  <2> QED
    BY <1>0, <2>4 DEF b
<1>8. CASE Len(l.ring) = N /\ l.ring[1].step \notin {l.active, t}
  <2>1. m = l
    BY <1>4, <1>5, <1>8
  <2>2. Claimed(l, b, s, 1)
    BY <1>0, <1>3, <1>6, <1>8, <2>1, SMTT(30) DEF Claimed, Source, e
  <2> QED
    BY <1>0, <2>2 DEF b
<1>9. CASE Len(l.ring) = N /\ l.ring[1].step \in {l.active, t} /\ l.ring[2].step \notin {l.active, t}
  <2>1. /\ p \in Logs /\ Len(p.ring) = N /\ p.active = l.active
        /\ p.displacements = l.displacements
        /\ \A i \in 1 .. N - 1 : p.ring[i] = l.ring[i + 1]
        /\ p.ring[N] = l.ring[1]
    BY <1>4, <1>9
  <2>2. p.ring[1] = l.ring[2]
    BY <1>0, <2>1
  <2>3. m = p
    BY <1>5, <1>9, <2>1, <2>2
  <2>4. /\ b \in Logs /\ Len(b.ring) = N
        /\ b.active = l.active /\ b.displacements = l.displacements
        /\ \A i \in 1 .. N - 1 : b.ring[i] = p.ring[i + 1]
        /\ b.ring[N] = e
    BY <1>6, <2>1, <2>3
  <2>5. \A i \in 1 .. N - 1 : b.ring[i] = l.ring[Source(N, 2, i)]
    BY <1>0, <2>1, <2>4, SMTT(30) DEF Source
  <2>6. Claimed(l, b, s, 2)
    BY <1>0, <1>9, <2>4, <2>5 DEF Claimed, e
  <2> QED
    BY <1>0, <2>6 DEF b
<1>10. CASE Len(l.ring) = N /\ l.ring[1].step \in {l.active, t} /\ l.ring[2].step \in {l.active, t}
  <2>1. /\ p \in Logs /\ Len(p.ring) = N /\ p.active = l.active
        /\ p.displacements = l.displacements
        /\ \A i \in 1 .. N - 1 : p.ring[i] = l.ring[i + 1]
        /\ p.ring[N] = l.ring[1]
    BY <1>4, <1>10
  <2>2. p.ring[1] = l.ring[2]
    BY <1>0, <2>1
  <2>3. /\ m \in Logs /\ Len(m.ring) = N /\ m.active = l.active
        /\ m.displacements = l.displacements
        /\ \A i \in 1 .. N - 1 : m.ring[i] = p.ring[i + 1]
        /\ m.ring[N] = l.ring[2]
    BY <1>5, <1>10, <2>1, <2>2
  <2>4. /\ b \in Logs /\ Len(b.ring) = N
        /\ b.active = l.active /\ b.displacements = l.displacements
        /\ \A i \in 1 .. N - 1 : b.ring[i] = m.ring[i + 1]
        /\ b.ring[N] = e
    BY <1>6, <2>3
  <2>5. \A i \in 1 .. N - 1 : b.ring[i] = l.ring[Source(N, 3, i)]
    <3> SUFFICES ASSUME NEW i \in 1 .. N - 1 PROVE b.ring[i] = l.ring[Source(N, 3, i)]
      OBVIOUS
    <3>1. CASE i <= N - 3
      BY <1>0, <2>1, <2>3, <2>4, <3>1 DEF Source
    <3>2. CASE i = N - 2
      BY <1>0, <2>1, <2>3, <2>4, <3>2 DEF Source
    <3>3. CASE i = N - 1
      BY <1>0, <2>1, <2>3, <2>4, <3>3 DEF Source
    <3> QED
      BY <1>0, <3>1, <3>2, <3>3
  <2>6. l.ring[3].step \notin {l.active, t}
    <3>1. 1 \in DOMAIN l.ring /\ 2 \in DOMAIN l.ring /\ 3 \in DOMAIN l.ring
      BY <1>0, <1>3, <1>10
    <3>2. l.ring[1].step # l.ring[2].step /\ l.ring[1].step # l.ring[3].step
          /\ l.ring[2].step # l.ring[3].step
      BY <3>1 DEF StepsDistinct
    <3> QED
      BY <1>10, <3>2
  <2>7. Claimed(l, b, s, 3)
    BY <1>0, <1>10, <2>4, <2>5, <2>6 DEF Claimed, e
  <2> QED
    BY <1>0, <2>7 DEF b
<1> QED
  BY <1>7, <1>8, <1>9, <1>10

\* A set of naturals with a bound has a greatest element.  The modules that
\* build on this one prove it by well-founded induction (GreatestNat).
HaveGreatest ==
    \A k \in Nat : \A S \in SUBSET (0 .. k) : S # {} => \E n \in S : \A m \in S : m <= n

\* The slot of the newest displacement.
Top(l, i) ==
    /\ i \in DOMAIN l.ring /\ l.ring[i].status = "SUPERSEDED"
    /\ \A j \in DOMAIN l.ring :
          l.ring[j].status = "SUPERSEDED" => l.ring[j].order <= l.ring[i].order

\* previous() finds the newest displacement.
LEMMA PreviousIsTop ==
    ASSUME NEW l, WellFormed(l), NEW i, Top(l, i) PROVE Previous(l) = l.ring[i].step
<1>0. l \in Logs /\ PlacesAgree(l)
  BY DEF WellFormed
<1>1. l.ring[i] \in Superseded(l)
  BY DEF Superseded, Entries, Top
<1>2. \A f \in Superseded(l) : f.order <= l.ring[i].order
  BY DEF Superseded, Entries, Top
<1>3. ASSUME NEW e \in Superseded(l), \A f \in Superseded(l) : f.order <= e.order
      PROVE  e = l.ring[i]
  <2>1. PICK j \in DOMAIN l.ring : e = l.ring[j] /\ l.ring[j].status = "SUPERSEDED"
    BY DEF Superseded, Entries
  <2>2. l.ring[j].order \in Nat /\ l.ring[i].order \in Nat /\ i \in DOMAIN l.ring
    BY <1>0, LogTypes DEF Top
  <2>3. l.ring[i].order = l.ring[j].order
    BY <1>1, <1>2, <1>3, <2>1, <2>2
  <2>4. i = j
    BY <1>0, <2>1, <2>2, <2>3 DEF PlacesAgree, Top
  <2> QED
    BY <2>1, <2>4
<1>4. l.ring[i] = CHOOSE e \in Superseded(l) : \A f \in Superseded(l) : f.order <= e.order
  BY <1>1, <1>2, <1>3, Zenon
<1> QED
  BY <1>1, <1>4 DEF Previous

\* There is one, unless nothing is superseded.
LEMMA PreviousFacts ==
    ASSUME HaveGreatest, NEW l, WellFormed(l)
    PROVE  \/ /\ Previous(l) = None
              /\ \A i \in DOMAIN l.ring : l.ring[i].status # "SUPERSEDED"
           \/ \E i : Top(l, i) /\ Previous(l) = l.ring[i].step
<1>0. l \in Logs /\ PlacesAgree(l)
  BY DEF WellFormed
<1>1. CASE \A i \in DOMAIN l.ring : l.ring[i].status # "SUPERSEDED"
  <2>1. Superseded(l) = {}
    BY <1>1 DEF Superseded, Entries
  <2> QED
    BY <1>1, <2>1 DEF Previous
<1>2. ASSUME NEW k \in DOMAIN l.ring, l.ring[k].status = "SUPERSEDED"
      PROVE  \E i : Top(l, i) /\ Previous(l) = l.ring[i].step
  <2> DEFINE I == {i \in DOMAIN l.ring : l.ring[i].status = "SUPERSEDED"}
             S == {l.ring[i].order : i \in I}
  <2>1. k \in I /\ l.displacements \in Nat
    BY <1>0, <1>2, LogTypes
  <2>2. S \subseteq 0 .. l.displacements
    BY <1>0, <2>1 DEF PlacesAgree
  <2>3. S # {}
    BY <2>1
  <2>4. PICK n \in S : \A m \in S : m <= n
    <3> HIDE DEF S
    <3> QED
      BY <2>1, <2>2, <2>3, Zenon DEF HaveGreatest
  <2>5. PICK i \in I : n = l.ring[i].order
    BY <2>4
  <2>6. Top(l, i)
    BY <2>4, <2>5 DEF Top
  <2> QED
    BY <2>6, PreviousIsTop
<1> QED
  BY <1>1, <1>2

\* Every slot of the claim's result but the last was a slot before, no two
\* the same, and only the recycled one is missing.
LEMMA SourceFacts ==
    ASSUME NEW n \in Nat, NEW d \in 0 .. 3, NEW c \in Nat,
           IF d = 0 THEN c = n + 1 ELSE c = n /\ n >= 4
    PROVE  /\ \A i \in 1 .. c - 1 : Source(n, d, i) \in 1 .. n
           /\ \A i, j \in 1 .. c - 1 : Source(n, d, i) = Source(n, d, j) => i = j
           /\ \A k \in 1 .. n : k # d => \E i \in 1 .. c - 1 : Source(n, d, i) = k
<1>1. CASE d = 0
  BY <1>1 DEF Source
<1>2. CASE d # 0
  <2>1. c = n /\ n >= 4 /\ d \in 1 .. 3
    BY <1>2
  <2>2. \A i \in 1 .. n - 1 : Source(n, d, i) = IF i + d <= n THEN i + d ELSE i + d - n
    BY <1>2 DEF Source
  <2>3. \A i \in 1 .. n - 1 : Source(n, d, i) \in 1 .. n
    BY <2>1, <2>2
  <2>4. \A i, j \in 1 .. n - 1 : Source(n, d, i) = Source(n, d, j) => i = j
    BY <2>1, <2>2
  <2>5. ASSUME NEW k \in 1 .. n, k # d PROVE \E i \in 1 .. n - 1 : Source(n, d, i) = k
    <3>1. CASE k > d
      <4>1. k - d \in 1 .. n - 1 /\ Source(n, d, k - d) = k
        BY <2>1, <2>2, <3>1
      <4> QED
        BY <4>1
    <3>2. CASE k < d
      <4>1. k - d + n \in 1 .. n - 1 /\ Source(n, d, k - d + n) = k
        BY <2>1, <2>2, <3>2
      <4> QED
        BY <4>1
    <3> QED
      BY <2>1, <2>5, <3>1, <3>2
  <2> QED
    BY <2>1, <2>3, <2>4, <2>5
<1> QED
  BY <1>1, <1>2

\* begin_tx: the claim keeps the log well formed, the active transaction and
\* the rollback target, and adds one slot.
LEMMA BeginKeeps ==
    ASSUME HaveGreatest, NEW l, WellFormed(l), NEW s \in Nat, \A i \in DOMAIN l.ring : l.ring[i].step # s,
           NEW b, b = BeginTx(l, s)
    PROVE  /\ WellFormed(b) /\ b.active = l.active /\ Previous(b) = Previous(l)
           /\ Len(b.ring) \in DOMAIN b.ring /\ b.ring[Len(b.ring)] = Recording(s)
           /\ \A i \in DOMAIN b.ring :
                 b.ring[i] = Recording(s) \/ \E k \in DOMAIN l.ring : b.ring[i] = l.ring[k]
<1>0. /\ l \in Logs /\ Len(l.ring) <= N /\ StepsDistinct(l) /\ ActiveAgrees(l) /\ PlacesAgree(l)
      /\ RegionsKept(l)
  BY DEF WellFormed
<1>1. PICK d \in 0 .. 3 : Claimed(l, b, s, d)
  BY <1>0, BeginFacts
<1> DEFINE n == Len(l.ring)
           c == Len(b.ring)
           e == Recording(s)
           src(i) == Source(n, d, i)
<1>2. /\ n \in Nat /\ DOMAIN l.ring = 1 .. n /\ b \in Logs /\ c \in Nat /\ DOMAIN b.ring = 1 .. c
      /\ l.displacements \in Nat /\ l.active \in Nat \cup {None}
  BY <1>0, <1>1, LogTypes DEF Claimed
<1>3. /\ b.active = l.active /\ b.displacements = l.displacements
      /\ (IF d = 0 THEN n < N /\ c = n + 1 ELSE n = N /\ c = N /\ l.ring[d].step \notin Kept(l))
      /\ b.ring[c] = e
      /\ \A i \in 1 .. c - 1 : b.ring[i] = l.ring[src(i)]
  BY <1>1, SMTT(30) DEF Claimed
<1>4. N \in Nat /\ N >= 4 /\ None \notin Nat
  BY RingAssumption
<1>5. /\ c \in 1 .. c /\ c <= N
      /\ \A i \in 1 .. c : i \in 1 .. c - 1 \/ i = c
  BY <1>2, <1>3, <1>4
<1>6. /\ \A i \in 1 .. c - 1 : src(i) \in 1 .. n
      /\ \A i, j \in 1 .. c - 1 : src(i) = src(j) => i = j
      /\ \A k \in 1 .. n : k # d => \E i \in 1 .. c - 1 : src(i) = k
  <2>1. IF d = 0 THEN c = n + 1 ELSE c = n /\ n >= 4
    BY <1>3, <1>4
  <2> HIDE DEF n, c
  <2> QED
    BY <1>2, <2>1, SourceFacts, Zenon
<1>7. e.step = s /\ e.status = "RECORDING" /\ e.region = None
  BY DEF Recording
<1> HIDE DEF n, c, e, src
<1>8. \A k \in 1 .. n : l.ring[k].step \in Kept(l) => \E i \in 1 .. c - 1 : b.ring[i] = l.ring[k]
  <2> SUFFICES ASSUME NEW k \in 1 .. n, l.ring[k].step \in Kept(l)
               PROVE  \E i \in 1 .. c - 1 : b.ring[i] = l.ring[k]
    OBVIOUS
  <2>1. k # d
    BY <1>3
  <2> QED
    BY <1>3, <1>6, <2>1
<1>9. \A i \in 1 .. c : b.ring[i] = e \/ (i \in 1 .. c - 1 /\ src(i) \in 1 .. n /\ b.ring[i] = l.ring[src(i)])
  BY <1>3, <1>5, <1>6
<1>10. StepsDistinct(b)
  <2> SUFFICES ASSUME NEW i \in 1 .. c, NEW j \in 1 .. c, b.ring[i].step = b.ring[j].step PROVE i = j
    BY <1>2 DEF StepsDistinct
  <2>1. CASE i \in 1 .. c - 1 /\ j \in 1 .. c - 1
    <3>1. src(i) \in DOMAIN l.ring /\ src(j) \in DOMAIN l.ring
          /\ l.ring[src(i)].step = l.ring[src(j)].step
      BY <1>2, <1>3, <1>6, <2>1, Zenon
    <3>2. src(i) = src(j)
      BY <1>0, <3>1, Zenon DEF StepsDistinct
    <3> QED
      BY <1>6, <2>1, <3>2
  <2>2. CASE i = c /\ j \in 1 .. c - 1
    <3>1. b.ring[i].step = s /\ b.ring[j] = l.ring[src(j)] /\ src(j) \in DOMAIN l.ring
      BY <1>2, <1>3, <1>6, <1>7, <2>2, Zenon
    <3>2. l.ring[src(j)].step # s
      BY <3>1
    <3> QED
      BY <3>1, <3>2, Zenon
  <2>3. CASE j = c /\ i \in 1 .. c - 1
    <3>1. b.ring[j].step = s /\ b.ring[i] = l.ring[src(i)] /\ src(i) \in DOMAIN l.ring
      BY <1>2, <1>3, <1>6, <1>7, <2>3, SMTT(30)
    <3>2. l.ring[src(i)].step # s
      BY <3>1
    <3> QED
      BY <3>1, <3>2
  <2> QED
    BY <1>5, <2>1, <2>2, <2>3
<1>11. ActiveAgrees(b)
  <2>1. ASSUME l.active # None PROVE \E i \in DOMAIN b.ring : b.ring[i].step = b.active
    <3>1. PICK k \in 1 .. n : l.ring[k].step = l.active
      BY <1>0, <1>2, <2>1 DEF ActiveAgrees
    <3>2. PICK i \in 1 .. c - 1 : b.ring[i] = l.ring[k]
      BY <1>8, <3>1 DEF Kept
    <3> QED
      BY <1>2, <1>3, <3>1, <3>2, SMTT(30)
  <2>2. s # l.active
    <3> SUFFICES ASSUME s = l.active PROVE FALSE
      OBVIOUS
    <3>1. l.active # None
      BY <1>4
    <3> QED
      BY <1>0, <3>1 DEF ActiveAgrees
  <2>3. ASSUME NEW i \in 1 .. c
        PROVE  (b.ring[i].status = "ACTIVE") <=> (b.ring[i].step = b.active)
    <3>1. CASE b.ring[i] = e
      BY <1>3, <1>7, <2>2, <3>1
    <3>2. CASE src(i) \in 1 .. n /\ b.ring[i] = l.ring[src(i)]
      BY <1>0, <1>2, <1>3, <3>2 DEF ActiveAgrees
    <3> QED
      BY <1>9, <3>1, <3>2
  <2> QED
    BY <1>2, <1>3, <2>1, <2>3 DEF ActiveAgrees
<1>12. PlacesAgree(b)
  <2>1. ASSUME NEW i \in 1 .. c, b.ring[i].status = "SUPERSEDED"
        PROVE  i \in 1 .. c - 1 /\ src(i) \in 1 .. n /\ b.ring[i] = l.ring[src(i)]
    BY <1>7, <1>9, <2>1
  <2>2. \A i \in 1 .. c : b.ring[i].status = "SUPERSEDED" => b.ring[i].order \in 1 .. b.displacements
    BY <1>0, <1>2, <1>3, <2>1, SMTT(30) DEF PlacesAgree
  <2>3. ASSUME NEW i \in 1 .. c, NEW j \in 1 .. c,
               b.ring[i].status = "SUPERSEDED", b.ring[j].status = "SUPERSEDED",
               b.ring[i].order = b.ring[j].order
        PROVE  i = j
    <3>1. src(i) = src(j)
      BY <1>0, <1>2, <2>1, <2>3, ZenonT(60) DEF PlacesAgree
    <3> QED
      BY <1>6, <2>1, <2>3, <3>1
  <2> QED
    BY <1>2, <2>2, <2>3 DEF PlacesAgree
<1>13. RegionsKept(b)
  BY <1>0, <1>2, <1>7, <1>9 DEF RegionsKept
<1>14. WellFormed(b)
  BY <1>2, <1>5, <1>10, <1>11, <1>12, <1>13 DEF WellFormed, c
<1>15. Previous(b) = Previous(l)
  <2>1. CASE \A i \in DOMAIN l.ring : l.ring[i].status # "SUPERSEDED"
    <3>1. \A i \in DOMAIN b.ring : b.ring[i].status # "SUPERSEDED"
      BY <1>2, <1>7, <1>9, <2>1, SMTT(30)
    <3>2. Superseded(b) = {} /\ Superseded(l) = {}
      BY <2>1, <3>1 DEF Superseded, Entries
    <3> QED
      BY <3>2 DEF Previous
  <2>2. ASSUME NEW k, Top(l, k), Previous(l) = l.ring[k].step PROVE Previous(b) = Previous(l)
    <3>1. k \in 1 .. n /\ l.ring[k].step \in Kept(l)
      BY <1>2, <2>2 DEF Top, Kept
    <3>2. PICK i \in 1 .. c - 1 : b.ring[i] = l.ring[k]
      BY <1>8, <3>1
    <3>3. i \in DOMAIN b.ring
      BY <1>2
    <3>4. Top(b, i)
      BY <1>2, <1>7, <1>9, <2>2, <3>2, <3>3, SMTT(60) DEF Top
    <3> QED
      BY <1>14, <2>2, <3>2, <3>4, PreviousIsTop
  <2> QED
    BY <2>1, <2>2, PreviousFacts
<1> QED
  BY <1>2, <1>3, <1>5, <1>9, <1>14, <1>15 DEF c, e

\* commit: the slot of the transaction gets its region, or nothing changes.
LEMMA CommitKeeps ==
    ASSUME NEW l, WellFormed(l), NEW k \in DOMAIN l.ring, NEW r \in Nat,
           NEW m, m = Commit(l, l.ring[k].step, r)
    PROVE  /\ WellFormed(m) /\ m.active = l.active /\ DOMAIN m.ring = DOMAIN l.ring
           /\ Len(m.ring) = Len(l.ring)
           /\ \A i \in DOMAIN l.ring : /\ m.ring[i].step = l.ring[i].step
                                       /\ i # k => m.ring[i] = l.ring[i]
           /\ m.ring[k].region \in {l.ring[k].region, r}
           /\ l.ring[k].status = "RECORDING" => m.ring[k].status = "COMMITTED"
<1>0. /\ l \in Logs /\ Len(l.ring) <= N /\ StepsDistinct(l) /\ ActiveAgrees(l) /\ PlacesAgree(l)
      /\ RegionsKept(l)
  BY DEF WellFormed
<1>1. Entry(l, l.ring[k].step) = l.ring[k] /\ l.ring[k] \in Slot
  BY <1>0, EntryFacts, LogTypes
<1>2. CASE l.ring[k].status \notin {"RECORDING", "CLOSED"}
  <2>1. m = l
    BY <1>1, <1>2, SMTT(60) DEF Commit, CanCommit
  <2> QED
    BY <1>2, <2>1
<1>3. CASE l.ring[k].status \in {"RECORDING", "CLOSED"}
  <2> DEFINE e == [l.ring[k] EXCEPT !.region = r, !.status = "COMMITTED"]
  <2>1. m = Updated(l, e)
    BY <1>1, <1>3 DEF Commit, CanCommit
  <2>2. /\ e \in Slot /\ e.step = l.ring[k].step /\ e.region = r /\ e.status = "COMMITTED"
    BY <1>1, Zenon DEF Slot, Status
  <2> HIDE DEF e
  <2>3. /\ m \in Logs /\ DOMAIN m.ring = DOMAIN l.ring /\ Len(m.ring) = Len(l.ring)
        /\ m.active = l.active /\ m.displacements = l.displacements
        /\ \A i \in DOMAIN l.ring : m.ring[i] = IF l.ring[i].step = e.step THEN e ELSE l.ring[i]
    BY <1>0, <2>1, <2>2, UpdatedFacts, SMTT(30)
  <2>4. /\ m.ring[k] = e
        /\ \A i \in DOMAIN l.ring : i # k => m.ring[i] = l.ring[i]
    BY <1>0, <2>2, <2>3 DEF StepsDistinct
  <2>5. \A i \in DOMAIN l.ring : m.ring[i].step = l.ring[i].step
    BY <2>2, <2>4, SMTT(60)
  <2>6. StepsDistinct(m)
    BY <1>0, <2>3, <2>5 DEF StepsDistinct
  <2>7. l.ring[k].step # l.active
    BY <1>0, <1>3, SMTT(60) DEF ActiveAgrees
  <2>8. ActiveAgrees(m)
    BY <1>0, <2>2, <2>3, <2>4, <2>5, <2>7, SMTT(60) DEF ActiveAgrees
  <2>9. PlacesAgree(m)
    <3>1. \A i \in DOMAIN l.ring : m.ring[i].status = "SUPERSEDED" => m.ring[i] = l.ring[i]
      BY <2>2, <2>4
    <3>2. \A i \in DOMAIN l.ring :
             m.ring[i].status = "SUPERSEDED" => m.ring[i].order \in 1 .. m.displacements
      BY <1>0, <2>3, <3>1, Zenon DEF PlacesAgree
    <3>3. ASSUME NEW i \in DOMAIN l.ring, NEW j \in DOMAIN l.ring,
                 m.ring[i].status = "SUPERSEDED", m.ring[j].status = "SUPERSEDED",
                 m.ring[i].order = m.ring[j].order
          PROVE  i = j
      <4>1. m.ring[i] = l.ring[i] /\ m.ring[j] = l.ring[j]
        BY <3>1, <3>3, SMTT(30)
      <4> QED
        BY <1>0, <3>3, <4>1, Zenon DEF PlacesAgree
    <3> QED
      BY <2>3, <3>2, <3>3, Zenon DEF PlacesAgree
  <2>10. RegionsKept(m)
    BY <1>0, <2>2, <2>3, <2>4, RingAssumption DEF RegionsKept
  <2> QED
    BY <1>0, <2>2, <2>3, <2>4, <2>5, <2>6, <2>8, <2>9, <2>10, Zenon DEF WellFormed
<1> QED
  BY <1>2, <1>3

\* Same slots, with the same transactions and the same regions.
SameSlots(l, m) ==
    /\ DOMAIN m.ring = DOMAIN l.ring /\ Len(m.ring) = Len(l.ring)
    /\ \A i \in DOMAIN l.ring : /\ m.ring[i].step = l.ring[i].step
                                /\ m.ring[i].region = l.ring[i].region

\* transition: a new status, and a place, for the slot of one transaction.
Marked(l, k, status, place) ==
    Updated(l, [Entry(l, l.ring[k].step) EXCEPT !.status = status, !.order = place])

\* It writes those two fields of that slot.
LEMMA MarkFacts ==
    ASSUME NEW l \in Logs, StepsDistinct(l), NEW k \in DOMAIN l.ring,
           NEW status \in Status, NEW place \in Nat,
           NEW m, m = Marked(l, k, status, place)
    PROVE  /\ m \in Logs /\ m.active = l.active /\ m.displacements = l.displacements
           /\ SameSlots(l, m) /\ StepsDistinct(m)
           /\ m.ring[k].status = status /\ m.ring[k].order = place
           /\ \A i \in DOMAIN l.ring : i # k => m.ring[i] = l.ring[i]
<1>1. Entry(l, l.ring[k].step) = l.ring[k] /\ l.ring[k] \in Slot
  BY EntryFacts, LogTypes
<1> DEFINE e == [Entry(l, l.ring[k].step) EXCEPT !.status = status, !.order = place]
<1>2. /\ e \in Slot /\ e.step = l.ring[k].step /\ e.region = l.ring[k].region
      /\ e.status = status /\ e.order = place
  BY <1>1, Zenon DEF Slot
<1>3. m = Updated(l, e)
  BY DEF Marked
<1> HIDE DEF e
<1>4. /\ m \in Logs /\ DOMAIN m.ring = DOMAIN l.ring /\ Len(m.ring) = Len(l.ring)
      /\ m.active = l.active /\ m.displacements = l.displacements
      /\ \A i \in DOMAIN l.ring : m.ring[i] = IF l.ring[i].step = e.step THEN e ELSE l.ring[i]
  BY <1>2, <1>3, UpdatedFacts
<1>5. /\ m.ring[k] = e
      /\ \A i \in DOMAIN l.ring : i # k => m.ring[i] = l.ring[i]
  BY <1>2, <1>4 DEF StepsDistinct
<1>6. SameSlots(l, m)
  BY <1>2, <1>4, <1>5 DEF SameSlots
<1>7. StepsDistinct(m)
  BY <1>4, <1>6, SMTT(30) DEF StepsDistinct, SameSlots
<1> QED
  BY <1>2, <1>4, <1>5, <1>6, <1>7

\* The same for a status alone: the place stays.
LEMMA StatusFacts ==
    ASSUME NEW l \in Logs, StepsDistinct(l), NEW k \in DOMAIN l.ring, NEW status \in Status,
           NEW m, m = WithStatus(l, l.ring[k].step, status)
    PROVE  /\ m \in Logs /\ m.active = l.active /\ m.displacements = l.displacements
           /\ SameSlots(l, m) /\ StepsDistinct(m)
           /\ m.ring[k].status = status /\ m.ring[k].order = l.ring[k].order
           /\ \A i \in DOMAIN l.ring : i # k => m.ring[i] = l.ring[i]
<1>1. Entry(l, l.ring[k].step) = l.ring[k] /\ l.ring[k] \in Slot
  BY EntryFacts, LogTypes
<1> DEFINE e == [Entry(l, l.ring[k].step) EXCEPT !.status = status]
<1>2. /\ e \in Slot /\ e.step = l.ring[k].step /\ e.region = l.ring[k].region
      /\ e.status = status /\ e.order = l.ring[k].order
  BY <1>1 DEF Slot
<1>3. m = Updated(l, e)
  BY DEF WithStatus
<1> HIDE DEF e
<1>4. /\ m \in Logs /\ DOMAIN m.ring = DOMAIN l.ring /\ Len(m.ring) = Len(l.ring)
      /\ m.active = l.active /\ m.displacements = l.displacements
      /\ \A i \in DOMAIN l.ring : m.ring[i] = IF l.ring[i].step = e.step THEN e ELSE l.ring[i]
  BY <1>2, <1>3, UpdatedFacts, SMTT(30)
<1>5. /\ m.ring[k] = e
      /\ \A i \in DOMAIN l.ring : i # k => m.ring[i] = l.ring[i]
  BY <1>2, <1>4, SMTT(30) DEF StepsDistinct
<1>6. SameSlots(l, m)
  BY <1>2, <1>4, <1>5, SMTT(60) DEF SameSlots
<1>7. StepsDistinct(m)
  BY <1>4, <1>6, Zenon DEF StepsDistinct, SameSlots
<1> QED
  BY <1>2, <1>4, <1>5, <1>6, <1>7

\* A new active pointer or counter leaves the ring alone.
LEMMA PointerFacts ==
    ASSUME NEW l \in Logs
    PROVE  /\ \A s \in Nat \cup {None} :
                 /\ [l EXCEPT !.active = s] \in Logs
                 /\ [l EXCEPT !.active = s].ring = l.ring
                 /\ [l EXCEPT !.active = s].active = s
                 /\ [l EXCEPT !.active = s].displacements = l.displacements
           /\ \A p \in Nat :
                 /\ [l EXCEPT !.displacements = p] \in Logs
                 /\ [l EXCEPT !.displacements = p].ring = l.ring
                 /\ [l EXCEPT !.displacements = p].active = l.active
                 /\ [l EXCEPT !.displacements = p].displacements = p
  BY SMTT(60) DEF Logs

\* activate: the committed transaction takes over, the one it displaces gets
\* the newest place.
LEMMA ActivateKeeps ==
    ASSUME NEW l, WellFormed(l), NEW k \in DOMAIN l.ring, NEW z, z = Activate(l, l.ring[k].step)
    PROVE  /\ WellFormed(z) /\ SameSlots(l, z)
           /\ \/ z = l /\ l.ring[k].status # "COMMITTED"
              \/ /\ l.ring[k].status = "COMMITTED" /\ z.active = l.ring[k].step
                 /\ z.displacements = l.displacements + (IF l.active = None THEN 0 ELSE 1)
                 /\ \A i \in DOMAIN l.ring :
                       IF i = k THEN z.ring[i].status = "ACTIVE"
                       ELSE IF l.ring[i].step = l.active
                         THEN z.ring[i].status = "SUPERSEDED" /\ z.ring[i].order = l.displacements + 1
                         ELSE z.ring[i] = l.ring[i]
<1>0. /\ l \in Logs /\ Len(l.ring) <= N /\ StepsDistinct(l) /\ ActiveAgrees(l) /\ PlacesAgree(l)
      /\ RegionsKept(l) /\ l.displacements \in Nat
  BY LogTypes DEF WellFormed
<1>1. Entry(l, l.ring[k].step) = l.ring[k] /\ l.ring[k] \in Slot /\ l.ring[k].step \in Nat
  BY <1>0, EntryFacts, LogTypes
<1>2. CASE l.ring[k].status # "COMMITTED"
  <2>1. z = l
    BY <1>1, <1>2, SMTT(30) DEF Activate, CanActivate
  <2> QED
    BY <1>2, <2>1 DEF SameSlots
<1>3. CASE l.ring[k].status = "COMMITTED"
  <2> DEFINE step == l.ring[k].step
             place == l.displacements + 1
             m == IF l.active = None THEN l
                  ELSE [Updated(l, [Entry(l, l.active) EXCEPT !.status = "SUPERSEDED", !.order = place])
                          EXCEPT !.displacements = place]
  <2>1. z = [WithStatus(m, step, "ACTIVE") EXCEPT !.active = step]
    BY <1>1, <1>3 DEF Activate, CanActivate
  <2>2. {"SUPERSEDED", "ACTIVE"} \subseteq Status /\ place \in Nat
    BY <1>0 DEF Status
  <2>3. /\ m \in Logs /\ StepsDistinct(m) /\ SameSlots(l, m)
        /\ m.displacements = l.displacements + (IF l.active = None THEN 0 ELSE 1)
        /\ \A i \in DOMAIN l.ring :
              IF l.ring[i].step = l.active
                THEN m.ring[i].status = "SUPERSEDED" /\ m.ring[i].order = place
                ELSE m.ring[i] = l.ring[i]
    <3>1. CASE l.active = None
      <4>1. m = l /\ \A i \in DOMAIN l.ring : l.ring[i].step # l.active
        BY <1>0, <3>1, LogTypes, RingAssumption
      <4> HIDE DEF m
      <4> QED
        BY <1>0, <3>1, <4>1 DEF SameSlots
    <3>2. CASE l.active # None
      <4>1. PICK a \in DOMAIN l.ring : l.ring[a].step = l.active
        BY <1>0, <3>2 DEF ActiveAgrees
      <4> DEFINE u == Marked(l, a, "SUPERSEDED", place)
      <4>2. m = [u EXCEPT !.displacements = place]
        BY <3>2, <4>1 DEF Marked
      <4>3. /\ u \in Logs /\ SameSlots(l, u) /\ StepsDistinct(u)
            /\ u.ring[a].status = "SUPERSEDED" /\ u.ring[a].order = place
            /\ \A i \in DOMAIN l.ring : i # a => u.ring[i] = l.ring[i]
        <5>1. "SUPERSEDED" \in Status /\ place \in Nat
          BY <2>2
        <5> HIDE DEF place
        <5> QED
          BY <1>0, <5>1, MarkFacts
      <4> HIDE DEF u, m, place
      <4>4. m \in Logs /\ m.ring = u.ring /\ m.displacements = place
        BY <2>2, <4>2, <4>3, PointerFacts
      <4>5. \A i \in DOMAIN l.ring : l.ring[i].step = l.active => i = a
        BY <1>0, <4>1 DEF StepsDistinct
      <4>6. SameSlots(l, m) /\ StepsDistinct(m)
        BY <4>3, <4>4 DEF SameSlots, StepsDistinct
      <4> QED
        BY <3>2, <4>1, <4>3, <4>4, <4>5, <4>6 DEF place
    <3> QED
      BY <3>1, <3>2
  <2> HIDE DEF m
  <2> DEFINE w == WithStatus(m, step, "ACTIVE")
  <2>4. k \in DOMAIN m.ring /\ m.ring[k].step = step
    BY <2>3, SMTT(30) DEF SameSlots
  <2>5. /\ w \in Logs /\ w.displacements = m.displacements
        /\ SameSlots(m, w) /\ StepsDistinct(w) /\ w.ring[k].status = "ACTIVE"
        /\ \A i \in DOMAIN m.ring : i # k => w.ring[i] = m.ring[i]
    BY <2>2, <2>3, <2>4, StatusFacts, SMTT(30)
  <2> HIDE DEF w
  <2>6. /\ z \in Logs /\ z.ring = w.ring /\ z.active = step /\ z.displacements = m.displacements
    BY <1>1, <2>1, <2>5, PointerFacts, SMTT(30) DEF w
  <2>7. SameSlots(l, z) /\ StepsDistinct(z)
    BY <2>3, <2>5, <2>6, SMTT(30) DEF SameSlots, StepsDistinct
  <2>8. \A i \in DOMAIN l.ring :
           IF i = k THEN z.ring[i].status = "ACTIVE"
           ELSE IF l.ring[i].step = l.active
             THEN z.ring[i].status = "SUPERSEDED" /\ z.ring[i].order = place
             ELSE z.ring[i] = l.ring[i]
    BY <2>3, <2>5, <2>6, SMTT(30) DEF SameSlots
  <2>9. \A i \in DOMAIN l.ring : /\ z.ring[i].step = l.ring[i].step
                                 /\ z.ring[i].region = l.ring[i].region
    BY <2>7, SMTT(30) DEF SameSlots
  <2>10. DOMAIN z.ring = DOMAIN l.ring /\ Len(z.ring) = Len(l.ring)
    BY <2>7 DEF SameSlots
  <2>11. ActiveAgrees(z)
    <3>1. ASSUME NEW i \in DOMAIN l.ring
          PROVE  (z.ring[i].status = "ACTIVE") <=> (z.ring[i].step = step)
      <4>1. CASE i = k
        BY <2>8, <2>9, <4>1, SMTT(30)
      <4>2. CASE i # k
        <5>1. l.ring[i].step # step
          BY <1>0, <4>2, SMTT(30) DEF StepsDistinct
        <5>2. z.ring[i].status # "ACTIVE"
          BY <1>0, <2>8, <4>2, SMTT(60) DEF ActiveAgrees
        <5> QED
          BY <2>9, <5>1, <5>2
      <4> QED
        BY <4>1, <4>2, SMTT(30)
    <3> QED
      BY <2>6, <2>9, <2>10, <3>1, SMTT(30) DEF ActiveAgrees
  <2>12. PlacesAgree(z)
    <3>1. ASSUME NEW i \in DOMAIN l.ring, z.ring[i].status = "SUPERSEDED"
          PROVE  /\ i # k
                 /\ \/ l.ring[i].step = l.active /\ z.ring[i].order = place
                    \/ /\ l.ring[i].step # l.active /\ z.ring[i] = l.ring[i]
                       /\ z.ring[i].order \in 1 .. l.displacements
      BY <1>0, <2>8, <3>1 DEF PlacesAgree
    <3>2. ASSUME NEW i \in DOMAIN l.ring, l.ring[i].step = l.active PROVE l.active # None
      BY <1>0, <3>2, LogTypes, RingAssumption, SMTT(30)
    <3>3. \A i \in DOMAIN l.ring :
             z.ring[i].status = "SUPERSEDED" => z.ring[i].order \in 1 .. z.displacements
      BY <1>0, <2>3, <2>6, <3>1, <3>2, SMTT(30)
    <3>4. ASSUME NEW i \in DOMAIN l.ring, NEW j \in DOMAIN l.ring,
                 z.ring[i].status = "SUPERSEDED", z.ring[j].status = "SUPERSEDED",
                 z.ring[i].order = z.ring[j].order
          PROVE  i = j
      <4>1. CASE l.ring[i].step = l.active /\ l.ring[j].step = l.active
        BY <1>0, <4>1, SMTT(60) DEF StepsDistinct
      <4>2. CASE l.ring[i].step # l.active /\ l.ring[j].step # l.active
        BY <1>0, <3>1, <3>4, <4>2, ZenonT(60) DEF PlacesAgree
      <4>3. CASE (l.ring[i].step = l.active) # (l.ring[j].step = l.active)
        <5>1. place \notin 1 .. l.displacements
          BY <1>0
        <5> QED
          BY <3>1, <3>4, <4>3, <5>1, ZenonT(60)
      <4> QED
        BY <4>1, <4>2, <4>3, SMTT(30)
    <3> QED
      BY <2>10, <3>3, <3>4, ZenonT(60) DEF PlacesAgree
  <2>13. RegionsKept(z)
    <3>1. ASSUME NEW i \in DOMAIN l.ring, z.ring[i].status \in {"COMMITTED", "ACTIVE", "SUPERSEDED"}
          PROVE  l.ring[i].status \in {"COMMITTED", "ACTIVE", "SUPERSEDED"}
      BY <1>0, <1>3, <2>8, <3>1, SMTT(30) DEF ActiveAgrees
    <3> QED
      BY <1>0, <2>9, <2>10, <3>1, SMTT(60) DEF RegionsKept
  <2>14. WellFormed(z)
    BY <1>0, <2>6, <2>7, <2>10, <2>11, <2>12, <2>13, SMTT(30) DEF WellFormed
  <2> QED
    BY <1>3, <2>3, <2>6, <2>7, <2>8, <2>14
<1> QED
  BY <1>2, <1>3

\* rollback: the newest displaced transaction is active again and the one
\* that was is rolled back; without a target nothing changes.
LEMMA RollbackKeeps ==
    ASSUME HaveGreatest, NEW l, WellFormed(l), NEW z, z = Rollback(l)
    PROVE  /\ WellFormed(z) /\ SameSlots(l, z) /\ z.displacements = l.displacements
           /\ \/ z = l /\ Previous(l) = None
              \/ \E p \in DOMAIN l.ring :
                   /\ Top(l, p) /\ Previous(l) = l.ring[p].step /\ z.active = l.ring[p].step
                   /\ ActiveRegion(z) = l.ring[p].region /\ l.ring[p].region # None
                   /\ \A i \in DOMAIN l.ring :
                         IF i = p THEN z.ring[i].status = "ACTIVE"
                         ELSE IF l.ring[i].step = l.active
                           THEN z.ring[i].status = "ROLLED_BACK"
                           ELSE z.ring[i] = l.ring[i]
<1>0. /\ l \in Logs /\ Len(l.ring) <= N /\ StepsDistinct(l) /\ ActiveAgrees(l) /\ PlacesAgree(l)
      /\ RegionsKept(l) /\ l.displacements \in Nat
  BY LogTypes DEF WellFormed
<1>1. CASE Previous(l) = None
  <2>1. z = l
    BY <1>1, SMTT(30) DEF Rollback
  <2> QED
    BY <1>1, <2>1 DEF SameSlots
<1>2. CASE Previous(l) # None
  <2>1. PICK p : Top(l, p) /\ Previous(l) = l.ring[p].step
    BY <1>2, PreviousFacts
  <2> DEFINE target == l.ring[p].step
             m == IF l.active = None THEN l ELSE WithStatus(l, l.active, "ROLLED_BACK")
             w == WithStatus(m, target, "ACTIVE")
  <2>2. z = [w EXCEPT !.active = target]
    BY <1>2, <2>1 DEF Rollback
  <2>3. /\ p \in DOMAIN l.ring /\ l.ring[p].status = "SUPERSEDED" /\ target \in Nat
        /\ "ROLLED_BACK" \in Status /\ "ACTIVE" \in Status
    BY <1>0, <2>1, LogTypes, SMTT(30) DEF Top, Status
  <2>4. /\ m \in Logs /\ StepsDistinct(m) /\ SameSlots(l, m) /\ m.displacements = l.displacements
        /\ \A i \in DOMAIN l.ring : IF l.ring[i].step = l.active
                                      THEN m.ring[i].status = "ROLLED_BACK"
                                      ELSE m.ring[i] = l.ring[i]
    <3>1. CASE l.active = None
      <4>1. m = l /\ \A i \in DOMAIN l.ring : l.ring[i].step # l.active
        BY <1>0, <3>1, LogTypes, RingAssumption, SMTT(30)
      <4> HIDE DEF m
      <4> QED
        BY <1>0, <4>1 DEF SameSlots
    <3>2. CASE l.active # None
      <4>1. PICK a \in DOMAIN l.ring : l.ring[a].step = l.active
        BY <1>0, <3>2 DEF ActiveAgrees
      <4>2. m = WithStatus(l, l.ring[a].step, "ROLLED_BACK")
        BY <3>2, <4>1, SMTT(30)
      <4> HIDE DEF m
      <4>3. /\ m \in Logs /\ m.displacements = l.displacements
            /\ SameSlots(l, m) /\ StepsDistinct(m) /\ m.ring[a].status = "ROLLED_BACK"
            /\ \A i \in DOMAIN l.ring : i # a => m.ring[i] = l.ring[i]
        BY <1>0, <2>3, <4>2, StatusFacts
      <4>4. \A i \in DOMAIN l.ring : l.ring[i].step = l.active => i = a
        BY <1>0, <4>1 DEF StepsDistinct
      <4> QED
        BY <4>1, <4>3, <4>4
    <3> QED
      BY <3>1, <3>2
  <2> HIDE DEF m
  <2>5. p \in DOMAIN m.ring /\ m.ring[p].step = target
    BY <2>3, <2>4, SMTT(30) DEF SameSlots
  <2>6. /\ w \in Logs /\ w.displacements = m.displacements
        /\ SameSlots(m, w) /\ StepsDistinct(w) /\ w.ring[p].status = "ACTIVE"
        /\ \A i \in DOMAIN m.ring : i # p => w.ring[i] = m.ring[i]
    BY <2>3, <2>4, <2>5, StatusFacts
  <2> HIDE DEF w
  <2>7. z \in Logs /\ z.ring = w.ring /\ z.active = target /\ z.displacements = l.displacements
    BY <2>2, <2>3, <2>4, <2>6, PointerFacts, SMTT(30)
  <2>8. SameSlots(l, z) /\ StepsDistinct(z)
    BY <2>4, <2>6, <2>7, SMTT(30) DEF SameSlots, StepsDistinct
  <2>9. \A i \in DOMAIN l.ring :
           IF i = p THEN z.ring[i].status = "ACTIVE"
           ELSE IF l.ring[i].step = l.active THEN z.ring[i].status = "ROLLED_BACK"
           ELSE z.ring[i] = l.ring[i]
    BY <2>4, <2>6, <2>7 DEF SameSlots
  <2>10. /\ DOMAIN z.ring = DOMAIN l.ring /\ Len(z.ring) = Len(l.ring)
         /\ \A i \in DOMAIN l.ring : /\ z.ring[i].step = l.ring[i].step
                                     /\ z.ring[i].region = l.ring[i].region
    BY <2>8 DEF SameSlots
  <2>11. ActiveAgrees(z)
    <3>1. ASSUME NEW i \in DOMAIN l.ring
          PROVE  (z.ring[i].status = "ACTIVE") <=> (z.ring[i].step = target)
      <4>1. CASE i = p
        BY <2>9, <2>10, <4>1
      <4>2. CASE i # p
        <5>1. l.ring[i].step # target
          BY <1>0, <2>3, <4>2, SMTT(30) DEF StepsDistinct
        <5>2. z.ring[i].status # "ACTIVE"
          BY <1>0, <2>9, <4>2, SMTT(30) DEF ActiveAgrees
        <5> QED
          BY <2>10, <5>1, <5>2
      <4> QED
        BY <4>1, <4>2
    <3> QED
      BY <2>3, <2>7, <2>10, <3>1, SMTT(30) DEF ActiveAgrees
  <2>12. PlacesAgree(z)
    <3>1. \A i \in DOMAIN l.ring : z.ring[i].status = "SUPERSEDED" => z.ring[i] = l.ring[i]
      BY <2>9
    <3> QED
      BY <1>0, <2>7, <2>10, <3>1 DEF PlacesAgree
  <2>13. RegionsKept(z)
    <3>1. \A i \in DOMAIN l.ring :
             z.ring[i].status \in {"COMMITTED", "ACTIVE", "SUPERSEDED"}
             => l.ring[i].status \in {"COMMITTED", "ACTIVE", "SUPERSEDED"}
      BY <2>3, <2>9
    <3> QED
      BY <1>0, <2>10, <3>1 DEF RegionsKept
  <2>14. WellFormed(z)
    BY <1>0, <2>7, <2>8, <2>10, <2>11, <2>12, <2>13, SMTT(30) DEF WellFormed
  <2>15. ActiveRegion(z) = l.ring[p].region /\ l.ring[p].region # None
    <3>1. z.active = z.ring[p].step /\ z.active # None /\ p \in DOMAIN z.ring
      BY <2>3, <2>7, <2>10, RingAssumption, SMTT(30)
    <3>2. Entry(z, z.active) = z.ring[p]
      BY <2>8, <3>1, EntryFacts
    <3> QED
      BY <1>0, <2>3, <2>10, <3>1, <3>2, SMTT(30) DEF ActiveRegion, RegionsKept
  <2> QED
    BY <2>1, <2>3, <2>7, <2>8, <2>9, <2>14, <2>15, SMTT(30)
<1> QED
  BY <1>1, <1>2, SMTT(30)
=============================================================================
