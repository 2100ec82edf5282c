------------------------ MODULE ChaseLevDequeProofs -------------------------
(* The work-stealing deque hands out every item once and implements the      *)
(* abstract deque, for every capacity, every set of thieves and every number *)
(* of items.  The inductive invariant, StealInv, says where the owner is     *)
(* (OwnerInv), that a thief whose compare-exchange would succeed holds the   *)
(* oldest item (ThiefInv), and that each item pushed was handed out once or  *)
(* lies in one cell between top and the newest item (Account).               *)
EXTENDS ChaseLevDeque, TLAPS

\* The domain and the elements of a sequence.
LEMMA LenProperties ==
    ASSUME NEW S, NEW s \in Seq(S)
    PROVE  /\ Len(s) \in Nat /\ DOMAIN s = 1 .. Len(s) /\ s \in [1 .. Len(s) -> S]
           /\ \A i \in 1 .. Len(s) : s[i] \in S
OBVIOUS

\* A function on an initial segment of the positive naturals is a sequence.
LEMMA FunctionSeq ==
    ASSUME NEW S, NEW n \in Nat, NEW s \in [1 .. n -> S]
    PROVE  s \in Seq(S) /\ Len(s) = n
OBVIOUS

\* Sequences with the same entries are the same.
LEMMA SameSeq ==
    ASSUME NEW S, NEW s \in Seq(S), NEW z \in Seq(S), Len(s) = Len(z),
           \A i \in 1 .. Len(s) : s[i] = z[i]
    PROVE  s = z
OBVIOUS

\* An element appended.
LEMMA AppendProperties ==
    ASSUME NEW S, NEW s \in Seq(S), NEW e \in S
    PROVE  /\ Append(s, e) \in Seq(S) /\ Len(Append(s, e)) = Len(s) + 1
           /\ Append(s, e)[Len(s) + 1] = e /\ \A i \in 1 .. Len(s) : Append(s, e)[i] = s[i]
OBVIOUS

\* The first element, and the others.
LEMMA HeadTailProperties ==
    ASSUME NEW S, NEW s \in Seq(S), s # << >>
    PROVE  /\ Head(s) \in S /\ Tail(s) \in Seq(S) /\ Len(Tail(s)) = Len(s) - 1
           /\ \A i \in 1 .. Len(s) - 1 : Tail(s)[i] = s[i + 1]
OBVIOUS

\* The first elements.
LEMMA PrefixProperties ==
    ASSUME NEW S, NEW s \in Seq(S), NEW k \in 0 .. Len(s)
    PROVE  /\ SubSeq(s, 1, k) \in Seq(S) /\ Len(SubSeq(s, 1, k)) = k
           /\ \A i \in 1 .. k : SubSeq(s, 1, k)[i] = s[i]
OBVIOUS

-----------------------------------------------------------------------------

\* What the code asks of its template arguments.
Sizes == Capacity \in Nat \ {0} /\ MaxItems \in Nat

\* The position of the newest item.
Newest == IF Undecided THEN owner.b ELSE bottom - 1

\* Who is where: a pop that has not decided has taken its position from
\* bottom; a push has written its cell; the pop that found nothing, or lost or
\* won the race, has only bottom to put back.
OwnerInv ==
    /\ Undecided => bottom = owner.b
    /\ owner.pc = "push" => /\ owner.b = bottom /\ bottom - top < Capacity /\ pushed < MaxItems
                            /\ buffer[Cell(bottom)] = pushed + 1
    /\ top <= Newest + 1 /\ Newest + 1 <= pushed /\ Newest + 1 - top <= Capacity
    /\ owner.pc = "race" => owner.t = owner.b /\ owner.b <= top
    /\ owner.pc = "restore" => top = owner.b + 1

\* A thief whose compare-exchange would succeed has read the oldest item.
ThiefInv ==
    \A h \in Thieves :
        /\ thief[h].t <= top
        /\ thief[h].pc = "cas" /\ thief[h].t = top =>
             top <= Newest /\ thief[h].item = buffer[Cell(top)]

\* The items from position t to position n of the cells c, those handed out s,
\* and the p items pushed: each was handed out once or is in one cell.
Account(t, n, c, s, p) ==
    /\ \A i \in t .. n : c[Cell(i)] \in 1 .. p
    /\ \A i, j \in t .. n : c[Cell(i)] = c[Cell(j)] => i = j
    /\ s \in Seq(1 .. p)
    /\ \A i, j \in 1 .. Len(s) : s[i] = s[j] => i = j
    /\ \A i \in t .. n, j \in 1 .. Len(s) : c[Cell(i)] # s[j]
    /\ \A x \in 1 .. p : \/ \E i \in t .. n : c[Cell(i)] = x
                         \/ \E j \in 1 .. Len(s) : s[j] = x

\* The inductive invariant.
StealInv ==
    /\ TypeOK /\ OwnerInv /\ ThiefInv
    /\ Account(top, Newest, buffer, taken, pushed)

-----------------------------------------------------------------------------
\* Two multiples of c with the same rest, less than c apart, are equal.
LEMMA RestsApart ==
    ASSUME NEW c \in Nat \ {0}, NEW a \in Nat, NEW b \in Nat, NEW r \in Nat,
           c * a + r < c * b + r, c * b + r - (c * a + r) < c
    PROVE  FALSE
<1>1. c * b - c * a < c /\ c * a < c * b
  BY Z3
<1>2. a + 1 <= b
  BY <1>1, Z3
<1>3. c * b >= c * a + c
  <2>1. c * b >= c * (a + 1)
    BY <1>2, Z3
  <2>2. c * (a + 1) = c * a + c
    BY Z3
  <2> QED
    BY <2>1, <2>2, Z3
<1> QED
  BY <1>1, <1>3, Z3

\* Division with remainder by the capacity.
LEMMA CellDivision ==
    ASSUME NEW c \in Nat \ {0}, NEW k \in Nat
    PROVE  /\ k = c * (k \div c) + (k % c)
           /\ k % c \in 0 .. c - 1 /\ k \div c \in Nat
BY Z3

\* A position has a cell of the buffer, and positions less than a capacity
\* apart have different ones.
LEMMA CellFacts ==
    ASSUME Sizes, NEW i \in Nat
    PROVE  /\ Cell(i) \in 0 .. Capacity - 1
           /\ \A j \in Nat : i < j /\ j - i < Capacity => Cell(i) # Cell(j)
<1>1. \A k \in Nat : /\ k = Capacity * (k \div Capacity) + (k % Capacity)
                     /\ k % Capacity \in 0 .. Capacity - 1 /\ k \div Capacity \in Nat
  BY CellDivision, Zenon DEF Sizes
<1>2. ASSUME NEW j \in Nat, i < j, j - i < Capacity, Cell(i) = Cell(j) PROVE FALSE
  <2>1. /\ i = Capacity * (i \div Capacity) + (i % Capacity) /\ i % Capacity \in Nat
        /\ j = Capacity * (j \div Capacity) + (i % Capacity)
        /\ i \div Capacity \in Nat /\ j \div Capacity \in Nat
    BY <1>1, <1>2 DEF Cell, Sizes
  <2>2. PICK a \in Nat, b \in Nat, r \in Nat : i = Capacity * a + r /\ j = Capacity * b + r
    BY <2>1, Zenon
  <2> QED
    BY <1>2, <2>2, RestsApart DEF Sizes
<1>3. Cell(i) \in 0 .. Capacity - 1
  BY <1>1 DEF Cell
<1> QED
  BY <1>2, <1>3, Zenon

\* The cell of position n is none of those of the positions before it.
LEMMA CellsBefore ==
    ASSUME Sizes, NEW t \in Nat, NEW n \in Nat, n - t < Capacity
    PROVE  /\ Cell(n) \in 0 .. Capacity - 1
           /\ \A i \in t .. n - 1 : Cell(i) \in 0 .. Capacity - 1 /\ Cell(i) # Cell(n)
<1>1. ASSUME NEW i \in t .. n - 1 PROVE Cell(i) \in 0 .. Capacity - 1 /\ Cell(i) # Cell(n)
  <2>1. i \in Nat /\ i < n /\ n - i < Capacity
    BY DEF Sizes
  <2> QED
    BY <2>1, CellFacts
<1> QED
  BY <1>1, CellFacts

\* A push enters its item in the account.
LEMMA AccountPush ==
    ASSUME NEW t \in Nat, NEW n \in Int, t <= n + 1, NEW c, NEW s, NEW p \in Nat,
           Account(t, n, c, s, p), c[Cell(n + 1)] = p + 1
    PROVE  Account(t, n + 1, c, s, p + 1)
<1> USE DEF Account
<1>1. \A i \in t .. n + 1 : i \in t .. n \/ i = n + 1
  OBVIOUS
<1>2. \A x \in 1 .. p : x \in 1 .. p + 1 /\ x # p + 1
  OBVIOUS
<1>3. s \in Seq(1 .. p + 1) /\ Len(s) \in Nat /\ \A j \in 1 .. Len(s) : s[j] \in 1 .. p
  <2>1. s \in Seq(1 .. p) /\ Len(s) \in Nat /\ \A j \in 1 .. Len(s) : s[j] \in 1 .. p
    BY LenProperties
  <2>2. s \in [1 .. Len(s) -> 1 .. p + 1]
    BY <1>2, <2>1, LenProperties
  <2> QED
    BY <2>1, <2>2, FunctionSeq
<1>4. \A i \in t .. n + 1 : c[Cell(i)] \in 1 .. p + 1
  BY <1>1, <1>2
<1>5. \A i, j \in t .. n + 1 : c[Cell(i)] = c[Cell(j)] => i = j
  BY <1>1, <1>2
<1>6. \A i \in t .. n + 1, j \in 1 .. Len(s) : c[Cell(i)] # s[j]
  BY <1>1, <1>2, <1>3
<1>7. ASSUME NEW x \in 1 .. p + 1
      PROVE  (\E i \in t .. n + 1 : c[Cell(i)] = x) \/ \E j \in 1 .. Len(s) : s[j] = x
  <2>1. n + 1 \in t .. n + 1 /\ \A i \in t .. n : i \in t .. n + 1
    OBVIOUS
  <2>2. x = p + 1 \/ x \in 1 .. p
    OBVIOUS
  <2> QED
    BY <2>1, <2>2, Zenon
<1> QED
  BY <1>3, <1>4, <1>5, <1>6, <1>7

\* An item handed out moves from its cell to the history: one position leaves.
LEMMA AccountTake ==
    ASSUME NEW t \in Nat, NEW n \in Int, NEW c, NEW s, NEW p \in Nat, Account(t, n, c, s, p),
           NEW k \in t .. n, NEW u \in Nat, NEW m \in Int,
           u .. m = (t .. n) \ {k},
           NEW z, z = Append(s, c[Cell(k)])
    PROVE  Account(u, m, c, z, p)
<1> USE DEF Account
<1> DEFINE x == c[Cell(k)]
<1>1. x \in 1 .. p /\ s \in Seq(1 .. p) /\ Len(s) \in Nat
  BY LenProperties
<1>2. /\ z \in Seq(1 .. p) /\ Len(z) = Len(s) + 1 /\ z[Len(s) + 1] = x
      /\ \A j \in 1 .. Len(s) : z[j] = s[j]
  BY <1>1, AppendProperties
<1>3. \A j \in 1 .. Len(z) : j \in 1 .. Len(s) \/ j = Len(s) + 1
  BY <1>1, <1>2, SMTT(60)
<1>4. \A j \in 1 .. Len(s) : s[j] # x /\ j \in 1 .. Len(z)
  BY <1>1, <1>2
<1>5. \A i, j \in 1 .. Len(z) : z[i] = z[j] => i = j
  <2> HIDE DEF x
  <2> SUFFICES ASSUME NEW i \in 1 .. Len(z), NEW j \in 1 .. Len(z), z[i] = z[j] PROVE i = j
    OBVIOUS
  <2>1. CASE i \in 1 .. Len(s) /\ j \in 1 .. Len(s)
    BY <1>2, <2>1
  <2>2. CASE i = Len(s) + 1 /\ j \in 1 .. Len(s)
    BY <1>2, <1>4, <2>2
  <2>3. CASE j = Len(s) + 1 /\ i \in 1 .. Len(s)
    BY <1>2, <1>4, <2>3
  <2> QED
    BY <1>3, <2>1, <2>2, <2>3
<1>6. \A i \in u .. m : c[Cell(i)] \in 1 .. p /\ c[Cell(i)] # x /\ i \in t .. n
  BY Zenon
<1>7. \A i \in u .. m, j \in 1 .. Len(z) : c[Cell(i)] # z[j]
  <2> HIDE DEF x
  <2> QED
    BY <1>2, <1>3, <1>6
<1>8. ASSUME NEW y \in 1 .. p
      PROVE  (\E i \in u .. m : c[Cell(i)] = y) \/ \E j \in 1 .. Len(z) : z[j] = y
  <2>1. CASE y = x
    <3>1. Len(s) + 1 \in 1 .. Len(z)
      BY <1>1, <1>2
    <3> QED
      BY <1>2, <2>1, <3>1
  <2>2. CASE y # x /\ \E i \in t .. n : c[Cell(i)] = y
    BY <2>2, Zenon
  <2>3. CASE \E j \in 1 .. Len(s) : s[j] = y
    BY <1>2, <1>4, <2>3
  <2> QED
    BY <2>1, <2>2, <2>3, Zenon
<1>9. \A i, j \in u .. m : c[Cell(i)] = c[Cell(j)] => i = j
  BY <1>6
<1> HIDE DEF x
<1> QED
  BY <1>2, <1>5, <1>6, <1>7, <1>8, <1>9, Zenon

\* The account looks only at the cells from t to n.
LEMMA AccountSame ==
    ASSUME NEW t \in Nat, NEW n \in Int, NEW c, NEW d, NEW s, NEW p \in Nat,
           Account(t, n, c, s, p), \A i \in t .. n : d[Cell(i)] = c[Cell(i)]
    PROVE  Account(t, n, d, s, p)
BY Zenon DEF Account

\* What the types say of the counters and of a position in the deque.
LEMMA CounterTypes ==
    ASSUME Sizes, StealInv
    PROVE  /\ top \in Nat /\ bottom \in Int /\ pushed \in Nat /\ MaxItems \in Nat /\ Capacity \in Nat
           /\ owner.b \in Int /\ owner.t \in Nat /\ Newest \in Int
           /\ \A i \in top .. Newest : /\ i \in Nat /\ Cell(i) \in 0 .. Capacity - 1
                                       /\ buffer[Cell(i)] \in 1 .. pushed
<1> USE DEF StealInv, TypeOK, Sizes
<1>1. /\ top \in Nat /\ bottom \in Int /\ pushed \in Nat /\ MaxItems \in Nat /\ Capacity \in Nat
      /\ owner.b \in Int /\ owner.t \in Nat
  OBVIOUS
<1>2. Newest \in Int
  BY <1>1 DEF Newest
<1>3. \A i \in top .. Newest : buffer[Cell(i)] \in 1 .. pushed /\ i \in Nat
  BY <1>1, <1>2 DEF Account
<1> QED
  BY <1>1, <1>2, <1>3, CellFacts, Zenon

\* The deque starts empty.
LEMMA StealInit == ASSUME Sizes, Init PROVE StealInv
<1> USE DEF Init, Sizes, Idle, Away
<1>1. TypeOK
  BY DEF TypeOK
<1>2. Newest = -1
  BY DEF Newest, Undecided
<1>3. OwnerInv
  BY <1>2 DEF OwnerInv, Undecided
<1>4. ThiefInv
  BY DEF ThiefInv
<1>5. Account(top, Newest, buffer, taken, pushed)
  BY <1>2 DEF Account
<1> QED
  BY <1>1, <1>3, <1>4, <1>5 DEF StealInv

\* push_bottom's write: the cell lies behind every item, since the deque is
\* not full.
LEMMA PushCellKeeps ==
    ASSUME Sizes, StealInv, PushCell
    PROVE  /\ StealInv' /\ Newest' = Newest
           /\ \A i \in top .. Newest : buffer'[Cell(i)] = buffer[Cell(i)]
<1> USE DEF PushCell
<1>1. /\ top \in Nat /\ bottom \in Int /\ pushed \in Nat /\ Newest \in Int /\ MaxItems \in Nat
      /\ Capacity \in Nat
  BY CounterTypes
<1>2. /\ Newest = bottom - 1 /\ owner'.pc = "push" /\ owner'.b = bottom /\ owner'.t = owner.t
  BY DEF Newest, Undecided, StealInv, TypeOK
<1>3. Newest' = Newest
  BY <1>2 DEF Newest, Undecided
<1>4. bottom \in Nat /\ top <= bottom /\ bottom <= pushed /\ bottom - top < Capacity
  BY <1>1, <1>2 DEF StealInv, OwnerInv
<1>5. /\ \A i \in top .. bottom - 1 : buffer'[Cell(i)] = buffer[Cell(i)]
      /\ buffer'[Cell(bottom)] = pushed + 1
  <2>1. buffer \in [0 .. Capacity - 1 -> 0 .. MaxItems]
    BY DEF StealInv, TypeOK
  <2>2. /\ Cell(bottom) \in 0 .. Capacity - 1
        /\ \A i \in top .. bottom - 1 : /\ Cell(i) \in 0 .. Capacity - 1
                                         /\ Cell(i) # Cell(bottom)
    BY <1>1, <1>4, CellsBefore
  <2> QED
    BY <2>1, <2>2
<1>6. TypeOK'
  <2>1. buffer' \in [0 .. Capacity - 1 -> 0 .. MaxItems]
    <3>1. pushed + 1 \in 0 .. MaxItems /\ buffer \in [0 .. Capacity - 1 -> 0 .. MaxItems]
      BY <1>1, SMTT(30) DEF StealInv, TypeOK
    <3> QED
      BY <3>1, Zenon
  <2>2. bottom \in -1 .. MaxItems
    BY DEF StealInv, TypeOK
  <2> QED
    BY <2>1, <2>2, Zenon DEF StealInv, TypeOK
<1>7. OwnerInv'
  BY <1>1, <1>2, <1>3, <1>4, <1>5 DEF StealInv, OwnerInv, Undecided
<1>8. ThiefInv'
  BY <1>1, <1>2, <1>3, <1>5 DEF StealInv, ThiefInv
<1>9. Account(top, Newest, buffer', taken, pushed)
  <2>1. PICK d : d = buffer'
    OBVIOUS
  <2>2. Account(top, Newest, d, taken, pushed)
    BY <1>1, <1>2, <1>5, <2>1, AccountSame, Zenon DEF StealInv
  <2> QED
    BY <2>1, <2>2
<1>10. StealInv'
  BY <1>3, <1>6, <1>7, <1>8, <1>9 DEF StealInv
<1> QED
  BY <1>2, <1>3, <1>5, <1>10

\* push_bottom's store of bottom: the new item is the newest.
LEMMA PushBottomKeeps ==
    ASSUME Sizes, StealInv, PushBottom
    PROVE  /\ StealInv' /\ Newest' = Newest + 1 /\ buffer[Cell(Newest + 1)] = pushed + 1
           /\ top <= Newest + 1 /\ Newest + 1 - top < Capacity /\ pushed + 1 \in 1 .. MaxItems
<1> USE DEF PushBottom, Idle
<1>1. /\ top \in Nat /\ bottom \in Int /\ pushed \in Nat /\ Newest \in Int /\ MaxItems \in Nat
      /\ Capacity \in Nat
  BY CounterTypes
<1>2. /\ Newest = bottom - 1 /\ owner.b = bottom /\ bottom - top < Capacity /\ pushed < MaxItems
      /\ buffer[Cell(bottom)] = pushed + 1
  BY DEF Newest, Undecided, StealInv, OwnerInv
<1>3. Newest' = bottom /\ bottom' = bottom + 1
  BY <1>1, <1>2 DEF Newest, Undecided
<1>4. top <= bottom /\ bottom <= pushed
  BY <1>1, <1>2 DEF StealInv, OwnerInv
<1>5. TypeOK'
  BY <1>1, <1>2, <1>3, <1>4, SMTT(30) DEF StealInv, TypeOK
<1>6. OwnerInv'
  BY <1>1, <1>2, <1>3, <1>4 DEF StealInv, OwnerInv, Undecided
<1>7. ThiefInv'
  BY <1>1, <1>2, <1>3, <1>4 DEF StealInv, ThiefInv
<1>8. Account(top, bottom, buffer, taken, pushed + 1)
  <2>1. Newest + 1 = bottom
    BY <1>1, <1>2
  <2>2. Account(top, Newest + 1, buffer, taken, pushed + 1)
    BY <1>1, <1>2, <1>4, <2>1, AccountPush DEF StealInv
  <2> QED
    BY <2>1, <2>2
<1>9. StealInv'
  BY <1>3, <1>5, <1>6, <1>7, <1>8 DEF StealInv
<1> QED
  BY <1>1, <1>2, <1>3, <1>4, <1>9

\* pop_bottom's store of bottom: the items are still there.
LEMMA PopKeeps ==
    ASSUME Sizes, StealInv, Pop
    PROVE  StealInv' /\ Newest' = Newest
<1> USE DEF Pop
<1>1. /\ top \in Nat /\ bottom \in Int /\ pushed \in Nat /\ Newest \in Int /\ MaxItems \in Nat
      /\ Capacity \in Nat
  BY CounterTypes
<1>2. /\ Newest = bottom - 1 /\ owner'.pc = "load_top" /\ owner'.b = bottom - 1
      /\ owner'.t = owner.t
  BY DEF Newest, Undecided, StealInv, TypeOK
<1>3. Newest' = Newest
  BY <1>2 DEF Newest, Undecided
<1>4. top <= bottom /\ bottom <= pushed
  BY <1>1, <1>2 DEF StealInv, OwnerInv
<1>5. TypeOK'
  <2>1. bottom - 1 \in -1 .. MaxItems
    BY <1>1, <1>4 DEF StealInv, TypeOK
  <2> QED
    BY <2>1, Zenon DEF StealInv, TypeOK
<1>6. OwnerInv'
  BY <1>1, <1>2, <1>3, <1>4 DEF StealInv, OwnerInv, Undecided
<1>7. ThiefInv'
  BY <1>3 DEF StealInv, ThiefInv
<1>8. StealInv'
  BY <1>3, <1>5, <1>6, <1>7 DEF StealInv
<1> QED
  BY <1>3, <1>8

\* pop_bottom's load of top when it does not take an item: nothing is left, or
\* the last one has to be raced for.
LEMMA PopWaits ==
    ASSUME Sizes, StealInv, PopLoadTop, top >= owner.b
    PROVE  StealInv' /\ Newest' = Newest /\ taken' = taken
<1> USE DEF PopLoadTop
<1>1. /\ top \in Nat /\ bottom \in Int /\ pushed \in Nat /\ Newest \in Int /\ MaxItems \in Nat
      /\ owner.b \in Int /\ Capacity \in Nat
  BY CounterTypes
<1>2. /\ Newest = owner.b /\ bottom = owner.b /\ top <= owner.b + 1
  BY DEF Newest, Undecided, StealInv, OwnerInv
<1>3. /\ owner'.b = owner.b /\ taken' = taken
      /\ \/ owner'.pc = "restore" /\ top > owner.b
         \/ owner'.pc = "race" /\ owner'.t = top /\ top = owner.b
      /\ \/ owner' = [owner EXCEPT !.pc = "restore"]
         \/ owner' = [owner EXCEPT !.pc = "race", !.t = top]
  <2>1. \/ top > owner.b /\ ~(top = owner.b) /\ ~(top < owner.b)
        \/ ~(top > owner.b) /\ top = owner.b /\ ~(top < owner.b)
    BY <1>1
  <2>2. \/ top > owner.b /\ owner' = [owner EXCEPT !.pc = "restore"] /\ taken' = taken
        \/ top = owner.b /\ owner' = [owner EXCEPT !.pc = "race", !.t = top] /\ taken' = taken
    BY <2>1, Zenon
  <2> QED
    BY <2>2, Zenon DEF StealInv, TypeOK
<1>4. Newest' = Newest
  BY <1>2, <1>3 DEF Newest, Undecided
<1>5. TypeOK'
  <2>1. top \in 0 .. MaxItems
    BY DEF StealInv, TypeOK
  <2> QED
    BY <1>3, <2>1, Zenon DEF StealInv, TypeOK
<1>6. OwnerInv'
  BY <1>1, <1>2, <1>3, <1>4 DEF StealInv, OwnerInv, Undecided
<1>7. ThiefInv'
  BY <1>4 DEF StealInv, ThiefInv
<1>8. StealInv'
  BY <1>3, <1>4, <1>5, <1>6, <1>7 DEF StealInv
<1> QED
  BY <1>3, <1>4, <1>8

\* The newest item leaves.
LEMMA NewestLeaves ==
    ASSUME Sizes, StealInv, top <= Newest, NEW z, z = Append(taken, buffer[Cell(Newest)])
    PROVE  Account(top, Newest - 1, buffer, z, pushed)
<1>1. top \in Nat /\ pushed \in Nat /\ Newest \in Int
  BY CounterTypes
<1>2. PICK m \in Int : m = Newest - 1
  BY <1>1
<1>3. PICK k \in top .. Newest : k = Newest
  BY <1>1
<1>4. top .. m = (top .. Newest) \ {k}
  BY <1>1, <1>2, <1>3
<1>5. Account(top, Newest, buffer, taken, pushed) /\ z = Append(taken, buffer[Cell(k)])
  BY <1>3 DEF StealInv
<1>6. Account(top, m, buffer, z, pushed)
  BY <1>1, <1>4, <1>5, AccountTake, Zenon
<1> QED
  BY <1>2, <1>6

\* pop_bottom's load of top with more than one item left: the newest is the
\* owner's, and no thief has read it as the oldest.
LEMMA PopTakes ==
    ASSUME Sizes, StealInv, PopLoadTop, top < owner.b
    PROVE  /\ StealInv' /\ Newest' = Newest - 1 /\ top <= Newest
           /\ taken' = Append(taken, buffer[Cell(Newest)])
<1> USE DEF PopLoadTop, Idle
<1>1. /\ top \in Nat /\ bottom \in Int /\ pushed \in Nat /\ Newest \in Int /\ MaxItems \in Nat
      /\ owner.b \in Int /\ Capacity \in Nat
  BY CounterTypes
<1>2. /\ Newest = owner.b /\ bottom = owner.b
  BY DEF Newest, Undecided, StealInv, OwnerInv
<1>3. owner' = Idle /\ taken' = Append(taken, buffer[Cell(owner.b)])
  <2>1. ~(top > owner.b) /\ ~(top = owner.b)
    BY <1>1
  <2> QED
    BY <2>1, Zenon
<1>4. Newest' = Newest - 1
  BY <1>2, <1>3 DEF Newest, Undecided
<1>5. TypeOK'
  BY <1>1, <1>3 DEF StealInv, TypeOK
<1>6. OwnerInv'
  BY <1>1, <1>2, <1>3, <1>4 DEF StealInv, OwnerInv, Undecided
<1>7. ThiefInv'
  BY <1>1, <1>2, <1>4 DEF StealInv, ThiefInv
<1>8. Account(top, Newest - 1, buffer, taken', pushed)
  <2>1. PICK z : z = taken'
    OBVIOUS
  <2>2. top <= Newest /\ z = Append(taken, buffer[Cell(Newest)])
    BY <1>1, <1>2, <1>3, <2>1, SMTT(30)
  <2>3. Account(top, Newest - 1, buffer, z, pushed)
    BY <2>2, NewestLeaves, Zenon
  <2> QED
    BY <2>1, <2>3
<1>9. StealInv'
  BY <1>4, <1>5, <1>6, <1>7, <1>8 DEF StealInv
<1> QED
  BY <1>1, <1>2, <1>3, <1>4, <1>9

\* The oldest item leaves when top moves, whoever moves it.
LEMMA OldestLeaves ==
    ASSUME Sizes, StealInv, top <= Newest, NEW z, z = Append(taken, buffer[Cell(top)])
    PROVE  Account(top + 1, Newest, buffer, z, pushed)
<1>1. top \in Nat /\ pushed \in Nat /\ Newest \in Int
  BY CounterTypes
<1>2. PICK u \in Nat : u = top + 1
  BY <1>1
<1>3. top \in top .. Newest /\ u .. Newest = (top .. Newest) \ {top}
  BY <1>1, <1>2
<1>4. Account(u, Newest, buffer, z, pushed)
  BY <1>1, <1>3, AccountTake, Zenon DEF StealInv
<1> QED
  BY <1>2, <1>4

\* The race for the last item, won by the owner: top has not moved since it
\* was read, so the item is there, and no thief that read it can still win.
LEMMA RaceWon ==
    ASSUME Sizes, StealInv, PopRace, top = owner.t
    PROVE  /\ StealInv' /\ Newest' = Newest /\ top <= Newest /\ top' = top + 1
           /\ taken' = Append(taken, buffer[Cell(top)])
<1> USE DEF PopRace
<1>1. /\ top \in Nat /\ bottom \in Int /\ pushed \in Nat /\ Newest \in Int /\ MaxItems \in Nat
      /\ owner.b \in Int /\ Capacity \in Nat
  BY CounterTypes
<1>2. /\ Newest = owner.b /\ bottom = owner.b /\ owner.t = owner.b
  BY DEF Newest, Undecided, StealInv, OwnerInv
<1>3. /\ owner'.b = owner.b /\ owner'.t = owner.t /\ owner'.pc = "restore"
      /\ top' = top + 1 /\ taken' = Append(taken, buffer[Cell(top)])
  BY <1>2 DEF StealInv, TypeOK
<1>4. Newest' = Newest
  BY <1>2, <1>3 DEF Newest, Undecided
<1>5. TypeOK'
  <2>1. top + 1 \in 0 .. MaxItems
    BY <1>1, <1>2 DEF StealInv, TypeOK, OwnerInv
  <2> QED
    BY <1>3, <2>1, SMTT(30) DEF StealInv, TypeOK
<1>6. OwnerInv'
  BY <1>1, <1>2, <1>3, <1>4 DEF StealInv, OwnerInv, Undecided
<1>7. ThiefInv'
  <2>1. \A h \in Thieves : thief[h].t \in Int /\ thief[h].t <= top
    BY DEF StealInv, ThiefInv, TypeOK
  <2> QED
    BY <1>1, <1>3, <2>1, SMTT(30) DEF ThiefInv
<1>8. Account(top + 1, Newest, buffer, taken', pushed)
  <2>1. PICK z : z = taken'
    OBVIOUS
  <2>3. top <= Newest /\ z = Append(taken, buffer[Cell(top)])
    BY <1>1, <1>2, <1>3, <2>1
  <2>2. Account(top + 1, Newest, buffer, z, pushed)
    BY <2>3, OldestLeaves, Zenon
  <2> QED
    BY <2>1, <2>2
<1>9. StealInv'
  BY <1>3, <1>4, <1>5, <1>6, <1>7, <1>8 DEF StealInv
<1> QED
  BY <1>1, <1>2, <1>3, <1>4, <1>9

\* The race lost: a thief took the item, and bottom is still to be put back.
LEMMA RaceLost ==
    ASSUME Sizes, StealInv, PopRace, top # owner.t
    PROVE  StealInv' /\ Newest' = Newest /\ top' = top /\ taken' = taken
<1> USE DEF PopRace
<1>1. /\ top \in Nat /\ bottom \in Int /\ pushed \in Nat /\ Newest \in Int /\ MaxItems \in Nat
      /\ owner.b \in Int /\ Capacity \in Nat
  BY CounterTypes
<1>2. /\ Newest = owner.b /\ bottom = owner.b /\ owner.t = owner.b
  BY DEF Newest, Undecided, StealInv, OwnerInv
<1>3. /\ owner'.b = owner.b /\ owner'.t = owner.t /\ owner'.pc = "restore"
      /\ top' = top /\ taken' = taken
  BY DEF StealInv, TypeOK
<1>4. Newest' = Newest
  BY <1>2, <1>3 DEF Newest, Undecided
<1>5. TypeOK'
  BY <1>3, SMTT(30) DEF StealInv, TypeOK
<1>6. OwnerInv'
  BY <1>1, <1>2, <1>3, <1>4 DEF StealInv, OwnerInv, Undecided
<1>7. ThiefInv'
  BY <1>3, <1>4 DEF StealInv, ThiefInv
<1>8. StealInv'
  BY <1>3, <1>4, <1>5, <1>6, <1>7, SMTT(30) DEF StealInv
<1> QED
  BY <1>3, <1>4, <1>8

\* pop_bottom's last store puts bottom back behind the items.
LEMMA PopRestoreKeeps ==
    ASSUME Sizes, StealInv, PopRestore
    PROVE  StealInv' /\ Newest' = Newest
<1> USE DEF PopRestore, Idle
<1>1. /\ top \in Nat /\ bottom \in Int /\ pushed \in Nat /\ Newest \in Int /\ MaxItems \in Nat
      /\ owner.b \in Int /\ Capacity \in Nat
  BY CounterTypes
<1>2. /\ Newest = owner.b /\ bottom = owner.b /\ top = owner.b + 1 /\ owner.b + 1 <= pushed
  BY DEF Newest, Undecided, StealInv, OwnerInv
<1>3. Newest' = Newest
  BY <1>1, <1>2 DEF Newest, Undecided
<1>4. TypeOK'
  <2>1. owner.b + 1 \in -1 .. MaxItems
    BY <1>1, <1>2 DEF StealInv, TypeOK
  <2> QED
    BY <1>1, <2>1, SMTT(30) DEF StealInv, TypeOK
<1>5. OwnerInv'
  BY <1>1, <1>2, <1>3, SMTT(30) DEF StealInv, OwnerInv, Undecided
<1>6. ThiefInv'
  BY <1>3 DEF StealInv, ThiefInv
<1>7. StealInv'
  BY <1>3, <1>4, <1>5, <1>6 DEF StealInv
<1> QED
  BY <1>3, <1>7

\* steal_top's first two loads change nothing but the thief.
LEMMA ThiefLoads ==
    ASSUME Sizes, StealInv, NEW h \in Thieves, StealLoadTop(h) \/ StealLoadBottom(h)
    PROVE  StealInv' /\ Newest' = Newest
<1> DEFINE Thief == [pc : {"idle", "load_bottom", "cas"}, t : 0 .. MaxItems, item : 0 .. MaxItems]
<1>1. /\ top \in Nat /\ bottom \in Int /\ pushed \in Nat /\ Newest \in Int
      /\ UNCHANGED <<top, bottom, buffer, owner, pushed, taken>>
  BY CounterTypes DEF StealLoadTop, StealLoadBottom
<1>2. thief \in [Thieves -> Thief] /\ top \in 0 .. MaxItems
  BY DEF StealInv, TypeOK
<1>3. Newest' = Newest
  BY <1>1 DEF Newest, Undecided
<1>4. PICK e \in Thief : /\ thief' = [thief EXCEPT ![h] = e] /\ e.t <= top
                         /\ e.pc = "cas" /\ e.t = top =>
                              top <= Newest /\ e.item = buffer[Cell(top)]
  <2>1. CASE StealLoadTop(h)
    <3>1. [thief[h] EXCEPT !.pc = "load_bottom", !.t = top] \in Thief
      BY <1>2, Zenon
    <3>2. thief' = [thief EXCEPT ![h] = [thief[h] EXCEPT !.pc = "load_bottom", !.t = top]]
      BY <1>2, <2>1, Zenon DEF StealLoadTop
    <3>3. /\ [thief[h] EXCEPT !.pc = "load_bottom", !.t = top].t = top
          /\ [thief[h] EXCEPT !.pc = "load_bottom", !.t = top].pc = "load_bottom"
      BY <1>2
    <3>4. PICK e : e = [thief[h] EXCEPT !.pc = "load_bottom", !.t = top]
      OBVIOUS
    <3>5. e \in Thief /\ thief' = [thief EXCEPT ![h] = e] /\ e.t <= top /\ e.pc # "cas"
      BY <1>1, <3>1, <3>2, <3>3, <3>4, SMTT(30)
    <3> QED
      BY <3>5, Zenon
  <2>2. CASE StealLoadBottom(h) /\ thief[h].t >= bottom
    <3>1. Away \in Thief /\ Away.t = 0 /\ Away.pc = "idle"
      BY DEF Away, Sizes
    <3>2. thief' = [thief EXCEPT ![h] = Away]
      BY <1>2, <2>2, Zenon DEF StealLoadBottom
    <3>3. Away.t <= top /\ Away.pc # "cas"
      BY <1>1, <3>1
    <3> QED
      BY <3>1, <3>2, <3>3, Zenon
  <2>3. CASE StealLoadBottom(h) /\ ~(thief[h].t >= bottom)
    <3> DEFINE e == [pc |-> "cas", t |-> thief[h].t, item |-> buffer[Cell(thief[h].t)]]
    <3>1. thief[h].t \in Nat /\ thief[h].t \in 0 .. MaxItems /\ thief[h].t <= top
      BY <1>2 DEF StealInv, ThiefInv
    <3>2. buffer[Cell(thief[h].t)] \in 0 .. MaxItems
      <4>1. Cell(thief[h].t) \in 0 .. Capacity - 1
        <5>1. PICK i \in Nat : i = thief[h].t
          BY <3>1
        <5> QED
          BY <5>1, CellFacts
      <4> QED
        BY <4>1 DEF StealInv, TypeOK
    <3>3. thief' = [thief EXCEPT ![h] = e]
      BY <1>2, <2>3, Zenon DEF StealLoadBottom
    <3>4. e.t = top => top <= Newest
      BY <1>1, <2>3 DEF StealInv, OwnerInv, Newest
    <3>5. e \in Thief /\ e.t <= top /\ (e.t = top => e.item = buffer[Cell(top)])
      BY <3>1, <3>2
    <3> HIDE DEF e
    <3> QED
      BY <3>3, <3>4, <3>5, Zenon
  <2> QED
    BY <2>1, <2>2, <2>3
<1>5. thief' \in [Thieves -> Thief] /\ thief'[h] = e /\ \A g \in Thieves \ {h} : thief'[g] = thief[g]
  BY <1>2, <1>4
<1>6. TypeOK'
  BY <1>1, <1>5 DEF StealInv, TypeOK
<1>7. OwnerInv'
  BY <1>1, <1>3 DEF StealInv, OwnerInv, Undecided
<1>8. ThiefInv'
  BY <1>1, <1>3, <1>4, <1>5 DEF StealInv, ThiefInv
<1>9. StealInv'
  BY <1>1, <1>3, <1>6, <1>7, <1>8, SMTT(30) DEF StealInv
<1> QED
  BY <1>3, <1>9

\* The thief's compare-exchange, won: top has not moved since the thief read
\* it, so the item it read is the oldest, and neither the owner nor another
\* thief that read the same top can win after it.
LEMMA StealWon ==
    ASSUME Sizes, StealInv, NEW h \in Thieves, StealCas(h), top = thief[h].t
    PROVE  /\ StealInv' /\ Newest' = Newest /\ top <= Newest /\ top' = top + 1
           /\ taken' = Append(taken, buffer[Cell(top)])
<1> USE DEF StealCas
<1>1. /\ top \in Nat /\ bottom \in Int /\ pushed \in Nat /\ Newest \in Int /\ MaxItems \in Nat
      /\ owner.b \in Int /\ Capacity \in Nat
  BY CounterTypes
<1>2. /\ top <= Newest /\ taken' = Append(taken, buffer[Cell(top)]) /\ top' = top + 1
  BY DEF StealInv, ThiefInv
<1>3. Newest' = Newest
  BY DEF Newest, Undecided
<1>4. TypeOK'
  <2>1. top + 1 \in 0 .. MaxItems
    <3>1. Newest + 1 <= pushed /\ pushed \in 0 .. MaxItems
      BY DEF StealInv, TypeOK, OwnerInv
    <3> QED
      BY <1>1, <1>2, <3>1
  <2>2. Away \in [pc : {"idle", "load_bottom", "cas"}, t : 0 .. MaxItems, item : 0 .. MaxItems]
    BY <1>1 DEF Away
  <2> QED
    BY <1>2, <2>1, <2>2, SMTT(30) DEF StealInv, TypeOK
<1>5. OwnerInv'
  <2> HIDE DEF StealCas
  <2>3. OwnerInv
    BY DEF StealInv
  <2>1. ASSUME owner.pc = "restore" PROVE FALSE
    <3>1. Newest = owner.b /\ top = owner.b + 1
      BY <2>1, <2>3 DEF OwnerInv, Undecided, Newest
    <3> QED
      BY <1>1, <1>2, <3>1
  <2>2. top' = top + 1 /\ bottom' = bottom /\ buffer' = buffer /\ owner' = owner /\ pushed' = pushed
    BY <1>2 DEF StealCas
  <2>4. top' <= Newest' + 1 /\ Newest' + 1 <= pushed' /\ Newest' + 1 - top' <= Capacity
    BY <1>1, <1>2, <1>3, <2>2, <2>3, SMTT(60) DEF OwnerInv
  <2>5. owner.pc = "push" => bottom - (top + 1) < Capacity
    BY <1>1, <2>3 DEF OwnerInv
  <2>6. owner.pc = "race" => owner.t = owner.b /\ owner.b <= top + 1
    BY <1>1, <2>3 DEF OwnerInv
  <2> QED
    BY <2>1, <2>2, <2>3, <2>4, <2>5, <2>6, SMTT(30) DEF OwnerInv, Undecided
<1>6. ThiefInv'
  <2>1. \A g \in Thieves : thief'[g].t \in Int /\ thief'[g].t <= top
    BY <1>1, SMTT(30) DEF StealInv, ThiefInv, TypeOK, Away
  <2> QED
    BY <1>1, <1>2, <2>1 DEF ThiefInv
<1>7. Account(top + 1, Newest, buffer, taken', pushed)
  <2>1. PICK z : z = taken'
    OBVIOUS
  <2>2. Account(top + 1, Newest, buffer, z, pushed)
    BY <1>2, <2>1, OldestLeaves, Zenon
  <2> QED
    BY <2>1, <2>2
<1>8. StealInv'
  BY <1>2, <1>3, <1>4, <1>5, <1>6, <1>7 DEF StealInv
<1> QED
  BY <1>2, <1>3, <1>8

\* The compare-exchange lost.
LEMMA StealLost ==
    ASSUME Sizes, StealInv, NEW h \in Thieves, StealCas(h), top # thief[h].t
    PROVE  StealInv' /\ Newest' = Newest /\ top' = top /\ taken' = taken
<1> USE DEF StealCas
<1>1. top \in Nat /\ MaxItems \in Nat
  BY CounterTypes
<1>2. top' = top /\ taken' = taken /\ Newest' = Newest
  BY DEF Newest, Undecided
<1>3. TypeOK'
  <2>1. Away \in [pc : {"idle", "load_bottom", "cas"}, t : 0 .. MaxItems, item : 0 .. MaxItems]
    BY <1>1 DEF Away
  <2> QED
    BY <1>2, <2>1 DEF StealInv, TypeOK
<1>4. OwnerInv'
  BY <1>2 DEF StealInv, OwnerInv, Undecided
<1>5. ThiefInv'
  <2>1. \A g \in Thieves : thief'[g] = thief[g] \/ thief'[g] = Away
    BY DEF StealInv, TypeOK
  <2> QED
    BY <1>1, <1>2, <2>1 DEF StealInv, ThiefInv, Away
<1>6. StealInv'
  BY <1>2, <1>3, <1>4, <1>5 DEF StealInv
<1> QED
  BY <1>2, <1>6

-----------------------------------------------------------------------------
\* The items from position t to position n of the cells c, oldest first.
Items(t, n, c) ==
    [i \in 1 .. (IF n + 1 - t > 0 THEN n + 1 - t ELSE 0) |-> c[Cell(t + i - 1)]]

\* Contents are the items from top to the newest.
LEMMA ContentsItems == Contents = Items(top, Newest, buffer)
BY DEF Contents, Items, Newest

\* The cells from t to n hold values of S.
Within(t, n, c, S) == \A i \in t .. n : c[Cell(i)] \in S

\* q lists the values of the k cells from position t on.
Lists(q, t, k, c, S) ==
    q \in Seq(S) /\ Len(q) = k /\ \A i \in 1 .. k : q[i] = c[Cell(t + i - 1)]

\* The items list their cells.
LEMMA ItemsShape ==
    ASSUME NEW t \in Nat, NEW n \in Int, NEW k \in Nat, n + 1 - t = k, NEW c, NEW S,
           Within(t, n, c, S)
    PROVE  Lists(Items(t, n, c), t, k, c, S)
<1>1. (IF n + 1 - t > 0 THEN n + 1 - t ELSE 0) = k
  OBVIOUS
<1>2. Items(t, n, c) = [i \in 1 .. k |-> c[Cell(t + i - 1)]]
  BY <1>1 DEF Items
<1>3. \A i \in 1 .. k : t + i - 1 \in t .. n
  OBVIOUS
<1>4. Items(t, n, c) \in [1 .. k -> S]
  BY <1>2, <1>3 DEF Within
<1>5. Items(t, n, c) \in Seq(S) /\ Len(Items(t, n, c)) = k
  BY <1>4, FunctionSeq
<1> QED
  BY <1>2, <1>5 DEF Lists

\* Cells that agree hold the same items.
LEMMA ItemsSame ==
    ASSUME NEW t \in Nat, NEW n \in Int, t <= n + 1, NEW c, NEW d,
           \A i \in t .. n : d[Cell(i)] = c[Cell(i)]
    PROVE  Items(t, n, d) = Items(t, n, c)
<1>1. PICK k \in Nat : k = n + 1 - t /\ k = (IF n + 1 - t > 0 THEN n + 1 - t ELSE 0)
  OBVIOUS
<1>2. \A i \in 1 .. k : t + i - 1 \in t .. n
  BY <1>1
<1>3. \A i \in 1 .. k : d[Cell(t + i - 1)] = c[Cell(t + i - 1)]
  BY <1>2
<1>4. [i \in 1 .. k |-> d[Cell(t + i - 1)]] = [i \in 1 .. k |-> c[Cell(t + i - 1)]]
  BY <1>3, Zenon
<1> QED
  BY <1>1, <1>4 DEF Items

\* One more position is one more item at the end.
LEMMA ItemsPush ==
    ASSUME NEW t \in Nat, NEW n \in Int, t <= n + 1, NEW c
    PROVE  Items(t, n + 1, c) = Append(Items(t, n, c), c[Cell(n + 1)])
<1>1. PICK k \in Nat : k = n + 1 - t
  OBVIOUS
<1>2. PICK m \in Int : m = n + 1
  OBVIOUS
<1> DEFINE S == {c[Cell(i)] : i \in t .. m}
           x == c[Cell(m)]
           s == Items(t, n, c)
           r == Items(t, m, c)
<1>5. x \in S /\ Within(t, m, c, S) /\ Within(t, n, c, S)
  BY <1>2 DEF Within
<1> HIDE DEF S
<1>3. s \in Seq(S) /\ Len(s) = k /\ \A i \in 1 .. k : s[i] = c[Cell(t + i - 1)]
  <2>1. n + 1 - t = k
    BY <1>1
  <2>2. Lists(s, t, k, c, S)
    BY <1>5, <2>1, ItemsShape
  <2> QED
    BY <2>2 DEF Lists
<1>4. r \in Seq(S) /\ Len(r) = k + 1 /\ \A i \in 1 .. k + 1 : r[i] = c[Cell(t + i - 1)]
  <2>1. PICK l \in Nat : l = k + 1 /\ m + 1 - t = l
    BY <1>1, <1>2
  <2>2. Lists(r, t, l, c, S)
    BY <1>5, <2>1, ItemsShape
  <2> QED
    BY <2>1, <2>2 DEF Lists
<1> HIDE DEF s, r
<1>6. /\ Append(s, x) \in Seq(S) /\ Len(Append(s, x)) = k + 1 /\ Append(s, x)[k + 1] = x
      /\ \A i \in 1 .. k : Append(s, x)[i] = s[i]
  BY <1>3, <1>5, AppendProperties
<1>7. ASSUME NEW i \in 1 .. k + 1 PROVE Append(s, x)[i] = r[i]
  <2>1. CASE i \in 1 .. k
    BY <1>3, <1>4, <1>6, <2>1, Zenon
  <2>2. CASE i = k + 1
    <3>1. t + i - 1 = m
      BY <1>1, <1>2, <2>2
    <3>2. r[i] = c[Cell(t + i - 1)]
      BY <1>4
    <3> QED
      BY <1>6, <2>2, <3>1, <3>2
  <2>3. i \in 1 .. k \/ i = k + 1
    OBVIOUS
  <2> QED
    BY <2>1, <2>2, <2>3, Zenon
<1>8. Append(s, x) = r
  BY <1>4, <1>6, <1>7, SameSeq, SMTT(30)
<1> QED
  BY <1>2, <1>8 DEF s, r

\* The newest of a list, and the list without it.
NewestOf(s) == s[Len(s)]
WithoutNewest(s) == SubSeq(s, 1, Len(s) - 1)

\* The last position holds the newest item; without it the others remain.
LEMMA ItemsNewest ==
    ASSUME NEW t \in Nat, NEW n \in Int, t <= n, NEW c
    PROVE  /\ Items(t, n, c) # << >>
           /\ NewestOf(Items(t, n, c)) = c[Cell(n)]
           /\ WithoutNewest(Items(t, n, c)) = Items(t, n - 1, c)
<1>1. PICK k \in Nat : k = n - t
  OBVIOUS
<1>2. PICK m \in Int : m = n - 1
  OBVIOUS
<1> DEFINE S == {c[Cell(i)] : i \in t .. n}
           s == Items(t, n, c)
           r == Items(t, m, c)
           f == SubSeq(s, 1, k)
<1>5. Within(t, n, c, S) /\ Within(t, m, c, S)
  BY <1>2 DEF Within
<1> HIDE DEF S
<1>3. s \in Seq(S) /\ Len(s) = k + 1 /\ \A i \in 1 .. k + 1 : s[i] = c[Cell(t + i - 1)]
  <2>1. PICK l \in Nat : l = k + 1 /\ n + 1 - t = l
    BY <1>1
  <2>2. Lists(s, t, l, c, S)
    BY <1>5, <2>1, ItemsShape
  <2> QED
    BY <2>1, <2>2 DEF Lists
<1>4. r \in Seq(S) /\ Len(r) = k /\ \A i \in 1 .. k : r[i] = c[Cell(t + i - 1)]
  <2>1. m + 1 - t = k
    BY <1>1, <1>2
  <2>2. Lists(r, t, k, c, S)
    BY <1>5, <2>1, ItemsShape
  <2> QED
    BY <2>2 DEF Lists
<1> HIDE DEF s, r
<1>6. f \in Seq(S) /\ Len(f) = k /\ \A i \in 1 .. k : f[i] = s[i]
  <2>1. k \in 0 .. Len(s)
    BY <1>3
  <2> QED
    BY <1>3, <2>1, PrefixProperties
<1> HIDE DEF f
<1>7. f = r
  <2>1. Len(f) = Len(r) /\ \A i \in 1 .. Len(f) : f[i] = r[i]
    <3>1. \A i \in 1 .. k : i \in 1 .. k + 1
      OBVIOUS
    <3> QED
      BY <1>3, <1>4, <1>6, <3>1, Zenon
  <2> QED
    BY <1>4, <1>6, <2>1, SameSeq, SMTT(30)
<1>8. WithoutNewest(s) = f
  BY <1>3 DEF WithoutNewest, f
<1>9. NewestOf(s) = c[Cell(n)] /\ s # << >>
  <2>1. s[k + 1] = c[Cell(t + (k + 1) - 1)] /\ t + (k + 1) - 1 = n
    BY <1>1, <1>3
  <2> QED
    BY <1>3, <2>1 DEF NewestOf
<1> QED
  BY <1>2, <1>7, <1>8, <1>9 DEF s, r

\* The first position holds the oldest item; without it the others remain.
LEMMA ItemsOldest ==
    ASSUME NEW t \in Nat, NEW n \in Int, t <= n, NEW c
    PROVE  /\ Items(t, n, c) # << >>
           /\ Head(Items(t, n, c)) = c[Cell(t)]
           /\ Tail(Items(t, n, c)) = Items(t + 1, n, c)
<1>1. PICK k \in Nat : k = n - t
  OBVIOUS
<1>2. PICK u \in Nat : u = t + 1
  OBVIOUS
<1> DEFINE S == {c[Cell(i)] : i \in t .. n}
           s == Items(t, n, c)
           r == Items(u, n, c)
<1>5. Within(t, n, c, S) /\ Within(u, n, c, S)
  BY <1>2 DEF Within
<1> HIDE DEF S
<1>3. s \in Seq(S) /\ Len(s) = k + 1 /\ \A i \in 1 .. k + 1 : s[i] = c[Cell(t + i - 1)]
  <2>1. PICK l \in Nat : l = k + 1 /\ n + 1 - t = l
    BY <1>1
  <2>2. Lists(s, t, l, c, S)
    BY <1>5, <2>1, ItemsShape
  <2> QED
    BY <2>1, <2>2 DEF Lists
<1>4. r \in Seq(S) /\ Len(r) = k /\ \A i \in 1 .. k : r[i] = c[Cell(u + i - 1)]
  <2>1. n + 1 - u = k
    BY <1>1, <1>2
  <2>2. Lists(r, u, k, c, S)
    BY <1>5, <2>1, ItemsShape
  <2> QED
    BY <2>2 DEF Lists
<1> HIDE DEF s, r
<1>6. s # << >> /\ Head(s) = c[Cell(t)]
  <2>1. s[1] = c[Cell(t + 1 - 1)] /\ t + 1 - 1 = t
    BY <1>3
  <2>2. s # << >>
    BY <1>3
  <2> QED
    BY <1>3, <2>1, <2>2
<1>7. Tail(s) \in Seq(S) /\ Len(Tail(s)) = k /\ \A i \in 1 .. k : Tail(s)[i] = s[i + 1]
  BY <1>3, <1>6, HeadTailProperties
<1>8. ASSUME NEW i \in 1 .. k PROVE Tail(s)[i] = r[i]
  <2>1. i + 1 \in 1 .. k + 1 /\ t + (i + 1) - 1 = u + i - 1
    BY <1>2
  <2>2. Tail(s)[i] = s[i + 1]
    BY <1>7
  <2>3. s[i + 1] = c[Cell(t + (i + 1) - 1)]
    BY <1>3, <2>1
  <2>4. r[i] = c[Cell(u + i - 1)]
    BY <1>4
  <2> QED
    BY <2>1, <2>2, <2>3, <2>4, Zenon
<1>9. Tail(s) = r
  BY <1>4, <1>7, <1>8, SameSeq
<1> QED
  BY <1>2, <1>6, <1>9 DEF s, r

\* The places of s that hold x.
Places(s, x) == {i \in DOMAIN s : s[i] = x}

\* No value is at two places of s.
NoRepeat(s) == \A i, j \in DOMAIN s : s[i] = s[j] => i = j

F == INSTANCE FiniteSetTheorems

\* The library counts as the model does.
LEMMA SameCounting ==
    ASSUME NEW S PROVE F!Cardinality(S) = Cardinality(S)
BY Zenon DEF F!Cardinality, Cardinality

\* Such an s has one place for a value it holds, and none for another.
LEMMA OnceOrNever ==
    ASSUME NEW s, NoRepeat(s), NEW x
    PROVE  /\ (\E i \in DOMAIN s : s[i] = x) => Cardinality(Places(s, x)) = 1
           /\ (\A i \in DOMAIN s : s[i] # x) => Cardinality(Places(s, x)) = 0
<1>1. ASSUME NEW k \in DOMAIN s, s[k] = x PROVE Cardinality(Places(s, x)) = 1
  <2>1. Places(s, x) = {k}
    BY <1>1 DEF Places, NoRepeat
  <2> QED
    BY <2>1, F!FS_Singleton, SameCounting, Zenon
<1>2. ASSUME \A i \in DOMAIN s : s[i] # x PROVE Cardinality(Places(s, x)) = 0
  <2>1. Places(s, x) = {}
    BY <1>2 DEF Places
  <2> QED
    BY <2>1, F!FS_EmptySet, SameCounting, Zenon
<1> QED
  BY <1>1, <1>2

\* The account counts every item once.
LEMMA AccountCounts == ASSUME Sizes, StealInv PROVE NothingLostOrDoubled
<1>1. /\ top \in Nat /\ pushed \in Nat /\ Newest \in Int /\ top <= Newest + 1
  BY CounterTypes DEF StealInv, OwnerInv
<1>2. PICK k \in Nat : k = Newest + 1 - top /\ k = (IF Newest + 1 - top > 0 THEN Newest + 1 - top ELSE 0)
  BY <1>1
<1>3. Contents = [i \in 1 .. k |-> buffer[Cell(top + i - 1)]]
  BY <1>2, ContentsItems DEF Items
<1>4. PICK q : q = Contents
  OBVIOUS
<1>5. DOMAIN q = 1 .. k /\ \A i \in 1 .. k : q[i] = buffer[Cell(top + i - 1)]
  BY <1>3, <1>4
<1>6. Account(top, Newest, buffer, taken, pushed)
  BY DEF StealInv
<1>7. \A i \in 1 .. k : top + i - 1 \in top .. Newest
  BY <1>1, <1>2
<1>8. NoRepeat(q)
  <2> SUFFICES ASSUME NEW i \in 1 .. k, NEW j \in 1 .. k, q[i] = q[j] PROVE i = j
    BY <1>5 DEF NoRepeat
  <2>1. top + i - 1 = top + j - 1
    BY <1>5, <1>6, <1>7, SMTT(30) DEF Account
  <2> QED
    BY <1>1, <2>1
<1>9. DOMAIN taken = 1 .. Len(taken) /\ NoRepeat(taken)
  <2>1. DOMAIN taken = 1 .. Len(taken)
    BY <1>6, LenProperties DEF Account
  <2> QED
    BY <1>6, <2>1 DEF Account, NoRepeat
<1>10. ASSUME NEW x \in 1 .. pushed
       PROVE  \/ (\E i \in DOMAIN taken : taken[i] = x) /\ (\A i \in DOMAIN q : q[i] # x)
              \/ (\E i \in DOMAIN q : q[i] = x) /\ (\A i \in DOMAIN taken : taken[i] # x)
  <2>1. CASE \E i \in top .. Newest : buffer[Cell(i)] = x
    <3>1. PICK i \in top .. Newest : buffer[Cell(i)] = x
      BY <2>1
    <3>2. PICK j \in 1 .. k : top + j - 1 = i
      <4>1. i - top + 1 \in 1 .. k /\ top + (i - top + 1) - 1 = i
        BY <1>1, <1>2
      <4> QED
        BY <4>1
    <3>3. q[j] = x /\ j \in DOMAIN q
      BY <1>5, <3>1, <3>2
    <3>4. \A g \in DOMAIN taken : taken[g] # x
      BY <1>6, <1>9, <3>1 DEF Account
    <3> QED
      BY <3>3, <3>4
  <2>2. CASE \E g \in 1 .. Len(taken) : taken[g] = x
    <3>1. \A i \in DOMAIN q : q[i] # x
      <4>1. \A i \in top .. Newest : buffer[Cell(i)] # x
        BY <1>6, <2>2 DEF Account
      <4> QED
        BY <1>5, <1>7, <4>1, SMTT(30)
    <3> QED
      BY <1>9, <2>2, <3>1, SMTT(30)
  <2> QED
    BY <1>6, <2>1, <2>2, SMTT(30) DEF Account
<1>11. ASSUME NEW x \in 1 .. pushed
       PROVE  Cardinality(Places(taken, x))
                + Cardinality(Places(q, x)) = 1
  <2>1. CASE (\E i \in DOMAIN taken : taken[i] = x) /\ (\A i \in DOMAIN q : q[i] # x)
    <3>1. Cardinality(Places(taken, x)) = 1
      BY <1>9, <2>1, OnceOrNever, SMTT(30)
    <3>2. Cardinality(Places(q, x)) = 0
      BY <1>8, <2>1, OnceOrNever
    <3> QED
      BY <3>1, <3>2
  <2>2. CASE (\E i \in DOMAIN q : q[i] = x) /\ (\A i \in DOMAIN taken : taken[i] # x)
    <3>1. Cardinality(Places(taken, x)) = 0
      BY <1>9, <2>2, OnceOrNever, SMTT(30)
    <3>2. Cardinality(Places(q, x)) = 1
      BY <1>8, <2>2, OnceOrNever, SMTT(30)
    <3> QED
      BY <3>1, <3>2
  <2> QED
    BY <1>10, <2>1, <2>2
<1> QED
  BY <1>4, <1>11, Zenon DEF NothingLostOrDoubled, Places

\* A step that leaves positions and cells alone leaves the contents.
LEMMA ContentsKept ==
    ASSUME Sizes, StealInv, StealInv', Newest' = Newest, top' = top,
           \A i \in top .. Newest : buffer'[Cell(i)] = buffer[Cell(i)]
    PROVE  Contents' = Contents
<1>1. top \in Nat /\ Newest \in Int /\ top <= Newest + 1
  BY CounterTypes DEF StealInv, OwnerInv
<1>2. PICK d : d = buffer'
  OBVIOUS
<1>3. Items(top, Newest, d) = Items(top, Newest, buffer)
  BY <1>1, <1>2, ItemsSame
<1>4. Contents' = Items(top, Newest, d)
  <2>1. Contents' = Items(top', Newest', buffer')
    BY DEF Contents, Items, Newest
  <2> QED
    BY <1>2, <2>1, SMTT(30)
<1> QED
  BY <1>3, <1>4, ContentsItems, SMTT(30)

\* The oldest item leaving is the abstract deque's StealOldest.
LEMMA OldestStep ==
    ASSUME Sizes, StealInv, Newest' = Newest, top <= Newest, top' = top + 1, buffer' = buffer,
           taken' = Append(taken, buffer[Cell(top)])
    PROVE  Deque!StealOldest
<1>1. top \in Nat /\ Newest \in Int
  BY CounterTypes
<1>2. /\ Items(top, Newest, buffer) # << >> /\ Head(Items(top, Newest, buffer)) = buffer[Cell(top)]
      /\ Tail(Items(top, Newest, buffer)) = Items(top + 1, Newest, buffer)
  BY <1>1, ItemsOldest, Zenon
<1>3. Contents' = Items(top + 1, Newest, buffer)
  <2>1. Contents' = Items(top', Newest', buffer')
    BY DEF Contents, Items, Newest
  <2> QED
    BY <2>1
<1> QED
  BY <1>2, <1>3, ContentsItems, SMTT(30) DEF Deque!StealOldest

-----------------------------------------------------------------------------
\* Every step keeps the invariant, and is a step of the abstract deque or
\* leaves its items and its history alone: the store of bottom in push_bottom
\* is the push; the load of top that leaves the owner alone with the newest item
\* is its pop; a compare-exchange that succeeds takes the oldest.
LEMMA StealStep ==
    ASSUME Sizes, StealInv, Next
    PROVE  StealInv' /\ [Deque!Next]_<<Contents, taken>>
<1>1. ASSUME StealInv', Newest' = Newest, top' = top, taken' = taken,
             \A i \in top .. Newest : buffer'[Cell(i)] = buffer[Cell(i)]
      PROVE  StealInv' /\ [Deque!Next]_<<Contents, taken>>
  BY <1>1, ContentsKept
<1>2. CASE PushCell
  <2>1. /\ StealInv' /\ Newest' = Newest
        /\ \A i \in top .. Newest : buffer'[Cell(i)] = buffer[Cell(i)]
    BY <1>2, PushCellKeeps
  <2>2. top' = top /\ taken' = taken
    BY <1>2 DEF PushCell
  <2> QED
    BY <1>1, <2>1, <2>2, Zenon
<1>3. CASE PushBottom
  <2>1. /\ StealInv' /\ Newest' = Newest + 1 /\ buffer[Cell(Newest + 1)] = pushed + 1
        /\ top <= Newest + 1 /\ Newest + 1 - top < Capacity /\ pushed + 1 \in 1 .. MaxItems
    BY <1>3, PushBottomKeeps
  <2>2. top \in Nat /\ Newest \in Int /\ Capacity \in Nat
    BY CounterTypes
  <2>3. top' = top /\ taken' = taken /\ buffer' = buffer
    BY <1>3 DEF PushBottom
  <2>4. Contents' = Append(Contents, pushed + 1)
    <3>1. Items(top, Newest + 1, buffer) = Append(Items(top, Newest, buffer), buffer[Cell(Newest + 1)])
      BY <2>1, <2>2, ItemsPush, SMTT(30)
    <3>2. Contents' = Items(top, Newest + 1, buffer)
      <4>1. Contents' = Items(top', Newest', buffer')
        BY DEF Contents, Items, Newest
      <4> QED
        BY <2>1, <2>3, <4>1, SMTT(30)
    <3> QED
      BY <2>1, <3>1, <3>2, ContentsItems, SMTT(30)
  <2>5. Len(Contents) < Capacity
    <3>1. PICK k \in Nat : k = Newest + 1 - top /\ Newest + 1 - top = k
      BY <2>1, <2>2
    <3>2. Within(top, Newest, buffer, 1 .. pushed)
      BY CounterTypes DEF Within
    <3>3. Lists(Items(top, Newest, buffer), top, k, buffer, 1 .. pushed)
      BY <2>2, <3>1, <3>2, ItemsShape, SMTT(30)
    <3> QED
      BY <2>1, <3>1, <3>3, ContentsItems, SMTT(30) DEF Lists
  <2>6. Deque!Push(pushed + 1)
    BY <2>3, <2>4, <2>5, SMTT(30) DEF Deque!Push
  <2> QED
    BY <2>1, <2>6 DEF Deque!Next
<1>4. CASE Pop
  <2>1. top' = top /\ taken' = taken /\ buffer' = buffer
    BY <1>4 DEF Pop
  <2> QED
    BY <1>1, <1>4, <2>1, PopKeeps, SMTT(30)
<1>5. CASE PopLoadTop /\ top >= owner.b
  <2>1. top' = top /\ buffer' = buffer
    BY <1>5 DEF PopLoadTop
  <2> QED
    BY <1>1, <1>5, <2>1, PopWaits, SMTT(30)
<1>6. CASE PopLoadTop /\ ~(top >= owner.b)
  <2>1. top \in Nat /\ owner.b \in Int /\ Newest \in Int
    BY CounterTypes
  <2>2. top < owner.b
    BY <1>6, <2>1
  <2>3. /\ StealInv' /\ Newest' = Newest - 1 /\ top <= Newest
        /\ taken' = Append(taken, buffer[Cell(Newest)])
    BY <1>6, <2>2, PopTakes, SMTT(30)
  <2>4. /\ Items(top, Newest, buffer) # << >>
        /\ NewestOf(Items(top, Newest, buffer)) = buffer[Cell(Newest)]
        /\ WithoutNewest(Items(top, Newest, buffer)) = Items(top, Newest - 1, buffer)
    BY <2>1, <2>3, ItemsNewest
  <2>5. Contents' = Items(top, Newest - 1, buffer)
    <3>1. Contents' = Items(top', Newest', buffer')
      BY DEF Contents, Items, Newest
    <3>2. top' = top /\ buffer' = buffer
      BY <1>6 DEF PopLoadTop
    <3> QED
      BY <2>3, <3>1, <3>2
  <2>6. Deque!PopNewest
    BY <2>3, <2>4, <2>5, ContentsItems, SMTT(30) DEF Deque!PopNewest, NewestOf, WithoutNewest
  <2> QED
    BY <2>3, <2>6 DEF Deque!Next
<1>7. CASE PopRace /\ top = owner.t
  <2>1. /\ StealInv' /\ Newest' = Newest /\ top <= Newest /\ top' = top + 1
        /\ taken' = Append(taken, buffer[Cell(top)]) /\ buffer' = buffer
    BY <1>7, RaceWon DEF PopRace
  <2> QED
    BY <2>1, OldestStep DEF Deque!Next
<1>8. CASE PopRace /\ top # owner.t
  <2>1. buffer' = buffer
    BY <1>8, SMTT(30) DEF PopRace
  <2> QED
    BY <1>1, <1>8, <2>1, RaceLost
<1>9. CASE PopRestore
  <2>1. top' = top /\ taken' = taken /\ buffer' = buffer
    BY <1>9 DEF PopRestore
  <2> QED
    BY <1>1, <1>9, <2>1, PopRestoreKeeps
<1>10. ASSUME NEW h \in Thieves, StealLoadTop(h) \/ StealLoadBottom(h)
       PROVE  StealInv' /\ [Deque!Next]_<<Contents, taken>>
  <2>1. top' = top /\ taken' = taken /\ buffer' = buffer
    BY <1>10 DEF StealLoadTop, StealLoadBottom
  <2> QED
    BY <1>1, <1>10, <2>1, ThiefLoads, SMTT(30)
<1>11. ASSUME NEW h \in Thieves, StealCas(h), top = thief[h].t
       PROVE  StealInv' /\ [Deque!Next]_<<Contents, taken>>
  <2>1. /\ StealInv' /\ Newest' = Newest /\ top <= Newest /\ top' = top + 1
        /\ taken' = Append(taken, buffer[Cell(top)]) /\ buffer' = buffer
    BY <1>11, StealWon, Zenon DEF StealCas
  <2> QED
    BY <2>1, OldestStep, SMTT(30) DEF Deque!Next
<1>12. ASSUME NEW h \in Thieves, StealCas(h), top # thief[h].t
       PROVE  StealInv' /\ [Deque!Next]_<<Contents, taken>>
  <2>1. buffer' = buffer
    BY <1>12 DEF StealCas
  <2> QED
    BY <1>1, <1>12, <2>1, StealLost
<1> QED
  BY <1>2, <1>3, <1>4, <1>5, <1>6, <1>7, <1>8, <1>9, <1>10, <1>11, <1>12, Zenon DEF Next

\* A step that changes nothing.
LEMMA StealStutter ==
    ASSUME StealInv, UNCHANGED vars
    PROVE  StealInv' /\ [Deque!Next]_<<Contents, taken>>
<1>1. StealInv'
  BY DEF vars, StealInv, TypeOK, OwnerInv, ThiefInv, Account, Newest, Undecided
<1>2. UNCHANGED <<Contents, taken>>
  BY DEF vars, Contents, Undecided
<1> QED
  BY <1>1, <1>2

\* The deque's types hold, and every item pushed was handed out once or is
\* still in the deque (push_bottom, pop_bottom, steal_top), for every capacity,
\* every number of items and every set of thieves.
THEOREM DequeCorrect ==
    ASSUME Capacity \in Nat \ {0}, MaxItems \in Nat
    PROVE  Spec => []DequeInv
<1>1. Sizes
  BY DEF Sizes
<1>2. Init => StealInv
  BY <1>1, StealInit
<1>3. StealInv /\ [Next]_vars => StealInv'
  BY <1>1, StealStep, StealStutter
<1>4. StealInv => DequeInv
  BY <1>1, AccountCounts DEF DequeInv, StealInv
<1> QED
  BY <1>2, <1>3, <1>4, PTL DEF Spec

\* The deque implements the abstract one: every item handed out is in one step
\* the newest, for the owner, or the oldest, for a thief or for the owner that
\* won the race for the last (push_bottom, pop_bottom, steal_top).
THEOREM DequeImplements ==
    ASSUME Capacity \in Nat \ {0}, MaxItems \in Nat
    PROVE  Spec => ImplementsWorkDeque
<1>1. Sizes
  BY DEF Sizes
<1>2. Init => StealInv /\ Deque!Init
  <2>1. ASSUME Init PROVE Deque!Init
    <3>1. Contents = [i \in 1 .. 0 |-> buffer[Cell(top + i - 1)]]
      BY <2>1 DEF Init, Contents, Undecided, Idle
    <3>2. Contents = << >>
      BY <3>1
    <3> QED
      BY <2>1, <3>2, SMTT(30) DEF Init, Deque!Init
  <2> QED
    BY <1>1, <2>1, StealInit, SMTT(30)
<1>3. StealInv /\ [Next]_vars => StealInv' /\ [Deque!Next]_<<Contents, taken>>
  BY <1>1, StealStep, StealStutter
<1> QED
  BY <1>2, <1>3, PTL DEF Spec, ImplementsWorkDeque, Deque!Spec
=============================================================================
