------------------------------ MODULE MpscRing ------------------------------
(* The multi-producer ring (fixy/concurrent/MpscRing.h): producers claim     *)
(* positions with a compare-exchange on `head`, write their cells, and then  *)
(* set one bit per cell in a packed bitmap; the one consumer takes the       *)
(* prefix of set bits, clears them, and advances `tail`.  Bits are set and   *)
(* cleared one machine word at a time.                                       *)
EXTENDS Integers, Sequences, FiniteSets

CONSTANTS Producers, Capacity,
          WordBits,     \* 64 in the code
          PushSizes,    \* batch sizes of the pushes; 1 is also try_push
          PopSizes,     \* span sizes of the pops, clamped; 1 is also try_pop
          MaxItems      \* bound on the positions ever claimed

WORDS == (Capacity + WordBits - 1) \div WordBits
Bits == 0..(WORDS * WordBits - 1)
Cell(pos) == pos % Capacity
WordOf(b) == b \div WordBits

VARIABLES head, tail, cells, ready,
          producer,   \* per producer: step, batch size, head and tail read, masks left to set
          consumer,   \* step, span size, cells counted, masks left to clear
          popped      \* history: what the consumer was given, in order

vars == <<head, tail, cells, ready, producer, consumer, popped>>

Resting == [pc |-> "idle", n |-> 0, pos |-> 0, tail |-> 0, full |-> FALSE, masks |-> <<>>]
Waiting == [pc |-> "idle", cap |-> 0, r |-> 0, masks |-> <<>>]

TypeOK ==
  /\ head \in 0..MaxItems /\ tail \in Nat
  /\ cells \in [0..(Capacity - 1) -> 0..MaxItems]
  /\ ready \in [Bits -> BOOLEAN]
  /\ \A p \in Producers : producer[p].pc \in {"idle", "load_head", "load_tail", "cas", "write", "set", "refused"}
  /\ consumer.pc \in {"idle", "scan", "copy", "clear", "advance"}

Init ==
  /\ head = 0 /\ tail = 0 /\ popped = <<>>
  /\ cells = [c \in 0..(Capacity - 1) |-> 0]
  /\ ready = [b \in Bits |-> FALSE]
  /\ producer = [p \in Producers |-> Resting]
  /\ consumer = Waiting

(* The masks of the words that hold the bits start..end-1, lowest first.     *)
WordMasks(start, end) ==
  [i \in 1..(WordOf(end - 1) - WordOf(start) + 1) |->
     {b \in start..(end - 1) : WordOf(b) = WordOf(start) + i - 1}]

(* publish_range_ and clear_range_: a full batch takes every bit of every    *)
(* word, a range that wraps is split in two.                                 *)
Masks(pos, n) ==
  LET start == Cell(pos)
      end == Cell(pos + n - 1) + 1
  IN  IF n >= Capacity THEN [w \in 1..WORDS |-> {b \in Bits : WordOf(b) = w - 1}]
      ELSE IF end <= start THEN WordMasks(start, Capacity) \o WordMasks(0, end)
      ELSE WordMasks(start, end)

has_room_for(h, t, n) == h + n - t <= Capacity

Push(p, n) ==
  /\ producer[p].pc \in {"idle", "refused"}
  /\ producer' = [producer EXCEPT ![p] = [Resting EXCEPT !.pc = "load_head", !.n = n]]
  /\ UNCHANGED <<head, tail, cells, ready, consumer, popped>>

(* `full` remembers whether the batch did not fit at this moment.            *)
LoadHead(p) ==
  /\ producer[p].pc = "load_head" /\ head + producer[p].n <= MaxItems
  /\ producer' = [producer EXCEPT ![p].pc = "load_tail", ![p].pos = head,
                                  ![p].full = head + producer[p].n - tail > Capacity]
  /\ UNCHANGED <<head, tail, cells, ready, consumer, popped>>

LoadTail(p) ==
  /\ producer[p].pc = "load_tail"
  /\ producer' = [producer EXCEPT ![p].pc =
                    IF has_room_for(producer[p].pos, tail, producer[p].n) THEN "cas" ELSE "refused"]
  /\ UNCHANGED <<head, tail, cells, ready, consumer, popped>>

(* The compare-exchange; a failed one starts over.                           *)
ClaimHead(p) ==
  LET c == producer[p]
  IN  /\ c.pc = "cas"
      /\ IF head = c.pos
         THEN head' = c.pos + c.n /\ producer' = [producer EXCEPT ![p].pc = "write"]
         ELSE UNCHANGED head /\ producer' = [producer EXCEPT ![p].pc = "load_head"]
      /\ UNCHANGED <<tail, cells, ready, consumer, popped>>

(* The item for position i is i + 1: no two items are alike.                 *)
WriteCells(p) ==
  LET c == producer[p]
  IN  /\ c.pc = "write"
      /\ cells' = [x \in DOMAIN cells |->
                     IF \E i \in c.pos..(c.pos + c.n - 1) : Cell(i) = x
                     THEN 1 + CHOOSE i \in c.pos..(c.pos + c.n - 1) : Cell(i) = x
                     ELSE cells[x]]
      /\ producer' = [producer EXCEPT ![p].pc = "set", ![p].masks = Masks(c.pos, c.n)]
      /\ UNCHANGED <<head, tail, ready, consumer, popped>>

SetWord(p) ==
  LET masks == producer[p].masks
  IN  /\ producer[p].pc = "set"
      /\ ready' = [b \in Bits |-> ready[b] \/ b \in masks[1]]
      /\ producer' = [producer EXCEPT ![p] = IF Len(masks) = 1 THEN Resting
                                             ELSE [@ EXCEPT !.masks = Tail(masks)]]
      /\ UNCHANGED <<head, tail, cells, consumer, popped>>

Pop(n) ==
  /\ consumer.pc = "idle"
  /\ consumer' = [Waiting EXCEPT !.pc = "scan", !.cap = IF Capacity < n THEN Capacity ELSE n]
  /\ UNCHANGED <<head, tail, cells, ready, producer, popped>>

(* The run of set bits from bit b to the end of its word.                    *)
RunLength(b) ==
  LET in_word == {x \in Bits : x >= b /\ WordOf(x) = WordOf(b)}
  IN  Cardinality({x \in in_word : \A y \in b..x : ready[y]})

(* One word of the prefix scan.                                              *)
Scan ==
  LET avail == RunLength(Cell(tail + consumer.r))
      left == consumer.cap - consumer.r
      take == IF left < avail THEN left ELSE avail
      r == consumer.r + take
  IN  /\ consumer.pc = "scan"
      /\ consumer' = IF take # 0 /\ take = avail /\ r < consumer.cap THEN [consumer EXCEPT !.r = r]
                     ELSE IF r = 0 THEN Waiting
                     ELSE [consumer EXCEPT !.pc = "copy", !.r = r]
      /\ UNCHANGED <<head, tail, cells, ready, producer, popped>>

CopyOut ==
  /\ consumer.pc = "copy"
  /\ popped' = popped \o [i \in 1..consumer.r |-> cells[Cell(tail + i - 1)]]
  /\ consumer' = [consumer EXCEPT !.pc = "clear", !.masks = Masks(tail, consumer.r)]
  /\ UNCHANGED <<head, tail, cells, ready, producer>>

\* Faulty: a run that spans two words loses only the bits of its first.
ClearWord_first_only ==
  /\ consumer.pc = "clear"
  /\ ready' = [b \in Bits |-> ready[b] /\ b \notin consumer.masks[1]]
  /\ consumer' = [consumer EXCEPT !.pc = "advance"]
  /\ UNCHANGED <<head, tail, cells, producer, popped>>

(* The bits are cleared before tail lets a producer reuse the cells.         *)
ClearWord ==
  LET masks == consumer.masks
  IN  /\ consumer.pc = "clear"
      /\ ready' = [b \in Bits |-> ready[b] /\ b \notin masks[1]]
      /\ consumer' = IF Len(masks) = 1 THEN [consumer EXCEPT !.pc = "advance"]
                     ELSE [consumer EXCEPT !.masks = Tail(masks)]
      /\ UNCHANGED <<head, tail, cells, producer, popped>>

AdvanceTail ==
  /\ consumer.pc = "advance"
  /\ tail' = tail + consumer.r
  /\ consumer' = Waiting
  /\ UNCHANGED <<head, cells, ready, producer, popped>>

Next ==
  \/ \E p \in Producers : \/ \E n \in PushSizes : Push(p, n)
                          \/ LoadHead(p) \/ LoadTail(p) \/ ClaimHead(p) \/ WriteCells(p) \/ SetWord(p)
  \/ \E n \in PopSizes : Pop(n)
  \/ Scan \/ CopyOut \/ ClearWord \/ AdvanceTail

Spec == Init /\ [][Next]_vars

(* The consumer is given exactly the items of the claimed positions, each    *)
(* once and in the order of the claims, although producers finish in any     *)
(* order, batches wrap, and a bit carries no round number (the capacity gate *)
(* of try_push and the clear-then-advance of try_pop).                       *)
PoppedInClaimOrder ==
  /\ \A i \in DOMAIN popped : popped[i] = i
  /\ Len(popped) <= head

(* What the clamp in try_pop_batch is there for (MpscRing.h:172-178): a      *)
(* drain returns no item twice and never leaves tail ahead of head.          *)
DrainsStayBehindHead ==
  /\ tail <= head
  /\ \A i, j \in DOMAIN popped : popped[i] = popped[j] => i = j

(* Whenever no call is between its claim and its last bit, the bitmap is     *)
(* exactly the backlog: no published item is forgotten and no cell is        *)
(* offered twice, although a bit carries no round (the clear before the      *)
(* advance in try_pop).                                                      *)
BitmapIsBacklog ==
  consumer.pc = "idle" /\ (\A p \in Producers : producer[p].pc \notin {"write", "set"}) =>
    \A b \in Bits : ready[b] <=> \E i \in tail..(head - 1) : Cell(i) = b

(* A refused push was refused by a ring that had no room when head was read, *)
(* although other producers and the consumer move between the two loads      *)
(* (has_room_for is signed, and head is read before tail).                   *)
RefusalIsTrue ==
  \A p \in Producers : producer[p].pc = "refused" => producer[p].full

(* The ring is a queue in claim order whose bitmap is its backlog and whose  *)
(* refusals are true.                                                        *)
MpscInv == TypeOK /\ PoppedInClaimOrder /\ BitmapIsBacklog /\ RefusalIsTrue
===========================================================================
