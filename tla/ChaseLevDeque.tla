---------------------------- MODULE ChaseLevDeque ----------------------------
(* The work-stealing deque (fixy/concurrent/ChaseLevDeque.h): the owner      *)
(* pushes and pops at `bottom`, thieves take at `top` with a compare-        *)
(* exchange, and the owner races them for the last item.  The two seq_cst    *)
(* fences of the code make the interleaving of single loads and stores the   *)
(* whole story, so each is one step here.                                    *)
EXTENDS Integers, Sequences, FiniteSets

CONSTANTS Thieves, Capacity, MaxItems

VARIABLES top, bottom, buffer,
          owner,     \* the owner's call: its step, its b and t
          thief,     \* per thief: its step, its t and the item it read
          pushed,    \* items are numbered in the order they are pushed
          taken      \* history: the items handed out, in order

vars == <<top, bottom, buffer, owner, thief, pushed, taken>>

Cell(i) == i % Capacity

TypeOK ==
  /\ top \in 0..MaxItems /\ bottom \in -1..MaxItems /\ pushed \in 0..MaxItems
  /\ buffer \in [0..(Capacity - 1) -> 0..MaxItems]
  /\ owner \in [pc : {"idle", "push", "load_top", "race", "restore"},
                b : -1..MaxItems, t : 0..MaxItems]
  /\ thief \in [Thieves -> [pc : {"idle", "load_bottom", "cas"}, t : 0..MaxItems, item : 0..MaxItems]]

Idle == [pc |-> "idle", b |-> 0, t |-> 0]
Away == [pc |-> "idle", t |-> 0, item |-> 0]

Init ==
  /\ top = 0 /\ bottom = 0 /\ pushed = 0 /\ taken = <<>>
  /\ buffer = [i \in 0..(Capacity - 1) |-> 0]
  /\ owner = Idle
  /\ thief = [h \in Thieves |-> Away]

(* push_bottom: both counters are read and a full deque refused; then the    *)
(* cell is written, then bottom advertises it.                               *)
PushCell ==
  /\ owner.pc = "idle" /\ pushed < MaxItems
  /\ bottom - top < Capacity
  /\ buffer' = [buffer EXCEPT ![Cell(bottom)] = pushed + 1]
  /\ owner' = [owner EXCEPT !.pc = "push", !.b = bottom]
  /\ UNCHANGED <<top, bottom, thief, pushed, taken>>

PushBottom ==
  /\ owner.pc = "push"
  /\ bottom' = owner.b + 1
  /\ pushed' = pushed + 1
  /\ owner' = Idle
  /\ UNCHANGED <<top, buffer, thief, taken>>

(* pop_bottom: bottom moves down first, and only then top is read.           *)
Pop ==
  /\ owner.pc = "idle"
  /\ bottom' = bottom - 1
  /\ owner' = [owner EXCEPT !.pc = "load_top", !.b = bottom - 1]
  /\ UNCHANGED <<top, buffer, thief, pushed, taken>>

\* Faulty: the last item is taken without a race.
PopLoadTop_no_race ==
  /\ owner.pc = "load_top"
  /\ IF top > owner.b
     THEN owner' = [owner EXCEPT !.pc = "restore"] /\ UNCHANGED <<bottom, taken>>
     ELSE /\ taken' = Append(taken, buffer[Cell(owner.b)])
          /\ bottom' = owner.b /\ owner' = Idle
  /\ UNCHANGED <<top, buffer, thief, pushed>>

(* With more than one item left the newest is the owner's; with none, bottom *)
(* is put back; the last one is raced for.                                   *)
PopLoadTop ==
  /\ owner.pc = "load_top"
  /\ CASE top > owner.b -> owner' = [owner EXCEPT !.pc = "restore"] /\ UNCHANGED taken
       [] top = owner.b -> owner' = [owner EXCEPT !.pc = "race", !.t = top] /\ UNCHANGED taken
       [] top < owner.b -> owner' = Idle /\ taken' = Append(taken, buffer[Cell(owner.b)])
  /\ UNCHANGED <<top, bottom, buffer, thief, pushed>>

(* The compare-exchange on top; won or lost, bottom is put back after it.    *)
PopRace ==
  /\ owner.pc = "race"
  /\ IF top = owner.t
     THEN top' = top + 1 /\ taken' = Append(taken, buffer[Cell(owner.b)])
     ELSE UNCHANGED <<top, taken>>
  /\ owner' = [owner EXCEPT !.pc = "restore"]
  /\ UNCHANGED <<bottom, buffer, thief, pushed>>

PopRestore ==
  /\ owner.pc = "restore"
  /\ bottom' = owner.b + 1
  /\ owner' = Idle
  /\ UNCHANGED <<top, buffer, thief, pushed, taken>>

(* steal_top: top, then bottom and the cell, then the compare-exchange.      *)
StealLoadTop(h) ==
  /\ thief[h].pc = "idle"
  /\ thief' = [thief EXCEPT ![h].pc = "load_bottom", ![h].t = top]
  /\ UNCHANGED <<top, bottom, buffer, owner, pushed, taken>>

StealLoadBottom(h) ==
  /\ thief[h].pc = "load_bottom"
  /\ thief' = [thief EXCEPT ![h] =
                 IF @.t >= bottom THEN Away
                 ELSE [pc |-> "cas", t |-> @.t, item |-> buffer[Cell(@.t)]]]
  /\ UNCHANGED <<top, bottom, buffer, owner, pushed, taken>>

StealCas(h) ==
  /\ thief[h].pc = "cas"
  /\ IF top = thief[h].t
     THEN top' = top + 1 /\ taken' = Append(taken, thief[h].item)
     ELSE UNCHANGED <<top, taken>>
  /\ thief' = [thief EXCEPT ![h] = Away]
  /\ UNCHANGED <<bottom, buffer, owner, pushed>>

Next ==
  \/ PushCell \/ PushBottom \/ Pop \/ PopLoadTop \/ PopRace \/ PopRestore
  \/ \E h \in Thieves : StealLoadTop(h) \/ StealLoadBottom(h) \/ StealCas(h)

Spec == Init /\ [][Next]_vars

(* The deque between calls: while the owner has moved bottom down and not    *)
(* yet decided, the item below it is still in the deque.                     *)
Undecided == owner.pc \in {"load_top", "race", "restore"}

Contents ==
  LET last == IF Undecided THEN owner.b ELSE bottom - 1
      n == last + 1 - top
  IN  [i \in 1..(IF n > 0 THEN n ELSE 0) |-> buffer[Cell(top + i - 1)]]

Deque == INSTANCE WorkDeque WITH items <- Contents, taken <- taken,
                                 Values <- 1..MaxItems, Bound <- Capacity

(* The deque implements the abstract one: each call that hands out an item   *)
(* removes exactly the newest (owner) or the oldest (thief) in one step, so  *)
(* no item is handed out twice or lost, also in the owner's race with        *)
(* thieves for the last item and when cells are reused (pop_bottom,          *)
(* steal_top).                                                               *)
ImplementsWorkDeque == Deque!Spec

(* When no call is in progress every item pushed was handed out once or is   *)
(* still in the deque (the compare-exchange on top decides each race for     *)
(* exactly one side).                                                        *)
NothingLostOrDoubled ==
  LET Has(s, x) == Cardinality({i \in DOMAIN s : s[i] = x})
  IN  owner.pc = "idle" =>
        \A x \in 1..pushed : Has(taken, x) + Has(Contents, x) = 1

(* The types, and the account of the items.                                  *)
DequeInv == TypeOK /\ NothingLostOrDoubled
===========================================================================
