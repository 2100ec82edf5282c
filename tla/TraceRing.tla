----------------------------- MODULE TraceRing ------------------------------
(***************************************************************************)
(* The single-producer single-consumer recording ring of                   *)
(* include/crucible/TraceRing.h.  The foreground appends one op at a time; *)
(* the drain stage of the background pipeline takes batches.  Each access  *)
(* to memory the other thread also reaches is a step of its own: the load  *)
(* of the other side's counter, the write or the copy of one slot of one   *)
(* of the parallel arrays, and the release store that publishes.  Plain    *)
(* stores between two such publications happen in any order.               *)
(***************************************************************************)
EXTENDS Naturals, Sequences, FiniteSets

CONSTANTS Ops,        \* the ops the foreground can record
          Arrays,     \* entries, meta_starts, scope_hashes, callsite_hashes
          CAPACITY,   \* slots of each array
          NoOp,       \* what a slot holds before its first write
          BATCH,      \* the largest max_count of a pop
          MaxHead     \* bound: ops appended between two resets

ASSUME CapacityAssumption == CAPACITY \in Nat \ {0}
ASSUME BatchAssumption == BATCH \in 1 .. CAPACITY
ASSUME MaxHeadAssumption == MaxHead \in Nat
ASSUME ArraysAssumption == Arrays # {}
ASSUME NoOpAssumption == NoOp \notin Ops

VARIABLES
    head, tail,       \* the two published counters
    consumer_tail,    \* the consumer's own copy of tail
    cached_tail,      \* the producer's private view of tail
    slots,            \* slots[a][i]: slot i of parallel array a
    p_pc, p_op, p_todo,        \* the append in progress: the arrays to write
    c_pc, c_count, c_out,      \* the pop in progress: what it copied so far
    ok,               \* what the last finished append returned
    accepted,         \* history: every op whose append returned true
    delivered         \* history: every record a pop returned

ring == <<head, tail, consumer_tail, cached_tail, slots>>
producer == <<p_pc, p_op, p_todo>>
consumer == <<c_pc, c_count, c_out>>
vars == <<head, tail, consumer_tail, cached_tail, slots, p_pc, p_op, p_todo,
          c_pc, c_count, c_out, ok, accepted, delivered>>

Slot(i) == i % CAPACITY

Init ==
    /\ head = 0 /\ tail = 0 /\ consumer_tail = 0 /\ cached_tail = 0
    /\ slots = [a \in Arrays |-> [s \in 0 .. CAPACITY - 1 |-> NoOp]]
    /\ p_pc = "idle" /\ p_op = NoOp /\ p_todo = {}
    /\ c_pc = "idle" /\ c_count = 0 /\ c_out = [a \in Arrays |-> <<>>]
    /\ ok = TRUE
    /\ accepted = <<>> /\ delivered = <<>>

-----------------------------------------------------------------------------
(* Variants of the actions below with one fault each. *)

\* Faulty: the head is stored before the last array is written.
PublishHeadEarly ==
    /\ p_pc = "write" /\ p_todo # Arrays
    /\ head' = head + 1
    /\ accepted' = Append(accepted, p_op)
    /\ ok' = TRUE
    /\ p_pc' = "idle"
    /\ UNCHANGED <<tail, consumer_tail, cached_tail, slots, p_op, p_todo,
                   consumer, delivered>>

\* Faulty: the consumer's own copy of tail stays behind.
PublishTailOnly ==
    /\ c_pc = "copy"
    /\ \A a \in Arrays : Len(c_out[a]) = c_count
    /\ tail' = consumer_tail + c_count
    /\ delivered' = delivered \o
                    [i \in 1 .. c_count |-> [a \in Arrays |-> c_out[a][i]]]
    /\ c_pc' = "idle" /\ c_count' = 0 /\ c_out' = [a \in Arrays |-> <<>>]
    /\ UNCHANGED <<head, consumer_tail, cached_tail, slots, producer, ok,
                   accepted>>

-----------------------------------------------------------------------------
(* The producer. *)

(* try_append up to the branch on the private view of tail. *)
TryAppend(op) ==
    /\ p_pc = "idle"
    /\ head < MaxHead
    /\ p_op' = op
    /\ IF head - cached_tail >= CAPACITY
       THEN p_pc' = "refresh" /\ p_todo' = {}
       ELSE p_pc' = "write" /\ p_todo' = Arrays
    /\ UNCHANGED <<ring, consumer, ok, accepted, delivered>>

(* The acquire load of tail; a ring that is still full refuses the op. *)
RefreshTail ==
    /\ p_pc = "refresh"
    /\ cached_tail' = tail
    /\ IF head - tail >= CAPACITY
       THEN p_pc' = "idle" /\ p_todo' = {} /\ ok' = FALSE
       ELSE p_pc' = "write" /\ p_todo' = Arrays /\ UNCHANGED ok
    /\ UNCHANGED <<head, tail, consumer_tail, slots, p_op, consumer,
                   accepted, delivered>>

WriteSlot(a) ==
    /\ p_pc = "write" /\ a \in p_todo
    /\ slots' = [slots EXCEPT ![a][Slot(head)] = p_op]
    /\ p_todo' = p_todo \ {a}
    /\ UNCHANGED <<head, tail, consumer_tail, cached_tail, p_pc, p_op,
                   consumer, ok, accepted, delivered>>

(* The release store of head. *)
PublishHead ==
    /\ p_pc = "write" /\ p_todo = {}
    /\ head' = head + 1
    /\ accepted' = Append(accepted, p_op)
    /\ ok' = TRUE
    /\ p_pc' = "idle"
    /\ UNCHANGED <<tail, consumer_tail, cached_tail, slots, p_op, p_todo,
                   consumer, delivered>>

-----------------------------------------------------------------------------
(* The consumer: drain and try_pop_batch. *)

SmallerOf(a, b) == IF b < a THEN b ELSE a

(* The acquire load of head.  A pop that finds nothing changes nothing. *)
PopBatch(max_count) ==
    /\ c_pc = "idle"
    /\ LET count == SmallerOf(head - consumer_tail, max_count)
       IN /\ count > 0
          /\ c_count' = count
    /\ c_pc' = "copy"
    /\ UNCHANGED <<ring, c_out, producer, ok, accepted, delivered>>

(* The copy of the next slot of array a; the run wraps with Slot. *)
CopySlot(a) ==
    /\ c_pc = "copy"
    /\ Len(c_out[a]) < c_count
    /\ c_out' = [c_out EXCEPT ![a] =
                    Append(@, slots[a][Slot(consumer_tail + Len(@))])]
    /\ UNCHANGED <<ring, c_pc, c_count, producer, ok, accepted, delivered>>

(* The release store of tail frees the copied slots and ends the pop. *)
PublishTail ==
    /\ c_pc = "copy"
    /\ \A a \in Arrays : Len(c_out[a]) = c_count
    /\ consumer_tail' = consumer_tail + c_count
    /\ tail' = consumer_tail + c_count
    /\ delivered' = delivered \o
                    [i \in 1 .. c_count |-> [a \in Arrays |-> c_out[a][i]]]
    /\ c_pc' = "idle" /\ c_count' = 0 /\ c_out' = [a \in Arrays |-> <<>>]
    /\ UNCHANGED <<head, cached_tail, slots, producer, ok, accepted>>

-----------------------------------------------------------------------------
(* reset, valid once both threads have stopped.  The slots keep their data. *)
Reset ==
    /\ p_pc = "idle" /\ c_pc = "idle"
    /\ head' = 0 /\ tail' = 0 /\ consumer_tail' = 0 /\ cached_tail' = 0
    /\ ok' = TRUE /\ accepted' = <<>> /\ delivered' = <<>>
    /\ UNCHANGED <<slots, producer, consumer>>

Next ==
    \/ \E op \in Ops : TryAppend(op)
    \/ RefreshTail
    \/ \E a \in Arrays : WriteSlot(a)
    \/ PublishHead
    \/ \E max_count \in 1 .. BATCH : PopBatch(max_count)
    \/ \E a \in Arrays : CopySlot(a)
    \/ PublishTail
    \/ Reset

Spec == Init /\ [][Next]_vars

-----------------------------------------------------------------------------
(* Properties. *)

(* Every variable has its type. *)
TypeOK ==
    /\ head \in Nat /\ tail \in Nat /\ consumer_tail \in Nat
    /\ cached_tail \in Nat
    /\ slots \in [Arrays -> [0 .. CAPACITY - 1 -> Ops \cup {NoOp}]]
    /\ p_pc \in {"idle", "refresh", "write"}
    /\ p_op \in Ops \cup {NoOp}
    /\ p_todo \in SUBSET Arrays
    /\ c_pc \in {"idle", "copy"}
    /\ c_count \in Nat
    /\ c_out \in [Arrays -> Seq(Ops \cup {NoOp})]
    /\ ok \in BOOLEAN
    /\ accepted \in Seq(Ops)
    /\ delivered \in Seq([Arrays -> Ops \cup {NoOp}])

(* The counters and the producer's stale copy keep the order that the full *)
(* test of try_append relies on: the copy lags tail, tail lags head, and   *)
(* head is never more than CAPACITY ahead even of the stale copy.          *)
CountersOrdered ==
    /\ cached_tail <= tail
    /\ tail = consumer_tail
    /\ tail <= head
    /\ head - cached_tail <= CAPACITY
    /\ p_pc = "write" => head - cached_tail < CAPACITY
    /\ p_pc # "idle" => p_op \in Ops
    /\ c_pc = "copy" => c_count > 0 /\ consumer_tail + c_count <= head
    /\ c_pc = "idle" => c_count = 0 /\ c_out = [a \in Arrays |-> <<>>]

(* The histories agree with the counters. *)
HistoriesCounted == Len(accepted) = head /\ Len(delivered) = tail

(* Each unread slot of each array still holds the op that was accepted     *)
(* into it, and the slot of an append in progress holds what it wrote.     *)
UnreadSlotsIntact ==
    /\ \A i \in tail .. head - 1 : \A a \in Arrays :
          slots[a][Slot(i)] = accepted[i + 1]
    /\ p_pc = "write" =>
          \A a \in Arrays \ p_todo : slots[a][Slot(head)] = p_op

(* What a pop has copied so far is what was accepted at those positions.   *)
CopiesAgree ==
    \A a \in Arrays :
        /\ Len(c_out[a]) <= c_count
        /\ \A i \in 1 .. Len(c_out[a]) :
              c_out[a][i] = accepted[consumer_tail + i]

(* While try_append fills a slot, no pop can be reading that slot: the two *)
(* threads never touch the same slot without ordering between them.        *)
NoSlotRace ==
    p_pc = "write" =>
        \A i \in 0 .. c_count - 1 : Slot(consumer_tail + i) # Slot(head)

(* What pops return is what appends accepted, in order, without a gap, and *)
(* with all parallel arrays of one record from the same append.            *)
DeliveredIsAcceptedPrefix ==
    /\ Len(delivered) <= Len(accepted)
    /\ \A i \in 1 .. Len(delivered) :
          \A a \in Arrays : delivered[i][a] = accepted[i]

(* The inductive invariant behind the two properties above. *)
RingInv ==
    /\ TypeOK
    /\ CountersOrdered
    /\ HistoriesCounted
    /\ UnreadSlotsIntact
    /\ CopiesAgree
    /\ DeliveredIsAcceptedPrefix

(* The ring implements the bounded queue: what it holds is what was        *)
(* accepted after tail, and only a queue that is really full refuses.      *)
Queue == INSTANCE TraceQueue WITH
             q <- SubSeq(accepted, tail + 1, head),
             taken <- [i \in 1 .. Len(delivered) |->
                          delivered[i][CHOOSE a \in Arrays : TRUE]]

ImplementsQueue == Queue!Spec
=============================================================================
