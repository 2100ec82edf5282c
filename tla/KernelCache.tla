----------------------------- MODULE KernelCache -----------------------------
(* The lock-free table of compiled kernels (crucible/KernelCache.h): open    *)
(* addressing over slots of three atomics.  An insert claims a slot by its   *)
(* content hash, then stores the row, then the kernel; the kernel is what    *)
(* makes the row visible.  A thread that meets a claimed slot waits a        *)
(* bounded number of spins and then walks on as if the slot were foreign.    *)
(* The atomics are sequentially consistent here.                             *)
EXTENDS Naturals, FiniteSets

CONSTANTS Writers,     \* threads that insert
          Readers,     \* threads that look up; a lookup writes nothing
          Contents,    \* content hashes: positive naturals, one home slot each
          Rows,        \* row hashes; 0, the value of a fresh slot, may be one
          Kernels,     \* compiled kernels, 1 to some n, numbered as inserts begin
          NoKernel,    \* nullptr
          Capacity

Slots == 0..(Capacity - 1)

Threads == Writers \union Readers

VARIABLES content, row, kernel,   \* the three atomics of each slot
          size,
          thread,                 \* per thread: its call and where it stands
          returned,               \* history: per pair, the kernels whose insert returned
          superseded              \* history: kernels replaced by a later insert

vars == <<content, row, kernel, size, thread, returned, superseded>>

Calls == [pc : {"done", "probe", "await", "row", "set_row", "set_kernel"},
          call : {"none", "insert", "lookup"}, pair : Contents \X Rows, probe : 0..Capacity,
          kernel : Kernels \union {NoKernel}, ok : BOOLEAN,
          known : SUBSET Kernels,     \* insert: kernels of the pair when it began
          stale : SUBSET Kernels,     \* lookup: the superseded kernels when it began
          expects : BOOLEAN]          \* lookup: an insert of the pair had returned

TypeOK ==
  /\ content \in [Slots -> Contents \union {0}]
  /\ row \in [Slots -> Rows \union {0}]
  /\ kernel \in [Slots -> Kernels \union {NoKernel}]
  /\ size \in 0..Capacity
  /\ thread \in [Threads -> Calls]

Init ==
  /\ content = [s \in Slots |-> 0]
  /\ row = [s \in Slots |-> 0]
  /\ kernel = [s \in Slots |-> NoKernel]
  /\ size = 0
  /\ thread \in [Threads -> {[pc |-> "done", call |-> "none", pair |-> CHOOSE p \in Contents \X Rows : TRUE,
                              probe |-> 0, kernel |-> NoKernel, ok |-> TRUE,
                              known |-> {}, stale |-> {}, expects |-> FALSE]}]
  /\ returned = [p \in Contents \X Rows |-> {}]
  /\ superseded = {}

Started == UNION {returned[p] : p \in DOMAIN returned}
             \union {thread[t].kernel : t \in {u \in Threads : thread[u].call = "insert"}}

SlotOf(t) == (thread[t].pair[1] + thread[t].probe) % Capacity

Goto(t, pc) == thread' = [thread EXCEPT ![t].pc = pc]

Return(t, k, ok) ==
  thread' = [thread EXCEPT ![t].pc = "done", ![t].kernel = k, ![t].ok = ok, ![t].known = {}]

(* The loop's increment; past the last slot a lookup finds nothing and an    *)
(* insert reports TableFull.                                                 *)
Continue(t) ==
  IF thread[t].probe + 1 < Capacity
  THEN thread' = [thread EXCEPT ![t].pc = "probe", ![t].probe = @ + 1]
  ELSE Return(t, NoKernel, FALSE)

StartInsert(t, p, k) ==
  /\ thread[t].pc = "done"
  /\ k \notin Started /\ 1..(k - 1) \subseteq Started
  /\ thread' = [thread EXCEPT ![t] = [pc |-> "probe", call |-> "insert", pair |-> p, probe |-> 0,
                  kernel |-> k, ok |-> TRUE, known |-> returned[p], stale |-> {}, expects |-> FALSE]]
  /\ UNCHANGED <<content, row, kernel, size, returned, superseded>>

StartLookup(t, p) ==
  /\ thread[t].pc = "done"
  /\ thread' = [thread EXCEPT ![t] = [pc |-> "probe", call |-> "lookup", pair |-> p, probe |-> 0,
                  kernel |-> NoKernel, ok |-> TRUE, known |-> {}, stale |-> superseded,
                  expects |-> returned[p] # {}]]
  /\ UNCHANGED <<content, row, kernel, size, returned, superseded>>

(* One turn of the loop up to the first decision: an insert tries to claim   *)
(* the slot with a compare-exchange, a lookup loads the key.                 *)
Probe(t) ==
  LET s == SlotOf(t)
      c == thread[t]
  IN  /\ c.pc = "probe"
      /\ IF content[s] = 0 /\ c.call = "insert"
         THEN content' = [content EXCEPT ![s] = c.pair[1]] /\ Goto(t, "set_row")
         ELSE /\ UNCHANGED content
              /\ CASE content[s] = 0         -> Return(t, NoKernel, TRUE)
                   [] content[s] = c.pair[1] -> Goto(t, "await")
                   [] OTHER                  -> Continue(t)
      /\ UNCHANGED <<row, kernel, size, returned, superseded>>

(* The slot has the content: its kernel is loaded, again and again while it  *)
(* is null, and after the spin budget the slot is passed by.                 *)
Loaded(t, s) ==
  /\ kernel[s] # NoKernel
  /\ thread' = [thread EXCEPT ![t].pc = "row",
                  ![t].kernel = IF thread[t].call = "lookup" THEN kernel[s] ELSE @]

\* Faulty: a stalled claim ends the walk of a lookup.
Await_give_up(t) ==
  /\ thread[t].pc = "await"
  /\ \/ Loaded(t, SlotOf(t))
     \/ /\ kernel[SlotOf(t)] = NoKernel
        /\ IF thread[t].call = "lookup" THEN Return(t, NoKernel, FALSE) ELSE Continue(t)
  /\ UNCHANGED <<content, row, kernel, size, returned, superseded>>

Await(t) ==
  /\ thread[t].pc = "await"
  /\ \/ Loaded(t, SlotOf(t))
     \/ kernel[SlotOf(t)] = NoKernel /\ Continue(t)
  /\ UNCHANGED <<content, row, kernel, size, returned, superseded>>

(* The row decides: the same row ends the lookup, or makes the insert a      *)
(* variant update; another row is another key.                               *)
ReadRow(t) ==
  /\ thread[t].pc = "row"
  /\ CASE row[SlotOf(t)] # thread[t].pair[2] -> Continue(t)
       [] thread[t].call = "insert"          -> Goto(t, "set_kernel")
       [] OTHER                              -> Return(t, thread[t].kernel, TRUE)
  /\ UNCHANGED <<content, row, kernel, size, returned, superseded>>

(* WriterHandle::publish, first store.                                       *)
SetRow(t) ==
  /\ thread[t].pc = "set_row"
  /\ row' = [row EXCEPT ![SlotOf(t)] = thread[t].pair[2]]
  /\ Goto(t, "set_kernel")
  /\ UNCHANGED <<content, kernel, size, returned, superseded>>

(* The kernel store of publish, with the count after it, or of               *)
(* publish_kernel_variant; the insert returns.                               *)
SetKernel(t) ==
  LET c == thread[t]
  IN  /\ c.pc = "set_kernel"
      /\ kernel' = [kernel EXCEPT ![SlotOf(t)] = c.kernel]
      /\ size' = IF kernel[SlotOf(t)] = NoKernel THEN size + 1 ELSE size
      /\ returned' = [returned EXCEPT ![c.pair] = @ \union {c.kernel}]
      /\ superseded' = superseded \union c.known
      /\ Return(t, c.kernel, TRUE)
      /\ UNCHANGED <<content, row>>

Next ==
  \/ \E t \in Writers, p \in Contents \X Rows, k \in Kernels : StartInsert(t, p, k)
  \/ \E t \in Readers, p \in Contents \X Rows : StartLookup(t, p)
  \/ \E t \in Threads :
       Probe(t) \/ Await(t) \/ ReadRow(t) \/ SetRow(t) \/ SetKernel(t)

Spec == Init /\ [][Next]_vars

Found(t) == thread[t].pc = "done" /\ thread[t].call = "lookup" /\ thread[t].kernel # NoKernel

(* A lookup serves only a kernel that was inserted for its own content and   *)
(* row, also while slots of the same content are claimed and published by    *)
(* other threads (the store order of publish, the load order of lookup).     *)
LookupServesItsPair ==
  \A t \in Threads : Found(t) =>
    \/ thread[t].kernel \in returned[thread[t].pair]
    \/ \E u \in Threads : thread[u].call = "insert" /\ thread[u].kernel = thread[t].kernel
                            /\ thread[u].pair = thread[t].pair

(* A lookup that begins after an insert of its pair returned never misses,   *)
(* whatever claims of other threads stall in front of the slot: a claim that *)
(* outlasts the spin budget is passed by and does not end the walk.          *)
NoMissAfterInsert ==
  \A t \in Threads :
    thread[t].pc = "done" /\ thread[t].call = "lookup" /\ thread[t].expects => thread[t].kernel # NoKernel

(* A lookup never serves a kernel that was replaced before it began: when an *)
(* insert of the pair begins after another one returned, and has returned    *)
(* itself, the earlier kernel is gone, although one pair may occupy two      *)
(* slots when an insert passed by a stalled claim.                           *)
NoSupersededKernel ==
  \A t \in Threads : Found(t) => thread[t].kernel \notin thread[t].stale

(* What a lookup answers: its own pair, nothing missed, nothing replaced.    *)
LookupInv == TypeOK /\ LookupServesItsPair /\ NoMissAfterInsert /\ NoSupersededKernel
===========================================================================
