----------------------------- MODULE TraceQueue -----------------------------
(***************************************************************************)
(* What the recording ring promises to the two threads that share it: a    *)
(* bounded first-in first-out queue of ops.  An append that finds the      *)
(* queue full returns false and loses that op, and nothing else is ever    *)
(* lost, duplicated, reordered or torn.  TraceRing implements it.          *)
(***************************************************************************)
EXTENDS Naturals, Sequences

CONSTANTS Ops,        \* the ops the foreground can record
          CAPACITY    \* slots of the queue

VARIABLES q,      \* appended and not yet taken
          taken,  \* every op taken so far, in order
          ok      \* what the last append returned

vars == <<q, taken, ok>>

Init == q = <<>> /\ taken = <<>> /\ ok = TRUE

Accept(op) ==
    /\ Len(q) < CAPACITY
    /\ q' = Append(q, op)
    /\ ok' = TRUE
    /\ UNCHANGED taken

Refuse ==
    /\ Len(q) = CAPACITY
    /\ ok' = FALSE
    /\ UNCHANGED <<q, taken>>

Take(n) ==
    /\ n \in 1 .. Len(q)
    /\ taken' = taken \o SubSeq(q, 1, n)
    /\ q' = SubSeq(q, n + 1, Len(q))
    /\ UNCHANGED ok

(* The two threads are stopped and the queue starts again. *)
Restart == q' = <<>> /\ taken' = <<>> /\ ok' = TRUE

Next ==
    \/ \E op \in Ops : Accept(op)
    \/ Refuse
    \/ \E n \in 1 .. CAPACITY : Take(n)
    \/ Restart

Spec == Init /\ [][Next]_vars
=============================================================================
