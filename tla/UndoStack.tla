------------------------------- MODULE UndoStack ------------------------------
(***************************************************************************)
(* What the transaction log promises the owner: the active transaction and *)
(* below it a stack of displaced ones, of which a rollback takes the top.  *)
(* A bounded log may forget displaced transactions, but never the top one. *)
(***************************************************************************)
EXTENDS Naturals, Sequences

CONSTANTS Transactions, None

VARIABLES active, stack

Init == active = None /\ stack = << >>

\* A transaction becomes active and displaces the one before it.
Displace(t) ==
    /\ active' = t
    /\ stack' = IF active = None THEN stack ELSE Append(stack, active)

\* The newest displaced transaction is active again.
Undo ==
    /\ stack # << >>
    /\ active' = stack[Len(stack)]
    /\ stack' = SubSeq(stack, 1, Len(stack) - 1)

\* A claim ends one displaced transaction below the top.
Forget(i) ==
    /\ i < Len(stack)
    /\ stack' = SubSeq(stack, 1, i - 1) \o SubSeq(stack, i + 1, Len(stack))
    /\ UNCHANGED active

Next == \/ \E t \in Transactions : Displace(t)
        \/ Undo
        \/ \E i \in DOMAIN stack : Forget(i)

Spec == Init /\ [][Next]_<<active, stack>>
===============================================================================
