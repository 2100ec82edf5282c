------------------------------ MODULE WorkDeque ------------------------------
(* What a work-stealing deque promises: one owner adds and removes items at  *)
(* one end, any thief removes them at the other, and each removal is one     *)
(* step that hands over exactly one item.                                    *)
EXTENDS Integers, Sequences

VARIABLES items,    \* the items in the deque, oldest first
          taken     \* the items handed out, in order

CONSTANTS Values, Bound

Init == items = <<>> /\ taken = <<>>

Push(v) == /\ Len(items) < Bound
           /\ items' = Append(items, v)
           /\ UNCHANGED taken

PopNewest == /\ items # <<>>
             /\ taken' = Append(taken, items[Len(items)])
             /\ items' = SubSeq(items, 1, Len(items) - 1)

StealOldest == /\ items # <<>>
               /\ taken' = Append(taken, Head(items))
               /\ items' = Tail(items)

Next == (\E v \in Values : Push(v)) \/ PopNewest \/ StealOldest

Spec == Init /\ [][Next]_<<items, taken>>
===========================================================================
