-------------------------- MODULE DropOldestQueue --------------------------
(***************************************************************************)
(* What the event ring of input/input.c promises: a bounded first-in       *)
(* first-out queue that, when it is full, gives up its oldest item for a   *)
(* new one.                                                                *)
(***************************************************************************)
EXTENDS Integers, Sequences

CONSTANTS Bound,   \* the most items the queue holds
          Items    \* what it holds

VARIABLE items

Init == items = << >>

Put(e) == items' = Append(IF Len(items) = Bound THEN Tail(items) ELSE items, e)

Take == items # << >> /\ items' = Tail(items)

Next == Take \/ \E e \in Items : Put(e)

Spec == Init /\ [][Next]_items
============================================================================
