----------------------------- MODULE DequeSpec ------------------------------
(* What the linked lists stand for: a sequence that changes at its ends. *)
EXTENDS SequencesExt

CONSTANT Data
VARIABLE items

Start == items = <<>>

AddFirst(d) == items' = <<d>> \o items
AddLast(d)  == items' = Append(items, d)
DropFirst   == items # <<>> /\ items' = Tail(items)
DropLast    == items # <<>> /\ items' = Front(items)
Turn        == items' = Reverse(items)
Clear       == items' = <<>>

Change == \/ Clear \/ Turn \/ DropFirst \/ DropLast
          \/ \E d \in Data : AddFirst(d) \/ AddLast(d)

Deque == Start /\ [][Change]_items
=============================================================================
