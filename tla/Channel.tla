------------------------------ MODULE Channel ------------------------------
(***************************************************************************)
(* What an ipc_queue_t promises its users: a bounded first-in first-out    *)
(* channel that neither loses, repeats nor reorders an item it accepted,   *)
(* and hands each to the one task that takes it.                           *)
(***************************************************************************)
EXTENDS Sequences, Naturals

CONSTANTS Items, Capacity, Tasks, NoItem

VARIABLES
  chan,       \* the items accepted and not yet taken, oldest first
  taken       \* the item each receiver is about to return with

Init == chan = <<>> /\ taken = [t \in Tasks |-> NoItem]

Put == Len(chan) < Capacity /\ (\E v \in Items : chan' = Append(chan, v)) /\ UNCHANGED taken

Get ==
  /\ chan # <<>> /\ chan' = Tail(chan)
  /\ \E t \in Tasks : taken[t] = NoItem /\ taken' = [taken EXCEPT ![t] = Head(chan)]

\* The operation ends, or the task is removed inside it.
End == (\E t \in Tasks : taken' = [taken EXCEPT ![t] = NoItem]) /\ UNCHANGED chan

Next == Put \/ Get \/ End

Spec == Init /\ [][Next]_<<chan, taken>>

============================================================================
