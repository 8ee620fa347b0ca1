----------------------------- MODULE BoundedFifo ----------------------------
(***************************************************************************)
(* What a program expects of the non blocking queue: a first-in first-out  *)
(* buffer that refuses an element when it is full and answers NULL when it *)
(* is empty.                                                               *)
(***************************************************************************)
EXTENDS Integers, Sequences

CONSTANTS Elements, NULL, Capacity

VARIABLES
  items,    (* the elements inside, oldest first                              *)
  result    (* what the last call returned                                    *)

vars == <<items, result>>

Init == items = <<>> /\ result = NULL

Set(e) ==
  \/ /\ Len(items) < Capacity
     /\ items' = Append(items, e)
     /\ result' = 0
  \/ /\ Len(items) = Capacity
     /\ result' = -1
     /\ UNCHANGED items

Get ==
  \/ /\ items # <<>>
     /\ items' = Tail(items)
     /\ result' = Head(items)
  \/ /\ items = <<>>
     /\ result' = NULL
     /\ UNCHANGED items

Next == Get \/ \E e \in Elements : Set(e)

Spec == Init /\ [][Next]_vars
=============================================================================
