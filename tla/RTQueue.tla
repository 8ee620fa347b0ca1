------------------------------- MODULE RTQueue ------------------------------
(***************************************************************************)
(* The non blocking queue of the library.  Each call runs with interrupts  *)
(* off from its first access to its last: it is one step, whatever threads *)
(* and interrupt handlers make it.                                         *)
(*                                                                         *)
(* The queue is one block of the heap: a header and `howmany' elements.    *)
(* What lies behind it belongs to somebody else, and a read there returns  *)
(* anything.  thread_queue_nb_get_element() never sets read_index back.    *)
(***************************************************************************)
EXTENDS Integers, Sequences

CONSTANTS
  howmany,    (* the size asked of thread_queue_create()                      *)
  Elements,   (* the pointers a program stores                                *)
  NULL,       (* the result of a get from an empty queue                      *)
  Junk,       (* a value no program stored                                    *)
  MaxReads    (* bound: the number of gets that find something                *)

ASSUME QueueAssumption ==
  /\ howmany \in Nat \ {0}
  /\ MaxReads \in Nat
  /\ NULL \notin Elements /\ Junk \notin Elements

Slots == 0 .. howmany - 1

VARIABLES
  stored, read_index, write_index,
  elements,
  result      (* what the last call returned                                  *)

vars == <<stored, read_index, write_index, elements, result>>

TypeOK ==
  /\ stored \in 0 .. howmany
  /\ read_index \in 0 .. MaxReads
  /\ write_index \in Slots
  /\ elements \in [Slots -> Elements \union {Junk}]
  /\ result \in Elements \union {NULL, Junk, 0, -1}

(* thread_queue_create(): the elements are as malloc() found them.         *)
Init ==
  /\ stored = 0 /\ read_index = 0 /\ write_index = 0
  /\ elements = [i \in Slots |-> Junk]
  /\ result = NULL

(* Mutant: the index of the next write goes back one element too early.    *)
WrapShort(i) == IF i + 1 = howmany - 1 THEN 0 ELSE i + 1

(* write_index++, and back to 0 at the end of the elements                 *)
NextWrite(i) == IF i + 1 = howmany THEN 0 ELSE i + 1

(* Mutant: writes before it has looked whether the queue is full.          *)
SetUnchecked(e) ==
  /\ elements' = [elements EXCEPT ![write_index] = e]
  /\ stored' = stored + 1
  /\ write_index' = NextWrite(write_index)
  /\ result' = 0
  /\ UNCHANGED read_index

(* thread_queue_nb_set_element()                                           *)
Set(e) ==
  \/ /\ stored = howmany
     /\ result' = -1
     /\ UNCHANGED <<stored, read_index, write_index, elements>>
  \/ /\ stored # howmany
     /\ elements' = [elements EXCEPT ![write_index] = e]
     /\ stored' = stored + 1
     /\ write_index' = NextWrite(write_index)
     /\ result' = 0
     /\ UNCHANGED read_index

(* thread_queue_nb_get_element().  The test that was to wrap read_index,   *)
(* `read_index == 0' after read_index++, is never true.                    *)
MayRead(i) == IF i \in Slots THEN {elements[i]} ELSE Elements \union {Junk}

Get ==
  \/ /\ stored = 0
     /\ result' = NULL
     /\ UNCHANGED <<stored, read_index, write_index, elements>>
  \/ /\ stored # 0
     /\ read_index < MaxReads
     /\ result' \in MayRead(read_index)
     /\ stored' = stored - 1
     /\ read_index' = read_index + 1
     /\ UNCHANGED <<write_index, elements>>

Next == Get \/ \E e \in Elements : Set(e)

Spec == Init /\ [][Next]_vars

-----------------------------------------------------------------------------
(* The queue is a first-in first-out buffer: true of as many gets as it    *)
(* has elements.                                                           *)
Inside == [i \in 1 .. stored |-> elements[(read_index + i - 1) % howmany]]

Fifo == INSTANCE BoundedFifo WITH Capacity <- howmany, items <- Inside

FifoSpec == Fifo!Spec

(* The sketch periodic_2_QUEUES_DOUBLE_READ prints "DATA(!=0):" before the *)
(* get that follows a set: it returns an element that was set.             *)
GetsWhatWasSet ==
  [][stored' < stored => result' = elements[read_index % howmany]]_vars
=============================================================================
