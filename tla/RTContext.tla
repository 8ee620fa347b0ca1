----------------------------- MODULE RTContext ------------------------------
(***************************************************************************)
(* The context switch of the library, on stacks of bytes: the stack        *)
(* thread_create() prepares, what do_switch() pushes for the thread that   *)
(* leaves and pops for the one that comes.  RTKernel takes the switch for  *)
(* granted; this module looks into it.                                     *)
(*                                                                         *)
(* A byte is named for what it was pushed as: a pair of a register, or a   *)
(* half of a return address, and the thread it belongs to.  A stack is the *)
(* sequence of the bytes between sp and the end of the thread's memory.    *)
(***************************************************************************)
EXTENDS Integers, Sequences

CONSTANTS
  Threads,
  Main,
  Prepared     (* bytes thread_create() reserves for the registers: none      *)

All == Threads \union {Main}

VARIABLES
  current_thread, next_thread,
  stack,
  registers,   (* r0 to r31 and the status register                           *)
  stage        (* of do_switch(): "code" outside, "saved", "changed",         *)
               (* "popped" before reti                                        *)

contextVars == <<current_thread, next_thread, stack, registers, stage>>

Names == <<"SREG">> \o [i \in 1 .. 32 |-> 32 - i]       (* in popping order *)

Of(t) == [i \in 1 .. Len(Names) |-> <<Names[i], t>>]

(* What is below the registers in a frame: where the thread goes on.       *)
Entry(t)  == <<<<"entry", t>>, <<"entry", t>>>>
Resume(t) == <<<<"thread_start", t>>, <<"thread_start", t>>>>
Marks     == <<"0xAB", "0xAB">>
Debug     == <<"0x23", "0x22", "0x11", "0x00">>

(* thread_create(): four bytes for debugging, the entry function, and the  *)
(* loop that reserved the registers, which is commented out.               *)
NewStack(t) == [i \in 1 .. Prepared |-> 0] \o Entry(t) \o Debug

Init ==
  /\ current_thread = Main /\ next_thread = Main
  /\ stack = [t \in All |-> IF t = Main THEN <<>> ELSE NewStack(t)]
  /\ registers = Of(Main)
  /\ stage = "code"

(* thread_start(th) calls do_switch(), which pushes all registers.         *)
Saves(th) ==
  /\ stage = "code"
  /\ next_thread' = th
  /\ stack' = [stack EXCEPT
                 ![current_thread] =
                   Marks \o registers \o Resume(current_thread) \o @]
  /\ stage' = "saved"
  /\ UNCHANGED <<current_thread, registers>>

ChangeHigh ==
  /\ stage = "saved"
  /\ current_thread' = next_thread
  /\ stage' = "changed"
  /\ UNCHANGED <<next_thread, stack, registers>>

(* The first mark is popped to r0, and r0 is written to the status         *)
(* register; the one that was saved ends in r16, which r16 then overwrites.*)
Pops ==
  /\ stage = "changed"
  /\ registers' =
       <<Head(stack[current_thread])>>
         \o SubSeq(stack[current_thread], Len(Marks) + 2,
                   Len(Marks) + Len(Names))
  /\ stack' =
       [stack EXCEPT
          ![current_thread] = SubSeq(@, Len(Marks) + Len(Names) + 1, Len(@))]
  /\ stage' = "popped"
  /\ UNCHANGED <<current_thread, next_thread>>

(* reti pops the address at which the thread goes on.                      *)
GoesOn ==
  /\ stage = "popped"
  /\ stack' = [stack EXCEPT ![current_thread] = SubSeq(@, 3, Len(@))]
  /\ stage' = "code"
  /\ UNCHANGED <<current_thread, next_thread, registers>>

Next == ChangeHigh \/ Pops \/ GoesOn \/ \E th \in All : Saves(th)

Spec == Init /\ [][Next]_contextVars

-----------------------------------------------------------------------------
(* Properties                                                              *)

(* "Aqui deberan de estar los stacks ok" (here the stacks should be all    *)
(* right), says do_switch() before it pops: on the stack of the thread     *)
(* that comes lie its registers and, below them, the address at which it   *)
(* goes on.                                                                *)
StacksOk ==
  stage = "changed" =>
    LET s == stack[current_thread]
        n == Len(Marks) + Len(Names)
    IN  /\ Len(s) >= n + 2
        /\ SubSeq(s, n + 1, n + 2)
             \in {Entry(current_thread), Resume(current_thread)}
=============================================================================
