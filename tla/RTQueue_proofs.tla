---------------------------- MODULE RTQueue_proofs --------------------------
(***************************************************************************)
(* What TLC checks of a queue of three elements, proved for every size:    *)
(* the types, and that as many gets as the queue has elements see a        *)
(* first-in first-out buffer.                                              *)
(***************************************************************************)
EXTENDS RTQueue, SequenceTheorems, TLAPS

Contents == Elements \union {Junk}

(* The write is where the elements inside end.                             *)
Ends == write_index = (read_index + stored) % howmany

IInv == TypeOK /\ Ends

-----------------------------------------------------------------------------
(* Going once round the elements.                                          *)
LEMMA Round ==
  ASSUME NEW n \in Nat \ {0}, NEW k \in 0 .. n - 1
  PROVE  k % n = k /\ (n + k) % n = k
OBVIOUS

LEMMA InSlots ==
  ASSUME NEW k \in Int
  PROVE  k % howmany \in Slots
BY QueueAssumption DEF Slots

(* One element on is NextWrite of the index.                               *)
LEMMA NextWriteIsMod ==
  ASSUME NEW k \in 0 .. 2 * howmany - 1
  PROVE  NextWrite(k % howmany) = (k + 1) % howmany
<1> DEFINE n == howmany
<1>1. n \in Nat \ {0}
  BY QueueAssumption
<1> SUFFICES NextWrite(k % n) = (k + 1) % n
  OBVIOUS
<1>2. \A i \in 0 .. n - 1 : NextWrite(i) = IF i + 1 = n THEN 0 ELSE i + 1
  BY DEF NextWrite
<1>3. k \in 0 .. 2 * n - 1
  OBVIOUS
<1> HIDE DEF n
<1>4. CASE k < n
  <2>1. k \in 0 .. n - 1
    BY <1>1, <1>3, <1>4
  <2>2. k % n = k
    BY <1>1, <2>1, Round
  <2>3. CASE k + 1 = n
    <3>1. (n + 0) % n = 0
      BY <1>1, Round
    <3> QED BY <1>1, <1>2, <2>1, <2>2, <2>3, <3>1
  <2>4. CASE k + 1 # n
    <3>1. (k + 1) % n = k + 1
      BY <1>1, <2>1, <2>4, Round
    <3> QED BY <1>2, <2>1, <2>2, <2>4, <3>1
  <2> QED BY <2>3, <2>4
<1>5. CASE k >= n
  <2> DEFINE j == k - n
  <2>1. j \in 0 .. n - 1 /\ k = n + j /\ k + 1 = n + (j + 1)
    BY <1>1, <1>3, <1>5
  <2> HIDE DEF j
  <2>2. k % n = j
    BY <1>1, <2>1, Round
  <2>3. CASE j + 1 = n
    <3>1. (n + n) % n = 0
      BY <1>1
    <3> QED BY <1>2, <2>1, <2>2, <2>3, <3>1
  <2>4. CASE j + 1 # n
    <3>1. j + 1 \in 0 .. n - 1
      BY <1>1, <2>1, <2>4
    <3>2. (n + (j + 1)) % n = j + 1
      BY <1>1, <3>1, Round
    <3> QED BY <1>2, <2>1, <2>2, <2>4, <3>2
  <2> QED BY <2>3, <2>4
<1> QED BY <1>1, <1>3, <1>4, <1>5

(* Two places less than once round apart are different elements.           *)
LEMMA Apart ==
  ASSUME NEW a \in 0 .. 2 * howmany, NEW b \in 0 .. 2 * howmany,
         a < b, b < a + howmany
  PROVE  a % howmany # b % howmany
<1> DEFINE n == howmany
<1>1. n \in Nat \ {0} /\ a \in Nat /\ b \in Nat
  BY QueueAssumption
<1>2. /\ a = n * (a \div n) + (a % n) /\ b = n * (b \div n) + (b % n)
      /\ a \div n \in Int /\ b \div n \in Int
  BY <1>1
<1> DEFINE p == a \div n
           q == b \div n
<1>3. a < b /\ b < a + n
  OBVIOUS
<1> HIDE DEF n, p, q
<1>4. SUFFICES ASSUME a % n = b % n  PROVE FALSE
  BY DEF n
<1>5. p \in Int /\ q \in Int /\ b - a = n * (q - p)
  BY <1>1, <1>2, <1>4 DEF p, q
<1>6. CASE q - p <= 0
  <2>1. n * (q - p) <= 0
    BY <1>1, <1>5, <1>6
  <2> QED BY <1>1, <1>3, <1>5, <2>1
<1>7. CASE q - p >= 1
  <2>1. n * (q - p) >= n
    BY <1>1, <1>5, <1>7
  <2> QED BY <1>1, <1>3, <1>5, <2>1
<1> QED BY <1>5, <1>6, <1>7

-----------------------------------------------------------------------------
LEMMA InitIInv == Init => IInv
<1> SUFFICES ASSUME Init  PROVE IInv
  OBVIOUS
<1>1. TypeOK
  BY QueueAssumption DEF Init, TypeOK, Slots
<1>2. 0 % howmany = 0
  BY QueueAssumption
<1> QED BY <1>1, <1>2 DEF Init, IInv, Ends

(* What a get that finds something, and a set that finds room, leave.      *)
LEMMA Sizes ==
  ASSUME IInv
  PROVE  /\ howmany \in Nat \ {0} /\ stored \in 0 .. howmany
         /\ read_index \in Nat /\ write_index \in Slots
         /\ elements \in [Slots -> Contents]
         /\ write_index = (read_index + stored) % howmany
BY QueueAssumption DEF IInv, TypeOK, Ends, Contents

LEMMA GetStep ==
  ASSUME IInv, Get
  PROVE  IInv'
<1>1. CASE stored = 0
  BY <1>1, QueueAssumption DEF Get, IInv, TypeOK, Ends
<1>2. CASE stored # 0
  <2>1. /\ read_index < MaxReads /\ result' \in MayRead(read_index)
        /\ stored' = stored - 1 /\ read_index' = read_index + 1
        /\ UNCHANGED <<write_index, elements>>
    BY <1>2 DEF Get
  <2>2. MayRead(read_index) \subseteq Contents
    BY Sizes DEF MayRead, Contents
  <2>3. TypeOK'
    BY <1>2, <2>1, <2>2, Sizes, QueueAssumption DEF IInv, TypeOK, Contents
  <2>4. read_index' + stored' = read_index + stored
    BY <2>1, Sizes
  <2>5. Ends'
    BY <2>1, <2>4, Sizes DEF Ends
  <2> QED BY <2>3, <2>5 DEF IInv
<1> QED BY <1>1, <1>2

(* With at most as many gets as elements the sum of read_index and stored  *)
(* is at most twice the size, so the index of the next write wraps once.   *)
LEMMA SetStep ==
  ASSUME IInv, MaxReads <= howmany, NEW e \in Elements, Set(e)
  PROVE  IInv'
<1>1. CASE stored = howmany
  BY <1>1, QueueAssumption DEF Set, IInv, TypeOK, Ends
<1>2. CASE stored # howmany
  <2>1. /\ elements' = [elements EXCEPT ![write_index] = e]
        /\ stored' = stored + 1 /\ write_index' = NextWrite(write_index)
        /\ result' = 0 /\ UNCHANGED read_index
    BY <1>2 DEF Set
  <2>2. NextWrite(write_index) \in Slots
    BY Sizes DEF NextWrite, Slots
  <2>3. TypeOK'
    BY <1>2, <2>1, <2>2, Sizes, QueueAssumption DEF IInv, TypeOK, Contents
  <2>4. read_index + stored \in 0 .. 2 * howmany - 1
    BY <1>2, Sizes, QueueAssumption DEF IInv, TypeOK
  <2>5. NextWrite(write_index) = (read_index + stored + 1) % howmany
    BY <2>4, Sizes, NextWriteIsMod
  <2>6. Ends'
    BY <2>1, <2>5, Sizes DEF Ends
  <2> QED BY <2>3, <2>6 DEF IInv
<1> QED BY <1>1, <1>2

(* Each call leaves the counts, the indices and the elements in range:     *)
(* stored never exceeds the size, and write_index is always an index.      *)
THEOREM TypeCorrect == Spec => []TypeOK
<1>1. Init => TypeOK
  BY InitIInv DEF IInv
<1>2. TypeOK /\ [Next]_vars => TypeOK'
  <2> SUFFICES ASSUME TypeOK, [Next]_vars  PROVE TypeOK'
    OBVIOUS
  <2>1. CASE Get
    BY <2>1, QueueAssumption DEF Get, TypeOK, MayRead
  <2>2. ASSUME NEW e \in Elements, Set(e)  PROVE TypeOK'
    BY <2>2, QueueAssumption DEF Set, TypeOK, NextWrite, Slots
  <2>3. CASE UNCHANGED vars
    BY <2>3 DEF vars, TypeOK
  <2> QED BY <2>1, <2>2, <2>3 DEF Next
<1> QED BY <1>1, <1>2, PTL DEF Spec

-----------------------------------------------------------------------------
(* The elements inside, as the abstract buffer sees them.                  *)
InsideOK ==
  /\ Inside \in Seq(Contents) /\ Len(Inside) = stored
  /\ \A i \in 1 .. stored :
       Inside[i] = elements[(read_index + i - 1) % howmany]

LEMMA InsideIsSeq == IInv => InsideOK
<1> SUFFICES ASSUME IInv  PROVE InsideOK
  OBVIOUS
<1>1. \A i \in 1 .. stored : (read_index + i - 1) % howmany \in Slots
  BY Sizes, InSlots
<1>2. stored \in Nat /\ Inside \in [1 .. stored -> Contents]
  BY <1>1, Sizes DEF Inside
<1>3. Inside \in Seq(Contents)
  BY <1>2, SeqDef
<1>4. Len(Inside) = stored
  BY <1>2, <1>3
<1> QED BY <1>3, <1>4 DEF Inside, InsideOK

(* Two sequences of one length with the same elements are equal.           *)
LEMMA SameSeq ==
  ASSUME NEW S, NEW s \in Seq(S), NEW u \in Seq(S), Len(s) = Len(u),
         \A i \in 1 .. Len(s) : s[i] = u[i]
  PROVE  s = u
OBVIOUS

LEMMA GetIsFifo ==
  ASSUME IInv, IInv', MaxReads <= howmany, Get
  PROVE  Fifo!Get
<1>0. InsideOK /\ InsideOK'
  BY InsideIsSeq, PTL
<1>1. CASE stored = 0
  <2>1. Inside = <<>>
    BY <1>0, <1>1 DEF InsideOK
  <2>2. Inside' = Inside /\ result' = NULL
    BY <1>1 DEF Get, Inside
  <2> QED BY <2>1, <2>2 DEF Fifo!Get
<1>2. CASE stored # 0
  <2>1. /\ read_index < MaxReads /\ result' \in MayRead(read_index)
        /\ stored' = stored - 1 /\ read_index' = read_index + 1
        /\ UNCHANGED <<write_index, elements>>
    BY <1>2 DEF Get
  <2>2. read_index \in Slots
    BY <2>1, Sizes, QueueAssumption DEF Slots
  <2>3. result' = elements[read_index]
    BY <2>1, <2>2 DEF MayRead
  <2>4. Inside \in Seq(Contents) /\ Inside # <<>> /\ Len(Inside) = stored
    BY <1>0, <1>2, Sizes DEF InsideOK
  <2>5. Head(Inside) = elements[read_index]
    <3>1. 1 \in 1 .. stored /\ read_index + 1 - 1 = read_index
      BY <1>2, Sizes
    <3>2. read_index % howmany = read_index
      BY <2>2, Sizes, Round DEF Slots
    <3>3. Inside[1] = elements[read_index]
      BY <1>0, <3>1, <3>2 DEF InsideOK
    <3> QED BY <2>4, <3>3
  <2>6. Inside' = Tail(Inside)
    <3>1. /\ Inside' \in Seq(Contents) /\ Len(Inside') = stored'
          /\ \A i \in 1 .. stored' :
               Inside'[i] = elements'[(read_index' + i - 1) % howmany]
      BY <1>0 DEF InsideOK
    <3>2. /\ Tail(Inside) \in Seq(Contents) /\ Len(Tail(Inside)) = stored - 1
          /\ \A i \in 1 .. stored - 1 : Tail(Inside)[i] = Inside[i + 1]
      BY <2>4, HeadTailProperties
    <3>3. ASSUME NEW i \in 1 .. stored - 1
          PROVE  Inside'[i] = Tail(Inside)[i]
      <4>1. i + 1 \in 1 .. stored
            /\ read_index' + i - 1 = read_index + (i + 1) - 1
        BY <2>1, Sizes
      <4> QED BY <1>0, <2>1, <3>1, <3>2, <4>1 DEF InsideOK
    <3> QED BY <2>1, <3>1, <3>2, <3>3, SameSeq
  <2> QED BY <2>3, <2>4, <2>5, <2>6 DEF Fifo!Get
<1> QED BY <1>1, <1>2

LEMMA SetIsFifo ==
  ASSUME IInv, IInv', MaxReads <= howmany, NEW e \in Elements, Set(e)
  PROVE  Fifo!Set(e)
<1>0. InsideOK /\ InsideOK'
  BY InsideIsSeq, PTL
<1>1. CASE stored = howmany
  <2>1. Len(Inside) = howmany
    BY <1>0, <1>1 DEF InsideOK
  <2>2. Inside' = Inside /\ result' = -1
    BY <1>1 DEF Set, Inside
  <2> QED BY <2>1, <2>2 DEF Fifo!Set
<1>2. CASE stored # howmany
  <2>1. /\ elements' = [elements EXCEPT ![write_index] = e]
        /\ stored' = stored + 1 /\ result' = 0 /\ UNCHANGED read_index
    BY <1>2 DEF Set
  <2>2. /\ Inside \in Seq(Contents) /\ Len(Inside) = stored
        /\ Len(Inside) < howmany /\ e \in Contents
    BY <1>0, <1>2, Sizes DEF InsideOK, Contents
  <2>3. /\ Append(Inside, e) \in Seq(Contents)
        /\ Len(Append(Inside, e)) = stored + 1
        /\ \A i \in 1 .. stored : Append(Inside, e)[i] = Inside[i]
        /\ Append(Inside, e)[stored + 1] = e
    BY <2>2, AppendProperties
  <2>4. /\ Inside' \in Seq(Contents) /\ Len(Inside') = stored'
        /\ \A i \in 1 .. stored' :
             Inside'[i] = elements'[(read_index' + i - 1) % howmany]
    BY <1>0 DEF InsideOK
  <2>5. ASSUME NEW i \in 1 .. stored + 1
        PROVE  Inside'[i] = Append(Inside, e)[i]
    <3>1. Inside'[i] = elements'[(read_index + i - 1) % howmany]
      BY <2>1, <2>4
    <3>2. CASE i = stored + 1
      <4>1. read_index + i - 1 = read_index + stored
        BY <3>2, Sizes
      <4>2. elements'[write_index] = e
        BY <2>1, Sizes
      <4> QED BY <2>3, <3>1, <3>2, <4>1, <4>2, Sizes
    <3>3. CASE i # stored + 1
      <4>1. i \in 1 .. stored
        BY <3>3, Sizes
      <4>2. (read_index + i - 1) % howmany # (read_index + stored) % howmany
        <5>1. /\ read_index + i - 1 \in 0 .. 2 * howmany
              /\ read_index + stored \in 0 .. 2 * howmany
              /\ read_index + i - 1 < read_index + stored
              /\ read_index + stored < read_index + i - 1 + howmany
          BY <1>2, <4>1, Sizes, QueueAssumption DEF IInv, TypeOK
        <5> QED BY <5>1, Apart
      <4>3. (read_index + i - 1) % howmany \in Slots
        BY <4>1, Sizes, InSlots
      <4>4. elements'[(read_index + i - 1) % howmany]
              = elements[(read_index + i - 1) % howmany]
        BY <2>1, <4>2, <4>3, Sizes
      <4> QED BY <1>0, <2>3, <3>1, <4>1, <4>4 DEF InsideOK
    <3> QED BY <3>2, <3>3
  <2>6. Inside' = Append(Inside, e)
    BY <2>1, <2>3, <2>4, <2>5, SameSeq
  <2> QED BY <2>1, <2>2, <2>6 DEF Fifo!Set
<1> QED BY <1>1, <1>2

(* For as many gets as it has elements the queue is a first-in first-out   *)
(* buffer of that size: thread_queue_nb_set_element() and _get_element()   *)
(* do what the buffer does, or refuse where it refuses.                    *)
THEOREM QueueIsFifo ==
  ASSUME MaxReads <= howmany
  PROVE  Spec => FifoSpec
<1>1. Init => Fifo!Init
  <2> SUFFICES ASSUME Init  PROVE Fifo!Init
    OBVIOUS
  <2>1. Inside = <<>>
    BY InitIInv, InsideIsSeq DEF InsideOK, Init
  <2> QED BY <2>1 DEF Init, Fifo!Init
<1>2. IInv /\ [Next]_vars => IInv' /\ [Fifo!Next]_Fifo!vars
  <2> SUFFICES ASSUME IInv, [Next]_vars  PROVE IInv' /\ [Fifo!Next]_Fifo!vars
    OBVIOUS
  <2>1. CASE Get
    BY <2>1, GetStep, GetIsFifo DEF Fifo!Next
  <2>2. ASSUME NEW e \in Elements, Set(e)
        PROVE  IInv' /\ Fifo!Next
    BY <2>2, SetStep, SetIsFifo DEF Fifo!Next
  <2>3. CASE UNCHANGED vars
    <3>1. IInv'
      BY <2>3 DEF vars, IInv, TypeOK, Ends
    <3>2. UNCHANGED Fifo!vars
      BY <2>3 DEF vars, Fifo!vars, Inside
    <3> QED BY <3>1, <3>2
  <2> QED BY <2>1, <2>2, <2>3 DEF Next
<1> QED BY <1>1, <1>2, InitIInv, PTL DEF Spec, FifoSpec, Fifo!Spec
=============================================================================
