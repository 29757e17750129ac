--------------------------- MODULE FreeListProofs ---------------------------
(***************************************************************************)
(* For every size and every kind of item: the stall queries count exactly, *)
(* and the ring with its movable front is an UndoFifo.                     *)
(***************************************************************************)
EXTENDS FreeList, QueueProofs, SequenceTheorems

(* Where the items are, seen from the gap.                                 *)
LEMMA BehindGap ==
  ASSUME NEW g \in Index, NEW i \in 1 .. Max
  PROVE  /\ (g + i) % Maxsize \in Index
         /\ (g + i) % Maxsize /= g
         /\ (Succ(g) + i) % Maxsize =
              IF i = Max THEN g ELSE (g + (i + 1)) % Maxsize
<1>1. i \in 0 .. Maxsize /\ i + 1 \in 0 .. Maxsize
  BY MaxAssumption DEF Maxsize
<1>2. (g + i) % Maxsize = IF g + i >= Maxsize THEN g + i - Maxsize ELSE g + i
  BY <1>1, Wrap
<1>3. (g + (i + 1)) % Maxsize =
        IF g + (i + 1) >= Maxsize THEN g + (i + 1) - Maxsize ELSE g + (i + 1)
  BY <1>1, Wrap
<1>4. Succ(g) = (IF g = Max THEN 0 ELSE g + 1) /\ Succ(g) \in Index
  BY SuccIs
<1>5. (Succ(g) + i) % Maxsize =
        IF Succ(g) + i >= Maxsize THEN Succ(g) + i - Maxsize ELSE Succ(g) + i
  BY <1>1, <1>4, Wrap
<1> QED BY <1>2, <1>3, <1>4, <1>5, MaxAssumption DEF Index, Maxsize

(* IsFull and IsEmpty in terms of the distance from the gap.               *)
LEMMA Ends ==
  ASSUME FreeListTypeOK
  PROVE  /\ q.front \in Index /\ q.rear \in Index /\ Gap(q) \in Index
         /\ q.slot \in [Index -> Item]
         /\ Dist(q, q.front) \in 0 .. Max
         /\ IsEmpty(q) <=> Dist(q, q.front) = Max
         /\ IsFull(q) <=> Dist(q, q.front) = 0
<1>1. q.front \in Index /\ q.rear \in Index /\ q.slot \in [Index -> Item]
  BY DEF FreeListTypeOK, QueueOf
<1>2. /\ Dist(q, q.front) \in Index /\ Dist(q, q.rear) = Max
      /\ Dist(q, q.front) = 0 <=> q.front = Gap(q)
      /\ Gap(q) \in Index
  BY <1>1, DistRange
<1>3. IsEmpty(q) <=> Dist(q, q.front) = Max
  BY <1>1, <1>2, DistInjective DEF IsEmpty
<1>4. (q.front + Maxsize) % Maxsize = q.front
  <2>1. Maxsize \in 0 .. Maxsize BY MaxAssumption DEF Maxsize
  <2>2. (q.front + Maxsize) % Maxsize =
          IF q.front + Maxsize >= Maxsize
          THEN q.front + Maxsize - Maxsize ELSE q.front + Maxsize
    BY <1>1, <2>1, Wrap
  <2> QED BY <1>1, <2>2, MaxAssumption DEF Maxsize, Index
<1>5. IsFull(q) <=> Dist(q, q.front) = 0
  BY <1>2, <1>4 DEF IsFull, Gap
<1> QED BY <1>1, <1>2, <1>3, <1>5 DEF Index

(* The constructor's free list is typed.                                   *)
LEMMA TypeInit == FreeListInit => FreeListTypeOK
  BY MaxAssumption DEF FreeListInit, FreeListTypeOK, QueueOf, Index

(* Every method keeps the free list typed.                                 *)
LEMMA TypeNext == FreeListTypeOK /\ [Next]_q => FreeListTypeOK'
<1> SUFFICES ASSUME FreeListTypeOK, [Next]_q PROVE FreeListTypeOK'
  OBVIOUS
<1>0. /\ q \in QueueOf(Item)
      /\ q.front \in Index /\ q.rear \in Index /\ q.slot \in [Index -> Item]
      /\ Succ(q.front) \in Index /\ Succ(q.rear) \in Index
      /\ Succ(Succ(q.rear)) \in Index
  BY SuccIs DEF FreeListTypeOK, QueueOf
<1>1. CASE GetFreeReg
  BY <1>0, <1>1 DEF GetFreeReg, Delete, FreeListTypeOK, QueueOf
<1>2. ASSUME NEW x \in Item, ReturnFreeReg(x) PROVE FreeListTypeOK'
  BY <1>0, <1>2 DEF ReturnFreeReg, Add, FreeListTypeOK, QueueOf
<1>3. ASSUME NEW i \in Index, Restore(i) PROVE FreeListTypeOK'
  BY <1>0, <1>3 DEF Restore, RestoreFront, FreeListTypeOK, QueueOf
<1>4. CASE Squash
  BY <1>0, <1>4 DEF Squash, RefillAll, FreeListTypeOK, QueueOf
<1>5. CASE UNCHANGED q
  BY <1>5 DEF FreeListTypeOK
<1> QED BY <1>1, <1>2, <1>3, <1>4, <1>5 DEF Next

(* The indices never leave the array.                                      *)
THEOREM FreeListTyped == Spec => []FreeListTypeOK
  BY TypeInit, TypeNext, PTL DEF Spec

(* stall_reg and stall_dispatch count exactly, for every ring and bundle.  *)
THEOREM StallCounts == Spec => []StallCountsExact
<1>1. FreeListTypeOK => StallCountsExact
  <2> SUFFICES ASSUME FreeListTypeOK, NEW n \in 0 .. 2 * Max
               PROVE  /\ IsEmptyFor(q, n) <=> Count(q) < n
                      /\ IsFullFor(q, n) <=> Max - Count(q) < n
    BY DEF StallCountsExact
  <2>1. q.front \in Index /\ q.rear \in Index
    BY DEF FreeListTypeOK, QueueOf
  <2>2. n \in Nat BY MaxAssumption
  <2> QED BY <2>1, <2>2, IsEmptyForCounts, IsFullForCounts
<1> QED BY <1>1, FreeListTyped, PTL

(***************************************************************************)
(* The refinement.                                                         *)
(***************************************************************************)
All == [i \in 1 .. Max |-> q.slot[(Gap(q) + i) % Maxsize]]

(* Read from the unused slot on, the ring is a sequence of Max items.      *)
LEMMA AllTyped ==
  ASSUME FreeListTypeOK
  PROVE  All \in [1 .. Max -> Item] /\ All \in Seq(Item) /\ Len(All) = Max
<1>1. \A i \in 1 .. Max : q.slot[(Gap(q) + i) % Maxsize] \in Item
  BY Ends, BehindGap
<1>2. All \in [1 .. Max -> Item]
  BY <1>1 DEF All
<1> QED BY <1>2, MaxAssumption

(* An update that leaves rear and the slots alone leaves the ring's order  *)
(* alone.                                                                  *)
LEMMA SameOrder ==
  ASSUME FreeListTypeOK, q'.rear = q.rear, q'.slot = q.slot
  PROVE  All' = All /\ \A i : Dist(q', i) = Dist(q, i)
  BY DEF All, Gap, Dist

(* The free list implements the queue whose removals can be undone: moving *)
(* the front back to a remembered index is the same as putting exactly the *)
(* items removed since back at the head, whatever was added meanwhile.     *)
THEOREM FreeListIsUndoFifo == Spec => UndoFifoSpec
<1>1. FreeListInit => Fifo!Init
  <2> SUFFICES ASSUME FreeListInit PROVE Fifo!Init
    OBVIOUS
  <2>1. FreeListTypeOK BY TypeInit
  <2>2. q.front = 0 /\ q.rear = Max
    BY DEF FreeListInit
  <2>3. Gap(q) = 0
    BY <2>1, <2>2, Ends, SuccIs DEF Gap
  <2>4. Dist(q, q.front) = 0
    BY <2>2, <2>3 DEF Dist
  <2> QED BY <2>1, <2>4, AllTyped DEF Fifo!Init, All
<1>2. FreeListTypeOK /\ FreeListTypeOK' /\ [Next]_q =>
        [Fifo!Next]_<<All, Dist(q, q.front)>>
  <2> SUFFICES ASSUME FreeListTypeOK, FreeListTypeOK', [Next]_q
               PROVE  [Fifo!Next]_<<All, Dist(q, q.front)>>
    OBVIOUS
  <2>0. /\ q.front \in Index /\ q.rear \in Index /\ Gap(q) \in Index
        /\ q.slot \in [Index -> Item] /\ q \in QueueOf(Item)
        /\ Dist(q, q.front) \in 0 .. Max
    BY Ends DEF FreeListTypeOK
  <2>1. CASE GetFreeReg
    <3>1. q'.front = Succ(q.front) /\ q'.rear = q.rear /\ q'.slot = q.slot
      BY <2>0, <2>1 DEF GetFreeReg, Delete, QueueOf
    <3>2. q.front /= q.rear /\ Dist(q, q.front) /= Max
      BY <2>1, Ends DEF GetFreeReg, IsEmpty
    <3>3. Dist(q', q'.front) = Dist(q, q.front) + 1 /\ All' = All
      BY <2>0, <3>1, <3>2, DistSucc, SameOrder
    <3>4. Dist(q, q.front) < Max
      BY <2>0, <3>2, MaxAssumption
    <3> QED BY <3>3, <3>4 DEF Fifo!Next, Fifo!Take, All
  <2>2. ASSUME NEW x \in Item, ReturnFreeReg(x)
        PROVE  Fifo!Next
    <3>1. /\ q'.front = q.front /\ q'.rear = Gap(q)
          /\ q'.slot = [q.slot EXCEPT ![Gap(q)] = x]
      BY <2>0, <2>2 DEF ReturnFreeReg, Add, QueueOf, Gap
    <3>2. Dist(q, q.front) > 0 /\ q.front /= Gap(q)
      BY <2>0, <2>2, Ends, DistRange DEF ReturnFreeReg
    <3>3. Dist(q', q'.front) = Dist(q, q.front) - 1
      BY <2>0, <3>1, <3>2, DistAdd DEF Gap
    <3>4. Gap(q') = Succ(Gap(q))
      BY <3>1 DEF Gap
    <3>5. /\ All \in Seq(Item) /\ Len(All) = Max
      BY AllTyped
    <3>6. \A i \in 1 .. Max : All'[i] = IF i = Max THEN x ELSE All[i + 1]
      <4> SUFFICES ASSUME NEW i \in 1 .. Max
                   PROVE  All'[i] = IF i = Max THEN x ELSE All[i + 1]
        OBVIOUS
      <4>1. All'[i] = q'.slot[(Succ(Gap(q)) + i) % Maxsize]
        BY <3>4 DEF All
      <4>2. CASE i = Max
        <5>1. (Succ(Gap(q)) + i) % Maxsize = Gap(q)
          BY <2>0, <4>2, BehindGap
        <5> QED BY <2>0, <3>1, <4>1, <4>2, <5>1
      <4>3. CASE i /= Max
        <5>1. i + 1 \in 1 .. Max
          BY <4>3, MaxAssumption
        <5>2. (Succ(Gap(q)) + i) % Maxsize = (Gap(q) + (i + 1)) % Maxsize
          BY <2>0, <4>3, BehindGap
        <5>3. /\ (Gap(q) + (i + 1)) % Maxsize \in Index
              /\ (Gap(q) + (i + 1)) % Maxsize /= Gap(q)
          BY <2>0, <5>1, BehindGap
        <5>4. All[i + 1] = q.slot[(Gap(q) + (i + 1)) % Maxsize]
          BY <5>1 DEF All
        <5> QED BY <2>0, <3>1, <4>1, <4>3, <5>2, <5>3, <5>4
      <4> QED BY <4>2, <4>3
    <3>7. All' = Append(Tail(All), x)
      <4> DEFINE A == Append(Tail(All), x)
      <4>1. All /= <<>> /\ Tail(All) \in Seq(Item) /\ Len(Tail(All)) = Max - 1
        BY <3>5, MaxAssumption
      <4>2. A \in Seq(Item) /\ Len(A) = Max
        BY <4>1, MaxAssumption
      <4>3. A \in [1 .. Max -> Item]
        BY <4>2, LenProperties
      <4>4. \A i \in 1 .. Max : A[i] = IF i = Max THEN x ELSE All[i + 1]
        BY <3>5, <4>1, MaxAssumption
      <4>5. All' = [i \in 1 .. Max |-> All'[i]]
        BY DEF All
      <4> QED BY <3>6, <4>3, <4>4, <4>5
    <3> QED BY <2>0, <3>2, <3>3, <3>7 DEF Fifo!Next, Fifo!Return, All
  <2>3. ASSUME NEW i \in Index, Restore(i) PROVE Fifo!Next
    <3>1. /\ q'.front = i /\ q'.rear = q.rear /\ q'.slot = q.slot
          /\ Dist(q, i) <= Dist(q, q.front)
      BY <2>0, <2>3 DEF Restore, RestoreFront, QueueOf
    <3>2. All' = All /\ Dist(q', q'.front) = Dist(q, i)
      BY <3>1, SameOrder
    <3>3. Dist(q, i) \in Index
      BY <2>0, DistRange
    <3>4. Dist(q, i) \in 0 .. Dist(q, q.front)
      BY <2>0, <3>1, <3>3, MaxAssumption DEF Index
    <3> QED BY <3>2, <3>4 DEF Fifo!Next, Fifo!Undo, All
  <2>4. CASE Squash
    <3>1. q'.front = Gap(q) /\ q'.rear = q.rear /\ q'.slot = q.slot
      BY <2>0, <2>4 DEF Squash, RefillAll, QueueOf, Gap
    <3>2. All' = All /\ Dist(q', q'.front) = 0
      BY <2>0, <3>1, SameOrder, DistRange
    <3>3. 0 \in 0 .. Dist(q, q.front)
      BY <2>0, MaxAssumption
    <3> QED BY <3>2, <3>3 DEF Fifo!Next, Fifo!Undo, All
  <2>5. CASE UNCHANGED q
    BY <2>5 DEF All, Dist, Gap
  <2> QED BY <2>1, <2>2, <2>3, <2>4, <2>5 DEF Next
<1> QED BY <1>1, <1>2, FreeListTyped, PTL DEF Spec, UndoFifoSpec, Fifo!Spec, All
=============================================================================
