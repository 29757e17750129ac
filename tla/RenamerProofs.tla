--------------------------- MODULE RenamerProofs ---------------------------
(***************************************************************************)
(* RenamerInductive's invariant holds in every state of the pipeline, for  *)
(* every number of registers, checkpoints and values: Init implies it and  *)
(* every action preserves it.  What an action does to the tables and the   *)
(* window is one of six things - append, dispatch, replace fields,         *)
(* truncate, take the head off, empty - and the first half of the module   *)
(* says what each does to the two rings (RingOf, HeldOf, ListOf) and to    *)
(* the branch masks, the checkpoints and the maps (MaskOf, CkptOf,         *)
(* MapsOf).  Its lemmas speak of two windows w, w2 and two buffers, before *)
(* and after.                                                              *)
(*                                                                         *)
(* OperandInv is preserved by every step that starts in a state of IInv:   *)
(* what a step does to the ready bits, to the results and to the room the  *)
(* stall queries promised is proved for the four parts one after the       *)
(* other.  It follows that no assertion of the class can fail, that every  *)
(* operand is its producer's, and that the renamer implements PreciseCore. *)
(***************************************************************************)
EXTENDS RenamerInductive, SequenceTheorems, FiniteSetTheorems, TLAPS

Ring == INSTANCE QueueProofs WITH Max <- ListSize

(***************************************************************************)
(* Constants and the ring.                                                 *)
(***************************************************************************)
(* The ring has one slot more than there are free registers; None names    *)
(* nothing.                                                                *)
LEMMA Sizes ==
  /\ ListSize \in Nat \ {0}
  /\ Maxsize = ListSize + 1 /\ Maxsize \in Nat
  /\ Index = 0 .. ListSize
  /\ None \notin LogReg /\ None \notin PhysReg /\ None \notin BranchID
  /\ None \notin Index /\ None \notin Value
  BY RenamerAssumption
     DEF ListSize, Maxsize, Index, LogReg, PhysReg, BranchID

(* An index plus at most one turn wraps once.                              *)
LEMMA Wrap ==
  ASSUME NEW i \in Index, NEW k \in 0 .. Maxsize
  PROVE  (i + k) % Maxsize = IF i + k >= Maxsize THEN i + k - Maxsize ELSE i + k
  BY Sizes, Ring!Wrap DEF Index, Maxsize, Ring!Index, Ring!Maxsize

(* Queue's lemmas, at the renamer's size.                                  *)
LEMMA SuccIs ==
  ASSUME NEW i \in Index
  PROVE  Succ(i) = (IF i = ListSize THEN 0 ELSE i + 1) /\ Succ(i) \in Index
  BY Sizes, Ring!SuccIs
     DEF Index, Maxsize, Succ, Ring!Index, Ring!Maxsize, Ring!Succ

(* Dist numbers the slots from the gap (0) to rear.                        *)
LEMMA DistRange ==
  ASSUME NEW q, q.rear \in Index, NEW i \in Index
  PROVE  /\ Dist(q, i) \in Index
         /\ Dist(q, i) = 0 <=> i = Gap(q)
         /\ Dist(q, q.rear) = ListSize
         /\ Gap(q) \in Index
  BY Sizes, Ring!DistRange
     DEF Dist, Gap, Index, Maxsize, Succ, Ring!Dist, Ring!Gap,
         Ring!Index, Ring!Maxsize, Ring!Succ

(* No two slots lie equally far behind the gap.                            *)
LEMMA DistInjective ==
  ASSUME NEW q, q.rear \in Index, NEW i \in Index, NEW j \in Index,
         Dist(q, i) = Dist(q, j)
  PROVE  i = j
  BY Sizes, Ring!DistInjective
     DEF Dist, Gap, Index, Maxsize, Succ, Ring!Dist, Ring!Gap,
         Ring!Index, Ring!Maxsize, Ring!Succ

(* One slot on is one further from the gap, up to rear.                    *)
LEMMA DistSucc ==
  ASSUME NEW q, q.rear \in Index, NEW i \in Index, i /= q.rear
  PROVE  Dist(q, Succ(i)) = Dist(q, i) + 1
  BY Sizes, Ring!DistSucc
     DEF Dist, Gap, Index, Maxsize, Succ, Ring!Dist, Ring!Gap,
         Ring!Index, Ring!Maxsize, Ring!Succ

(* An addition makes the gap the last slot and moves all others one        *)
(* nearer.                                                                 *)
LEMMA DistAdd ==
  ASSUME NEW q, NEW r, q.rear \in Index, r.rear = Succ(q.rear),
         NEW i \in Index
  PROVE  Dist(r, i) = IF i = Gap(q) THEN ListSize ELSE Dist(q, i) - 1
  BY Sizes, Ring!DistAdd
     DEF Dist, Gap, Index, Maxsize, Succ, Ring!Dist, Ring!Gap,
         Ring!Index, Ring!Maxsize, Ring!Succ

(* Full and empty, in terms of the gap.                                    *)
LEMMA FullIs ==
  ASSUME NEW q, q.front \in Index, q.rear \in Index
  PROVE  /\ IsFull(q) <=> q.front = Gap(q)
         /\ IsEmpty(q) <=> q.front = q.rear
<1>1. (q.front + Maxsize) % Maxsize = q.front
  <2>1. Maxsize \in 0 .. Maxsize BY Sizes
  <2>2. (q.front + Maxsize) % Maxsize =
          IF q.front + Maxsize >= Maxsize
          THEN q.front + Maxsize - Maxsize ELSE q.front + Maxsize
    BY <2>1, Wrap
  <2> QED BY <2>2, Sizes
<1> QED BY <1>1 DEF IsFull, IsEmpty, Gap

(***************************************************************************)
(* The window.                                                             *)
(***************************************************************************)
(* The fields of an instruction in flight are typed.                       *)
LEMMA InstAt ==
  ASSUME NEW w \in Seq(Inst), NEW k \in Of(w)
  PROVE  /\ w[k] \in Inst
         /\ w[k].slot \in Index
         /\ w[k].dst \in LogReg \cup {None}
         /\ w[k].phys \in PhysReg \cup {None}
         /\ w[k].br \in BranchID \cup {None}
         /\ w[k].mask \in SUBSET BranchID
         /\ w[k].alx \in Index \cup {None}
<1>1. w[k] \in Inst BY DEF Of
<1> QED BY <1>1 DEF Inst

(* A window that grows by one instruction.                                 *)
LEMMA OfAppend ==
  ASSUME NEW w \in Seq(Inst), NEW new \in Inst
  PROVE  /\ Append(w, new) \in Seq(Inst)
         /\ Len(w) \in Nat /\ Len(Append(w, new)) = Len(w) + 1
         /\ Of(Append(w, new)) = Of(w) \cup {Len(w) + 1}
         /\ Of(w) = 1 .. Len(w) /\ Len(w) + 1 \notin Of(w)
         /\ Append(w, new)[Len(w) + 1] = new
         /\ \A k \in Of(w) : Append(w, new)[k] = w[k]
  BY AppendProperties, LenProperties DEF Of

(* A window that loses its oldest instruction.                             *)
LEMMA OfTail ==
  ASSUME NEW w \in Seq(Inst), Len(w) > 0, NEW w2, w2 = Tail(w)
  PROVE  /\ w2 \in Seq(Inst)
         /\ Len(w) \in Nat /\ Len(w2) = Len(w) - 1
         /\ 1 \in Of(w) /\ Of(w) = 1 .. Len(w) /\ Of(w2) = 1 .. Len(w) - 1
         /\ \A k \in Of(w2) : k + 1 \in Of(w) /\ w2[k] = w[k + 1]
<1>1. Len(w) \in Nat BY LenProperties
<1>2. w /= <<>> BY EmptySeq
<1>3. /\ w2 \in Seq(Inst) /\ Len(w2) = Len(w) - 1
      /\ \A k \in 1 .. Len(w2) : w2[k] = w[k + 1]
  BY <1>2, HeadTailProperties
<1> QED BY <1>1, <1>3 DEF Of

(* A window with one instruction replaced.                                 *)
LEMMA OfPut ==
  ASSUME NEW w \in Seq(Inst), NEW k \in Of(w), NEW e \in Inst
  PROVE  /\ [w EXCEPT ![k] = e] \in Seq(Inst)
         /\ Len([w EXCEPT ![k] = e]) = Len(w)
         /\ [w EXCEPT ![k] = e][k] = e
         /\ \A j \in Of(w) : j /= k => [w EXCEPT ![k] = e][j] = w[j]
<1>1. k \in 1 .. Len(w) BY DEF Of
<1>2. /\ [w EXCEPT ![k] = e] \in Seq(Inst)
      /\ Len([w EXCEPT ![k] = e]) = Len(w)
      /\ \A j \in 1 .. Len(w) : [w EXCEPT ![k] = e][j] = IF j = k THEN e ELSE w[j]
  BY <1>1, ExceptSeq
<1> QED BY <1>1, <1>2 DEF Of

(* The window after a misprediction, and after a correct prediction, of    *)
(* the branch k.                                                           *)
Truncated(w, w2, k) ==
  /\ Of(w2) = 1 .. k /\ Len(w2) = k
  /\ \A j \in 1 .. k :
       /\ w2[j].dst = w[j].dst /\ w2[j].phys = w[j].phys
       /\ w2[j].srcs = w[j].srcs /\ w2[j].mask = w[j].mask
       /\ w2[j].alx = w[j].alx /\ w2[j].sys = w[j].sys
       /\ w2[j].slot = w[j].slot
       /\ w2[j].br = IF j = k THEN None ELSE w[j].br

Resolved(w, w2, k) ==
  /\ Of(w2) = Of(w) /\ Len(w2) = Len(w)
  /\ \A j \in Of(w) :
       /\ w2[j].dst = w[j].dst /\ w2[j].phys = w[j].phys
       /\ w2[j].srcs = w[j].srcs /\ w2[j].mask = w[j].mask \ {w[k].br}
       /\ w2[j].alx = w[j].alx /\ w2[j].sys = w[j].sys
       /\ w2[j].slot = w[j].slot
       /\ w2[j].br = IF j = k THEN None ELSE w[j].br

(***************************************************************************)
(* The free list's ring.                                                   *)
(***************************************************************************)
(* Dist is a number up to ListSize.                                        *)
LEMMA DistNat ==
  ASSUME NEW q, q.rear \in Index, NEW i \in Index
  PROVE  Dist(q, i) \in Nat /\ Dist(q, i) <= ListSize
<1>1. Dist(q, i) \in Index BY DistRange
<1> QED BY <1>1, Sizes

(* The gap, and so Dist, depends on rear alone.                            *)
LEMMA SameRear ==
  ASSUME NEW q, NEW r, r.rear = q.rear
  PROVE  Gap(r) = Gap(q) /\ \A i : Dist(r, i) = Dist(q, i)
  BY DEF Dist, Gap

(* Instructions that keep their registers keep the ring. *)
LEMMA RingSame ==
  ASSUME NEW w, NEW w2, NEW fl, RingOf(fl, w), Of(w2) = Of(w),
         \A k \in Of(w) : /\ w2[k].dst = w[k].dst /\ w2[k].phys = w[k].phys
                          /\ w2[k].slot = w[k].slot
  PROVE  RingOf(fl, w2)
  BY DEF RingOf

(* Rename: the next slot belongs to the new instruction if it writes.      *)
LEMMA RingAppend ==
  ASSUME NEW w \in Seq(Inst), NEW new \in Inst,
         NEW fl, fl.front \in Index, fl.rear \in Index, RingOf(fl, w),
         NEW fl2, fl2.rear = fl.rear, fl2.slot = fl.slot, fl2.front \in Index,
         new.slot = fl2.front,
         new.dst = None => fl2.front = fl.front,
         new.dst /= None => /\ fl2.front /= Gap(fl)
                            /\ Dist(fl, fl2.front) = Dist(fl, fl.front) + 1
                            /\ new.phys = fl.slot[fl2.front]
  PROVE  RingOf(fl2, Append(w, new))
<1> DEFINE w2 == Append(w, new)
           n == Len(w) + 1
           D(i) == Dist(fl, i)
<1>1. /\ Of(w2) = Of(w) \cup {n} /\ n \notin Of(w) /\ w2[n] = new
      /\ Of(w) = 1 .. Len(w) /\ Len(w) \in Nat
      /\ \A k \in Of(w) : w2[k] = w[k]
  <2> HIDE DEF n
  <2>1. /\ w2 \in Seq(Inst)
        /\ Len(w) \in Nat /\ Len(w2) = Len(w) + 1
        /\ Of(w2) = Of(w) \cup {Len(w) + 1}
        /\ Of(w) = 1 .. Len(w) /\ Len(w) + 1 \notin Of(w)
        /\ w2[Len(w) + 1] = new
        /\ \A k \in Of(w) : w2[k] = w[k]
    BY OfAppend
  <2> QED BY <2>1 DEF n
<1> HIDE DEF D, w2
<1>2. Gap(fl2) = Gap(fl) /\ \A i : Dist(fl2, i) = D(i)
  BY SameRear DEF D
<1>3. \A i \in Index : D(i) \in Nat
  BY DistNat DEF D
<1>4. \A k \in Of(w) : w[k].slot \in Index
  BY InstAt
<1>5. /\ D(fl.front) \in Nat /\ D(fl2.front) \in Nat
      /\ D(fl2.front) = D(fl.front) + (IF new.dst = None THEN 0 ELSE 1)
  BY <1>3 DEF D
<1>6. SlotsTyped(fl2)
  BY <1>2 DEF RingOf, SlotsTyped
<1>7. \A k \in Of(w2) : w2[k].dst /= None =>
         fl2.slot[w2[k].slot] = w2[k].phys /\ D(w2[k].slot) > 0
  <2> SUFFICES ASSUME NEW k \in Of(w2), w2[k].dst /= None
               PROVE  fl2.slot[w2[k].slot] = w2[k].phys /\ D(w2[k].slot) > 0
    OBVIOUS
  <2>1. CASE k \in Of(w)
    BY <2>1, <1>1 DEF RingOf, D
  <2>2. CASE k = n
    BY <2>2, <1>1, <1>5
  <2> QED BY <2>1, <2>2, <1>1
<1>8. \A k \in Of(w2) : D(w2[k].slot) <= D(fl2.front)
  <2> TAKE k \in Of(w2)
  <2>1. CASE k \in Of(w)
    <3>1. D(w[k].slot) <= D(fl.front) /\ D(w[k].slot) \in Nat
      BY <2>1, <1>3, <1>4 DEF RingOf, D
    <3> QED BY <2>1, <3>1, <1>1, <1>5
  <2>2. CASE k = n
    BY <2>2, <1>1, <1>5
  <2> QED BY <2>1, <2>2, <1>1
<1>9. \A j, k \in Of(w2) : j < k =>
         IF w2[k].dst /= None THEN D(w2[j].slot) < D(w2[k].slot)
                              ELSE D(w2[j].slot) <= D(w2[k].slot)
  <2> SUFFICES ASSUME NEW j \in Of(w2), NEW k \in Of(w2), j < k
               PROVE  IF w2[k].dst /= None THEN D(w2[j].slot) < D(w2[k].slot)
                      ELSE D(w2[j].slot) <= D(w2[k].slot)
    OBVIOUS
  <2>1. CASE k \in Of(w)
    <3>1. j \in Of(w) BY <2>1, <1>1
    <3> QED BY <2>1, <3>1, <1>1 DEF RingOf, D
  <2>2. CASE k = n
    <3>1. j \in Of(w) BY <2>2, <1>1
    <3>2. D(w[j].slot) <= D(fl.front) /\ D(w[j].slot) \in Nat
      BY <3>1, <1>3, <1>4 DEF RingOf, D
    <3> QED BY <2>2, <3>1, <3>2, <1>1, <1>5
  <2> QED BY <2>1, <2>2, <1>1
<1>10. \A i \in Index : 0 < D(i) /\ D(i) <= D(fl2.front) =>
         \E k \in Of(w2) : w2[k].dst /= None /\ w2[k].slot = i
  <2> SUFFICES ASSUME NEW i \in Index, 0 < D(i), D(i) <= D(fl2.front)
               PROVE  \E k \in Of(w2) : w2[k].dst /= None /\ w2[k].slot = i
    OBVIOUS
  <2>1. CASE D(i) <= D(fl.front)
    <3>1. PICK k \in Of(w) : w[k].dst /= None /\ w[k].slot = i
      BY <2>1 DEF RingOf, D
    <3> QED BY <3>1, <1>1
  <2>2. CASE ~(D(i) <= D(fl.front))
    <3>1. D(i) \in Nat BY <1>3
    <3>2. new.dst /= None /\ D(i) = D(fl2.front)
      BY <2>2, <3>1, <1>5
    <3>3. i = fl2.front
      BY <3>2, DistInjective DEF D
    <3> QED BY <3>2, <3>3, <1>1
  <2> QED BY <2>1, <2>2
<1>11. \A k \in Of(w2) : w2[k].dst /= None =>
         fl2.slot[w2[k].slot] = w2[k].phys /\ Dist(fl2, w2[k].slot) > 0
  BY <1>2, <1>7
<1>12. \A j, k \in Of(w2) : j < k =>
         IF w2[k].dst /= None THEN Dist(fl2, w2[j].slot) < Dist(fl2, w2[k].slot)
                         ELSE Dist(fl2, w2[j].slot) <= Dist(fl2, w2[k].slot)
  BY <1>2, <1>9
<1>13. \A k \in Of(w2) : Dist(fl2, w2[k].slot) <= Dist(fl2, fl2.front)
  BY <1>2, <1>8
<1>14. \A i \in Index : 0 < Dist(fl2, i) /\ Dist(fl2, i) <= Dist(fl2, fl2.front) =>
         \E k \in Of(w2) : w2[k].dst /= None /\ w2[k].slot = i
  <2> TAKE i \in Index
  <2>1. Dist(fl2, i) = D(i) /\ Dist(fl2, fl2.front) = D(fl2.front)
    BY <1>2
  <2> QED BY <2>1, <1>10
<1>15. RingOf(fl2, w2)
  BY <1>6, <1>11, <1>12, <1>13, <1>14 DEF RingOf
<1> QED BY <1>15 DEF w2

(* A misprediction of instruction k: the front goes back to its slot.      *)
LEMMA RingTruncate ==
  ASSUME NEW w \in Seq(Inst), NEW k \in Of(w), NEW w2, Truncated(w, w2, k),
         NEW fl, fl.front \in Index, fl.rear \in Index, RingOf(fl, w),
         NEW fl2, fl2.rear = fl.rear, fl2.slot = fl.slot,
         fl2.front = w[k].slot
  PROVE  RingOf(fl2, w2)
<1> USE DEF Truncated
<1> DEFINE D(i) == Dist(fl, i)
<1> HIDE DEF D
<1>1. k \in Nat /\ Of(w2) \subseteq Of(w) /\ Of(w) \subseteq Nat
  BY LenProperties DEF Of
<1>2. Gap(fl2) = Gap(fl) /\ \A i : Dist(fl2, i) = D(i)
  BY SameRear DEF D
<1>3. \A i \in Index : D(i) \in Nat
  BY DistNat DEF D
<1>4. \A j \in Of(w) : w[j].slot \in Index
  BY InstAt
<1>5. SlotsTyped(fl2)
  BY <1>2 DEF RingOf, SlotsTyped
<1>6. \A j \in Of(w2) : w2[j].dst /= None =>
         fl2.slot[w2[j].slot] = w2[j].phys /\ D(w2[j].slot) > 0
  BY <1>1 DEF RingOf, D
<1>7. \A j, m \in Of(w2) : j < m =>
         IF w2[m].dst /= None THEN D(w2[j].slot) < D(w2[m].slot)
                              ELSE D(w2[j].slot) <= D(w2[m].slot)
  BY <1>1 DEF RingOf, D
<1>8. \A j \in Of(w2) : D(w2[j].slot) <= D(fl2.front)
  <2> TAKE j \in Of(w2)
  <2>1. D(w[j].slot) \in Nat /\ D(w[k].slot) \in Nat
    BY <1>1, <1>3, <1>4
  <2>2. CASE j = k BY <2>1, <2>2
  <2>3. CASE j < k
    <3>1. IF w[k].dst /= None THEN D(w[j].slot) < D(w[k].slot)
                              ELSE D(w[j].slot) <= D(w[k].slot)
      BY <2>3, <1>1 DEF RingOf, D
    <3> QED BY <3>1, <2>1
  <2> QED BY <2>2, <2>3, <1>1
<1>9. \A i \in Index : 0 < D(i) /\ D(i) <= D(fl2.front) =>
         \E j \in Of(w2) : w2[j].dst /= None /\ w2[j].slot = i
  <2> SUFFICES ASSUME NEW i \in Index, 0 < D(i), D(i) <= D(w[k].slot)
               PROVE  \E j \in Of(w2) : w2[j].dst /= None /\ w2[j].slot = i
    OBVIOUS
  <2>1. D(w[k].slot) <= D(fl.front)
    BY DEF RingOf, D
  <2>2. D(i) \in Nat /\ D(w[k].slot) \in Nat /\ D(fl.front) \in Nat
    BY <1>3, <1>4
  <2>3. D(i) <= D(fl.front)
    BY <2>1, <2>2
  <2>4. PICK j \in Of(w) : w[j].dst /= None /\ w[j].slot = i
    BY <2>3 DEF RingOf, D
  <2>5. ~(k < j)
    <3>1. SUFFICES ASSUME k < j PROVE FALSE
      OBVIOUS
    <3>2. D(w[k].slot) < D(w[j].slot)
      BY <3>1, <2>4 DEF RingOf, D
    <3> QED BY <3>2, <2>2, <2>4
  <2>6. j \in 1 .. k
    BY <2>5, <1>1 DEF Of
  <2> QED BY <2>4, <2>6
<1>10. \A j \in Of(w2) : w2[j].dst /= None =>
         fl2.slot[w2[j].slot] = w2[j].phys /\ Dist(fl2, w2[j].slot) > 0
  BY <1>2, <1>6
<1>11. \A j, m \in Of(w2) : j < m =>
         IF w2[m].dst /= None THEN Dist(fl2, w2[j].slot) < Dist(fl2, w2[m].slot)
                         ELSE Dist(fl2, w2[j].slot) <= Dist(fl2, w2[m].slot)
  BY <1>2, <1>7
<1>12. \A j \in Of(w2) : Dist(fl2, w2[j].slot) <= Dist(fl2, fl2.front)
  BY <1>2, <1>8
<1>13. \A i \in Index : 0 < Dist(fl2, i) /\ Dist(fl2, i) <= Dist(fl2, fl2.front) =>
         \E j \in Of(w2) : w2[j].dst /= None /\ w2[j].slot = i
  BY <1>2, <1>9
<1> QED BY <1>5, <1>10, <1>11, <1>12, <1>13 DEF RingOf

(* A squash: the front goes to the gap and nobody is in flight.            *)
LEMMA RingEmpty ==
  ASSUME NEW w2, Of(w2) = {}, NEW fl, fl.rear \in Index, SlotsTyped(fl),
         NEW fl2, fl2.rear = fl.rear, fl2.slot = fl.slot,
         fl2.front = Gap(fl)
  PROVE  RingOf(fl2, w2)
<1>1. Gap(fl2) = Gap(fl) /\ \A i : Dist(fl2, i) = Dist(fl, i)
  BY SameRear
<1>2. \A i \in Index : Dist(fl, i) \in Nat
  BY DistNat
<1>3. Dist(fl, fl2.front) = 0
  BY DistRange
<1>4. SlotsTyped(fl2)
  BY <1>1 DEF SlotsTyped
<1>5. \A i \in Index : ~(0 < Dist(fl2, i) /\ Dist(fl2, i) <= Dist(fl2, fl2.front))
  BY <1>1, <1>2, <1>3
<1> QED BY <1>4, <1>5 DEF RingOf

(* The oldest writer owns the slot right behind the gap.                   *)
LEMMA OldestOwns ==
  ASSUME NEW w \in Seq(Inst), 1 \in Of(w), w[1].dst /= None,
         NEW fl, fl.front \in Index, fl.rear \in Index, RingOf(fl, w)
  PROVE  /\ w[1].slot = Succ(Gap(fl))
         /\ Dist(fl, w[1].slot) = 1
         /\ fl.front /= Gap(fl)
         /\ Gap(fl) /= fl.rear
<1>1. /\ w[1].slot \in Index /\ Gap(fl) \in Index
      /\ Dist(fl, w[1].slot) \in Nat /\ Dist(fl, fl.front) \in Nat
  BY InstAt, DistNat, DistRange
<1>2. 0 < Dist(fl, w[1].slot) /\ Dist(fl, w[1].slot) <= Dist(fl, fl.front)
  BY <1>1 DEF RingOf
<1>3. Dist(fl, Gap(fl)) = 0
  BY <1>1, DistRange
<1>4. Dist(fl, fl.rear) = ListSize
  BY DistRange
<1>5. Gap(fl) /= fl.rear
  BY <1>3, <1>4, Sizes
<1>6. Dist(fl, Succ(Gap(fl))) = 1 /\ Succ(Gap(fl)) \in Index
  BY <1>1, <1>3, <1>5, DistSucc, SuccIs
<1>7. PICK k \in Of(w) : w[k].dst /= None /\ w[k].slot = Succ(Gap(fl))
  <2>1. 0 < Dist(fl, Succ(Gap(fl))) /\ Dist(fl, Succ(Gap(fl))) <= Dist(fl, fl.front)
    BY <1>1, <1>2, <1>6
  <2> QED BY <1>6, <2>1 DEF RingOf
<1>8. k = 1
  <2>1. SUFFICES ASSUME 1 < k PROVE FALSE
    BY LenProperties DEF Of
  <2>2. Dist(fl, w[1].slot) < Dist(fl, w[k].slot)
    BY <2>1, <1>7 DEF RingOf
  <2> QED BY <2>2, <1>1, <1>2, <1>6, <1>7
<1> QED BY <1>2, <1>3, <1>5, <1>6, <1>7, <1>8

(* The free list and the committed map when instruction i has committed.   *)
Freed(fl, amt, i) == IF i.dst = None THEN fl ELSE Add(fl, amt[i.dst])
Taken(amt, i)     == IF i.dst = None THEN amt ELSE [amt EXCEPT ![i.dst] = i.phys]

(* A commit: the oldest leaves; if it wrote, the gap takes the register    *)
(* that is freed and the oldest's slot becomes the gap.                    *)
LEMMA RingCommit ==
  ASSUME NEW w \in Seq(Inst), Len(w) > 0,
         NEW fl, fl \in QueueOf(PhysReg \cup {None}), RingOf(fl, w),
         NEW amt \in [LogReg -> PhysReg]
  PROVE  RingOf(Freed(fl, amt, w[1]), Tail(w))
<1> DEFINE w2  == Tail(w)
           fl2 == Freed(fl, amt, w[1])
           r   == amt[w[1].dst]
<1>a. fl2 = IF w[1].dst = None THEN fl ELSE Add(fl, r)
  BY DEF Freed
<1>b. w2 = Tail(w)
  OBVIOUS
<1> SUFFICES RingOf(fl2, w2)
  OBVIOUS
<1> HIDE DEF w2, fl2, r
<1>1. /\ w2 \in Seq(Inst) /\ Len(w) \in Nat /\ Of(w) = 1 .. Len(w)
      /\ 1 \in Of(w) /\ Of(w2) = 1 .. Len(w) - 1
      /\ \A k \in Of(w2) : k + 1 \in Of(w) /\ w2[k] = w[k + 1]
  BY <1>b, OfTail
<1>2. fl.front \in Index /\ fl.rear \in Index
  BY DEF QueueOf
<1>3. \A i \in Index : Dist(fl, i) \in Nat
  BY <1>2, DistNat
<1>4. \A k \in Of(w) : w[k].slot \in Index
  BY InstAt
<1>5. ASSUME NEW i \in Index, NEW k \in Of(w), k /= 1, w[k].dst /= None, w[k].slot = i
      PROVE  \E j \in Of(w2) : w2[j].dst /= None /\ w2[j].slot = i
  <2>1. k - 1 \in Of(w2) /\ (k - 1) + 1 = k
    BY <1>1, <1>5
  <2>2. w2[k - 1] = w[k]
    BY <2>1, <1>1
  <2> QED BY <2>1, <2>2, <1>5
<1>6. CASE w[1].dst = None
  <2>1. fl2 = fl
    BY <1>6, <1>a
  <2>2. \A k \in Of(w2) : w2[k].dst /= None =>
          fl.slot[w2[k].slot] = w2[k].phys /\ Dist(fl, w2[k].slot) > 0
    BY <1>1 DEF RingOf
  <2>3. \A j, k \in Of(w2) : j < k =>
          IF w2[k].dst /= None THEN Dist(fl, w2[j].slot) < Dist(fl, w2[k].slot)
                               ELSE Dist(fl, w2[j].slot) <= Dist(fl, w2[k].slot)
    <3> TAKE j, k \in Of(w2)
    <3>1. j < k => j + 1 < k + 1
      BY <1>1
    <3>2. /\ j + 1 \in Of(w) /\ w2[j] = w[j + 1]
          /\ k + 1 \in Of(w) /\ w2[k] = w[k + 1]
      BY <1>1
    <3>3. \A a, b \in Of(w) : a < b =>
            IF w[b].dst /= None THEN Dist(fl, w[a].slot) < Dist(fl, w[b].slot)
                                ELSE Dist(fl, w[a].slot) <= Dist(fl, w[b].slot)
      BY DEF RingOf
    <3> QED BY <3>1, <3>2, <3>3
  <2>4. \A k \in Of(w2) : Dist(fl, w2[k].slot) <= Dist(fl, fl.front)
    BY <1>1 DEF RingOf
  <2>5. \A i \in Index : 0 < Dist(fl, i) /\ Dist(fl, i) <= Dist(fl, fl.front) =>
          \E j \in Of(w2) : w2[j].dst /= None /\ w2[j].slot = i
    <3> SUFFICES ASSUME NEW i \in Index, 0 < Dist(fl, i), Dist(fl, i) <= Dist(fl, fl.front)
                 PROVE  \E j \in Of(w2) : w2[j].dst /= None /\ w2[j].slot = i
      OBVIOUS
    <3>1. PICK k \in Of(w) : w[k].dst /= None /\ w[k].slot = i
      BY DEF RingOf
    <3> QED BY <3>1, <1>5, <1>6
  <2>6. SlotsTyped(fl)
    BY DEF RingOf
  <2>7. RingOf(fl, w2)
    BY <2>2, <2>3, <2>4, <2>5, <2>6 DEF RingOf
  <2> QED BY <2>1, <2>7
<1>7. CASE w[1].dst /= None
  <2> DEFINE g == Gap(fl)
  <2>1. /\ fl2 = Add(fl, r) /\ g \in Index
        /\ w[1].slot = Succ(g) /\ Dist(fl, w[1].slot) = 1
        /\ fl.front /= g /\ r \in PhysReg
    <3>1. w[1].dst \in LogReg
      BY <1>1, <1>7, InstAt
    <3>2. r \in PhysReg
      BY <3>1 DEF r
    <3> QED BY <1>a, <1>1, <1>2, <1>7, <3>2, OldestOwns, DistRange
  <2>2. /\ fl2.front = fl.front /\ fl2.rear = g /\ g = Succ(fl.rear)
        /\ \A i \in Index : fl2.slot[i] = IF i = g THEN r ELSE fl.slot[i]
        /\ Gap(fl2) = Succ(g) /\ Gap(fl2) = w[1].slot
    <3>1. fl.slot \in [Index -> PhysReg \cup {None}]
      BY DEF QueueOf
    <3>2. /\ fl2.front = fl.front /\ fl2.rear = Succ(fl.rear)
          /\ fl2.slot = [fl.slot EXCEPT ![Succ(fl.rear)] = r]
      BY <2>1 DEF Add, QueueOf
    <3> QED BY <2>1, <3>1, <3>2 DEF Gap
  <2>3. \A i \in Index : Dist(fl2, i) = IF i = g THEN ListSize ELSE Dist(fl, i) - 1
    BY <1>2, <2>2, DistAdd
  <2>4. \A i \in Index : Dist(fl, i) = 0 <=> i = g
    BY <1>2, DistRange
  <2> HIDE DEF g
  <2>5. SlotsTyped(fl2)
    BY <2>1, <2>2 DEF RingOf, SlotsTyped, g
  <2>6. /\ Dist(fl2, fl2.front) = Dist(fl, fl.front) - 1
        /\ Dist(fl, fl.front) \in Nat
    BY <1>2, <1>3, <2>1, <2>2, <2>3
  <2>7. \A k \in Of(w) : k /= 1 =>
          /\ w[k].slot /= g
          /\ Dist(fl2, w[k].slot) = Dist(fl, w[k].slot) - 1
          /\ Dist(fl, w[k].slot) \in Nat \ {0}
          /\ w[k].dst /= None => Dist(fl, w[k].slot) > 1
    <3> SUFFICES ASSUME NEW k \in Of(w), k /= 1
                 PROVE  /\ w[k].slot /= g
                        /\ Dist(fl2, w[k].slot) = Dist(fl, w[k].slot) - 1
                        /\ Dist(fl, w[k].slot) \in Nat \ {0}
                        /\ w[k].dst /= None => Dist(fl, w[k].slot) > 1
      OBVIOUS
    <3>1. 1 < k BY <1>1
    <3>2. IF w[k].dst /= None THEN 1 < Dist(fl, w[k].slot) ELSE 1 <= Dist(fl, w[k].slot)
      BY <3>1, <2>1, <1>1 DEF RingOf
    <3>3. Dist(fl, w[k].slot) \in Nat
      BY <1>3, <1>4
    <3>4. Dist(fl, w[k].slot) \in Nat \ {0}
      BY <3>2, <3>3
    <3>5. w[k].slot /= g
      BY <3>4, <2>4, <1>4
    <3> QED BY <1>4, <2>3, <3>2, <3>3, <3>4, <3>5
  <2>8. \A k \in Of(w2) : w2[k].dst /= None =>
          fl2.slot[w2[k].slot] = w2[k].phys /\ Dist(fl2, w2[k].slot) > 0
    <3> SUFFICES ASSUME NEW k \in Of(w2), w2[k].dst /= None
                 PROVE  fl2.slot[w2[k].slot] = w2[k].phys /\ Dist(fl2, w2[k].slot) > 0
      OBVIOUS
    <3>1. w2[k] = w[k + 1] /\ k + 1 \in Of(w) /\ k + 1 /= 1
      BY <1>1
    <3>2. fl.slot[w[k + 1].slot] = w[k + 1].phys
      BY <3>1 DEF RingOf
    <3>3. /\ w[k + 1].slot /= g /\ w[k + 1].slot \in Index
          /\ Dist(fl2, w[k + 1].slot) = Dist(fl, w[k + 1].slot) - 1
          /\ Dist(fl, w[k + 1].slot) \in Nat /\ Dist(fl, w[k + 1].slot) > 1
      BY <1>4, <2>7, <3>1
    <3>4. fl2.slot[w[k + 1].slot] = fl.slot[w[k + 1].slot]
      BY <2>2, <3>3
    <3>5. Dist(fl2, w[k + 1].slot) > 0
      BY <3>3
    <3> QED BY <3>1, <3>2, <3>4, <3>5
  <2>9. \A j, k \in Of(w2) : j < k =>
          IF w2[k].dst /= None THEN Dist(fl2, w2[j].slot) < Dist(fl2, w2[k].slot)
                               ELSE Dist(fl2, w2[j].slot) <= Dist(fl2, w2[k].slot)
    <3> SUFFICES ASSUME NEW j \in Of(w2), NEW k \in Of(w2), j < k
                 PROVE
          IF w2[k].dst /= None THEN Dist(fl2, w2[j].slot) < Dist(fl2, w2[k].slot)
                               ELSE Dist(fl2, w2[j].slot) <= Dist(fl2, w2[k].slot)
      OBVIOUS
    <3>1. /\ w2[k] = w[k + 1] /\ k + 1 \in Of(w) /\ k + 1 /= 1
          /\ w2[j] = w[j + 1] /\ j + 1 \in Of(w) /\ j + 1 /= 1 /\ j + 1 < k + 1
      BY <1>1
    <3>2. IF w[k + 1].dst /= None
          THEN Dist(fl, w[j + 1].slot) < Dist(fl, w[k + 1].slot)
          ELSE Dist(fl, w[j + 1].slot) <= Dist(fl, w[k + 1].slot)
      BY <3>1 DEF RingOf
    <3>3. /\ Dist(fl2, w[k + 1].slot) = Dist(fl, w[k + 1].slot) - 1
          /\ Dist(fl, w[k + 1].slot) \in Nat
          /\ Dist(fl2, w[j + 1].slot) = Dist(fl, w[j + 1].slot) - 1
          /\ Dist(fl, w[j + 1].slot) \in Nat
      BY <2>7, <3>1
    <3>4. IF w[k + 1].dst /= None
          THEN Dist(fl2, w[j + 1].slot) < Dist(fl2, w[k + 1].slot)
          ELSE Dist(fl2, w[j + 1].slot) <= Dist(fl2, w[k + 1].slot)
      BY <3>2, <3>3
    <3> QED BY <3>1, <3>4
  <2>10. \A k \in Of(w2) : Dist(fl2, w2[k].slot) <= Dist(fl2, fl2.front)
    <3> TAKE k \in Of(w2)
    <3>1. w2[k] = w[k + 1] /\ k + 1 \in Of(w) /\ k + 1 /= 1
      BY <1>1
    <3>2. Dist(fl, w[k + 1].slot) <= Dist(fl, fl.front)
      BY <3>1 DEF RingOf
    <3>3. /\ Dist(fl2, w[k + 1].slot) = Dist(fl, w[k + 1].slot) - 1
          /\ Dist(fl, w[k + 1].slot) \in Nat
      BY <2>7, <3>1
    <3>4. Dist(fl2, w[k + 1].slot) <= Dist(fl2, fl2.front)
      BY <2>6, <3>2, <3>3
    <3> QED BY <3>1, <3>4
  <2>11. ASSUME NEW i \in Index, 0 < Dist(fl2, i), Dist(fl2, i) <= Dist(fl2, fl2.front)
         PROVE  \E j \in Of(w2) : w2[j].dst /= None /\ w2[j].slot = i
    <3>1. /\ Dist(fl, fl.front) \in Nat /\ Dist(fl, fl.front) <= ListSize
          /\ Dist(fl, i) \in Nat
      BY <1>2, DistNat
    <3>2. i /= g
      BY <3>1, <2>3, <2>6, <2>11, Sizes
    <3>3. /\ Dist(fl2, i) = Dist(fl, i) - 1
          /\ 1 < Dist(fl, i) /\ Dist(fl, i) <= Dist(fl, fl.front) /\ 0 < Dist(fl, i)
      BY <3>1, <3>2, <2>3, <2>6, <2>11
    <3>4. PICK k \in Of(w) : w[k].dst /= None /\ w[k].slot = i
      BY <3>3 DEF RingOf
    <3>5. k /= 1
      BY <3>3, <3>4, <2>1
    <3> QED BY <3>4, <3>5, <1>5
  <2> QED BY <2>5, <2>8, <2>9, <2>10, <2>11 DEF RingOf
<1> QED BY <1>6, <1>7

(***************************************************************************)
(* Who holds the registers.                                                *)
(***************************************************************************)
(* Moving the front of the free list changes nothing of who holds what.    *)
LEMMA HeldSame ==
  ASSUME NEW fl, NEW amt, HeldOf(fl, amt),
         NEW fl2, fl2.rear = fl.rear, fl2.slot = fl.slot
  PROVE  HeldOf(fl2, amt)
<1>1. Gap(fl2) = Gap(fl)
  BY DEF Gap
<1> QED BY <1>1 DEF HeldOf

(* A commit swaps: the register the committed map loses goes to the old    *)
(* gap, the one it takes was in the slot that is the gap now.              *)
LEMMA HeldCommit ==
  ASSUME NEW w \in Seq(Inst), 1 \in Of(w),
         NEW fl, fl \in QueueOf(PhysReg \cup {None}), RingOf(fl, w),
         NEW amt \in [LogReg -> PhysReg], HeldOf(fl, amt)
  PROVE  HeldOf(Freed(fl, amt, w[1]), Taken(amt, w[1]))
<1> DEFINE fl2  == Freed(fl, amt, w[1])
           amt2 == Taken(amt, w[1])
<1>a. /\ fl2 = IF w[1].dst = None THEN fl ELSE Add(fl, amt[w[1].dst])
      /\ amt2 = IF w[1].dst = None THEN amt ELSE [amt EXCEPT ![w[1].dst] = w[1].phys]
  BY DEF Freed, Taken
<1> SUFFICES HeldOf(fl2, amt2)
  OBVIOUS
<1> HIDE DEF fl2, amt2
<1>1. CASE w[1].dst = None
  BY <1>a, <1>1
<1>2. CASE w[1].dst /= None
  <2> DEFINE g == Gap(fl)
             s == w[1].slot
             l == w[1].dst
  <2>1. /\ fl.front \in Index /\ fl.rear \in Index
        /\ fl.slot \in [Index -> PhysReg \cup {None}]
    BY DEF QueueOf
  <2>2. /\ s = Succ(g) /\ Dist(fl, s) = 1 /\ s \in Index /\ g \in Index
        /\ l \in LogReg
    BY <1>2, <2>1, OldestOwns, DistRange, InstAt
  <2>3. s /= g
    BY <2>1, <2>2, DistRange
  <2>4. fl.slot[s] = w[1].phys
    BY <1>2 DEF RingOf
  <2>5. /\ fl2.rear = g /\ Gap(fl2) = s
        /\ \A i \in Index : fl2.slot[i] = IF i = g THEN amt[l] ELSE fl.slot[i]
    <3>1. /\ fl2.rear = Succ(fl.rear)
          /\ fl2.slot = [fl.slot EXCEPT ![Succ(fl.rear)] = amt[l]]
      BY <1>a, <1>2 DEF Add, QueueOf
    <3> QED BY <3>1, <2>1, <2>2 DEF Gap
  <2>6. \A m \in LogReg : amt2[m] = IF m = l THEN fl.slot[s] ELSE amt[m]
    BY <1>a, <1>2, <2>4
  <2> HIDE DEF g, s, l
  <2>7. /\ \A i, j \in Index \ {g} : fl.slot[i] = fl.slot[j] => i = j
        /\ \A k, m \in LogReg : amt[k] = amt[m] => k = m
        /\ \A i \in Index \ {g}, m \in LogReg : fl.slot[i] /= amt[m]
        /\ \A r \in PhysReg : \/ \E i \in Index \ {g} : fl.slot[i] = r
                              \/ \E m \in LogReg : amt[m] = r
    BY DEF HeldOf, g
  <2>8. \A i, j \in Index \ {s} : fl2.slot[i] = fl2.slot[j] => i = j
    BY <2>2, <2>3, <2>5, <2>7
  <2>9. \A k, m \in LogReg : amt2[k] = amt2[m] => k = m
    BY <2>2, <2>3, <2>6, <2>7
  <2>10. \A i \in Index \ {s}, m \in LogReg : fl2.slot[i] /= amt2[m]
    BY <2>2, <2>3, <2>5, <2>6, <2>7
  <2>11. \A r \in PhysReg : \/ \E i \in Index \ {s} : fl2.slot[i] = r
                            \/ \E m \in LogReg : amt2[m] = r
    <3> TAKE r \in PhysReg
    <3>1. CASE \E i \in Index \ {g} : fl.slot[i] = r
      <4>1. PICK i \in Index \ {g} : fl.slot[i] = r
        BY <3>1
      <4>2. CASE i = s
        BY <4>1, <4>2, <2>2, <2>6
      <4>3. CASE i /= s
        BY <4>1, <4>3, <2>5
      <4> QED BY <4>2, <4>3
    <3>2. CASE \E m \in LogReg : amt[m] = r
      <4>1. PICK m \in LogReg : amt[m] = r
        BY <3>2
      <4>2. CASE m = l
        BY <4>1, <4>2, <2>2, <2>3, <2>5
      <4>3. CASE m /= l
        BY <4>1, <4>3, <2>6
      <4> QED BY <4>2, <4>3
    <3> QED BY <3>1, <3>2, <2>7
  <2> QED BY <2>5, <2>8, <2>9, <2>10, <2>11 DEF HeldOf
<1> QED BY <1>1, <1>2

(***************************************************************************)
(* The active list.                                                        *)
(***************************************************************************)
(* The place k slots behind the front.                                     *)
LEMMA AtIs ==
  ASSUME NEW i \in Index, NEW k \in 0 .. Maxsize
  PROVE  /\ At(i, k) = IF i + k >= Maxsize THEN i + k - Maxsize ELSE i + k
         /\ At(i, k) \in Index
<1>1. At(i, k) = IF i + k >= Maxsize THEN i + k - Maxsize ELSE i + k
  BY Wrap DEF At
<1> QED BY <1>1, Sizes

(* No slots behind is the front itself, and so is a whole turn.            *)
LEMMA AtEnds ==
  ASSUME NEW i \in Index
  PROVE  At(i, 0) = i /\ At(i, Maxsize) = i
<1>1. 0 \in 0 .. Maxsize /\ Maxsize \in 0 .. Maxsize
  BY Sizes
<1>2. /\ At(i, 0) = IF i + 0 >= Maxsize THEN i + 0 - Maxsize ELSE i + 0
      /\ At(i, Maxsize) = IF i + Maxsize >= Maxsize
                          THEN i + Maxsize - Maxsize ELSE i + Maxsize
  BY <1>1, AtIs
<1> QED BY <1>2, Sizes

(* One place on from either end.                                           *)
LEMMA AtSucc ==
  ASSUME NEW i \in Index, NEW k \in 0 .. ListSize
  PROVE  /\ Succ(At(i, k)) = At(i, k + 1)
         /\ At(Succ(i), k) = At(i, k + 1)
<1>1. k \in 0 .. Maxsize /\ k + 1 \in 0 .. Maxsize
  BY Sizes
<1>2. /\ At(i, k) = IF i + k >= Maxsize THEN i + k - Maxsize ELSE i + k
      /\ At(i, k) \in Index
      /\ At(i, k + 1) = IF i + (k + 1) >= Maxsize
                        THEN i + (k + 1) - Maxsize ELSE i + (k + 1)
  BY <1>1, AtIs
<1>3. /\ Succ(At(i, k)) = IF At(i, k) = ListSize THEN 0 ELSE At(i, k) + 1
      /\ Succ(i) = IF i = ListSize THEN 0 ELSE i + 1
      /\ Succ(i) \in Index
  BY <1>2, SuccIs
<1>4. At(Succ(i), k) = IF Succ(i) + k >= Maxsize THEN Succ(i) + k - Maxsize
                       ELSE Succ(i) + k
  BY <1>1, <1>3, AtIs
<1> QED BY <1>2, <1>3, <1>4, Sizes

(* Different distances are different places.                               *)
LEMMA AtInjective ==
  ASSUME NEW i \in Index, NEW j \in 0 .. ListSize, NEW k \in 0 .. ListSize,
         At(i, j) = At(i, k)
  PROVE  j = k
<1>1. j \in 0 .. Maxsize /\ k \in 0 .. Maxsize
  BY Sizes
<1>2. /\ At(i, j) = IF i + j >= Maxsize THEN i + j - Maxsize ELSE i + j
      /\ At(i, k) = IF i + k >= Maxsize THEN i + k - Maxsize ELSE i + k
  BY <1>1, AtIs
<1>3. /\ i \in Nat /\ j \in Nat /\ k \in Nat /\ ListSize \in Nat
      /\ i <= ListSize /\ j <= ListSize /\ k <= ListSize /\ Maxsize = ListSize + 1
  BY Sizes
<1>4. (IF i + j >= Maxsize THEN i + j - Maxsize ELSE i + j) =
      (IF i + k >= Maxsize THEN i + k - Maxsize ELSE i + k)
  BY <1>2
<1> QED BY ONLY <1>3, <1>4

(***************************************************************************)
(* The active list.                                                        *)
(***************************************************************************)
(* A renamed instruction is not in the active list yet.                    *)
LEMMA ListAppend ==
  ASSUME NEW w \in Seq(Inst), NEW new \in Inst, new.alx = None,
         NEW al, ListOf(al, w)
  PROVE  ListOf(al, Append(w, new))
<1> DEFINE w2 == Append(w, new)
<1>1. /\ Of(w2) = Of(w) \cup {Len(w) + 1} /\ Of(w) = 1 .. Len(w)
      /\ Len(w) \in Nat /\ Len(w2) = Len(w) + 1
      /\ w2[Len(w) + 1] = new /\ \A k \in Of(w) : w2[k] = w[k]
  BY OfAppend
<1> HIDE DEF w2
<1>2. PICK n \in 0 .. Len(w) : n <= ListSize /\ ListUpTo(al, w, n)
  BY DEF ListOf
<1>3. \A k \in Of(w2) : w2[k].alx /= None <=> k <= n
  <2> TAKE k \in Of(w2)
  <2>1. CASE k \in Of(w)
    BY <2>1, <1>1, <1>2 DEF ListUpTo
  <2>2. CASE k = Len(w) + 1
    BY <2>2, <1>1
  <2> QED BY <2>1, <2>2, <1>1
<1>4. \A k \in 1 .. n : EntryOf(al, w2[k], k)
  BY <1>1, <1>2 DEF ListUpTo
<1>5. n \in 0 .. Len(w2) /\ al.rear = At(al.front, n)
  BY <1>1, <1>2 DEF ListUpTo
<1>6. ListUpTo(al, w2, n)
  BY <1>3, <1>4, <1>5 DEF ListUpTo
<1>7. ListOf(al, w2)
  BY <1>2, <1>5, <1>6 DEF ListOf
<1> QED BY <1>7 DEF w2

(* A step that changes no place in the list and completes no branch.       *)
LEMMA ListSame ==
  ASSUME NEW w, NEW w2, Of(w2) = Of(w), Len(w2) = Len(w), Len(w) \in Nat,
         \A k \in Of(w) : /\ w2[k].dst = w[k].dst /\ w2[k].phys = w[k].phys
                          /\ w2[k].sys = w[k].sys /\ w2[k].alx = w[k].alx
                          /\ w2[k].br = w[k].br \/ w2[k].br = None,
         NEW al, ListOf(al, w)
  PROVE  ListOf(al, w2)
<1>1. PICK n \in 0 .. Len(w) : n <= ListSize /\ ListUpTo(al, w, n)
  BY DEF ListOf
<1>2. \A k \in 1 .. n : EntryOf(al, w2[k], k)
  <2> TAKE k \in 1 .. n
  <2>1. k \in Of(w)
    BY DEF Of
  <2>2. EntryOf(al, w[k], k)
    BY <1>1 DEF ListUpTo
  <2> QED BY <2>1, <2>2 DEF EntryOf, EntryFor
<1>3. ListUpTo(al, w2, n)
  BY <1>1, <1>2 DEF ListUpTo
<1> QED BY <1>1, <1>3 DEF ListOf

(* The places of the dispatched instructions are all different.            *)
LEMMA PlacesDiffer ==
  ASSUME NEW w \in Seq(Inst), NEW al, al.front \in Index,
         NEW n \in 0 .. Len(w), n <= ListSize, ListUpTo(al, w, n),
         NEW j \in 1 .. n, NEW k \in 1 .. n, w[j].alx = w[k].alx
  PROVE  j = k
<1>1. w[j].alx = At(al.front, j) /\ w[k].alx = At(al.front, k)
  BY DEF ListUpTo, EntryOf
<1>2. j \in 0 .. ListSize /\ k \in 0 .. ListSize
  BY LenProperties, Sizes
<1> QED BY <1>1, <1>2, AtInjective

(* set_complete, and the setters of the marks.                             *)
PutSlot(q, r, x, e) == \A i \in Index : r.slot[i] = IF i = x THEN e ELSE q.slot[i]

(* One entry is replaced by another for the same instruction.              *)
LEMMA ListEntry ==
  ASSUME NEW w \in Seq(Inst), NEW k \in Of(w), w[k].alx /= None,
         NEW al \in QueueOf(ALEntry \cup {None}), ListOf(al, w),
         NEW e, EntryFor(e, w[k]),
         NEW al2, al2.front = al.front, al2.rear = al.rear,
         PutSlot(al, al2, w[k].alx, e)
  PROVE  ListOf(al2, w)
<1>1. PICK n \in 0 .. Len(w) : n <= ListSize /\ ListUpTo(al, w, n)
  BY DEF ListOf
<1>2. k \in 1 .. n /\ Len(w) \in Nat
  BY <1>1, LenProperties DEF ListUpTo, Of
<1>3. al.front \in Index /\ al.slot \in [Index -> ALEntry \cup {None}]
  BY DEF QueueOf
<1>4. \A j \in 1 .. n : EntryOf(al2, w[j], j)
  <2> TAKE j \in 1 .. n
  <2>1. EntryOf(al, w[j], j) /\ EntryOf(al, w[k], k)
    BY <1>1, <1>2 DEF ListUpTo
  <2>2. w[j].alx \in Index /\ w[k].alx \in Index
    <3>1. j \in 0 .. Maxsize /\ k \in 0 .. Maxsize
      BY <1>1, <1>2, Sizes
    <3> QED BY <2>1, <3>1, <1>3, AtIs DEF EntryOf
  <2>3. CASE j = k
    BY <2>1, <2>2, <2>3, <1>3 DEF EntryOf, PutSlot
  <2>4. CASE j /= k
    <3>1. w[j].alx /= w[k].alx
      BY <2>4, <1>1, <1>2, <1>3, PlacesDiffer
    <3>2. al2.slot[w[j].alx] = al.slot[w[j].alx]
      BY <3>1, <2>2, <1>3 DEF PutSlot
    <3> QED BY <2>1, <3>2 DEF EntryOf
  <2> QED BY <2>3, <2>4
<1>5. ListUpTo(al2, w, n)
  BY <1>1, <1>4 DEF ListUpTo
<1> QED BY <1>1, <1>5 DEF ListOf

(* dispatch_inst: the next instruction in program order takes the next     *)
(* slot, and a list that is not full has one.                              *)
NextToDispatch(w, k) == w[k].alx = None /\ \A j \in 1 .. k - 1 : w[j].alx /= None
OthersSame(w, w2, k) == \A j \in Of(w) : j /= k => w2[j] = w[j]

(* Dispatch: the next instruction's entry goes behind the last one.        *)
LEMMA ListDispatch ==
  ASSUME NEW w \in Seq(Inst), NEW k \in Of(w), NextToDispatch(w, k),
         NEW al \in QueueOf(ALEntry \cup {None}), ListOf(al, w), ~IsFull(al),
         NEW e, NEW al2, al2.front = al.front, al2.rear = Gap(al),
         PutSlot(al, al2, Gap(al), e),
         NEW w2, Of(w2) = Of(w), Len(w2) = Len(w),
         OthersSame(w, w2, k), EntryFor(e, w2[k]), w2[k].alx = Gap(al)
  PROVE  ListOf(al2, w2)
<1> USE DEF NextToDispatch, OthersSame
<1>1. PICK n \in 0 .. Len(w) : n <= ListSize /\ ListUpTo(al, w, n)
  BY DEF ListOf
<1>2. k \in Nat /\ 1 <= k /\ k <= Len(w) /\ Len(w) \in Nat
  BY LenProperties DEF Of
<1>3. n = k - 1
  <2>1. ~(k <= n)
    BY <1>1 DEF ListUpTo
  <2>2. ~(n < k - 1)
    <3>1. SUFFICES ASSUME n < k - 1 PROVE FALSE
      OBVIOUS
    <3>2. n + 1 \in 1 .. k - 1 /\ n + 1 \in Of(w) /\ ~(n + 1 <= n)
      BY <3>1, <1>2 DEF Of
    <3> QED BY <3>2, <1>1 DEF ListUpTo
  <2> QED BY <2>1, <2>2, <1>2
<1>4. /\ al.front \in Index /\ al.rear \in Index
      /\ al.slot \in [Index -> ALEntry \cup {None}]
  BY DEF QueueOf
<1>5. n \in 0 .. ListSize /\ al.rear = At(al.front, n)
  BY <1>1 DEF ListUpTo
<1>6. Gap(al) = At(al.front, k) /\ Gap(al) \in Index
  BY <1>2, <1>3, <1>4, <1>5, AtSucc, SuccIs DEF Gap
<1>7. k <= ListSize
  <2>1. al.front /= Gap(al)
    BY <1>4, FullIs
  <2>2. k /= Maxsize
    BY <2>1, <1>4, <1>6, AtEnds
  <2> QED BY <2>2, <1>1, <1>2, <1>3, Sizes
<1>8. /\ al2.front = al.front /\ al2.rear = Gap(al)
      /\ \A i \in Index : al2.slot[i] = IF i = Gap(al) THEN e ELSE al.slot[i]
  BY DEF PutSlot
<1>9. \A j \in 1 .. k : EntryOf(al2, w2[j], j)
  <2> TAKE j \in 1 .. k
  <2>1. CASE j = k
    BY <2>1, <1>6, <1>8 DEF EntryOf
  <2>2. CASE j /= k
    <3>1. j \in 1 .. n /\ j \in Of(w)
      BY <2>2, <1>2, <1>3 DEF Of
    <3>2. EntryOf(al, w[j], j)
      BY <3>1, <1>1 DEF ListUpTo
    <3>3. w2[j] = w[j]
      BY <2>2, <3>1
    <3>4. w[j].alx /= Gap(al) /\ w[j].alx \in Index
      <4>1. j \in 0 .. ListSize /\ k \in 0 .. ListSize /\ j \in 0 .. Maxsize
        BY <1>2, <1>7, Sizes
      <4>2. w[j].alx = At(al.front, j)
        BY <3>2 DEF EntryOf
      <4> QED BY <4>1, <4>2, <2>2, <1>4, <1>6, AtInjective, AtIs
    <3>5. al2.slot[w[j].alx] = al.slot[w[j].alx]
      BY <3>4, <1>8
    <3> QED BY <3>2, <3>3, <3>5, <1>8 DEF EntryOf
  <2> QED BY <2>1, <2>2
<1>10. \A j \in Of(w2) : w2[j].alx /= None <=> j <= k
  <2> TAKE j \in Of(w2)
  <2>1. CASE j = k
    BY <2>1, <1>2, <1>6, <1>8, Sizes
  <2>2. CASE j /= k
    <3>1. w[j].alx /= None <=> j <= n
      BY <1>1 DEF ListUpTo
    <3>2. j \in Nat /\ w2[j] = w[j]
      BY <2>2 DEF Of
    <3> QED BY <2>2, <3>1, <3>2, <1>2, <1>3
  <2> QED BY <2>1, <2>2
<1>11. ListUpTo(al2, w2, k)
  BY <1>6, <1>8, <1>9, <1>10 DEF ListUpTo
<1>12. k \in 0 .. Len(w2)
  BY <1>2
<1> QED BY <1>7, <1>11, <1>12 DEF ListOf

(* A misprediction of instruction k moves the tail back to its place.      *)
LEMMA ListTruncate ==
  ASSUME NEW w \in Seq(Inst), NEW k \in Of(w), w[k].alx /= None,
         NEW w2, Truncated(w, w2, k),
         NEW al, ListOf(al, w),
         NEW al2, al2.front = al.front, al2.slot = al.slot,
         al2.rear = w[k].alx
  PROVE  ListOf(al2, w2)
<1> USE DEF Truncated
<1>1. PICK n \in 0 .. Len(w) : n <= ListSize /\ ListUpTo(al, w, n)
  BY DEF ListOf
<1>2. k \in Nat /\ 1 <= k /\ k <= Len(w) /\ Len(w) \in Nat
  BY LenProperties DEF Of
<1>3. k <= n /\ k \in 1 .. n
  BY <1>1, <1>2 DEF ListUpTo
<1>4. \A j \in 1 .. k : EntryOf(al, w[j], j)
  BY <1>1, <1>2, <1>3 DEF ListUpTo
<1>5. \A j \in 1 .. k : EntryOf(al2, w2[j], j)
  BY <1>4 DEF EntryOf, EntryFor
<1>6. al2.rear = At(al2.front, k)
  BY <1>2, <1>4 DEF EntryOf
<1>7. \A j \in Of(w2) : w2[j].alx /= None <=> j <= k
  <2> TAKE j \in Of(w2)
  <2>1. j \in Of(w) /\ j <= n /\ j <= k
    BY <1>1, <1>2, <1>3 DEF Of
  <2> QED BY <2>1, <1>1 DEF ListUpTo
<1>8. ListUpTo(al2, w2, k)
  BY <1>5, <1>6, <1>7 DEF ListUpTo
<1>9. k \in 0 .. Len(w2) /\ k <= ListSize
  BY <1>1, <1>2, <1>3, Sizes
<1> QED BY <1>8, <1>9 DEF ListOf

(* The head of a list that is not empty is the oldest instruction.         *)
LEMMA HeadIsOldest ==
  ASSUME NEW w \in Seq(Inst), NEW al \in QueueOf(ALEntry \cup {None}),
         ListOf(al, w), ~IsEmpty(al)
  PROVE  /\ Len(w) > 0 /\ 1 \in Of(w)
         /\ EntryOf(al, w[1], 1)
         /\ al.slot[w[1].alx] = GetHead(al)
<1>1. PICK n \in 0 .. Len(w) : n <= ListSize /\ ListUpTo(al, w, n)
  BY DEF ListOf
<1>2. al.front \in Index /\ al.rear \in Index /\ al.front /= al.rear
  BY FullIs DEF QueueOf
<1>3. n /= 0
  BY <1>1, <1>2, AtEnds DEF ListUpTo
<1>4. Len(w) \in Nat /\ 1 \in 1 .. n
  BY <1>3, LenProperties
<1>5. EntryOf(al, w[1], 1)
  BY <1>1, <1>4 DEF ListUpTo
<1>6. At(al.front, 1) = Succ(al.front)
  BY DEF At, Succ
<1> QED BY <1>1, <1>4, <1>5, <1>6 DEF GetHead, EntryOf, Of

(* A commit takes the head off.                                            *)
LEMMA ListCommit ==
  ASSUME NEW w \in Seq(Inst), NEW al \in QueueOf(ALEntry \cup {None}),
         ListOf(al, w), ~IsEmpty(al), NEW al2, al2 = Delete(al),
         NEW w2, w2 = Tail(w)
  PROVE  ListOf(al2, w2)
<1>1. PICK n \in 0 .. Len(w) : n <= ListSize /\ ListUpTo(al, w, n)
  BY DEF ListOf
<1>2. al.front \in Index /\ al.rear \in Index /\ al.front /= al.rear
  BY FullIs DEF QueueOf
<1>3. n /= 0
  BY <1>1, <1>2, AtEnds DEF ListUpTo
<1>4. Len(w) > 0
  BY HeadIsOldest
<1>5. /\ w2 \in Seq(Inst) /\ Len(w) \in Nat /\ Len(w2) = Len(w) - 1
      /\ Of(w) = 1 .. Len(w) /\ Of(w2) = 1 .. Len(w) - 1
      /\ \A k \in Of(w2) : k + 1 \in Of(w) /\ w2[k] = w[k + 1]
  BY <1>4, OfTail
<1>6. al2.front = Succ(al.front) /\ al2.rear = al.rear /\ al2.slot = al.slot
  BY DEF Delete, QueueOf
<1>7. \A k \in 0 .. ListSize : At(al2.front, k) = At(al.front, k + 1)
  BY <1>2, <1>6, AtSucc
<1>8. al2.rear = At(al2.front, n - 1)
  <2>1. n - 1 \in 0 .. ListSize /\ (n - 1) + 1 = n
    BY <1>1, <1>3, Sizes
  <2>2. At(al2.front, n - 1) = At(al.front, (n - 1) + 1)
    BY <2>1, <1>7
  <2> QED BY <2>1, <2>2, <1>1, <1>6 DEF ListUpTo
<1>9. \A k \in Of(w2) : w2[k].alx /= None <=> k <= n - 1
  <2> TAKE k \in Of(w2)
  <2>1. k \in Nat /\ (k + 1 <= n <=> k <= n - 1)
    BY <1>1, <1>5
  <2>2. w[k + 1].alx /= None <=> k + 1 <= n
    BY <1>1, <1>5 DEF ListUpTo
  <2> QED BY <2>1, <2>2, <1>5
<1>10. \A k \in 1 .. n - 1 : EntryOf(al2, w2[k], k)
  <2> TAKE k \in 1 .. n - 1
  <2>1. k + 1 \in 1 .. n /\ k \in 0 .. ListSize /\ k \in Of(w2)
    BY <1>1, <1>5, Sizes
  <2>2. EntryOf(al, w[k + 1], k + 1)
    BY <2>1, <1>1 DEF ListUpTo
  <2>3. w2[k] = w[k + 1] /\ At(al2.front, k) = At(al.front, k + 1)
    BY <2>1, <1>5, <1>7
  <2> QED BY <2>2, <2>3, <1>6 DEF EntryOf
<1>11. n - 1 \in 0 .. Len(w2) /\ n - 1 <= ListSize
  BY <1>1, <1>3, <1>5, Sizes
<1>12. ListUpTo(al2, w2, n - 1)
  BY <1>8, <1>9, <1>10 DEF ListUpTo
<1> QED BY <1>11, <1>12 DEF ListOf

(* An empty active list serves an empty window.                            *)
LEMMA ListEmpty ==
  ASSUME NEW al, al.front \in Index, al.rear = al.front
  PROVE  ListOf(al, <<>>)
<1>1. Of(<<>>) = {} /\ Len(<<>>) = 0
  BY DEF Of
<1>2. al.rear = At(al.front, 0)
  BY AtEnds
<1>3. ListUpTo(al, <<>>, 0)
  BY <1>1, <1>2 DEF ListUpTo
<1>4. 0 \in 0 .. Len(<<>>) /\ 0 <= ListSize
  BY <1>1, Sizes
<1> QED BY <1>3, <1>4 DEF ListOf

(***************************************************************************)
(* Branch IDs and masks.                                                   *)
(***************************************************************************)
(* Masks depend on the br and mask fields alone.                           *)
LEMMA MaskSame ==
  ASSUME NEW w, NEW w2, Of(w2) = Of(w), NEW gbm, MaskOf(gbm, w),
         \A k \in Of(w) : w2[k].br = w[k].br /\ w2[k].mask = w[k].mask
  PROVE  MaskOf(gbm, w2)
<1>1. \A k \in Of(w) : \A j \in 1 .. k - 1 : j \in Of(w)
  BY DEF Of
<1> QED BY <1>1 DEF MaskOf

(* The IDs in use are the bits of GBM.                                     *)
LEMMA UsedID ==
  ASSUME NEW w \in Seq(Inst), NEW gbm, MaskOf(gbm, w),
         NEW k \in Of(w), w[k].br /= None
  PROVE  w[k].br \in BranchID /\ w[k].br \in gbm
<1>1. w[k].br \in BranchID
  BY InstAt
<1> QED BY <1>1 DEF MaskOf

(* A new branch takes a free bit; its own mask is the bits set before.     *)
LEMMA MaskAppend ==
  ASSUME NEW w \in Seq(Inst), NEW new \in Inst,
         NEW gbm \in SUBSET BranchID, MaskOf(gbm, w),
         new.mask = gbm, new.br \notin gbm,
         NEW gbm2, gbm2 = IF new.br = None THEN gbm ELSE gbm \cup {new.br}
  PROVE  MaskOf(gbm2, Append(w, new))
<1> DEFINE w2 == Append(w, new)
           n  == Len(w) + 1
<1>1. /\ Of(w2) = Of(w) \cup {Len(w) + 1} /\ Of(w) = 1 .. Len(w)
      /\ Len(w) \in Nat /\ Len(w2) = Len(w) + 1
      /\ w2[Len(w) + 1] = new /\ \A k \in Of(w) : w2[k] = w[k]
  BY OfAppend
<1>2. n \in Nat /\ Of(w2) = Of(w) \cup {n} /\ Of(w) = 1 .. n - 1 /\ w2[n] = new
  BY <1>1
<1> HIDE DEF w2, n
<1>3. new.br \in BranchID \cup {None} /\ None \notin BranchID
  BY Sizes DEF Inst
<1>4. \A k \in Of(w) : w[k].br /= None => w[k].br \in gbm
  BY UsedID
<1>5. \A b \in BranchID : b \in gbm2 <=> \E k \in Of(w2) : w2[k].br = b
  <2> TAKE b \in BranchID
  <2>1. b \in gbm <=> \E k \in Of(w) : w[k].br = b
    BY DEF MaskOf
  <2>2. (\E k \in Of(w2) : w2[k].br = b) <=> (\E k \in Of(w) : w[k].br = b) \/ new.br = b
    BY <1>1, <1>2
  <2> QED BY <2>1, <2>2, <1>3
<1>6. \A j, k \in Of(w2) : j < k /\ w2[j].br /= None => w2[j].br /= w2[k].br
  <2> SUFFICES ASSUME NEW j \in Of(w2), NEW k \in Of(w2), j < k, w2[j].br /= None
               PROVE  w2[j].br /= w2[k].br
    OBVIOUS
  <2>1. j \in Of(w) /\ w2[j] = w[j]
    BY <1>1, <1>2
  <2>2. CASE k \in Of(w)
    BY <2>1, <2>2, <1>1 DEF MaskOf
  <2>3. CASE k = n
    BY <2>1, <2>3, <1>2, <1>4
  <2> QED BY <2>2, <2>3, <1>2
<1>7. \A k \in Of(w2), b \in BranchID :
        b \in w2[k].mask <=> \E j \in 1 .. k - 1 : w2[j].br = b
  <2> TAKE k \in Of(w2), b \in BranchID
  <2>1. \A j \in 1 .. k - 1 : j \in Of(w) /\ w2[j] = w[j]
    BY <1>1, <1>2
  <2>2. CASE k \in Of(w)
    BY <2>1, <2>2, <1>1 DEF MaskOf
  <2>3. CASE k = n
    BY <2>1, <2>3, <1>2 DEF MaskOf
  <2> QED BY <2>2, <2>3, <1>2
<1>8. MaskOf(gbm2, w2)
  BY <1>5, <1>6, <1>7 DEF MaskOf
<1> QED BY <1>8 DEF w2

(* A branch resolved as predicted gives its ID back.                       *)
LEMMA MaskResolve ==
  ASSUME NEW w \in Seq(Inst), NEW k \in Of(w), w[k].br /= None,
         NEW gbm \in SUBSET BranchID, MaskOf(gbm, w),
         NEW w2, Resolved(w, w2, k)
  PROVE  MaskOf(gbm \ {w[k].br}, w2)
<1> USE DEF Resolved
<1>1. Of(w) \subseteq Nat /\ \A i \in Of(w) : \A j \in 1 .. i - 1 : j \in Of(w)
  BY DEF Of
<1>2. None \notin BranchID
  BY Sizes
<1>3. \A j \in Of(w) : j /= k => w[j].br /= w[k].br
  <2> SUFFICES ASSUME NEW j \in Of(w), j /= k, w[j].br = w[k].br PROVE FALSE
    OBVIOUS
  <2>1. CASE j < k
    BY <2>1 DEF MaskOf
  <2>2. CASE k < j
    BY <2>2 DEF MaskOf
  <2> QED BY <2>1, <2>2, <1>1
<1>4. ASSUME NEW j \in Of(w), NEW b \in BranchID
      PROVE  w2[j].br = b <=> w[j].br = b /\ b /= w[k].br
  BY <1>2, <1>3
<1>5. \A b \in BranchID : b \in gbm \ {w[k].br} <=> \E j \in Of(w2) : w2[j].br = b
  <2> TAKE b \in BranchID
  <2>1. b \in gbm <=> \E j \in Of(w) : w[j].br = b
    BY DEF MaskOf
  <2> QED BY <2>1, <1>4
<1>6. \A i, j \in Of(w2) : i < j /\ w2[i].br /= None => w2[i].br /= w2[j].br
  <2> SUFFICES ASSUME NEW i \in Of(w), NEW j \in Of(w), i < j, w2[i].br /= None
               PROVE  w2[i].br /= w2[j].br
    OBVIOUS
  <2>1. i /= k /\ w2[i].br = w[i].br
    OBVIOUS
  <2>2. w[i].br /= w[j].br
    BY <2>1 DEF MaskOf
  <2>3. CASE j = k
    BY <2>1, <2>3
  <2>4. CASE j /= k
    BY <2>1, <2>2, <2>4
  <2> QED BY <2>3, <2>4
<1>7. \A i \in Of(w2), b \in BranchID :
        b \in w2[i].mask <=> \E j \in 1 .. i - 1 : w2[j].br = b
  <2> TAKE i \in Of(w2), b \in BranchID
  <2>1. b \in w[i].mask <=> \E j \in 1 .. i - 1 : w[j].br = b
    BY DEF MaskOf
  <2>2. \A j \in 1 .. i - 1 : w2[j].br = b <=> w[j].br = b /\ b /= w[k].br
    BY <1>1, <1>4
  <2> QED BY <2>1, <2>2
<1> QED BY <1>5, <1>6, <1>7 DEF MaskOf

(* A misprediction of instruction k: the IDs of the younger branches and   *)
(* its own are free again, and GBM is what it was told when it was         *)
(* renamed, less what resolved since.                                      *)
LEMMA MaskTruncate ==
  ASSUME NEW w \in Seq(Inst), NEW k \in Of(w), NEW gbm, MaskOf(gbm, w),
         NEW w2, Truncated(w, w2, k)
  PROVE  MaskOf(w[k].mask, w2)
<1> USE DEF Truncated
<1>1. /\ k \in Nat /\ \A i \in 1 .. k : i \in Of(w)
      /\ \A i \in 1 .. k : \A j \in 1 .. i - 1 : j \in 1 .. k - 1
      /\ \A j \in 1 .. k : j /= k <=> j \in 1 .. k - 1
  BY LenProperties DEF Of
<1>2. None \notin BranchID
  BY Sizes
<1>3. \A b \in BranchID : b \in w[k].mask <=> \E j \in Of(w2) : w2[j].br = b
  <2> TAKE b \in BranchID
  <2>1. b \in w[k].mask <=> \E j \in 1 .. k - 1 : w[j].br = b
    BY DEF MaskOf
  <2>2. \A j \in 1 .. k : w2[j].br = b <=> j \in 1 .. k - 1 /\ w[j].br = b
    BY <1>1, <1>2
  <2>3. \A j \in 1 .. k - 1 : j \in 1 .. k
    BY <1>1
  <2> QED BY <2>1, <2>2, <2>3
<1>4. \A i, j \in Of(w2) : i < j /\ w2[i].br /= None => w2[i].br /= w2[j].br
  <2> SUFFICES ASSUME NEW i \in 1 .. k, NEW j \in 1 .. k, i < j, w2[i].br /= None
               PROVE  w2[i].br /= w2[j].br
    OBVIOUS
  <2>1. w2[i].br = w[i].br
    OBVIOUS
  <2>2. w[i].br /= w[j].br
    BY <2>1, <1>1 DEF MaskOf
  <2> QED BY <2>1, <2>2
<1>5. \A i \in Of(w2), b \in BranchID :
        b \in w2[i].mask <=> \E j \in 1 .. i - 1 : w2[j].br = b
  <2> TAKE i \in Of(w2), b \in BranchID
  <2>1. b \in w[i].mask <=> \E j \in 1 .. i - 1 : w[j].br = b
    BY <1>1 DEF MaskOf
  <2>2. \A j \in 1 .. i - 1 : w2[j].br = w[j].br
    BY <1>1
  <2> QED BY <2>1, <2>2
<1> QED BY <1>3, <1>4, <1>5 DEF MaskOf

(* The oldest instruction is in no mask once it is no branch any more.     *)
LEMMA MaskCommit ==
  ASSUME NEW w \in Seq(Inst), Len(w) > 0, w[1].br = None,
         NEW gbm, MaskOf(gbm, w), NEW w2, w2 = Tail(w)
  PROVE  MaskOf(gbm, w2)
<1>1. /\ Len(w) \in Nat /\ Of(w) = 1 .. Len(w) /\ Of(w2) = 1 .. Len(w) - 1
      /\ \A k \in Of(w2) : k + 1 \in Of(w) /\ w2[k] = w[k + 1]
  BY OfTail
<1>2. None \notin BranchID
  BY Sizes
<1>3. ASSUME NEW b \in BranchID, NEW m \in Nat, m <= Len(w), m >= 1
      PROVE  (\E j \in 1 .. m : w[j].br = b) <=> (\E j \in 1 .. m - 1 : w2[j].br = b)
  <2>1. ASSUME NEW j \in 1 .. m, w[j].br = b PROVE \E i \in 1 .. m - 1 : w2[i].br = b
    <3>1. j /= 1
      BY <2>1, <1>2
    <3>2. j - 1 \in 1 .. m - 1 /\ j - 1 \in Of(w2) /\ (j - 1) + 1 = j
      BY <3>1, <1>1, <1>3
    <3>3. w2[j - 1] = w[j]
      BY <3>2, <1>1
    <3> QED BY <2>1, <3>2, <3>3
  <2>2. ASSUME NEW i \in 1 .. m - 1, w2[i].br = b PROVE \E j \in 1 .. m : w[j].br = b
    <3>1. i \in Of(w2) /\ i + 1 \in 1 .. m
      BY <1>1, <1>3
    <3> QED BY <3>1, <2>2, <1>1
  <2> QED BY <2>1, <2>2
<1>4. \A b \in BranchID : b \in gbm <=> \E k \in Of(w2) : w2[k].br = b
  <2> TAKE b \in BranchID
  <2>1. b \in gbm <=> \E k \in 1 .. Len(w) : w[k].br = b
    BY <1>1 DEF MaskOf
  <2>2. Len(w) \in Nat /\ Len(w) >= 1 /\ Len(w) <= Len(w)
    BY <1>1
  <2>3. (\E j \in 1 .. Len(w) : w[j].br = b) <=> (\E j \in 1 .. Len(w) - 1 : w2[j].br = b)
    BY <2>2, <1>3
  <2> QED BY <2>1, <2>3, <1>1
<1>5. \A j, k \in Of(w2) : j < k /\ w2[j].br /= None => w2[j].br /= w2[k].br
  <2> SUFFICES ASSUME NEW j \in Of(w2), NEW k \in Of(w2), j < k, w2[j].br /= None
               PROVE  w2[j].br /= w2[k].br
    OBVIOUS
  <2>1. /\ w2[j] = w[j + 1] /\ w2[k] = w[k + 1] /\ j + 1 < k + 1
        /\ j + 1 \in Of(w) /\ k + 1 \in Of(w)
    BY <1>1
  <2>2. \A i, m \in Of(w) : i < m /\ w[i].br /= None => w[i].br /= w[m].br
    BY DEF MaskOf
  <2>3. w[j + 1].br /= w[k + 1].br
    BY <2>1, <2>2
  <2> QED BY <2>1, <2>3
<1>6. \A k \in Of(w2), b \in BranchID :
        b \in w2[k].mask <=> \E j \in 1 .. k - 1 : w2[j].br = b
  <2> TAKE k \in Of(w2), b \in BranchID
  <2>1. k + 1 \in Of(w) /\ w2[k] = w[k + 1] /\ k \in Nat /\ k >= 1 /\ k <= Len(w)
    BY <1>1
  <2>2. b \in w[k + 1].mask <=> \E j \in 1 .. k : w[j].br = b
    <3>1. (k + 1) - 1 = k
      BY <2>1
    <3> QED BY <2>1, <3>1 DEF MaskOf
  <2>3. (\E j \in 1 .. k : w[j].br = b) <=> (\E j \in 1 .. k - 1 : w2[j].br = b)
    BY <2>1, <1>3
  <2> QED BY <2>1, <2>2, <2>3
<1> QED BY <1>4, <1>5, <1>6 DEF MaskOf

(* Nothing in flight, no bit set.                                          *)
LEMMA MaskEmpty == MaskOf({}, <<>>)
<1>1. Of(<<>>) = {}
  BY DEF Of
<1> QED BY <1>1 DEF MaskOf

(* On a misprediction of instruction k the pipeline keeps who does not     *)
(* have the branch in its mask: that is the first k.                       *)
SurviveUpTo(w, k, m) ==
  {j \in Of(w) : w[j].alx /= None /\ w[k].br \notin w[j].mask} = 1 .. m

(* With exact masks the survivors can only be the branch and all older.    *)
LEMMA SurvivorsArePrefix ==
  ASSUME NEW w \in Seq(Inst), NEW k \in Of(w), w[k].br /= None,
         NEW gbm, MaskOf(gbm, w),
         NEW al, ListOf(al, w), w[k].alx /= None,
         NEW m \in Of(w), SurviveUpTo(w, k, m)
  PROVE  m = k
<1> USE DEF SurviveUpTo
<1>1. k \in Nat /\ m \in Nat /\ 1 <= k /\ k <= Len(w) /\ Len(w) \in Nat /\ Of(w) = 1 .. Len(w)
  BY LenProperties DEF Of
<1>2. w[k].br \in BranchID
  BY UsedID
<1>3. w[k].br \notin w[k].mask
  <2>1. \A j \in 1 .. k - 1 : w[j].br /= w[k].br
    <3> TAKE j \in 1 .. k - 1
    <3>1. j \in Of(w) /\ j < k
      BY <1>1
    <3> QED BY <3>1 DEF MaskOf
  <2> QED BY <2>1, <1>2 DEF MaskOf
<1>4. k \in 1 .. m
  BY <1>3
<1>5. ~(k < m)
  <2>1. SUFFICES ASSUME k < m PROVE FALSE
    OBVIOUS
  <2>2. k \in 1 .. m - 1
    BY <2>1, <1>1
  <2>3. w[k].br \in w[m].mask
    BY <2>2, <1>2 DEF MaskOf
  <2>4. m \in 1 .. m
    BY <1>1, <1>4
  <2> QED BY <2>3, <2>4
<1> QED BY <1>1, <1>4, <1>5


(***************************************************************************)
(* Checkpoints.                                                            *)
(***************************************************************************)
(* A checkpoint that is taken overwrites none that is in use.              *)
LEMMA CkptAppend ==
  ASSUME NEW w \in Seq(Inst), NEW new \in Inst,
         NEW gbm, MaskOf(gbm, w), new.br \notin gbm,
         NEW brcp, CkptOf(brcp, w),
         NEW brcp2, \A b \in gbm : brcp2[b] = brcp[b],
         new.br /= None => /\ brcp2[new.br].GBM = new.mask
                           /\ brcp2[new.br].FL_head = new.slot
  PROVE  CkptOf(brcp2, Append(w, new))
<1> DEFINE w2 == Append(w, new)
<1>1. /\ Of(w2) = Of(w) \cup {Len(w) + 1}
      /\ w2[Len(w) + 1] = new /\ \A k \in Of(w) : w2[k] = w[k]
  BY OfAppend
<1> HIDE DEF w2
<1>2. \A k \in Of(w) : w[k].br /= None => brcp2[w[k].br] = brcp[w[k].br]
  BY UsedID
<1>3. CkptOf(brcp2, w2)
  <2> SUFFICES ASSUME NEW k \in Of(w2), w2[k].br /= None
               PROVE  /\ brcp2[w2[k].br].GBM = w2[k].mask
                      /\ brcp2[w2[k].br].FL_head = w2[k].slot
    BY DEF CkptOf
  <2>1. CASE k \in Of(w)
    BY <2>1, <1>1, <1>2 DEF CkptOf
  <2>2. CASE k = Len(w) + 1
    BY <2>2, <1>1
  <2> QED BY <2>1, <2>2, <1>1
<1> QED BY <1>3 DEF w2

(* Checkpoints depend on the br, mask and slot fields alone.               *)
LEMMA CkptSame ==
  ASSUME NEW w, NEW w2, Of(w2) = Of(w), NEW brcp, CkptOf(brcp, w),
         \A k \in Of(w) : /\ w2[k].br = w[k].br /\ w2[k].mask = w[k].mask
                          /\ w2[k].slot = w[k].slot
  PROVE  CkptOf(brcp, w2)
  BY DEF CkptOf

BitCleared(brcp, brcp2, id) ==
  \A b \in BranchID : /\ brcp2[b].GBM = brcp[b].GBM \ {id}
                      /\ brcp2[b].FL_head = brcp[b].FL_head
                      /\ brcp2[b].RMT_shdw = brcp[b].RMT_shdw

(* Resolving clears the bit in the masks and in the checkpoints alike.     *)
LEMMA CkptResolve ==
  ASSUME NEW w \in Seq(Inst), NEW k \in Of(w), NEW w2, Resolved(w, w2, k),
         NEW brcp, CkptOf(brcp, w), NEW brcp2, BitCleared(brcp, brcp2, w[k].br)
  PROVE  CkptOf(brcp2, w2)
<1> USE DEF Resolved, BitCleared
<1> SUFFICES ASSUME NEW j \in Of(w), w2[j].br /= None
             PROVE  /\ brcp2[w2[j].br].GBM = w2[j].mask
                    /\ brcp2[w2[j].br].FL_head = w2[j].slot
  BY DEF CkptOf
<1>1. w2[j].br = w[j].br /\ w[j].br /= None /\ w[j].br \in BranchID
  BY InstAt
<1>2. /\ w2[j].mask = w[j].mask \ {w[k].br} /\ w2[j].slot = w[j].slot
  OBVIOUS
<1>3. /\ brcp[w[j].br].GBM = w[j].mask /\ brcp[w[j].br].FL_head = w[j].slot
  BY <1>1 DEF CkptOf
<1>4. /\ brcp2[w[j].br].GBM = brcp[w[j].br].GBM \ {w[k].br}
      /\ brcp2[w[j].br].FL_head = brcp[w[j].br].FL_head
  BY <1>1
<1> QED BY <1>1, <1>2, <1>3, <1>4

(* The branches that are left keep their checkpoints.                      *)
LEMMA CkptTruncate ==
  ASSUME NEW w \in Seq(Inst), NEW k \in Of(w), NEW w2, Truncated(w, w2, k),
         NEW brcp, CkptOf(brcp, w)
  PROVE  CkptOf(brcp, w2)
<1> USE DEF Truncated
<1>1. \A j \in 1 .. k : j \in Of(w)
  BY LenProperties DEF Of
<1>2. \A j \in 1 .. k : w2[j].br /= None => w2[j].br = w[j].br
  OBVIOUS
<1> QED BY <1>1, <1>2 DEF CkptOf

(* A commit leaves all checkpoints alone.                                  *)
LEMMA CkptCommit ==
  ASSUME NEW w \in Seq(Inst), Len(w) > 0, NEW w2, w2 = Tail(w),
         NEW brcp, CkptOf(brcp, w)
  PROVE  CkptOf(brcp, w2)
<1>1. \A k \in Of(w2) : k + 1 \in Of(w) /\ w2[k] = w[k + 1]
  BY OfTail
<1> QED BY <1>1 DEF CkptOf

(* No branches, no checkpoints in use.                                     *)
LEMMA CkptEmpty ==
  ASSUME NEW brcp
  PROVE  CkptOf(brcp, <<>>)
<1>1. Of(<<>>) = {}
  BY DEF Of
<1> QED BY <1>1 DEF CkptOf

(***************************************************************************)
(* Maps.                                                                   *)
(***************************************************************************)
(* Maps depend on the destinations alone.                                  *)
LEMMA MapFrame ==
  ASSUME NEW w, NEW w2, NEW k \in Nat, NEW map, NEW amt, MapOf(map, amt, w, k),
         \A j \in 1 .. k : w2[j].dst = w[j].dst /\ w2[j].phys = w[j].phys
  PROVE  MapOf(map, amt, w2, k)
<1> SUFFICES ASSUME NEW l \in LogReg
             PROVE  \/ /\ \A j \in 1 .. k : w2[j].dst /= l
                       /\ map[l] = amt[l]
                    \/ \E j \in 1 .. k : /\ w2[j].dst = l /\ map[l] = w2[j].phys
                                         /\ \A i \in j + 1 .. k : w2[i].dst /= l
  BY DEF MapOf
<1>1. CASE (\A j \in 1 .. k : w[j].dst /= l) /\ map[l] = amt[l]
  BY <1>1
<1>2. CASE \E j \in 1 .. k : /\ w[j].dst = l /\ map[l] = w[j].phys
                             /\ \A i \in j + 1 .. k : w[i].dst /= l
  <2>1. PICK j \in 1 .. k : /\ w[j].dst = l /\ map[l] = w[j].phys
                            /\ \A i \in j + 1 .. k : w[i].dst /= l
    BY <1>2
  <2>2. \A i \in j + 1 .. k : i \in 1 .. k
    OBVIOUS
  <2>3. /\ w2[j].dst = l /\ map[l] = w2[j].phys
        /\ \A i \in j + 1 .. k : w2[i].dst /= l
    BY <2>1, <2>2
  <2> QED BY <2>3
<1> QED BY <1>1, <1>2 DEF MapOf

(* Renaming a destination: the newest mapping is the new one.              *)
LEMMA MapExtend ==
  ASSUME NEW w, NEW k \in Nat, NEW map \in [LogReg -> PhysReg], NEW amt,
         MapOf(map, amt, w, k), w[k + 1].dst \in LogReg \cup {None},
         NEW map2, map2 = IF w[k + 1].dst = None THEN map
                          ELSE [map EXCEPT ![w[k + 1].dst] = w[k + 1].phys]
  PROVE  MapOf(map2, amt, w, k + 1)
<1> SUFFICES ASSUME NEW l \in LogReg
             PROVE  \/ /\ \A j \in 1 .. k + 1 : w[j].dst /= l
                       /\ map2[l] = amt[l]
                    \/ \E j \in 1 .. k + 1 :
                         /\ w[j].dst = l /\ map2[l] = w[j].phys
                         /\ \A i \in j + 1 .. k + 1 : w[i].dst /= l
  BY DEF MapOf
<1>1. None \notin LogReg
  BY Sizes
<1>2. CASE w[k + 1].dst = l
  <2>1. map2[l] = w[k + 1].phys /\ k + 1 \in 1 .. k + 1
    BY <1>1, <1>2
  <2>2. \A i \in (k + 1) + 1 .. k + 1 : FALSE
    OBVIOUS
  <2> QED BY <1>2, <2>1, <2>2
<1>3. CASE w[k + 1].dst /= l
  <2>1. map2[l] = map[l]
    BY <1>3
  <2>2. CASE (\A j \in 1 .. k : w[j].dst /= l) /\ map[l] = amt[l]
    <3>1. \A j \in 1 .. k + 1 : j \in 1 .. k \/ j = k + 1
      OBVIOUS
    <3> QED BY <1>3, <2>1, <2>2, <3>1
  <2>3. CASE \E j \in 1 .. k : /\ w[j].dst = l /\ map[l] = w[j].phys
                               /\ \A i \in j + 1 .. k : w[i].dst /= l
    <3>1. PICK j \in 1 .. k : /\ w[j].dst = l /\ map[l] = w[j].phys
                              /\ \A i \in j + 1 .. k : w[i].dst /= l
      BY <2>3
    <3>2. \A i \in j + 1 .. k + 1 : i \in j + 1 .. k \/ i = k + 1
      OBVIOUS
    <3>3. j \in 1 .. k + 1
      OBVIOUS
    <3> QED BY <1>3, <2>1, <3>1, <3>2, <3>3
  <2> QED BY <2>2, <2>3 DEF MapOf
<1> QED BY <1>2, <1>3

(* Committing the oldest: what it wrote is the committed map's now, and    *)
(* the map behind every younger instruction is as it was.                  *)
LEMMA MapShift ==
  ASSUME NEW w \in Seq(Inst), Len(w) > 0,
         NEW k \in Of(w), NEW map, NEW amt \in [LogReg -> PhysReg],
         MapOf(map, amt, w, k)
  PROVE  MapOf(map, Taken(amt, w[1]), Tail(w), k - 1)
<1> DEFINE w2   == Tail(w)
           amt2 == Taken(amt, w[1])
<1>a. amt2 = IF w[1].dst = None THEN amt ELSE [amt EXCEPT ![w[1].dst] = w[1].phys]
  BY DEF Taken
<1>b. w2 = Tail(w)
  OBVIOUS
<1> SUFFICES MapOf(map, amt2, w2, k - 1)
  OBVIOUS
<1> HIDE DEF w2, amt2
<1>1. /\ Len(w) \in Nat /\ Of(w) = 1 .. Len(w) /\ Of(w2) = 1 .. Len(w) - 1
      /\ \A j \in Of(w2) : w2[j] = w[j + 1]
  BY <1>b, OfTail
<1>2. k \in Nat /\ 1 <= k /\ k <= Len(w)
  BY <1>1
<1>3. w[1].dst \in LogReg \cup {None} /\ None \notin LogReg
  BY <1>1, InstAt, Sizes
<1>4. \A j \in 1 .. k - 1 : j + 1 \in 2 .. k /\ w2[j] = w[j + 1]
  BY <1>1, <1>2
<1> SUFFICES ASSUME NEW l \in LogReg
             PROVE  \/ /\ \A j \in 1 .. k - 1 : w2[j].dst /= l
                       /\ map[l] = amt2[l]
                    \/ \E j \in 1 .. k - 1 :
                         /\ w2[j].dst = l /\ map[l] = w2[j].phys
                         /\ \A i \in j + 1 .. k - 1 : w2[i].dst /= l
  BY DEF MapOf
<1>5. CASE (\A j \in 1 .. k : w[j].dst /= l) /\ map[l] = amt[l]
  <2>1. amt2[l] = amt[l]
    BY <1>a, <1>2, <1>3, <1>5
  <2>2. \A j \in 1 .. k - 1 : j + 1 \in 1 .. k
    BY <1>2
  <2> QED BY <1>4, <1>5, <2>1, <2>2
<1>6. CASE \E j \in 1 .. k : /\ w[j].dst = l /\ map[l] = w[j].phys
                             /\ \A i \in j + 1 .. k : w[i].dst /= l
  <2>1. PICK j \in 1 .. k : /\ w[j].dst = l /\ map[l] = w[j].phys
                            /\ \A i \in j + 1 .. k : w[i].dst /= l
    BY <1>6
  <2>2. CASE j = 1
    <3>1. amt2[l] = w[1].phys
      BY <1>a, <1>3, <2>1, <2>2
    <3>2. \A i \in 1 .. k - 1 : i + 1 \in j + 1 .. k
      BY <1>2, <2>2
    <3> QED BY <1>4, <2>1, <2>2, <3>1, <3>2
  <2>3. CASE j /= 1
    <3>1. j - 1 \in 1 .. k - 1 /\ (j - 1) + 1 = j
      BY <1>2, <2>3
    <3>2. w2[j - 1] = w[j]
      BY <3>1, <1>4
    <3>3. \A i \in (j - 1) + 1 .. k - 1 : i \in 1 .. k - 1 /\ i + 1 \in j + 1 .. k
      BY <1>2, <2>3
    <3>4. \A i \in (j - 1) + 1 .. k - 1 : w2[i].dst /= l
      BY <3>3, <1>4, <2>1
    <3> QED BY <2>1, <3>1, <3>2, <3>4
  <2> QED BY <2>2, <2>3
<1> QED BY <1>5, <1>6 DEF MapOf

(* Rename: the new map is the old one with the new destination's register. *)
LEMMA MapsAppend ==
  ASSUME NEW w \in Seq(Inst), NEW new \in Inst,
         NEW rmt \in [LogReg -> PhysReg], NEW amt,
         NEW gbm, MaskOf(gbm, w), new.br \notin gbm,
         NEW brcp, MapsOf(rmt, amt, brcp, w), new.srcs = rmt,
         NEW rmt2, rmt2 = IF new.dst = None THEN rmt
                          ELSE [rmt EXCEPT ![new.dst] = new.phys],
         NEW brcp2, \A b \in gbm : brcp2[b] = brcp[b],
         new.br /= None => brcp2[new.br].RMT_shdw = rmt2
  PROVE  MapsOf(rmt2, amt, brcp2, Append(w, new))
<1> DEFINE w2 == Append(w, new)
<1>1. /\ Of(w2) = Of(w) \cup {Len(w) + 1} /\ Of(w) = 1 .. Len(w)
      /\ Len(w) \in Nat /\ Len(w2) = Len(w) + 1
      /\ w2[Len(w) + 1] = new /\ \A k \in Of(w) : w2[k] = w[k]
  BY OfAppend
<1> HIDE DEF w2
<1>2. \A k \in 0 .. Len(w) : \A map : MapOf(map, amt, w, k) => MapOf(map, amt, w2, k)
  <2> SUFFICES ASSUME NEW k \in 0 .. Len(w), NEW map, MapOf(map, amt, w, k)
               PROVE  MapOf(map, amt, w2, k)
    OBVIOUS
  <2>1. k \in Nat /\ \A j \in 1 .. k : w2[j] = w[j]
    BY <1>1
  <2> QED BY <2>1, MapFrame
<1>3. MapOf(rmt, amt, w2, Len(w))
  <2>1. Len(w) \in 0 .. Len(w)
    BY <1>1
  <2> QED BY <2>1, <1>2 DEF MapsOf
<1>4. MapOf(rmt2, amt, w2, Len(w) + 1)
  <2>1. w2[Len(w) + 1].dst \in LogReg \cup {None}
    BY <1>1 DEF Inst
  <2>2. rmt2 = IF w2[Len(w) + 1].dst = None THEN rmt
               ELSE [rmt EXCEPT ![w2[Len(w) + 1].dst] = w2[Len(w) + 1].phys]
    BY <1>1
  <2> QED BY <2>1, <2>2, <1>1, <1>3, MapExtend
<1>5. \A k \in Of(w2) : MapOf(w2[k].srcs, amt, w2, k - 1)
  <2> TAKE k \in Of(w2)
  <2>1. CASE k \in Of(w)
    <3>1. k - 1 \in 0 .. Len(w) /\ MapOf(w[k].srcs, amt, w, k - 1)
      BY <2>1, <1>1 DEF MapsOf
    <3> QED BY <3>1, <2>1, <1>1, <1>2
  <2>2. CASE k = Len(w) + 1
    <3>1. k - 1 = Len(w) /\ w2[k].srcs = rmt
      BY <2>2, <1>1
    <3> QED BY <3>1, <1>3
  <2> QED BY <2>1, <2>2, <1>1
<1>6. \A k \in Of(w2) : w2[k].br /= None =>
        MapOf(brcp2[w2[k].br].RMT_shdw, amt, w2, k)
  <2> SUFFICES ASSUME NEW k \in Of(w2), w2[k].br /= None
               PROVE  MapOf(brcp2[w2[k].br].RMT_shdw, amt, w2, k)
    OBVIOUS
  <2>1. CASE k \in Of(w)
    <3>1. brcp2[w[k].br] = brcp[w[k].br]
      BY <2>1, <1>1, UsedID
    <3>2. MapOf(brcp[w[k].br].RMT_shdw, amt, w, k)
      BY <2>1, <1>1 DEF MapsOf
    <3>3. k \in 0 .. Len(w)
      BY <2>1, <1>1
    <3> QED BY <3>1, <3>2, <3>3, <2>1, <1>1, <1>2
  <2>2. CASE k = Len(w) + 1
    BY <2>2, <1>1, <1>4
  <2> QED BY <2>1, <2>2, <1>1
<1>7. MapsOf(rmt2, amt, brcp2, w2)
  BY <1>1, <1>4, <1>5, <1>6 DEF MapsOf
<1> QED BY <1>7 DEF w2

(* Steps that rename nothing, whatever branch they resolve.                *)
LEMMA MapsSame ==
  ASSUME NEW w \in Seq(Inst), NEW w2, Of(w2) = Of(w), Len(w2) = Len(w),
         \A k \in Of(w) : /\ w2[k].dst = w[k].dst /\ w2[k].phys = w[k].phys
                          /\ w2[k].srcs = w[k].srcs
                          /\ w2[k].br = w[k].br \/ w2[k].br = None,
         NEW rmt, NEW amt, NEW brcp, MapsOf(rmt, amt, brcp, w),
         NEW brcp2, \A b \in BranchID : brcp2[b].RMT_shdw = brcp[b].RMT_shdw
  PROVE  MapsOf(rmt, amt, brcp2, w2)
<1>1. Len(w) \in Nat /\ Of(w) = 1 .. Len(w)
  BY LenProperties DEF Of
<1>2. \A k \in 0 .. Len(w) : \A map : MapOf(map, amt, w, k) => MapOf(map, amt, w2, k)
  <2> SUFFICES ASSUME NEW k \in 0 .. Len(w), NEW map, MapOf(map, amt, w, k)
               PROVE  MapOf(map, amt, w2, k)
    OBVIOUS
  <2>1. k \in Nat /\ \A j \in 1 .. k : w2[j].dst = w[j].dst /\ w2[j].phys = w[j].phys
    BY <1>1
  <2> QED BY <2>1, MapFrame
<1>3. MapOf(rmt, amt, w2, Len(w2))
  <2>1. Len(w) \in 0 .. Len(w)
    BY <1>1
  <2> QED BY <2>1, <1>2 DEF MapsOf
<1>4. \A k \in Of(w) : MapOf(w2[k].srcs, amt, w2, k - 1)
  <2> TAKE k \in Of(w)
  <2>1. k - 1 \in 0 .. Len(w) /\ MapOf(w[k].srcs, amt, w, k - 1)
    BY <1>1 DEF MapsOf
  <2> QED BY <2>1, <1>2
<1>5. \A k \in Of(w) : w2[k].br /= None =>
        MapOf(brcp2[w2[k].br].RMT_shdw, amt, w2, k)
  <2> SUFFICES ASSUME NEW k \in Of(w), w2[k].br /= None
               PROVE  MapOf(brcp2[w2[k].br].RMT_shdw, amt, w2, k)
    OBVIOUS
  <2>1. w2[k].br = w[k].br /\ w[k].br \in BranchID /\ k \in 0 .. Len(w)
    BY <1>1, InstAt
  <2>2. MapOf(brcp[w[k].br].RMT_shdw, amt, w, k)
    BY <2>1 DEF MapsOf
  <2> QED BY <2>1, <2>2, <1>2
<1> QED BY <1>3, <1>4, <1>5 DEF MapsOf

(* A branch resolved as predicted changes no map.                          *)
LEMMA MapsResolve ==
  ASSUME NEW w \in Seq(Inst), NEW k \in Of(w), NEW w2, Resolved(w, w2, k),
         NEW rmt, NEW amt, NEW brcp, MapsOf(rmt, amt, brcp, w),
         NEW brcp2, NEW id, BitCleared(brcp, brcp2, id)
  PROVE  MapsOf(rmt, amt, brcp2, w2)
<1>1. Of(w2) = Of(w) /\ Len(w2) = Len(w)
  BY DEF Resolved
<1>2. \A j \in Of(w) : /\ w2[j].dst = w[j].dst /\ w2[j].phys = w[j].phys
                       /\ w2[j].srcs = w[j].srcs
                       /\ w2[j].br = w[j].br \/ w2[j].br = None
  BY DEF Resolved
<1>3. \A b \in BranchID : brcp2[b].RMT_shdw = brcp[b].RMT_shdw
  BY DEF BitCleared
<1> QED BY <1>1, <1>2, <1>3, MapsSame

(* A misprediction of instruction k: the map of its checkpoint is the map  *)
(* behind the last instruction that is left.                               *)
LEMMA MapsTruncate ==
  ASSUME NEW w \in Seq(Inst), NEW k \in Of(w), w[k].br /= None,
         NEW w2, Truncated(w, w2, k),
         NEW rmt, NEW amt, NEW brcp, MapsOf(rmt, amt, brcp, w)
  PROVE  MapsOf(brcp[w[k].br].RMT_shdw, amt, brcp, w2)
<1> USE DEF Truncated
<1>1. Len(w) \in Nat /\ Of(w) = 1 .. Len(w) /\ k \in Nat /\ k <= Len(w) /\ 1 <= k
  BY LenProperties DEF Of
<1>2. \A i \in 0 .. k : \A map : MapOf(map, amt, w, i) => MapOf(map, amt, w2, i)
  <2> SUFFICES ASSUME NEW i \in 0 .. k, NEW map, MapOf(map, amt, w, i)
               PROVE  MapOf(map, amt, w2, i)
    OBVIOUS
  <2>1. i \in Nat /\ \A j \in 1 .. i : w2[j].dst = w[j].dst /\ w2[j].phys = w[j].phys
    BY <1>1
  <2> QED BY <2>1, MapFrame
<1>3. MapOf(brcp[w[k].br].RMT_shdw, amt, w2, Len(w2))
  <2>1. k \in 0 .. k /\ MapOf(brcp[w[k].br].RMT_shdw, amt, w, k)
    BY <1>1 DEF MapsOf
  <2> QED BY <2>1, <1>2
<1>4. \A i \in 1 .. k : MapOf(w2[i].srcs, amt, w2, i - 1)
  <2> TAKE i \in 1 .. k
  <2>1. i - 1 \in 0 .. k /\ i \in Of(w) /\ w2[i].srcs = w[i].srcs
    BY <1>1
  <2>2. MapOf(w[i].srcs, amt, w, i - 1)
    BY <2>1 DEF MapsOf
  <2> QED BY <2>1, <2>2, <1>2
<1>5. \A i \in 1 .. k : w2[i].br /= None =>
        MapOf(brcp[w2[i].br].RMT_shdw, amt, w2, i)
  <2> SUFFICES ASSUME NEW i \in 1 .. k, w2[i].br /= None
               PROVE  MapOf(brcp[w2[i].br].RMT_shdw, amt, w2, i)
    OBVIOUS
  <2>1. w2[i].br = w[i].br /\ i \in 0 .. k /\ i \in Of(w)
    BY <1>1
  <2>2. MapOf(brcp[w[i].br].RMT_shdw, amt, w, i)
    BY <2>1 DEF MapsOf
  <2> QED BY <2>1, <2>2, <1>2
<1> QED BY <1>3, <1>4, <1>5 DEF MapsOf

(* Commit: what the committed map gains the window loses.                  *)
LEMMA MapsCommit ==
  ASSUME NEW w \in Seq(Inst), Len(w) > 0,
         NEW rmt, NEW amt \in [LogReg -> PhysReg],
         NEW brcp, MapsOf(rmt, amt, brcp, w)
  PROVE  MapsOf(rmt, Taken(amt, w[1]), brcp, Tail(w))
<1> DEFINE w2   == Tail(w)
           amt2 == Taken(amt, w[1])
<1>2. \A k \in Of(w) : \A map : MapOf(map, amt, w, k) => MapOf(map, amt2, w2, k - 1)
  BY MapShift
<1>b. w2 = Tail(w)
  OBVIOUS
<1> SUFFICES MapsOf(rmt, amt2, brcp, w2)
  OBVIOUS
<1> HIDE DEF w2, amt2
<1>1. /\ Len(w) \in Nat /\ Len(w2) = Len(w) - 1
      /\ Of(w) = 1 .. Len(w) /\ Of(w2) = 1 .. Len(w) - 1
      /\ \A j \in Of(w2) : j + 1 \in Of(w) /\ w2[j] = w[j + 1]
  BY <1>b, OfTail
<1>3. MapOf(rmt, amt2, w2, Len(w2))
  <2>1. Len(w) \in Of(w) /\ MapOf(rmt, amt, w, Len(w))
    BY <1>1 DEF MapsOf
  <2> QED BY <2>1, <1>1, <1>2
<1>4. \A k \in Of(w2) : MapOf(w2[k].srcs, amt2, w2, k - 1)
  <2> TAKE k \in Of(w2)
  <2>1. k + 1 \in Of(w) /\ k \in Of(w) /\ w2[k] = w[k + 1] /\ (k + 1) - 1 = k
    BY <1>1
  <2>2. MapOf(w[k + 1].srcs, amt, w, k)
    BY <2>1 DEF MapsOf
  <2> QED BY <2>1, <2>2, <1>2
<1>5. \A k \in Of(w2) : w2[k].br /= None =>
        MapOf(brcp[w2[k].br].RMT_shdw, amt2, w2, k)
  <2> SUFFICES ASSUME NEW k \in Of(w2), w2[k].br /= None
               PROVE  MapOf(brcp[w2[k].br].RMT_shdw, amt2, w2, k)
    OBVIOUS
  <2>1. k + 1 \in Of(w) /\ w2[k] = w[k + 1] /\ (k + 1) - 1 = k
    BY <1>1
  <2>2. MapOf(brcp[w[k + 1].br].RMT_shdw, amt, w, k + 1)
    BY <2>1 DEF MapsOf
  <2>3. MapOf(brcp[w[k + 1].br].RMT_shdw, amt2, w2, (k + 1) - 1)
    BY <2>1, <2>2, <1>2
  <2> QED BY <2>1, <2>3
<1> QED BY <1>3, <1>4, <1>5 DEF MapsOf

(* With nothing in flight the two maps agree.                              *)
LEMMA MapsEmpty ==
  ASSUME NEW amt, NEW brcp
  PROVE  MapsOf(amt, amt, brcp, <<>>)
<1>1. Of(<<>>) = {} /\ Len(<<>>) = 0
  BY DEF Of
<1>2. MapOf(amt, amt, <<>>, 0)
  BY DEF MapOf
<1> QED BY <1>1, <1>2 DEF MapsOf

(***************************************************************************)
(* The constructor.                                                        *)
(***************************************************************************)
(* The constructor establishes the invariant.                              *)
LEMMA InitInv == Init => IInv
<1> SUFFICES ASSUME Init PROVE IInv
  OBVIOUS
<1> USE DEF Init, RenamerInit, Constructed
<1>1. PICK junk \in PhysReg \cup {None} :
        FL = [front |-> 0, rear |-> ListSize, slot |-> InitialSlot(junk)]
  OBVIOUS
<1>2. /\ NLog \in Nat \ {0} /\ NPhys \in Nat /\ NPhys > NLog /\ NBr \in Nat
      /\ ListSize = NPhys - NLog /\ ListSize \in Nat \ {0}
      /\ Index = 0 .. ListSize /\ LogReg = 0 .. NLog - 1
      /\ PhysReg = 0 .. NPhys - 1
  BY RenamerAssumption, Sizes DEF ListSize, LogReg, PhysReg
<1>3. /\ FL.front = 0 /\ FL.rear = ListSize /\ 0 \in Index /\ ListSize \in Index
      /\ \A i \in Index : FL.slot[i] = IF i = 0 THEN junk ELSE NLog + i - 1
      /\ Gap(FL) = 0
  <2>1. /\ FL.front = 0 /\ FL.rear = ListSize /\ FL.slot = InitialSlot(junk)
        /\ 0 \in Index /\ ListSize \in Index
    BY <1>1, <1>2
  <2>2. Gap(FL) = 0
    BY <2>1, SuccIs DEF Gap
  <2> QED BY <2>1, <2>2 DEF InitialSlot
<1>4. \A i \in Index \ {0} : NLog + i - 1 \in PhysReg
  BY <1>2
<1>5. TypeOK
  <2>1. RMT \in [LogReg -> PhysReg] /\ AMT \in [LogReg -> PhysReg]
    BY <1>2
  <2>2. FL \in QueueOf(PhysReg \cup {None})
    <3>1. InitialSlot(junk) \in [Index -> PhysReg \cup {None}]
      BY <1>4 DEF InitialSlot
    <3> QED BY <1>1, <1>3, <3>1 DEF QueueOf
  <2>3. AL \in QueueOf(ALEntry \cup {None})
    BY <1>3 DEF QueueOf
  <2>4. BRCP \in [BranchID -> Checkpoint]
    <3>1. PICK j \in [BranchID -> SUBSET BranchID] :
            BRCP = [b \in BranchID |-> [RMT_shdw |-> [l \in LogReg |-> 0],
                                        FL_head |-> 0, GBM |-> j[b]]]
      OBVIOUS
    <3>2. [l \in LogReg |-> 0] \in [LogReg -> PhysReg]
      BY <1>2
    <3> QED BY <3>1, <3>2, <1>3 DEF Checkpoint
  <2>5. win \in Seq(Inst) /\ bundle \in Bundle
    <3>1. 0 \in 0 .. MaxBundle
      BY PipelineAssumption
    <3> QED BY <3>1 DEF NoBundle, Bundle
  <2> QED BY <2>1, <2>2, <2>3, <2>4, <2>5 DEF TypeOK
<1>6. Of(win) = {}
  BY DEF Of
<1>7. BundleInv /\ DstOf(win)
  BY <1>6 DEF BundleInv, NoBundle, DstOf
<1>8. ListOf(AL, win)
  BY <1>3, ListEmpty
<1>9. SlotsTyped(FL)
  BY <1>3, <1>4 DEF SlotsTyped
<1>10. RingOf(FL, win)
  BY <1>3, <1>6, <1>9, RingEmpty
<1>11. HeldOf(FL, AMT)
  <2>1. \A i, j \in Index \ {0} : FL.slot[i] = FL.slot[j] => i = j
    BY <1>2, <1>3
  <2>2. \A l \in LogReg : AMT[l] = l
    OBVIOUS
  <2>3. \A i \in Index \ {0}, l \in LogReg : FL.slot[i] /= AMT[l]
    BY <1>2, <1>3, <2>2
  <2>4. \A r \in PhysReg : \/ \E i \in Index \ {0} : FL.slot[i] = r
                           \/ \E l \in LogReg : AMT[l] = r
    <3> TAKE r \in PhysReg
    <3>1. CASE r < NLog
      BY <3>1, <1>2, <2>2
    <3>2. CASE r >= NLog
      <4>1. r - NLog + 1 \in Index \ {0} /\ NLog + (r - NLog + 1) - 1 = r
        BY <3>2, <1>2
      <4> QED BY <4>1, <1>3
    <3> QED BY <3>1, <3>2, <1>2
  <2> QED BY <1>3, <2>1, <2>2, <2>3, <2>4 DEF HeldOf
<1>12. MaskOf(GBM, win) /\ CkptOf(BRCP, win)
  BY MaskEmpty, CkptEmpty
<1>13. MapsOf(RMT, AMT, BRCP, win)
  BY MapsEmpty
<1> QED BY <1>5, <1>7, <1>8, <1>10, <1>11, <1>12, <1>13 DEF IInv

(***************************************************************************)
(* Rename.                                                                 *)
(***************************************************************************)
(* What IInv says of the types, for the steps to cite.                     *)
LEMMA Types ==
  ASSUME IInv
  PROVE  /\ RMT \in [LogReg -> PhysReg] /\ AMT \in [LogReg -> PhysReg]
         /\ FL \in QueueOf(PhysReg \cup {None}) /\ FL.front \in Index
         /\ FL.rear \in Index /\ FL.slot \in [Index -> PhysReg \cup {None}]
         /\ AL \in QueueOf(ALEntry \cup {None}) /\ AL.front \in Index
         /\ AL.rear \in Index /\ AL.slot \in [Index -> ALEntry \cup {None}]
         /\ PRF \in [PhysReg -> Value] /\ PRF_rdy \in [PhysReg -> BOOLEAN]
         /\ GBM \in SUBSET BranchID /\ BRCP \in [BranchID -> Checkpoint]
         /\ win \in Seq(Inst) /\ bundle \in Bundle /\ InFlight = Of(win)
  BY DEF IInv, TypeOK, QueueOf, InFlight, Of

(* Renaming a destination takes the slot behind the front, an item's.      *)
LEMMA RenameDstFacts ==
  ASSUME IInv, NEW dst \in LogReg \cup {None}, RenameDst(dst)
  PROVE  /\ FL' \in QueueOf(PhysReg \cup {None}) /\ FL'.front \in Index
         /\ FL'.rear = FL.rear /\ FL'.slot = FL.slot
         /\ RMT' \in [LogReg -> PhysReg]
         /\ dst = None => FL'.front = FL.front /\ RMT' = RMT
         /\ dst /= None =>
              /\ RMT' = [RMT EXCEPT ![dst] = FL.slot[FL'.front]]
              /\ FL.slot[FL'.front] \in PhysReg
              /\ FL'.front /= Gap(FL)
              /\ Dist(FL, FL'.front) = Dist(FL, FL.front) + 1
<1>1. CASE dst = None
  BY <1>1, Types DEF RenameDst
<1>2. CASE dst /= None
  <2>1. /\ ~IsEmpty(FL)
        /\ RMT' = [RMT EXCEPT ![dst] = GetHead(FL)]
        /\ FL' = Delete(FL)
    BY <1>2 DEF RenameDst, rename_rdst
  <2>2. FL.front /= FL.rear
    BY <2>1, Types, FullIs
  <2>3. /\ FL'.front = Succ(FL.front) /\ FL'.rear = FL.rear /\ FL'.slot = FL.slot
        /\ FL'.front \in Index
    BY <2>1, Types, SuccIs DEF Delete, QueueOf
  <2>4. FL' \in QueueOf(PhysReg \cup {None})
    BY <2>1, <2>3, Types DEF Delete, QueueOf
  <2>5. Dist(FL, FL'.front) = Dist(FL, FL.front) + 1 /\ Dist(FL, FL.front) \in Nat
    BY <2>2, <2>3, Types, DistSucc, DistNat
  <2>6. FL'.front /= Gap(FL)
    <3>1. Dist(FL, FL'.front) /= 0
      BY <2>5
    <3> QED BY <3>1, <2>3, Types, DistRange
  <2>7. FL.slot[FL'.front] \in PhysReg
    BY <2>3, <2>6 DEF IInv, RingOf, SlotsTyped
  <2>8. RMT' = [RMT EXCEPT ![dst] = FL.slot[FL'.front]]
    BY <2>1, <2>3 DEF GetHead
  <2>9. RMT' \in [LogReg -> PhysReg]
    BY <2>7, <2>8, Types
  <2> QED BY <1>2, <2>3, <2>4, <2>5, <2>6, <2>7, <2>8, <2>9
<1> QED BY <1>1, <1>2

(* Both rename actions append an instruction; a branch takes a checkpoint. *)
LEMMA AppendInv ==
  ASSUME IInv, NEW dst \in LogReg \cup {None}, NEW id \in BranchID \cup {None},
         NEW sys \in BOOLEAN, sys => id = None,
         RenameDst(dst), win' = Append(win, Renamed(dst, id, sys)),
         id = None => UNCHANGED <<GBM, BRCP>>,
         id /= None => checkpoint(id),
         UNCHANGED <<AMT, AL, regVars>>, bundle' \in Bundle, BundleInv'
  PROVE  IInv'
<1> DEFINE new == Renamed(dst, id, sys)
<1>1. /\ FL' \in QueueOf(PhysReg \cup {None}) /\ FL'.front \in Index
      /\ FL'.rear = FL.rear /\ FL'.slot = FL.slot
      /\ RMT' \in [LogReg -> PhysReg]
      /\ dst = None => FL'.front = FL.front /\ RMT' = RMT
      /\ dst /= None =>
           /\ RMT' = [RMT EXCEPT ![dst] = FL.slot[FL'.front]]
           /\ FL.slot[FL'.front] \in PhysReg
           /\ FL'.front /= Gap(FL)
           /\ Dist(FL, FL'.front) = Dist(FL, FL.front) + 1
  BY RenameDstFacts
<1>2. None \notin LogReg /\ None \notin PhysReg /\ None \notin BranchID
  BY Sizes
<1>3. /\ new.dst = dst /\ new.br = id /\ new.sys = sys /\ new.alx = None
      /\ new.slot = FL'.front /\ new.mask = GBM /\ new.srcs = RMT
      /\ new.phys = IF dst = None THEN None ELSE RMT'[dst]
  <2>1. [l \in LogReg |-> RMT[l]] = RMT
    BY Types
  <2> QED BY <2>1 DEF Renamed, rename_rsrc, get_branch_mask
<1>4. new \in Inst
  <2>1. (IF dst = None THEN None ELSE RMT'[dst]) \in PhysReg \cup {None}
    BY <1>1
  <2>2. [l \in LogReg |-> RMT[l]] \in [LogReg -> PhysReg]
    BY Types
  <2> QED BY <1>1, <2>1, <2>2, Types DEF Renamed, Inst, rename_rsrc, get_branch_mask
<1>5. /\ win' = Append(win, new) /\ win' \in Seq(Inst)
      /\ Of(win') = Of(win) \cup {Len(win) + 1} /\ win'[Len(win) + 1] = new
      /\ \A k \in Of(win) : win'[k] = win[k]
  BY <1>4, Types, OfAppend
<1>6. id /= None => /\ id \in BranchID /\ id \notin GBM
                    /\ BRCP' = [BRCP EXCEPT ![id] = [RMT_shdw |-> RMT',
                                  FL_head |-> FL'.front, GBM |-> GBM]]
                    /\ GBM' = GBM \cup {id}
  BY DEF checkpoint, HighestFree, Xor
<1> HIDE DEF new
<1>7. /\ id \notin GBM
      /\ GBM' = IF id = None THEN GBM ELSE GBM \cup {id}
      /\ \A b \in GBM : BRCP'[b] = BRCP[b]
  BY <1>2, <1>6, Types
<1>8. id /= None => /\ BRCP'[id].RMT_shdw = RMT' /\ BRCP'[id].FL_head = FL'.front
                    /\ BRCP'[id].GBM = GBM
  BY <1>6, Types
<1>9. TypeOK'
  <2>1. [RMT_shdw |-> RMT', FL_head |-> FL'.front, GBM |-> GBM] \in Checkpoint
    BY <1>1, Types DEF Checkpoint
  <2>2. BRCP' \in [BranchID -> Checkpoint] /\ GBM' \in SUBSET BranchID
    BY <1>6, <2>1, Types
  <2>3. /\ AMT' = AMT /\ AL' = AL /\ PRF' = PRF /\ PRF_rdy' = PRF_rdy
    BY DEF regVars
  <2> QED BY <1>1, <1>5, <2>2, <2>3, Types DEF TypeOK
<1>10. DstOf(win')
  <2> SUFFICES ASSUME NEW k \in Of(win')
               PROVE  /\ win'[k].dst /= None <=> win'[k].phys /= None
                      /\ win'[k].sys => win'[k].br = None
    BY DEF DstOf
  <2>1. CASE k \in Of(win)
    BY <2>1, <1>5 DEF IInv, DstOf
  <2>2. CASE k = Len(win) + 1
    <3>1. dst /= None => RMT'[dst] \in PhysReg
      BY <1>1
    <3> QED BY <2>2, <3>1, <1>2, <1>3, <1>5
  <2> QED BY <2>1, <2>2, <1>5
<1>11. ListOf(AL', win')
  <2>1. ListOf(AL, Append(win, new))
    BY <1>3, <1>4, Types, ListAppend DEF IInv
  <2> QED BY <2>1, <1>5
<1>12. RingOf(FL', win')
  <2>1. RingOf(FL, win) /\ new.dst = dst
    BY <1>3 DEF IInv
  <2>2. dst /= None => new.phys = FL.slot[FL'.front]
    BY <1>1, <1>3, Types
  <2>3. /\ new.slot = FL'.front
        /\ new.dst = None => FL'.front = FL.front
        /\ new.dst /= None => /\ FL'.front /= Gap(FL)
                              /\ Dist(FL, FL'.front) = Dist(FL, FL.front) + 1
                              /\ new.phys = FL.slot[FL'.front]
    BY <1>1, <1>3, <2>2
  <2>4. /\ win \in Seq(Inst) /\ FL.front \in Index /\ FL.rear \in Index
        /\ FL'.rear = FL.rear /\ FL'.slot = FL.slot /\ FL'.front \in Index
    BY <1>1, Types
  <2>5. RingOf(FL', Append(win, new))
    BY <1>4, <2>1, <2>3, <2>4, RingAppend
  <2> QED BY <2>5, <1>5
<1>13. HeldOf(FL', AMT')
  <2>1. HeldOf(FL', AMT)
    BY <1>1, HeldSame DEF IInv
  <2> QED BY <2>1
<1>14. MaskOf(GBM', win')
  <2>1. MaskOf(GBM', Append(win, new))
    BY <1>3, <1>4, <1>7, Types, MaskAppend DEF IInv
  <2> QED BY <2>1, <1>5
<1>15. CkptOf(BRCP', win')
  <2>1. CkptOf(BRCP', Append(win, new))
    BY <1>3, <1>4, <1>7, <1>8, Types, CkptAppend DEF IInv
  <2> QED BY <2>1, <1>5
<1>16. MapsOf(RMT', AMT', BRCP', win')
  <2>1. RMT' = IF new.dst = None THEN RMT ELSE [RMT EXCEPT ![new.dst] = new.phys]
    BY <1>1, <1>3, Types
  <2>2. /\ win \in Seq(Inst) /\ RMT \in [LogReg -> PhysReg]
        /\ MaskOf(GBM, win) /\ MapsOf(RMT, AMT, BRCP, win)
    BY Types DEF IInv
  <2>3. /\ new.br \notin GBM /\ new.srcs = RMT
        /\ \A b \in GBM : BRCP'[b] = BRCP[b]
        /\ new.br /= None => BRCP'[new.br].RMT_shdw = RMT'
    BY <1>3, <1>7, <1>8
  <2>4. MapsOf(RMT', AMT, BRCP', Append(win, new))
    BY <1>4, <2>1, <2>2, <2>3, MapsAppend
  <2> QED BY <2>4, <1>5
<1> QED BY <1>9, <1>10, <1>11, <1>12, <1>13, <1>14, <1>15, <1>16 DEF IInv

(* A bundle that loses an instruction stays well formed.                   *)
LEMMA TakeFacts ==
  ASSUME IInv, NEW hasDst \in BOOLEAN, NEW isBr \in BOOLEAN,
         TakeFromBundle(hasDst, isBr)
  PROVE  bundle' \in Bundle /\ BundleInv'
<1> DEFINE left == bundle.left - 1
           dst  == IF hasDst THEN bundle.dst - 1 ELSE bundle.dst
           br   == IF isBr THEN bundle.br - 1 ELSE bundle.br
<1>1. /\ bundle \in Bundle /\ bundle.phase = "rename"
      /\ bundle.left > 0 /\ bundle.size > 0
  BY Types DEF TakeFromBundle, IInv, BundleInv
<1>2. /\ bundle.left \in 0 .. MaxBundle /\ bundle.size \in 0 .. MaxBundle
      /\ bundle.dst \in 0 .. MaxBundle /\ bundle.br \in 0 .. MaxBundle
      /\ MaxBundle \in Nat /\ 0 \in 0 .. MaxBundle
  BY <1>1, PipelineAssumption DEF Bundle
<1>3. left \in 0 .. MaxBundle /\ dst \in 0 .. MaxBundle /\ br \in 0 .. MaxBundle
  BY <1>1, <1>2 DEF TakeFromBundle
<1>4. bundle' = IF left = 0
                THEN [NoBundle EXCEPT !.phase = "latched", !.size = bundle.size,
                                      !.left = bundle.size]
                ELSE [bundle EXCEPT !.left = left, !.dst = dst, !.br = br]
  BY DEF TakeFromBundle
<1> HIDE DEF left, dst, br
<1>5. CASE left = 0
  <2>1. bundle' = [phase |-> "latched", size |-> bundle.size,
                   left |-> bundle.size, dst |-> 0, br |-> 0]
    BY <1>4, <1>5 DEF NoBundle
  <2> QED BY <2>1, <1>1, <1>2 DEF Bundle, BundleInv
<1>6. CASE left /= 0
  <2>1. bundle' = [bundle EXCEPT !.left = left, !.dst = dst, !.br = br]
    BY <1>4, <1>6
  <2>2. bundle' \in Bundle
    BY <2>1, <1>1, <1>3 DEF Bundle
  <2>3. bundle'.left = left /\ bundle'.size = bundle.size
    BY <2>1, <1>1 DEF Bundle
  <2> QED BY <2>2, <2>3, <1>1, <1>3, <1>6 DEF BundleInv
<1> QED BY <1>5, <1>6

(* An instruction that is no branch is renamed.                            *)
LEMMA RenameInstInv ==
  ASSUME IInv, NEW dst \in LogReg \cup {None}, NEW sys \in SysInst,
         RenameInst(dst, sys)
  PROVE  IInv'
<1>1. sys \in BOOLEAN /\ None \in BranchID \cup {None}
  BY PipelineAssumption
<1>2. bundle' \in Bundle /\ BundleInv'
  <2>1. (dst /= None) \in BOOLEAN /\ FALSE \in BOOLEAN
        /\ TakeFromBundle(dst /= None, FALSE)
    BY DEF RenameInst
  <2> QED BY <2>1, TakeFacts
<1>3. /\ RenameDst(dst) /\ win' = Append(win, Renamed(dst, None, sys))
      /\ UNCHANGED <<GBM, BRCP>> /\ UNCHANGED <<AMT, AL, regVars>>
  BY DEF RenameInst
<1> QED BY <1>1, <1>2, <1>3, AppendInv

(* A branch is renamed and checkpointed.                                   *)
LEMMA RenameBranchInv ==
  ASSUME IInv, NEW dst \in LogReg \cup {None}, NEW id \in BranchID,
         RenameBranch(dst, id)
  PROVE  IInv'
<1>1. FALSE \in BOOLEAN /\ id \in BranchID \cup {None} /\ id /= None
  BY Sizes
<1>2. bundle' \in Bundle /\ BundleInv'
  <2>1. (dst /= None) \in BOOLEAN /\ TRUE \in BOOLEAN
        /\ TakeFromBundle(dst /= None, TRUE)
    BY DEF RenameBranch
  <2> QED BY <2>1, TakeFacts
<1>3. /\ RenameDst(dst) /\ win' = Append(win, Renamed(dst, id, FALSE))
      /\ checkpoint(id) /\ UNCHANGED <<AMT, AL, regVars>>
  BY DEF RenameBranch
<1> QED BY <1>1, <1>2, <1>3, AppendInv

(***************************************************************************)
(* Dispatch and execute.                                                   *)
(***************************************************************************)
(* Steps that leave the map tables, the lists and the checkpoints alone    *)
(* and change of the window at most results and wake-ups.                  *)
LEMMA RegisterStepInv ==
  ASSUME IInv, UNCHANGED mapVars, win' \in Seq(Inst), Len(win') = Len(win),
         \A k \in Of(win) :
           /\ win'[k].dst = win[k].dst /\ win'[k].phys = win[k].phys
           /\ win'[k].srcs = win[k].srcs /\ win'[k].br = win[k].br
           /\ win'[k].mask = win[k].mask /\ win'[k].alx = win[k].alx
           /\ win'[k].sys = win[k].sys /\ win'[k].slot = win[k].slot,
         PRF' \in [PhysReg -> Value], PRF_rdy' \in [PhysReg -> BOOLEAN],
         bundle' \in Bundle, BundleInv'
  PROVE  IInv'
<1>1. /\ RMT' = RMT /\ AMT' = AMT /\ FL' = FL /\ AL' = AL /\ GBM' = GBM
      /\ BRCP' = BRCP
  BY DEF mapVars
<1>2. Of(win') = Of(win) /\ Len(win) \in Nat
  BY Types, LenProperties DEF Of
<1>3. TypeOK'
  BY <1>1, Types DEF TypeOK
<1>4. DstOf(win')
  BY <1>2 DEF IInv, DstOf
<1>5. ListOf(AL, win')
  BY <1>2, ListSame DEF IInv
<1>6. RingOf(FL, win')
  BY <1>2, RingSame DEF IInv
<1>7. MaskOf(GBM, win')
  BY <1>2, MaskSame DEF IInv
<1>8. CkptOf(BRCP, win')
  BY <1>2, CkptSame DEF IInv
<1>9. MapsOf(RMT, AMT, BRCP, win')
  BY <1>2, Types, MapsSame DEF IInv
<1>10. HeldOf(FL, AMT)
  BY DEF IInv
<1> QED BY <1>1, <1>3, <1>4, <1>5, <1>6, <1>7, <1>8, <1>9, <1>10 DEF IInv

(* A step of the bundle alone.                                             *)
LEMMA BundleStepInv ==
  ASSUME IInv, UNCHANGED <<win, renVars>>, bundle' \in Bundle, BundleInv'
  PROVE  IInv'
<1>1. UNCHANGED mapVars /\ win' = win /\ PRF' = PRF /\ PRF_rdy' = PRF_rdy
  BY DEF mapVars, renVars
<1> QED BY <1>1, Types, RegisterStepInv

(* A bundle arrives.                                                       *)
LEMMA ArriveInv ==
  ASSUME IInv, NEW n \in 1 .. MaxBundle, NEW d \in 0 .. MaxBundle,
         NEW b \in 0 .. MaxBundle, Arrive(n, d, b)
  PROVE  IInv'
<1>1. bundle' = [phase |-> "waiting", size |-> n, left |-> n, dst |-> d, br |-> b]
  BY DEF Arrive
<1>2. n \in 0 .. MaxBundle /\ n > 0
  BY PipelineAssumption
<1>3. bundle' \in Bundle /\ BundleInv'
  BY <1>1, <1>2 DEF Bundle, BundleInv
<1> QED BY <1>3, BundleStepInv DEF Arrive

(* A bundle passes its stall query.                                        *)
LEMMA StartInv ==
  ASSUME IInv, StartRename \/ StartDispatch
  PROVE  IInv'
<1>1. PICK p \in {"rename", "dispatch"} :
        bundle' = [bundle EXCEPT !.phase = p] /\ bundle.phase /= "empty"
  BY DEF StartRename, StartDispatch
<1>2. bundle' \in Bundle
  BY <1>1, Types DEF Bundle
<1>3. bundle'.left = bundle.left /\ bundle'.size = bundle.size
  BY <1>1, Types DEF Bundle
<1>4. BundleInv'
  BY <1>1, <1>3 DEF IInv, BundleInv
<1> QED BY <1>2, <1>4, BundleStepInv DEF StartRename, StartDispatch

(* set_ready and write only touch registers.                               *)
LEMMA WakeupInv ==
  ASSUME IInv, NEW k \in Of(win), Wakeup(k)
  PROVE  IInv'
<1> DEFINE e == [win[k] EXCEPT !.awake = TRUE]
<1>1. win[k] \in Inst
  BY Types, InstAt
<1>2. e \in Inst
  BY <1>1 DEF Inst
<1>3. win' = [win EXCEPT ![k] = e]
  BY DEF Wakeup
<1>4. /\ e.dst = win[k].dst /\ e.phys = win[k].phys /\ e.srcs = win[k].srcs
      /\ e.br = win[k].br /\ e.mask = win[k].mask /\ e.alx = win[k].alx
      /\ e.sys = win[k].sys /\ e.slot = win[k].slot
  BY <1>1 DEF Inst
<1> HIDE DEF e
<1>5. /\ win' \in Seq(Inst) /\ Len(win') = Len(win) /\ win'[k] = e
      /\ \A j \in Of(win) : j /= k => win'[j] = win[j]
  BY <1>2, <1>3, Types, OfPut
<1>6. PRF' = PRF /\ PRF_rdy' = [PRF_rdy EXCEPT ![win[k].phys] = TRUE]
      /\ UNCHANGED mapVars /\ bundle' = bundle
  BY DEF Wakeup, set_ready
<1>7. PRF' \in [PhysReg -> Value] /\ PRF_rdy' \in [PhysReg -> BOOLEAN]
  BY <1>6, Types
<1>8. bundle' \in Bundle /\ BundleInv'
  BY <1>6, Types DEF IInv, BundleInv
<1> QED BY <1>4, <1>5, <1>6, <1>7, <1>8, RegisterStepInv

(* A result is written.                                                    *)
LEMMA WriteResultInv ==
  ASSUME IInv, NEW k \in Of(win), NEW v \in Value, WriteResult(k, v)
  PROVE  IInv'
<1> DEFINE e == [win[k] EXCEPT !.val = v, !.awake = TRUE]
<1>1. win[k] \in Inst
  BY Types, InstAt
<1>2. e \in Inst
  BY <1>1 DEF Inst
<1>3. win' = [win EXCEPT ![k] = e]
  <2>1. win' = [win EXCEPT ![k].val = v, ![k].awake = TRUE]
    BY DEF WriteResult
  <2>2. win \in [1 .. Len(win) -> Inst] /\ k \in 1 .. Len(win)
    BY Types, LenProperties DEF Of
  <2> QED BY <2>1, <2>2
<1>4. /\ e.dst = win[k].dst /\ e.phys = win[k].phys /\ e.srcs = win[k].srcs
      /\ e.br = win[k].br /\ e.mask = win[k].mask /\ e.alx = win[k].alx
      /\ e.sys = win[k].sys /\ e.slot = win[k].slot
  BY <1>1 DEF Inst
<1> HIDE DEF e
<1>5. /\ win' \in Seq(Inst) /\ Len(win') = Len(win) /\ win'[k] = e
      /\ \A j \in Of(win) : j /= k => win'[j] = win[j]
  BY <1>2, <1>3, Types, OfPut
<1>6. /\ PRF' = [PRF EXCEPT ![win[k].phys] = v]
      /\ PRF_rdy' = [PRF_rdy EXCEPT ![win[k].phys] = TRUE]
      /\ UNCHANGED mapVars /\ bundle' = bundle
  BY DEF WriteResult, write, set_ready
<1>7. PRF' \in [PhysReg -> Value] /\ PRF_rdy' \in [PhysReg -> BOOLEAN]
  BY <1>6, Types
<1>8. bundle' \in Bundle /\ BundleInv'
  BY <1>6, Types DEF IInv, BundleInv
<1> QED BY <1>4, <1>5, <1>6, <1>7, <1>8, RegisterStepInv

(* An instruction enters the active list.                                  *)
LEMMA DispatchInstInv ==
  ASSUME IInv, NEW k \in Of(win), DispatchInst(k)
  PROVE  IInv'
<1> DEFINE a == [dst_lgc |-> win[k].dst, dst_phy |-> win[k].phys,
                 completed |-> FALSE, marks |-> {}, sys |-> win[k].sys]
           e == [win[k] EXCEPT !.alx = AL'.rear]
<1>1. win[k] \in Inst
  BY Types, InstAt
<1>2. /\ a \in ALEntry /\ a.dst_lgc = win[k].dst /\ a.dst_phy = win[k].phys
      /\ a.sys = win[k].sys /\ ~a.completed
  BY <1>1 DEF ALEntry, Inst
<1>3. ~IsFull(AL) /\ AL' = Add(AL, a)
  BY DEF DispatchInst, dispatch_inst
<1>4. win[k].alx = None /\ \A j \in 1 .. k - 1 : win[j].alx /= None
  BY DEF DispatchInst, Dispatched
<1>5. /\ RMT' = RMT /\ AMT' = AMT /\ FL' = FL /\ PRF' = PRF /\ GBM' = GBM
      /\ BRCP' = BRCP
  BY DEF DispatchInst
<1> HIDE DEF a
<1>6. AL' \in QueueOf(ALEntry \cup {None}) /\ AL'.rear \in Index
  <2>1. Succ(AL.rear) \in Index
    BY Types, SuccIs
  <2>2. [AL.slot EXCEPT ![Succ(AL.rear)] = a] \in [Index -> ALEntry \cup {None}]
    BY <1>2, Types
  <2>3. AL' = [front |-> AL.front, rear |-> Succ(AL.rear),
               slot |-> [AL.slot EXCEPT ![Succ(AL.rear)] = a]]
    BY <1>3, Types DEF Add, QueueOf
  <2> QED BY <2>1, <2>2, <2>3, Types DEF QueueOf
<1>20. /\ AL'.front = AL.front /\ AL'.rear = Gap(AL)
      /\ PutSlot(AL, AL', Gap(AL), a)
  BY <1>3, Types, SuccIs DEF Add, QueueOf, Gap, PutSlot
<1>7. /\ e \in Inst /\ e.alx = AL'.rear
      /\ e.dst = win[k].dst /\ e.phys = win[k].phys /\ e.srcs = win[k].srcs
      /\ e.br = win[k].br /\ e.mask = win[k].mask
      /\ e.sys = win[k].sys /\ e.slot = win[k].slot
  BY <1>1, <1>6 DEF Inst
<1>8. win' = [win EXCEPT ![k] = e]
  BY DEF DispatchInst
<1> HIDE DEF e
<1>9. /\ win' \in Seq(Inst) /\ Len(win') = Len(win) /\ Of(win') = Of(win)
      /\ win'[k] = e /\ \A j \in Of(win) : j /= k => win'[j] = win[j]
  <2>1. win \in Seq(Inst) /\ e \in Inst
    BY <1>7, Types
  <2>2. /\ win' \in Seq(Inst) /\ Len(win') = Len(win)
        /\ win'[k] = e /\ \A j \in Of(win) : j /= k => win'[j] = win[j]
    BY <2>1, <1>8, OfPut
  <2> QED BY <2>2 DEF Of
<1>10. \A j \in Of(win) :
         /\ win'[j].dst = win[j].dst /\ win'[j].phys = win[j].phys
         /\ win'[j].srcs = win[j].srcs /\ win'[j].br = win[j].br
         /\ win'[j].mask = win[j].mask
         /\ win'[j].sys = win[j].sys /\ win'[j].slot = win[j].slot
  BY <1>7, <1>9
<1>11. bundle' \in Bundle /\ BundleInv'
  <2>1. bundle \in Bundle /\ bundle.left > 0 /\ bundle.size > 0
        /\ bundle' = IF bundle.left = 1 THEN NoBundle
                     ELSE [bundle EXCEPT !.left = bundle.left - 1]
    BY Types DEF DispatchInst, IInv, BundleInv
  <2>2. bundle.left \in 0 .. MaxBundle /\ MaxBundle \in Nat
    BY <2>1, PipelineAssumption DEF Bundle
  <2>3. CASE bundle.left = 1
    <3>1. 0 \in 0 .. MaxBundle
      BY <2>2
    <3> QED BY <2>1, <2>3, <3>1 DEF NoBundle, Bundle, BundleInv
  <2>4. CASE bundle.left /= 1
    <3>1. bundle.left - 1 \in 0 .. MaxBundle /\ bundle.left - 1 > 0
      BY <2>1, <2>2, <2>4
    <3>2. bundle' = [bundle EXCEPT !.left = bundle.left - 1]
      BY <2>1, <2>4
    <3>3. bundle' \in Bundle
      BY <2>1, <3>1, <3>2 DEF Bundle
    <3>4. bundle'.left = bundle.left - 1 /\ bundle'.size = bundle.size
      BY <2>1, <3>2 DEF Bundle
    <3> QED BY <2>1, <3>1, <3>3, <3>4 DEF BundleInv
  <2> QED BY <2>3, <2>4
<1>12. TypeOK'
  <2>1. PRF_rdy' \in [PhysReg -> BOOLEAN]
    BY Types DEF DispatchInst, clear_ready
  <2> QED BY <1>5, <1>6, <1>9, <1>11, <2>1, Types DEF TypeOK
<1>13. DstOf(win')
  BY <1>9, <1>10 DEF IInv, DstOf
<1>14. ListOf(AL', win')
  <2>1. ListOf(AL, win) /\ AL \in QueueOf(ALEntry \cup {None}) /\ win \in Seq(Inst)
    BY Types DEF IInv
  <2>2. EntryFor(a, win'[k]) /\ win'[k].alx = Gap(AL)
    BY <1>2, <1>7, <1>9, <1>20 DEF EntryFor
  <2>3. /\ Of(win') = Of(win) /\ Len(win') = Len(win)
        /\ OthersSame(win, win', k)
    BY <1>9 DEF OthersSame
  <2>4. ~IsFull(AL) /\ NextToDispatch(win, k)
    BY <1>3, <1>4 DEF NextToDispatch
  <2> QED BY <1>20, <2>1, <2>2, <2>3, <2>4, ListDispatch
<1>15. RingOf(FL', win')
  BY <1>5, <1>9, <1>10, RingSame DEF IInv
<1>16. MaskOf(GBM', win')
  BY <1>5, <1>9, <1>10, MaskSame DEF IInv
<1>17. CkptOf(BRCP', win')
  BY <1>5, <1>9, <1>10, CkptSame DEF IInv
<1>18. MapsOf(RMT', AMT', BRCP', win')
  BY <1>5, <1>9, <1>10, Types, MapsSame DEF IInv
<1>19. HeldOf(FL', AMT')
  BY <1>5 DEF IInv
<1> QED BY <1>11, <1>12, <1>13, <1>14, <1>15, <1>16, <1>17, <1>18, <1>19 DEF IInv

(* set_complete and the setters of the marks change one entry of the list. *)
LEMMA EntryAt ==
  ASSUME NEW w \in Seq(Inst), NEW al, ListOf(al, w),
         NEW k \in Of(w), w[k].alx /= None
  PROVE  EntryOf(al, w[k], k) /\ w[k].alx \in Index
<1>1. PICK n \in 0 .. Len(w) : n <= ListSize /\ ListUpTo(al, w, n)
  BY DEF ListOf
<1>2. k \in 1 .. n
  BY <1>1, LenProperties DEF ListUpTo, Of
<1>3. w[k].alx \in Index
  BY InstAt
<1> QED BY <1>1, <1>2, <1>3 DEF ListUpTo

(* A step that only rewrites one active list entry.                        *)
LEMMA EntryStepInv ==
  ASSUME IInv, NEW k \in Of(win), win[k].alx /= None,
         NEW e, EntryFor(e, win[k]),
         AL' = [AL EXCEPT !.slot[win[k].alx] = e],
         UNCHANGED <<win, bundle, RMT, AMT, FL, GBM, BRCP, regVars>>
  PROVE  IInv'
<1>1. /\ win' = win /\ bundle' = bundle /\ RMT' = RMT /\ AMT' = AMT /\ FL' = FL
      /\ GBM' = GBM /\ BRCP' = BRCP /\ PRF' = PRF /\ PRF_rdy' = PRF_rdy
  BY DEF regVars
<1>2. ListOf(AL, win)
  BY DEF IInv
<1>3. win[k].alx \in Index /\ e \in ALEntry
  BY <1>2, Types, EntryAt DEF EntryFor
<1>4. /\ AL' \in QueueOf(ALEntry \cup {None})
      /\ AL'.front = AL.front /\ AL'.rear = AL.rear
      /\ PutSlot(AL, AL', win[k].alx, e)
  BY <1>3, Types DEF QueueOf, PutSlot
<1>5. ListOf(AL', win)
  <2>1. AL \in QueueOf(ALEntry \cup {None}) /\ win \in Seq(Inst)
    BY Types
  <2> QED BY <1>2, <1>4, <2>1, ListEntry
<1>6. TypeOK'
  BY <1>1, <1>4, Types DEF TypeOK
<1> QED BY <1>1, <1>5, <1>6 DEF IInv, BundleInv

(* An instruction completes: it is no unresolved branch.                   *)
LEMMA CompleteInstInv ==
  ASSUME IInv, NEW k \in Of(win), CompleteInst(k)
  PROVE  IInv'
<1> DEFINE x == win[k].alx
           e == [AL.slot[x] EXCEPT !.completed = TRUE]
<1>1. x /= None /\ (Finished(k) \/ win[k].sys)
  BY DEF CompleteInst, Dispatched
<1>2. EntryOf(AL, win[k], k)
  BY <1>1, Types, EntryAt DEF IInv
<1>3. EntryFor(AL.slot[x], win[k])
  BY <1>2 DEF EntryOf
<1>5. win[k].br = None
  BY <1>1 DEF Finished, IInv, DstOf
<1>4. EntryFor(e, win[k])
  BY <1>3, <1>5 DEF EntryFor, ALEntry
<1>6. AL' = [AL EXCEPT !.slot[x] = e]
  BY DEF CompleteInst, set_complete
<1>7. UNCHANGED <<win, bundle, RMT, AMT, FL, GBM, BRCP, regVars>>
  BY DEF CompleteInst
<1> HIDE DEF e
<1> QED BY <1>1, <1>4, <1>6, <1>7, EntryStepInv

(* An instruction is marked.                                               *)
LEMMA MarkInstInv ==
  ASSUME IInv, NEW k \in Of(win), NEW mark \in Marks, MarkInst(k, mark)
  PROVE  IInv'
<1> DEFINE x == win[k].alx
           e == [AL.slot[x] EXCEPT !.marks = @ \cup {mark}]
<1>1. x /= None
  BY DEF MarkInst, Dispatched
<1>2. EntryOf(AL, win[k], k)
  BY <1>1, Types, EntryAt DEF IInv
<1>3. EntryFor(AL.slot[x], win[k]) /\ mark \in Mark
  BY <1>2, PipelineAssumption DEF EntryOf
<1>4. EntryFor(e, win[k])
  BY <1>3 DEF EntryFor, ALEntry
<1>5. AL' = [AL EXCEPT !.slot[x] = e]
  BY DEF MarkInst, set_mark
<1>6. UNCHANGED <<win, bundle, RMT, AMT, FL, GBM, BRCP, regVars>>
  BY DEF MarkInst
<1> HIDE DEF e
<1> QED BY <1>1, <1>4, <1>5, <1>6, EntryStepInv

(***************************************************************************)
(* Resolve.                                                                *)
(***************************************************************************)
(* A function on 1..n is a sequence of length n.                           *)
LEMMA SeqOfFunction ==
  ASSUME NEW S, NEW n \in Nat, NEW f \in [1 .. n -> S]
  PROVE  f \in Seq(S) /\ Len(f) = n
<1>1. f \in Seq(S)
  BY SeqDef
<1>2. DOMAIN f = 1 .. n /\ DOMAIN f = 1 .. Len(f) /\ Len(f) \in Nat
  BY <1>1, LenProperties
<1> QED BY <1>1, <1>2

(* ResolveCorrect's window.                                                *)
LEMMA ResolvedFacts ==
  ASSUME NEW w \in Seq(Inst), NEW k \in Of(w), NEW w2,
         w2 = [j \in Of(w) |-> [w[j] EXCEPT !.mask = @ \ {w[k].br},
                                            !.br = IF j = k THEN None ELSE @]]
  PROVE  w2 \in Seq(Inst) /\ Resolved(w, w2, k)
<1>1. Len(w) \in Nat /\ Of(w) = 1 .. Len(w)
  BY LenProperties DEF Of
<1>2. \A j \in Of(w) : w[j] \in Inst
  BY InstAt
<1>3. \A j \in Of(w) : w2[j] = [w[j] EXCEPT !.mask = w[j].mask \ {w[k].br},
                                            !.br = IF j = k THEN None ELSE w[j].br]
  OBVIOUS
<1>4. \A j \in Of(w) :
        /\ w2[j] \in Inst
        /\ w2[j].dst = w[j].dst /\ w2[j].phys = w[j].phys
        /\ w2[j].srcs = w[j].srcs /\ w2[j].mask = w[j].mask \ {w[k].br}
        /\ w2[j].alx = w[j].alx /\ w2[j].sys = w[j].sys
        /\ w2[j].slot = w[j].slot
        /\ w2[j].br = IF j = k THEN None ELSE w[j].br
  <2> TAKE j \in Of(w)
  <2> DEFINE m == w[j].mask \ {w[k].br}
             b == IF j = k THEN None ELSE w[j].br
  <2>1. m \in SUBSET BranchID /\ b \in BranchID \cup {None}
    BY InstAt
  <2>2. w2[j] = [w[j] EXCEPT !.mask = m, !.br = b]
    BY <1>3
  <2> HIDE DEF m, b
  <2>3. /\ w2[j] \in Inst
        /\ w2[j].dst = w[j].dst /\ w2[j].phys = w[j].phys
        /\ w2[j].srcs = w[j].srcs /\ w2[j].mask = m
        /\ w2[j].alx = w[j].alx /\ w2[j].sys = w[j].sys
        /\ w2[j].slot = w[j].slot /\ w2[j].br = b
    BY <2>1, <2>2, <1>2 DEF Inst
  <2> QED BY <2>3 DEF m, b
<1>5. w2 = [j \in Of(w) |-> w2[j]]
  OBVIOUS
<1>6. w2 \in [1 .. Len(w) -> Inst]
  BY <1>1, <1>4, <1>5
<1>7. w2 \in Seq(Inst) /\ Len(w2) = Len(w)
  BY <1>1, <1>6, SeqOfFunction
<1>8. Of(w2) = Of(w)
  BY <1>7 DEF Of
<1> QED BY <1>4, <1>7, <1>8 DEF Resolved

(* A branch resolves as predicted.                                         *)
LEMMA ResolveCorrectInv ==
  ASSUME IInv, NEW k \in Of(win), ResolveCorrect(k)
  PROVE  IInv'
<1> DEFINE id == win[k].br
<1>1. id /= None
  BY DEF ResolveCorrect, ReadyToResolve
<1>2. id \in BranchID /\ id \in GBM
  BY <1>1, Types, UsedID DEF IInv
<1>3. /\ RMT' = RMT /\ AMT' = AMT /\ FL' = FL /\ AL' = AL /\ bundle' = bundle
      /\ PRF' = PRF /\ PRF_rdy' = PRF_rdy
  BY DEF ResolveCorrect, resolve_correct, regVars
<1>4. GBM' = GBM \ {id}
  BY <1>2 DEF ResolveCorrect, resolve_correct, Xor
<1>5. BRCP' = [b \in BranchID |-> IF id \in BRCP[b].GBM
                                  THEN [BRCP[b] EXCEPT !.GBM = Xor(@, {id})]
                                  ELSE BRCP[b]]
  BY DEF ResolveCorrect, resolve_correct
<1>6. win' \in Seq(Inst) /\ Resolved(win, win', k)
  BY Types, ResolvedFacts DEF ResolveCorrect
<1> HIDE DEF id
<1>7. BRCP' \in [BranchID -> Checkpoint] /\ BitCleared(BRCP, BRCP', id)
  <2>1. \A b \in BranchID :
          /\ BRCP'[b] \in Checkpoint
          /\ BRCP'[b].GBM = BRCP[b].GBM \ {id}
          /\ BRCP'[b].FL_head = BRCP[b].FL_head
          /\ BRCP'[b].RMT_shdw = BRCP[b].RMT_shdw
    <3> TAKE b \in BranchID
    <3>1. BRCP[b] \in Checkpoint
      BY Types
    <3>2. CASE id \in BRCP[b].GBM
      <4>1. Xor(BRCP[b].GBM, {id}) = BRCP[b].GBM \ {id}
        BY <3>2 DEF Xor
      <4>2. BRCP'[b] = [BRCP[b] EXCEPT !.GBM = BRCP[b].GBM \ {id}]
        BY <3>2, <4>1, <1>5
      <4> QED BY <3>1, <4>2 DEF Checkpoint
    <3>3. CASE id \notin BRCP[b].GBM
      <4>1. BRCP'[b] = BRCP[b]
        BY <3>3, <1>5
      <4>2. BRCP[b].GBM \ {id} = BRCP[b].GBM
        BY <3>3
      <4> QED BY <3>1, <4>1, <4>2
    <3> QED BY <3>2, <3>3
  <2>2. BRCP' = [b \in BranchID |-> BRCP'[b]]
    BY <1>5
  <2> QED BY <2>1, <2>2 DEF BitCleared
<1>8. TypeOK'
  BY <1>3, <1>4, <1>6, <1>7, Types DEF TypeOK
<1>9. DstOf(win')
  BY <1>6 DEF IInv, DstOf, Resolved
<1>10. Len(win) \in Nat
  BY Types, LenProperties
<1>11. ListOf(AL, win')
  BY <1>6, <1>10, ListSame DEF IInv, Resolved
<1>12. RingOf(FL, win')
  BY <1>6, RingSame DEF IInv, Resolved
<1>13. MaskOf(GBM', win')
  <2>1. MaskOf(GBM \ {win[k].br}, win')
    BY <1>1, <1>6, Types, MaskResolve DEF IInv, id
  <2> QED BY <2>1, <1>4 DEF id
<1>14. CkptOf(BRCP', win')
  BY <1>6, <1>7, Types, CkptResolve DEF IInv, id
<1>15. MapsOf(RMT, AMT, BRCP', win')
  <2>1. MapsOf(RMT, AMT, BRCP, win) /\ win \in Seq(Inst)
    BY Types DEF IInv
  <2> QED BY <1>3, <1>6, <1>7, <2>1, MapsResolve
<1> QED BY <1>3, <1>8, <1>9, <1>11, <1>12, <1>13, <1>14, <1>15 DEF IInv, BundleInv

(* ResolveMispredict's window.                                             *)
LEMMA TruncatedFacts ==
  ASSUME NEW w \in Seq(Inst), NEW k \in Of(w)
  PROVE  LET w2 == SubSeq([w EXCEPT ![k].br = None], 1, k)
         IN  w2 \in Seq(Inst) /\ Truncated(w, w2, k)
<1> DEFINE e  == [w[k] EXCEPT !.br = None]
           v  == [w EXCEPT ![k] = e]
           w2 == SubSeq(v, 1, k)
<1>1. Len(w) \in Nat /\ Of(w) = 1 .. Len(w) /\ k \in Nat /\ 1 <= k /\ k <= Len(w)
  BY LenProperties DEF Of
<1>2. w[k] \in Inst
  BY InstAt
<1>3. /\ e \in Inst /\ e.br = None
      /\ e.dst = w[k].dst /\ e.phys = w[k].phys /\ e.srcs = w[k].srcs
      /\ e.mask = w[k].mask /\ e.alx = w[k].alx /\ e.sys = w[k].sys
      /\ e.slot = w[k].slot
  BY <1>2 DEF Inst
<1> HIDE DEF e
<1>4. /\ v \in Seq(Inst) /\ Len(v) = Len(w) /\ v[k] = e
      /\ \A j \in Of(w) : j /= k => v[j] = w[j]
  BY <1>3, OfPut
<1> HIDE DEF v
<1>5. \A j \in 1 .. k : v[j] \in Inst
  BY <1>1, <1>4
<1>6. 1 \in Int /\ k \in Int
  BY <1>1
<1>7. /\ w2 \in Seq(Inst) /\ Len(w2) = k
      /\ \A j \in 1 .. k : w2[j] = v[j]
  <2>1. /\ w2 \in Seq(Inst) /\ Len(w2) = IF 1 <= k THEN k - 1 + 1 ELSE 0
        /\ \A j \in 1 .. k - 1 + 1 : w2[j] = v[1 + j - 1]
    BY <1>5, <1>6, SubSeqProperties
  <2> QED BY <2>1, <1>1
<1> HIDE DEF w2
<1>8. Of(w2) = 1 .. k
  BY <1>7 DEF Of
<1>9. \A j \in 1 .. k :
        /\ w2[j].dst = w[j].dst /\ w2[j].phys = w[j].phys
        /\ w2[j].srcs = w[j].srcs /\ w2[j].mask = w[j].mask
        /\ w2[j].alx = w[j].alx /\ w2[j].sys = w[j].sys
        /\ w2[j].slot = w[j].slot
        /\ w2[j].br = IF j = k THEN None ELSE w[j].br
  <2> TAKE j \in 1 .. k
  <2>1. CASE j = k
    BY <2>1, <1>3, <1>4, <1>7
  <2>2. CASE j /= k
    <3>1. w2[j] = w[j]
      BY <2>2, <1>1, <1>4, <1>7
    <3> QED BY <2>2, <3>1
  <2> QED BY <2>1, <2>2
<1>10. w2 \in Seq(Inst) /\ Truncated(w, w2, k)
  BY <1>7, <1>8, <1>9 DEF Truncated
<1> QED BY <1>10 DEF w2, v, e

(* A branch resolves against its prediction: three tables move back.       *)
LEMMA ResolveMispredictInv ==
  ASSUME IInv, NEW k \in Of(win), ResolveMispredict(k)
  PROVE  IInv'
<1> DEFINE id == win[k].br
<1>1. id /= None /\ win[k].alx /= None
  BY DEF ResolveMispredict, ReadyToResolve, Dispatched
<1>2. id \in BranchID
  BY <1>1, Types, UsedID DEF IInv
<1>3. /\ AMT' = AMT /\ BRCP' = BRCP /\ PRF' = PRF /\ PRF_rdy' = PRF_rdy
      /\ bundle' = NoBundle
      /\ GBM' = BRCP[id].GBM /\ RMT' = BRCP[id].RMT_shdw
      /\ FL' = [FL EXCEPT !.front = BRCP[id].FL_head]
      /\ AL' = [AL EXCEPT !.rear = win[k].alx]
  BY DEF ResolveMispredict, resolve_mispredict, regVars, RestoreFront, RestoreRear
<1>4. BRCP[id].GBM = win[k].mask /\ BRCP[id].FL_head = win[k].slot
  BY <1>1 DEF IInv, CkptOf
<1>5. PICK m \in Of(win) :
        /\ SurviveUpTo(win, k, m)
        /\ win' = SubSeq([win EXCEPT ![k].br = None], 1, m)
  BY Types DEF ResolveMispredict, Survivors, SurviveUpTo, Dispatched
<1>6. m = k
  <2>1. win \in Seq(Inst) /\ MaskOf(GBM, win) /\ ListOf(AL, win)
    BY Types DEF IInv
  <2> QED BY <2>1, <1>1, <1>5, SurvivorsArePrefix
<1>7. win' \in Seq(Inst) /\ Truncated(win, win', k)
  BY <1>5, <1>6, Types, TruncatedFacts
<1>8. /\ win[k].slot \in Index /\ win[k].alx \in Index
      /\ win[k].mask \in SUBSET BranchID
  BY <1>1, Types, InstAt
<1>9. /\ FL' \in QueueOf(PhysReg \cup {None}) /\ FL'.rear = FL.rear
      /\ FL'.slot = FL.slot /\ FL'.front = win[k].slot
  BY <1>3, <1>4, <1>8, Types DEF QueueOf
<1>10. /\ AL' \in QueueOf(ALEntry \cup {None}) /\ AL'.front = AL.front
       /\ AL'.slot = AL.slot /\ AL'.rear = win[k].alx
  BY <1>3, <1>8, Types DEF QueueOf
<1> HIDE DEF id
<1>11. bundle' \in Bundle /\ BundleInv'
  <2>1. 0 \in 0 .. MaxBundle
    BY PipelineAssumption
  <2> QED BY <2>1, <1>3 DEF NoBundle, Bundle, BundleInv
<1>12. TypeOK'
  <2>1. RMT' \in [LogReg -> PhysReg] /\ GBM' \in SUBSET BranchID
    BY <1>2, <1>3, Types DEF Checkpoint
  <2> QED BY <2>1, <1>3, <1>7, <1>9, <1>10, <1>11, Types DEF TypeOK
<1>13. DstOf(win')
  <2>1. \A j \in 1 .. k : j \in Of(win)
    BY Types, LenProperties DEF Of
  <2> QED BY <2>1, <1>7 DEF IInv, DstOf, Truncated
<1>14. ListOf(AL', win')
  BY <1>1, <1>7, <1>10, Types, ListTruncate DEF IInv
<1>15. RingOf(FL', win')
  BY <1>7, <1>9, Types, RingTruncate DEF IInv
<1>16. HeldOf(FL', AMT')
  BY <1>3, <1>9, HeldSame DEF IInv
<1>17. MaskOf(GBM', win')
  <2>1. MaskOf(win[k].mask, win')
    BY <1>7, Types, MaskTruncate DEF IInv
  <2> QED BY <2>1, <1>3, <1>4
<1>18. CkptOf(BRCP', win')
  BY <1>3, <1>7, Types, CkptTruncate DEF IInv
<1>19. MapsOf(RMT', AMT', BRCP', win')
  <2>1. MapsOf(BRCP[win[k].br].RMT_shdw, AMT, BRCP, win')
    BY <1>1, <1>7, Types, MapsTruncate DEF IInv, id
  <2> QED BY <2>1, <1>3 DEF id
<1> QED BY <1>11, <1>12, <1>13, <1>14, <1>15, <1>16, <1>17, <1>18, <1>19 DEF IInv

(***************************************************************************)
(* Retire.                                                                 *)
(***************************************************************************)
(* The head that commits is the window's first instruction, and no         *)
(* unresolved branch.                                                      *)
LEMMA CommitFacts ==
  ASSUME IInv, HeadCompleted, CanCommit
  PROVE  /\ Len(win) > 0 /\ 1 \in Of(win) /\ ~IsEmpty(AL)
         /\ win[1].br = None
         /\ CommittedFL = Freed(FL, AMT, win[1])
         /\ CommittedAMT = Taken(AMT, win[1])
         /\ Oldest.dst_phy = win[1].phys
<1>1. ~IsEmpty(AL) /\ Oldest.completed
  BY DEF CanCommit
<1>2. Len(win) > 0 /\ 1 \in Of(win) /\ EntryOf(AL, win[1], 1)
      /\ AL.slot[win[1].alx] = GetHead(AL)
  <2>1. win \in Seq(Inst) /\ AL \in QueueOf(ALEntry \cup {None}) /\ ListOf(AL, win)
    BY Types DEF IInv
  <2> QED BY <1>1, <2>1, HeadIsOldest
<1>3. EntryFor(Oldest, win[1])
  BY <1>2 DEF EntryOf, Oldest
<1>4. /\ Oldest.dst_lgc = win[1].dst /\ Oldest.dst_phy = win[1].phys
      /\ win[1].br = None
  BY <1>1, <1>3 DEF EntryFor
<1>5. CommittedFL = Freed(FL, AMT, win[1])
  BY <1>4 DEF CommittedFL, Freed
<1>6. CommittedAMT = Taken(AMT, win[1])
  BY <1>4 DEF CommittedAMT, Taken
<1> QED BY <1>1, <1>2, <1>4, <1>5, <1>6

(* What the commit leaves in the free list and the committed map.          *)
LEMMA CommittedInv ==
  ASSUME IInv, HeadCompleted, CanCommit
  PROVE  /\ CommittedFL \in QueueOf(PhysReg \cup {None})
         /\ CommittedAMT \in [LogReg -> PhysReg]
         /\ RingOf(CommittedFL, Tail(win))
         /\ HeldOf(CommittedFL, CommittedAMT)
<1>1. /\ Len(win) > 0 /\ 1 \in Of(win)
      /\ CommittedFL = Freed(FL, AMT, win[1])
      /\ CommittedAMT = Taken(AMT, win[1])
  BY CommitFacts
<1>2. /\ win \in Seq(Inst) /\ FL \in QueueOf(PhysReg \cup {None})
      /\ AMT \in [LogReg -> PhysReg] /\ RingOf(FL, win) /\ HeldOf(FL, AMT)
  BY Types DEF IInv
<1>3. RingOf(CommittedFL, Tail(win))
  BY <1>1, <1>2, RingCommit
<1>4. HeldOf(CommittedFL, CommittedAMT)
  BY <1>1, <1>2, HeldCommit
<1>5. win[1].dst \in LogReg \cup {None} /\ win[1].phys \in PhysReg \cup {None}
  BY <1>1, <1>2, InstAt
<1>6. win[1].dst /= None => win[1].phys \in PhysReg
  BY <1>1, <1>5 DEF IInv, DstOf
<1>7. CommittedAMT \in [LogReg -> PhysReg]
  BY <1>1, <1>2, <1>5, <1>6 DEF Taken
<1>8. CommittedFL \in QueueOf(PhysReg \cup {None})
  <2>1. CASE win[1].dst = None
    BY <2>1, <1>1, <1>2 DEF Freed
  <2>2. CASE win[1].dst /= None
    <3> DEFINE r == AMT[win[1].dst]
    <3>1. r \in PhysReg
      BY <2>2, <1>2, <1>5
    <3>2. CommittedFL = [FL EXCEPT !.rear = Succ(FL.rear), !.slot[Succ(FL.rear)] = r]
      BY <2>2, <1>1 DEF Freed, Add
    <3>3. Succ(FL.rear) \in Index
      BY Types, SuccIs
    <3> HIDE DEF r
    <3> QED BY <3>1, <3>2, <3>3, <1>2 DEF QueueOf
  <2> QED BY <2>1, <2>2
<1> QED BY <1>3, <1>4, <1>7, <1>8

(* The oldest instruction commits.                                         *)
LEMMA RetireCommitInv ==
  ASSUME IInv, RetireCommit
  PROVE  IInv'
<1>1. HeadCompleted /\ CanCommit
  BY DEF RetireCommit, commit
<1>2. /\ AMT' = CommittedAMT /\ FL' = CommittedFL /\ AL' = Delete(AL)
      /\ win' = Tail(win) /\ RMT' = RMT /\ GBM' = GBM /\ BRCP' = BRCP
      /\ PRF' = PRF /\ PRF_rdy' = PRF_rdy /\ bundle' = bundle
  BY DEF RetireCommit, commit, regVars
<1>3. /\ Len(win) > 0 /\ 1 \in Of(win) /\ ~IsEmpty(AL) /\ win[1].br = None
      /\ AMT' = Taken(AMT, win[1])
  BY <1>1, <1>2, CommitFacts
<1>4. /\ FL' \in QueueOf(PhysReg \cup {None}) /\ AMT' \in [LogReg -> PhysReg]
      /\ RingOf(FL', win') /\ HeldOf(FL', AMT')
  BY <1>1, <1>2, CommittedInv
<1>5. /\ win' \in Seq(Inst) /\ Of(win) = 1 .. Len(win)
      /\ \A k \in Of(win') : k + 1 \in Of(win) /\ win'[k] = win[k + 1]
  BY <1>2, <1>3, Types, OfTail
<1>6. AL' \in QueueOf(ALEntry \cup {None})
  <2>1. Succ(AL.front) \in Index
    BY Types, SuccIs
  <2> QED BY <2>1, <1>2, Types DEF Delete, QueueOf
<1>7. TypeOK'
  BY <1>2, <1>4, <1>5, <1>6, Types DEF TypeOK
<1>8. DstOf(win')
  BY <1>5 DEF IInv, DstOf
<1>9. ListOf(AL', win')
  BY <1>2, <1>3, Types, ListCommit DEF IInv
<1>10. MaskOf(GBM', win')
  BY <1>2, <1>3, Types, MaskCommit DEF IInv
<1>11. CkptOf(BRCP', win')
  BY <1>2, <1>3, Types, CkptCommit DEF IInv
<1>12. MapsOf(RMT', AMT', BRCP', win')
  <2>1. MapsOf(RMT, AMT, BRCP, win)
    BY DEF IInv
  <2>2. MapsOf(RMT, Taken(AMT, win[1]), BRCP, Tail(win))
    BY <1>3, <2>1, Types, MapsCommit
  <2> QED BY <2>2, <1>2, <1>3
<1>13. BundleInv'
  BY <1>2 DEF IInv, BundleInv
<1> QED BY <1>4, <1>7, <1>8, <1>9, <1>10, <1>11, <1>12, <1>13 DEF IInv

(* A squash leaves an empty window, and the full machine with it.          *)
LEMMA SquashInv ==
  ASSUME IInv, NEW amt \in [LogReg -> PhysReg],
         NEW fl \in QueueOf(PhysReg \cup {None}), SlotsTyped(fl), HeldOf(fl, amt),
         NEW al \in QueueOf(ALEntry \cup {None}),
         squash(amt, fl, al), NothingInFlight,
         PRF' \in [PhysReg -> Value], PRF_rdy' \in [PhysReg -> BOOLEAN]
  PROVE  IInv'
<1>1. /\ AL' = [al EXCEPT !.rear = al.front]
      /\ FL' = [fl EXCEPT !.front = Succ(fl.rear)]
      /\ RMT' = amt /\ AMT' = amt /\ GBM' = {}
      /\ BRCP' = [b \in BranchID |-> [RMT_shdw |-> [l \in LogReg |-> 0],
                                      FL_head |-> 0, GBM |-> {}]]
  BY DEF squash, DropAll, RefillAll
<1>2. win' = <<>> /\ bundle' = NoBundle
  BY DEF NothingInFlight
<1>3. fl.rear \in Index /\ Succ(fl.rear) \in Index /\ al.front \in Index
  BY SuccIs DEF QueueOf
<1>4. /\ FL' \in QueueOf(PhysReg \cup {None}) /\ FL'.rear = fl.rear
      /\ FL'.slot = fl.slot /\ FL'.front = Gap(fl)
  BY <1>1, <1>3 DEF QueueOf, Gap
<1>5. /\ AL' \in QueueOf(ALEntry \cup {None}) /\ AL'.front \in Index
      /\ AL'.rear = AL'.front
  BY <1>1, <1>3 DEF QueueOf
<1>6. Of(win') = {}
  BY <1>2 DEF Of
<1>7. win' \in Seq(Inst) /\ bundle' \in Bundle
  <2>1. 0 \in 0 .. MaxBundle
    BY PipelineAssumption
  <2> QED BY <2>1, <1>2 DEF NoBundle, Bundle
<1>8. BRCP' \in [BranchID -> Checkpoint]
  <2>1. 0 \in PhysReg /\ 0 \in Index
    BY RenamerAssumption, Sizes DEF PhysReg
  <2>2. [l \in LogReg |-> 0] \in [LogReg -> PhysReg]
    BY <2>1
  <2>3. [RMT_shdw |-> [l \in LogReg |-> 0], FL_head |-> 0, GBM |-> {}] \in Checkpoint
    BY <2>1, <2>2 DEF Checkpoint
  <2> QED BY <2>3, <1>1
<1>9. TypeOK'
  BY <1>1, <1>4, <1>5, <1>7, <1>8 DEF TypeOK
<1>10. BundleInv' /\ DstOf(win')
  BY <1>2, <1>6 DEF BundleInv, NoBundle, DstOf
<1>11. ListOf(AL', win')
  BY <1>2, <1>5, ListEmpty
<1>12. RingOf(FL', win')
  BY <1>3, <1>4, <1>6, RingEmpty
<1>13. HeldOf(FL', AMT')
  <2>1. HeldOf(FL', amt)
    BY <1>4, HeldSame
  <2> QED BY <2>1, <1>1
<1>14. MaskOf(GBM', win') /\ CkptOf(BRCP', win')
  BY <1>1, <1>2, MaskEmpty, CkptEmpty
<1>15. MapsOf(RMT', AMT', BRCP', win')
  BY <1>1, <1>2, MapsEmpty
<1> QED BY <1>9, <1>10, <1>11, <1>12, <1>13, <1>14, <1>15 DEF IInv

(* An offending or serialising head is thrown away with all the rest.      *)
LEMMA RetireOffendingInv ==
  ASSUME IInv, RetireOffending
  PROVE  IInv'
<1>1. squash(AMT, FL, AL) /\ NothingInFlight
  BY DEF RetireOffending
<1>2. PRF' \in [PhysReg -> Value] /\ PRF_rdy' \in [PhysReg -> BOOLEAN]
  BY Types DEF RetireOffending, regVars
<1>3. SlotsTyped(FL) /\ HeldOf(FL, AMT)
  BY DEF IInv, RingOf
<1> QED BY <1>1, <1>2, <1>3, Types, SquashInv

(* A commit that is followed by a squash in the same cycle.                *)
LEMMA CommitSquashInv ==
  ASSUME IInv, HeadCompleted, CanCommit,
         squash(CommittedAMT, CommittedFL, Delete(AL)), NothingInFlight,
         PRF' \in [PhysReg -> Value], PRF_rdy' \in [PhysReg -> BOOLEAN]
  PROVE  IInv'
<1>1. /\ CommittedFL \in QueueOf(PhysReg \cup {None})
      /\ CommittedAMT \in [LogReg -> PhysReg]
      /\ SlotsTyped(CommittedFL) /\ HeldOf(CommittedFL, CommittedAMT)
  BY CommittedInv DEF RingOf
<1>2. Delete(AL) \in QueueOf(ALEntry \cup {None})
  <2>1. Succ(AL.front) \in Index
    BY Types, SuccIs
  <2> QED BY <2>1, Types DEF Delete, QueueOf
<1> QED BY <1>1, <1>2, SquashInv

(* A commit with a deferred misprediction.                                 *)
LEMMA RetireDeferredInv ==
  ASSUME IInv, RetireDeferred
  PROVE  IInv'
<1>1. PRF' \in [PhysReg -> Value] /\ PRF_rdy' \in [PhysReg -> BOOLEAN]
  BY Types DEF RetireDeferred, regVars
<1> QED BY <1>1, CommitSquashInv DEF RetireDeferred

(* A commit of a serialising instruction.                                  *)
LEMMA RetireSysInv ==
  ASSUME IInv, NEW v \in Value, RetireSys(v)
  PROVE  IInv'
<1>1. /\ HeadCompleted /\ CanCommit /\ NothingInFlight
      /\ squash(CommittedAMT, CommittedFL, Delete(AL))
  BY DEF RetireSys
<1>2. PRF' \in [PhysReg -> Value] /\ PRF_rdy' \in [PhysReg -> BOOLEAN]
  <2>1. CASE win[1].dst /= None /\ win[1].val = None
    BY <2>1, Types DEF RetireSys, write, set_ready
  <2>2. CASE ~(win[1].dst /= None /\ win[1].val = None)
    BY <2>2, Types DEF RetireSys, regVars
  <2> QED BY <2>1, <2>2
<1> QED BY <1>1, <1>2, CommitSquashInv

(***************************************************************************)
(* Every step.                                                             *)
(***************************************************************************)
(* A step that changes nothing.                                            *)
LEMMA StutterInv ==
  ASSUME IInv, UNCHANGED vars
  PROVE  IInv'
<1>1. /\ RMT' = RMT /\ AMT' = AMT /\ FL' = FL /\ AL' = AL /\ PRF' = PRF
      /\ PRF_rdy' = PRF_rdy /\ GBM' = GBM /\ BRCP' = BRCP
      /\ win' = win /\ bundle' = bundle
  BY DEF vars
<1> QED BY <1>1 DEF IInv, TypeOK, BundleInv

(* Every step preserves the invariant.                                     *)
LEMMA NextInv == IInv /\ [Next]_vars => IInv'
<1> SUFFICES ASSUME IInv, [Next]_vars PROVE IInv'
  OBVIOUS
<1>1. CASE Rename
  <2>1. CASE \E n \in 1 .. MaxBundle, d, b \in 0 .. MaxBundle : Arrive(n, d, b)
    BY <2>1, ArriveInv
  <2>2. CASE StartRename
    BY <2>2, StartInv
  <2>3. CASE \E dst \in LogReg \cup {None}, sys \in SysInst : RenameInst(dst, sys)
    BY <2>3, RenameInstInv
  <2>4. CASE \E dst \in LogReg \cup {None}, id \in BranchID : RenameBranch(dst, id)
    BY <2>4, RenameBranchInv
  <2> QED BY <1>1, <2>1, <2>2, <2>3, <2>4 DEF Rename
<1>2. CASE Dispatch
  <2>1. CASE StartDispatch
    BY <2>1, StartInv
  <2>2. CASE \E k \in InFlight : DispatchInst(k)
    BY <2>2, Types, DispatchInstInv
  <2> QED BY <1>2, <2>1, <2>2 DEF Dispatch
<1>3. CASE Execute
  <2>1. PICK k \in Of(win) : \/ Wakeup(k)
                             \/ \E v \in Value : WriteResult(k, v)
                             \/ CompleteInst(k)
                             \/ \E mark \in Marks : MarkInst(k, mark)
    BY <1>3, Types DEF Execute
  <2>2. CASE Wakeup(k)
    BY <2>2, WakeupInv
  <2>3. CASE \E v \in Value : WriteResult(k, v)
    BY <2>3, WriteResultInv
  <2>4. CASE CompleteInst(k)
    BY <2>4, CompleteInstInv
  <2>5. CASE \E mark \in Marks : MarkInst(k, mark)
    BY <2>5, MarkInstInv
  <2> QED BY <2>1, <2>2, <2>3, <2>4, <2>5
<1>4. CASE Resolve
  <2>1. PICK k \in Of(win) : ResolveCorrect(k) \/ ResolveMispredict(k)
    BY <1>4, Types DEF Resolve
  <2> QED BY <2>1, ResolveCorrectInv, ResolveMispredictInv
<1>5. CASE Retire
  BY <1>5, RetireCommitInv, RetireOffendingInv, RetireDeferredInv, RetireSysInv
     DEF Retire
<1>6. CASE UNCHANGED vars
  BY <1>6, StutterInv
<1> QED BY <1>1, <1>2, <1>3, <1>4, <1>5, <1>6 DEF Next

(* The inductive invariant holds in every reachable state.                 *)
THEOREM Inductive == Spec => []IInv
  BY InitInv, NextInv, PTL DEF Spec

(***************************************************************************)
(* The properties of RenamerProps that follow.                             *)
(***************************************************************************)
(* Every table keeps its shape: no index or register number leaves its     *)
(* range, whatever the order of recoveries and commits.                    *)
THEOREM Typed == Spec => []TypeOK
<1>1. IInv => TypeOK
  BY DEF IInv
<1> QED BY <1>1, Inductive, PTL

(* MapOf on the machine's own tables is MapAfter.                          *)
LEMMA MapIs ==
  ASSUME NEW map, NEW k, MapOf(map, AMT, win, k)
  PROVE  MapAfter(map, k)
  BY DEF MapOf, MapAfter, NewestWriter, NoWriter

(* The rename map, and the sources each instruction was given, are what    *)
(* program order says.                                                     *)
THEOREM MapsAreExact == Spec => []MapsExact
<1>1. IInv => MapsExact
  BY Types, MapIs DEF IInv, MapsOf, MapsExact
<1> QED BY <1>1, Inductive, PTL

(* The checkpoint of an unresolved branch holds the map, the free list's   *)
(* front and the older unresolved branches as of that branch.              *)
THEOREM CheckpointsAreExact == Spec => []CheckpointsExact
<1>1. IInv => CheckpointsExact
  <2> SUFFICES ASSUME IInv, NEW k \in Of(win), win[k].br /= None
               PROVE  /\ MapAfter(BRCP[win[k].br].RMT_shdw, k)
                      /\ BRCP[win[k].br].FL_head = win[k].slot
                      /\ BRCP[win[k].br].GBM = win[k].mask
    BY Types DEF CheckpointsExact
  <2>1. MapOf(BRCP[win[k].br].RMT_shdw, AMT, win, k)
    BY DEF IInv, MapsOf
  <2>2. CkptOf(BRCP, win)
    BY DEF IInv
  <2> QED BY <2>1, <2>2, MapIs DEF CkptOf
<1> QED BY <1>1, Inductive, PTL

(* Branch bits name the unresolved branches in flight, one each, and an    *)
(* instruction's mask those older than it.                                 *)
THEOREM MasksAreExact == Spec => []MasksExact
<1>1. IInv => MasksExact
  <2> SUFFICES ASSUME IInv PROVE MasksExact
    OBVIOUS
  <2>1. /\ win \in Seq(Inst) /\ InFlight = Of(win) /\ GBM \in SUBSET BranchID
        /\ MaskOf(GBM, win)
    BY Types DEF IInv
  <2>2. \A k \in Of(win) : /\ win[k].br \in BranchID \cup {None}
                           /\ win[k].mask \in SUBSET BranchID
    BY <2>1, InstAt
  <2>3. None \notin BranchID
    BY Sizes
  <2>4. GBM = {win[k].br : k \in InFlight} \ {None}
    BY <2>1, <2>2, <2>3 DEF MaskOf
  <2>5. \A k \in Of(win) : \A j \in 1 .. k - 1 : j \in Of(win)
    BY <2>1, LenProperties DEF Of
  <2>6. \A k \in Of(win) : win[k].mask = {win[j].br : j \in 1 .. k - 1} \ {None}
    BY <2>1, <2>2, <2>3, <2>5 DEF MaskOf
  <2> QED BY <2>1, <2>4, <2>6 DEF MaskOf, MasksExact
<1> QED BY <1>1, Inductive, PTL

(* The active list is the dispatched prefix of the window, in order.       *)
THEOREM ActiveListIsExact == Spec => []ActiveListExact
<1>1. IInv => ActiveListExact
  <2> SUFFICES ASSUME IInv PROVE ActiveListExact
    OBVIOUS
  <2>1. PICK n \in 0 .. Len(win) : n <= ListSize /\ ListUpTo(AL, win, n)
    BY DEF IInv, ListOf
  <2>2. \A k \in InFlight : Dispatched(k) <=> k <= n
    BY <2>1, Types DEF ListUpTo, Dispatched
  <2>3. AL.rear = (AL.front + n) % Maxsize
    BY <2>1 DEF ListUpTo, At
  <2>4. \A k \in 1 .. n :
          /\ win[k].alx = (AL.front + k) % Maxsize
          /\ AL.slot[win[k].alx].dst_lgc = win[k].dst
          /\ AL.slot[win[k].alx].dst_phy = win[k].phys
          /\ AL.slot[win[k].alx].sys = win[k].sys
    BY <2>1 DEF ListUpTo, EntryOf, EntryFor, At
  <2> QED BY <2>1, <2>2, <2>3, <2>4 DEF ActiveListExact
<1> QED BY <1>1, Inductive, PTL

(* Who has a register, and the slot that says so.                          *)
LEMMA WriterSlot ==
  ASSUME IInv, NEW k \in Of(win), NEW r \in PhysReg, win[k].phys = r
  PROVE  /\ win[k].dst /= None
         /\ win[k].slot \in Index \ {Gap(FL)} /\ win[k].slot \notin ItemSlots(FL)
         /\ FL.slot[win[k].slot] = r
<1>1. win[k].dst /= None
  BY Sizes DEF IInv, DstOf
<1>2. win[k].slot \in Index /\ FL.rear \in Index /\ FL.front \in Index
  BY Types, InstAt
<1>3. /\ FL.slot[win[k].slot] = r /\ Dist(FL, win[k].slot) > 0
      /\ Dist(FL, win[k].slot) <= Dist(FL, FL.front)
  BY <1>1 DEF IInv, RingOf
<1>4. Dist(FL, win[k].slot) \in Nat /\ Dist(FL, FL.front) \in Nat
  BY <1>2, DistNat
<1>5. win[k].slot /= Gap(FL)
  BY <1>2, <1>3, DistRange
<1> QED BY <1>1, <1>2, <1>3, <1>4, <1>5 DEF ItemSlots

(* No two instructions in flight have the same destination register.       *)
LEMMA OneWriter ==
  ASSUME IInv, NEW j \in Of(win), NEW k \in Of(win), NEW r \in PhysReg,
         win[j].phys = r, win[k].phys = r
  PROVE  j = k
<1>1. /\ win[j].dst /= None /\ FL.slot[win[j].slot] = r
      /\ win[j].slot \in Index \ {Gap(FL)}
  BY WriterSlot
<1>2. /\ win[k].dst /= None /\ FL.slot[win[k].slot] = r
      /\ win[k].slot \in Index \ {Gap(FL)}
  BY WriterSlot
<1>3. win[j].slot = win[k].slot
  BY <1>1, <1>2 DEF IInv, HeldOf
<1>4. Dist(FL, win[j].slot) \in Nat
  BY <1>1, Types, DistNat
<1>5. j \in Nat /\ k \in Nat
  BY Types, LenProperties DEF Of
<1>6. \A a, b \in Of(win) : a < b /\ win[b].dst /= None =>
        Dist(FL, win[a].slot) < Dist(FL, win[b].slot)
  BY DEF IInv, RingOf
<1> QED BY <1>1, <1>2, <1>3, <1>4, <1>5, <1>6

(* A slot other than the gap is a free item's or some writer's.            *)
LEMMA ItemSlotsAre ==
  ASSUME IInv
  PROVE  /\ ItemSlots(FL) \subseteq Index \ {Gap(FL)}
         /\ \A i \in Index \ {Gap(FL)} : i \notin ItemSlots(FL) =>
              \E k \in Of(win) : win[k].phys = FL.slot[i]
<1>1. FL.rear \in Index /\ FL.front \in Index
  BY Types
<1>2. \A i \in Index : Dist(FL, i) \in Nat /\ (Dist(FL, i) = 0 <=> i = Gap(FL))
  BY <1>1, DistNat, DistRange
<1>3. ItemSlots(FL) \subseteq Index \ {Gap(FL)}
  BY <1>1, <1>2 DEF ItemSlots
<1>4. ASSUME NEW i \in Index \ {Gap(FL)}, i \notin ItemSlots(FL)
      PROVE  \E k \in Of(win) : win[k].phys = FL.slot[i]
  <2>1. 0 < Dist(FL, i) /\ Dist(FL, i) <= Dist(FL, FL.front)
    BY <1>1, <1>2, <1>4 DEF ItemSlots
  <2>2. PICK k \in Of(win) : win[k].dst /= None /\ win[k].slot = i
    BY <2>1 DEF IInv, RingOf
  <2> QED BY <2>2 DEF IInv, RingOf
<1> QED BY <1>3, <1>4

(* Every physical register has exactly one holder: a committed mapping, an *)
(* instruction in flight or the free list.  No register is ever lost,      *)
(* freed twice or handed out while someone still needs it.                 *)
THEOREM EveryRegisterHasOneHolder == Spec => []OneHolder
<1>1. IInv => OneHolder
  <2> SUFFICES ASSUME IInv, NEW r \in PhysReg
               PROVE  \E h \in Holders(r) : Holders(r) = {h}
    BY DEF OneHolder
  <2> DEFINE C == {x \in LogReg : AMT[x] = r}
             F == {x \in Of(win) : win[x].phys = r}
             I == {x \in ItemSlots(FL) : FL.slot[x] = r}
  <2>1. Holders(r) = {<<"committed", l>> : l \in C}
                     \cup {<<"in flight", k>> : k \in F}
                     \cup {<<"free", i>> : i \in I}
    BY Types DEF Holders
  <2>2. HeldOf(FL, AMT)
    BY DEF IInv
  <2>3. /\ \A k \in F : /\ win[k].slot \in Index \ {Gap(FL)}
                        /\ win[k].slot \notin ItemSlots(FL)
                        /\ FL.slot[win[k].slot] = r
        /\ \A j, k \in F : j = k
    BY WriterSlot, OneWriter
  <2>4. /\ I \subseteq Index \ {Gap(FL)}
        /\ \A i \in Index \ {Gap(FL)} :
             FL.slot[i] = r /\ i \notin ItemSlots(FL) => \E k \in F : TRUE
    BY ItemSlotsAre
  <2>5. /\ \A i, j \in I : i = j
        /\ \A l, m \in C : l = m
        /\ \A l \in C, i \in Index \ {Gap(FL)} : FL.slot[i] /= r
        /\ \A i \in I, k \in F : FALSE
    <3>1. \A i, j \in I : i = j
      BY <2>2, <2>4 DEF HeldOf
    <3>2. \A l, m \in C : l = m
      BY <2>2 DEF HeldOf
    <3>3. \A l \in C, i \in Index \ {Gap(FL)} : FL.slot[i] /= r
      BY <2>2 DEF HeldOf
    <3>4. \A i \in I, k \in F : FALSE
      <4> SUFFICES ASSUME NEW i \in I, NEW k \in F PROVE FALSE
        OBVIOUS
      <4>1. i \in Index \ {Gap(FL)} /\ FL.slot[i] = r /\ i \in ItemSlots(FL)
        BY <2>4
      <4>2. i = win[k].slot
        BY <4>1, <2>2, <2>3 DEF HeldOf
      <4> QED BY <4>1, <4>2, <2>3
    <3> QED BY <3>1, <3>2, <3>3, <3>4
  <2>6. (\E l \in C : TRUE) \/ (\E k \in F : TRUE) \/ (\E i \in I : TRUE)
    <3>1. CASE \E l \in LogReg : AMT[l] = r
      BY <3>1
    <3>2. CASE \E i \in Index \ {Gap(FL)} : FL.slot[i] = r
      BY <3>2, <2>4
    <3> QED BY <3>1, <3>2, <2>2 DEF HeldOf
  <2> HIDE DEF C, F, I
  <2>7. CASE \E l \in C : TRUE
    <3>1. PICK l \in C : TRUE
      BY <2>7
    <3>2. F = {} /\ I = {} /\ C = {l}
      BY <2>3, <2>4, <2>5, <3>1 DEF I
    <3>3. Holders(r) = {<<"committed", l>>}
      BY <2>1, <3>2
    <3> QED BY <3>3
  <2>8. CASE \E k \in F : TRUE
    <3>1. PICK k \in F : TRUE
      BY <2>8
    <3>2. C = {} /\ I = {} /\ F = {k}
      BY <2>3, <2>5, <3>1
    <3>3. Holders(r) = {<<"in flight", k>>}
      BY <2>1, <3>2
    <3> QED BY <3>3
  <2>9. CASE \E i \in I : TRUE
    <3>1. PICK i \in I : TRUE
      BY <2>9
    <3>2. C = {} /\ F = {} /\ I = {i}
      BY <2>4, <2>5, <3>1 DEF I
    <3>3. Holders(r) = {<<"free", i>>}
      BY <2>1, <3>2
    <3> QED BY <3>3
  <2> QED BY <2>6, <2>7, <2>8, <2>9
<1> QED BY <1>1, Inductive, PTL

(***************************************************************************)
(* The stall queries.                                                      *)
(***************************************************************************)
(* IsEmpty(n) answers whether fewer than n items are left, IsFull(n)       *)
(* whether fewer than n fit.                                               *)
LEMMA QueriesCount ==
  ASSUME NEW q, q.front \in Index, q.rear \in Index, NEW n \in Nat
  PROVE  /\ IsEmptyFor(q, n) <=> Count(q) < n
         /\ IsFullFor(q, n) <=> ListSize - Count(q) < n
         /\ Count(q) \in 0 .. ListSize
<1>1. IsEmptyFor(q, n) <=> Count(q) < n
  BY Sizes, Ring!IsEmptyForCounts
     DEF IsEmptyFor, Count, Index, Maxsize,
         Ring!IsEmptyFor, Ring!Count, Ring!Index, Ring!Maxsize
<1>2. IsFullFor(q, n) <=> ListSize - Count(q) < n
  BY Sizes, Ring!IsFullForCounts
     DEF IsFullFor, Count, Index, Maxsize,
         Ring!IsFullFor, Ring!Count, Ring!Index, Ring!Maxsize
<1>3. Count(q) \in 0 .. ListSize
  BY Sizes DEF Count
<1> QED BY <1>1, <1>2, <1>3

(* A removal takes one from the count, an addition to a queue that is not  *)
(* full adds one.                                                          *)
LEMMA CountMoves ==
  ASSUME NEW q, q.front \in Index, q.rear \in Index,
         NEW r, r.front \in Index, r.rear \in Index
  PROVE  /\ q.front /= q.rear /\ r.front = Succ(q.front) /\ r.rear = q.rear =>
              Count(r) = Count(q) - 1
         /\ ~IsFull(q) /\ r.front = q.front /\ r.rear = Succ(q.rear) =>
              Count(r) = Count(q) + 1
         /\ Count(q) = 0 <=> q.front = q.rear
         /\ Count(q) = ListSize <=> IsFull(q)
<1>1. /\ IsFull(q) <=> q.front = Succ(q.rear)
      /\ Succ(q.front) = (IF q.front = ListSize THEN 0 ELSE q.front + 1)
      /\ Succ(q.rear) = (IF q.rear = ListSize THEN 0 ELSE q.rear + 1)
  BY FullIs, SuccIs DEF Gap
<1>2. /\ q.front \in 0 .. ListSize /\ q.rear \in 0 .. ListSize
      /\ ListSize \in Nat /\ Maxsize = ListSize + 1
  BY Sizes
<1>3. ASSUME q.front /= q.rear, r.front = Succ(q.front), r.rear = q.rear
      PROVE  Count(r) = Count(q) - 1
  BY <1>1, <1>2, <1>3 DEF Count
<1>4. ASSUME ~IsFull(q), r.front = q.front, r.rear = Succ(q.rear)
      PROVE  Count(r) = Count(q) + 1
  BY <1>1, <1>2, <1>4 DEF Count
<1>5. Count(q) = 0 <=> q.front = q.rear
  BY <1>2 DEF Count
<1>6. Count(q) = ListSize <=> IsFull(q)
  BY <1>1, <1>2 DEF Count
<1> QED BY <1>3, <1>4, <1>5, <1>6

(* The branch mask is a finite set of at most NBr bits.                    *)
LEMMA MaskCounts ==
  ASSUME NEW gbm \in SUBSET BranchID
  PROVE  /\ Cardinality(gbm) \in Nat
         /\ Cardinality(BranchID) = NBr
         /\ \A b \in BranchID \ gbm :
              Cardinality(gbm \cup {b}) = Cardinality(gbm) + 1
<1>1. NBr \in Nat \ {0}
  BY RenamerAssumption
<1>2. IsFiniteSet(BranchID) /\ Cardinality(BranchID) = NBr
  BY <1>1, FS_Interval DEF BranchID
<1>3. IsFiniteSet(gbm)
  BY <1>2, FS_Subset
<1>4. Cardinality(gbm) \in Nat
  BY <1>3, FS_CardinalityType
<1>5. \A b \in BranchID \ gbm : Cardinality(gbm \cup {b}) = Cardinality(gbm) + 1
  BY <1>3, FS_AddElement
<1> QED BY <1>2, <1>4, <1>5

(***************************************************************************)
(* The promise to a bundle.                                                *)
(***************************************************************************)
(* A rename takes what the bundle's counts say and no more.                *)
LEMMA PromiseRename ==
  ASSUME IInv, PromiseOf(bundle, FL, AL, GBM),
         NEW dst \in LogReg \cup {None}, NEW isBr \in BOOLEAN,
         TakeFromBundle(dst /= None, isBr), RenameDst(dst),
         isBr => \E id \in BranchID : checkpoint(id),
         ~isBr => GBM' = GBM
  PROVE  PromiseOf(bundle', FL', AL', GBM')
<1>1. /\ bundle.phase = "rename" /\ bundle \in Bundle
      /\ bundle.dst \in Nat /\ bundle.br \in Nat /\ NBr \in Nat
  <2>1. bundle.dst \in 0 .. MaxBundle /\ bundle.br \in 0 .. MaxBundle
    BY Types DEF Bundle
  <2>2. bundle.phase = "rename"
    BY DEF TakeFromBundle
  <2>3. MaxBundle \in Nat /\ NBr \in Nat
    BY PipelineAssumption, RenamerAssumption
  <2> QED BY <2>1, <2>2, <2>3, Types
<1>2. bundle.dst <= Count(FL) /\ Cardinality(GBM) + bundle.br <= NBr
  BY <1>1 DEF PromiseOf
<1>3. Count(FL') = IF dst = None THEN Count(FL) ELSE Count(FL) - 1
  <2>1. CASE dst = None
    BY <2>1 DEF RenameDst
  <2>2. CASE dst /= None
    <3>1. FL.front /= FL.rear /\ FL' = Delete(FL)
      BY <2>2, Types, FullIs DEF RenameDst, rename_rdst
    <3>2. FL'.front = Succ(FL.front) /\ FL'.rear = FL.rear /\ FL'.front \in Index
      BY <3>1, Types, SuccIs DEF Delete, QueueOf
    <3> QED BY <3>1, <3>2, <2>2, Types, CountMoves
  <2> QED BY <2>1, <2>2
<1>4. /\ Cardinality(GBM) \in Nat
      /\ Cardinality(GBM') = IF isBr THEN Cardinality(GBM) + 1 ELSE Cardinality(GBM)
  <2>1. CASE isBr
    <3>1. PICK id \in BranchID : checkpoint(id)
      BY <2>1
    <3>2. id \in BranchID \ GBM /\ GBM' = GBM \cup {id}
      BY <3>1 DEF checkpoint, HighestFree, Xor
    <3> QED BY <2>1, <3>2, Types, MaskCounts
  <2>2. CASE ~isBr
    BY <2>2, Types, MaskCounts
  <2> QED BY <2>1, <2>2
<1>5. CASE bundle.left - 1 = 0
  <2>1. bundle' = [phase |-> "latched", size |-> bundle.size,
                   left |-> bundle.size, dst |-> 0, br |-> 0]
    BY <1>5 DEF TakeFromBundle, NoBundle
  <2> QED BY <2>1 DEF PromiseOf
<1>6. CASE bundle.left - 1 /= 0
  <2> DEFINE d == IF dst /= None THEN bundle.dst - 1 ELSE bundle.dst
             b == IF isBr THEN bundle.br - 1 ELSE bundle.br
  <2>1. bundle' = [bundle EXCEPT !.left = bundle.left - 1, !.dst = d, !.br = b]
    BY <1>6 DEF TakeFromBundle
  <2>2. bundle'.phase = "rename" /\ bundle'.dst = d /\ bundle'.br = b
    BY <2>1, <1>1 DEF Bundle
  <2>3. d <= Count(FL') /\ Cardinality(GBM') + b <= NBr
    <3>1. Count(FL) \in Nat
      BY Types, QueriesCount
    <3> QED BY <3>1, <1>1, <1>2, <1>3, <1>4
  <2> QED BY <2>2, <2>3 DEF PromiseOf
<1> QED BY <1>5, <1>6

(* A bundle that passes a stall query was promised what it asked for.      *)
LEMMA PromiseStart ==
  ASSUME IInv, PromiseOf(bundle, FL, AL, GBM), StartRename \/ StartDispatch
  PROVE  PromiseOf(bundle', FL', AL', GBM')
<1>1. /\ bundle.dst \in Nat /\ bundle.br \in Nat /\ bundle.size \in Nat
      /\ NBr \in Nat /\ Cardinality(GBM) \in Nat
  <2>1. /\ bundle.dst \in 0 .. MaxBundle /\ bundle.br \in 0 .. MaxBundle
        /\ bundle.size \in 0 .. MaxBundle
    BY Types DEF Bundle
  <2>2. MaxBundle \in Nat /\ NBr \in Nat
    BY PipelineAssumption, RenamerAssumption
  <2> QED BY <2>1, <2>2, Types, MaskCounts
<1>2. FL' = FL /\ AL' = AL /\ GBM' = GBM
  BY DEF StartRename, StartDispatch, renVars
<1>3. Count(FL) \in 0 .. ListSize /\ Count(AL) \in 0 .. ListSize /\ ListSize \in Nat
  BY <1>1, Types, Sizes, QueriesCount
<1>4. CASE StartRename
  <2>1. ~(Cardinality(GBM) + bundle.br > NBr) /\ ~IsEmptyFor(FL, bundle.dst)
    BY <1>4 DEF StartRename, stall_branch, stall_reg
  <2>2. ~(Count(FL) < bundle.dst)
    BY <2>1, <1>1, Types, QueriesCount
  <2>3. bundle'.phase = "rename" /\ bundle'.dst = bundle.dst /\ bundle'.br = bundle.br
    BY <1>4, Types DEF StartRename, Bundle
  <2>4. Cardinality(GBM) + bundle.br <= NBr /\ bundle.dst <= Count(FL)
    BY <2>1, <2>2, <1>1, <1>3
  <2> QED BY <1>2, <2>3, <2>4 DEF PromiseOf
<1>5. CASE StartDispatch
  <2>1. bundle.left = bundle.size /\ ~IsFullFor(AL, bundle.size)
    BY <1>5 DEF StartDispatch, stall_dispatch, PromiseOf
  <2>2. ~(ListSize - Count(AL) < bundle.size)
    BY <2>1, <1>1, Types, QueriesCount
  <2>3. bundle'.phase = "dispatch" /\ bundle'.left = bundle.left
    BY <1>5, Types DEF StartDispatch, Bundle
  <2>4. bundle.left + Count(AL) <= ListSize
    BY <2>1, <2>2, <1>1, <1>3
  <2> QED BY <1>2, <2>3, <2>4 DEF PromiseOf
<1> QED BY <1>4, <1>5

(* A dispatch takes one entry and leaves one instruction fewer to place.   *)
LEMMA PromiseDispatch ==
  ASSUME IInv, PromiseOf(bundle, FL, AL, GBM), NEW k \in Of(win), DispatchInst(k)
  PROVE  PromiseOf(bundle', FL', AL', GBM')
<1>1. /\ bundle.phase = "dispatch" /\ ~IsFull(AL)
      /\ bundle' = IF bundle.left = 1 THEN NoBundle
                   ELSE [bundle EXCEPT !.left = bundle.left - 1]
  BY DEF DispatchInst, dispatch_inst
<1>2. AL'.front = AL.front /\ AL'.rear = Succ(AL.rear) /\ Succ(AL.rear) \in Index
  BY Types, SuccIs DEF DispatchInst, dispatch_inst, Add, QueueOf
<1>3. Count(AL') = Count(AL) + 1
  BY <1>1, <1>2, Types, CountMoves
<1>4. bundle.left + Count(AL) <= ListSize
  BY <1>1 DEF PromiseOf
<1>5. bundle.left \in Nat /\ Count(AL) \in Nat /\ ListSize \in Nat
  <2>1. bundle.left \in 0 .. MaxBundle /\ MaxBundle \in Nat
    BY Types, PipelineAssumption DEF Bundle
  <2>2. 0 \in Nat
    OBVIOUS
  <2>3. Count(AL) \in 0 .. ListSize
    BY <2>2, Types, QueriesCount
  <2> QED BY <2>1, <2>3, Sizes
<1>6. CASE bundle.left = 1
  <2>1. bundle'.phase = "empty"
    BY <1>1, <1>6 DEF NoBundle
  <2> QED BY <2>1 DEF PromiseOf
<1>7. CASE bundle.left /= 1
  <2>1. bundle'.phase = "dispatch" /\ bundle'.left = bundle.left - 1
    BY <1>1, <1>7, Types DEF Bundle
  <2>2. bundle'.left + Count(AL') <= ListSize
    BY <2>1, <1>3, <1>4, <1>5
  <2> QED BY <2>1, <2>2 DEF PromiseOf
<1> QED BY <1>6, <1>7

(* Between bundles nothing was promised; a bundle that waits in the latch  *)
(* keeps its size.                                                         *)
LEMMA PromiseQuiet ==
  ASSUME PromiseOf(bundle, FL, AL, GBM), NEW fl, NEW al, NEW gbm, NEW b,
         b.phase \in {"empty", "waiting"} \/ (~Busy /\ b = bundle)
  PROVE  PromiseOf(b, fl, al, gbm)
  BY DEF PromiseOf, Busy

(* A step of the execute, resolve or retire stage keeps the bundle or      *)
(* drops it, and happens between bundles only.                             *)
LEMMA QuietSteps ==
  ASSUME Execute \/ Resolve \/ Retire
  PROVE  ~Busy /\ (bundle' = bundle \/ bundle' = NoBundle)
<1>1. CASE Execute
  BY <1>1 DEF Execute, Wakeup, WriteResult, CompleteInst, MarkInst
<1>2. CASE Resolve
  BY <1>2 DEF Resolve, ResolveCorrect, ResolveMispredict
<1>3. CASE Retire
  BY <1>3 DEF Retire, RetireCommit, RetireOffending, RetireDeferred, RetireSys,
              HeadCompleted, NothingInFlight
<1> QED BY <1>1, <1>2, <1>3

(* Every step keeps the promise.                                           *)
LEMMA PromiseNext ==
  ASSUME IInv, PromiseOf(bundle, FL, AL, GBM), [Next]_vars
  PROVE  PromiseOf(bundle', FL', AL', GBM')
<1>1. CASE Rename
  <2>1. ASSUME NEW n \in 1 .. MaxBundle, NEW d \in 0 .. MaxBundle,
               NEW b \in 0 .. MaxBundle, Arrive(n, d, b)
        PROVE  PromiseOf(bundle', FL', AL', GBM')
    <3>1. bundle'.phase = "waiting"
      BY <2>1 DEF Arrive
    <3> QED BY <3>1, PromiseQuiet
  <2>2. CASE StartRename
    BY <2>2, PromiseStart
  <2>3. ASSUME NEW dst \in LogReg \cup {None}, NEW sys \in SysInst,
               RenameInst(dst, sys)
        PROVE  PromiseOf(bundle', FL', AL', GBM')
    <3>1. TakeFromBundle(dst /= None, FALSE) /\ RenameDst(dst) /\ GBM' = GBM
      BY <2>3 DEF RenameInst
    <3> QED BY <3>1, PromiseRename
  <2>4. ASSUME NEW dst \in LogReg \cup {None}, NEW id \in BranchID,
               RenameBranch(dst, id)
        PROVE  PromiseOf(bundle', FL', AL', GBM')
    <3>1. TakeFromBundle(dst /= None, TRUE) /\ RenameDst(dst) /\ checkpoint(id)
      BY <2>4 DEF RenameBranch
    <3> QED BY <3>1, PromiseRename
  <2> QED BY <1>1, <2>1, <2>2, <2>3, <2>4 DEF Rename
<1>2. CASE Dispatch
  <2>1. CASE StartDispatch
    BY <2>1, PromiseStart
  <2>2. CASE \E k \in InFlight : DispatchInst(k)
    BY <2>2, Types, PromiseDispatch
  <2> QED BY <1>2, <2>1, <2>2 DEF Dispatch
<1>3. CASE Execute \/ Resolve \/ Retire
  <2>1. NoBundle.phase = "empty"
    BY DEF NoBundle
  <2> QED BY <1>3, <2>1, QuietSteps, PromiseQuiet
<1>4. CASE UNCHANGED vars
  BY <1>4 DEF vars
<1> QED BY <1>1, <1>2, <1>3, <1>4 DEF Next

(***************************************************************************)
(* Ready bits and results.                                                 *)
(***************************************************************************)
(* The operand fields of an instruction in flight are typed; a writer's    *)
(* register is nobody else's, so that a write disturbs nobody.             *)
LEMMA ResultAt ==
  ASSUME NEW w \in Seq(Inst), NEW k \in Of(w)
  PROVE  w[k].val \in Value \cup {None} /\ w[k].awake \in BOOLEAN
<1>1. w[k] \in Inst
  BY InstAt
<1> QED BY <1>1 DEF Inst

(* The register of an instruction in flight is no committed one, and no    *)
(* other instruction in flight writes it.                                  *)
LEMMA WriterAlone ==
  ASSUME IInv, NEW k \in Of(win), win[k].dst /= None
  PROVE  /\ win[k].phys \in PhysReg
         /\ \A l \in LogReg : AMT[l] /= win[k].phys
         /\ \A j \in Of(win) : j /= k => win[j].phys /= win[k].phys
<1>1. win[k].phys \in PhysReg
  <2>1. win[k].phys \in PhysReg \cup {None}
    BY Types, InstAt
  <2> QED BY <2>1 DEF IInv, DstOf
<1>2. /\ win[k].slot \in Index \ {Gap(FL)}
      /\ FL.slot[win[k].slot] = win[k].phys
  BY <1>1, WriterSlot
<1>3. \A l \in LogReg : AMT[l] /= win[k].phys
  BY <1>2 DEF IInv, HeldOf
<1>4. \A j \in Of(win) : win[j].phys = win[k].phys => j = k
  BY <1>1, OneWriter
<1> QED BY <1>1, <1>3, <1>4

(* Two dispatched instructions have different active list entries.         *)
LEMMA EntriesDiffer ==
  ASSUME IInv, NEW j \in Of(win), NEW k \in Of(win), win[j].alx /= None,
         win[j].alx = win[k].alx
  PROVE  j = k
<1>1. PICK n \in 0 .. Len(win) : n <= ListSize /\ ListUpTo(AL, win, n)
  BY DEF IInv, ListOf
<1>2. j \in 1 .. n /\ k \in 1 .. n
  BY <1>1, Types, LenProperties DEF ListUpTo, Of
<1> QED BY <1>1, <1>2, Types, PlacesDiffer

(* Instructions that agree in what the operand parts read.                 *)
SameResult(i, j) ==
  /\ i.dst = j.dst /\ i.phys = j.phys /\ i.alx = j.alx /\ i.sys = j.sys
  /\ i.val = j.val /\ i.awake = j.awake

(* A window of instructions that were there before keeps the operand parts *)
(* (truncation, commit, resolution); so does one that also has a renamed   *)
(* but undispatched instruction.                                           *)
LEMMA ResultsFrame ==
  ASSUME NEW prf, NEW rdy, NEW w, NEW w2, ResultsOf(prf, rdy, w),
         NEW al, NEW al2, DoneOf(al, w), al2.slot = al.slot,
         \A k \in Of(w2) :
           \/ \E j \in Of(w) : SameResult(w2[k], w[j])
           \/ w2[k].alx = None /\ w2[k].val = None /\ w2[k].awake = FALSE
  PROVE  ResultsOf(prf, rdy, w2) /\ DoneOf(al2, w2)
<1>1. ResultsOf(prf, rdy, w2)
  BY DEF ResultsOf, SameResult
<1>2. DoneOf(al2, w2)
  BY DEF DoneOf, SameResult, HasResult
<1> QED BY <1>1, <1>2

(* The operand parts of the invariant, and what a step has to show.        *)
RegistersInv ==
  /\ CommittedReady(PRF_rdy, AMT)
  /\ ResultsOf(PRF, PRF_rdy, win)
  /\ DoneOf(AL, win)

(* A renamed instruction has no result yet.                                *)
LEMMA AppendRegs ==
  ASSUME IInv, RegistersInv, NEW new \in Inst,
         win' = Append(win, new), new.alx = None, new.val = None, ~new.awake,
         UNCHANGED <<AMT, AL, regVars>>
  PROVE  RegistersInv'
<1>1. AMT' = AMT /\ AL' = AL /\ PRF' = PRF /\ PRF_rdy' = PRF_rdy
  BY DEF regVars
<1>2. /\ Of(win') = Of(win) \cup {Len(win) + 1} /\ win'[Len(win) + 1] = new
      /\ \A k \in Of(win) : win'[k] = win[k]
  BY Types, OfAppend
<1>3. new.awake = FALSE
  BY DEF Inst
<1>4. \A k \in Of(win') :
        \/ \E j \in Of(win) : SameResult(win'[k], win[j])
        \/ win'[k].alx = None /\ win'[k].val = None /\ win'[k].awake = FALSE
  BY <1>2, <1>3 DEF SameResult
<1>5. ResultsOf(PRF, PRF_rdy, win') /\ DoneOf(AL, win')
  BY <1>4, ResultsFrame DEF RegistersInv
<1> QED BY <1>1, <1>5 DEF RegistersInv

(* Both rename actions append such an instruction.                         *)
LEMMA RenameRegs ==
  ASSUME IInv, IInv', RegistersInv, NEW dst \in LogReg \cup {None},
         \/ \E sys \in SysInst : RenameInst(dst, sys)
         \/ \E id \in BranchID : RenameBranch(dst, id)
  PROVE  RegistersInv'
<1>1. PICK id, sys : win' = Append(win, Renamed(dst, id, sys))
  BY DEF RenameInst, RenameBranch
<1>2. UNCHANGED <<AMT, AL, regVars>>
  BY DEF RenameInst, RenameBranch
<1> DEFINE new == Renamed(dst, id, sys)
<1>3. new.alx = None /\ new.val = None /\ ~new.awake
  BY DEF Renamed
<1> HIDE DEF new
<1>4. new \in Inst
  <2>1. win' = Append(win, new) /\ win' \in Seq(Inst)
    BY <1>1, Types DEF IInv, TypeOK, new
  <2>2. Len(win) + 1 \in 1 .. Len(win') /\ win'[Len(win) + 1] = new
    BY <2>1, Types, LenProperties, AppendProperties
  <2> QED BY <2>1, <2>2
<1> QED BY <1>1, <1>2, <1>3, <1>4, AppendRegs DEF new

(* One instruction's result, and its register's bit and value, change: the *)
(* others' registers and entries are different ones.                       *)
LEMMA OneResultRegs ==
  ASSUME IInv, RegistersInv, NEW k \in Of(win), NEW e, NEW x,
         Of(win') = Of(win), OthersSame(win, win', k), win'[k] = e,
         e.dst = win[k].dst, e.phys = win[k].phys, e.sys = win[k].sys,
         e.alx = x, x /= None,
         AMT' = AMT,
         e.dst /= None =>
           /\ PRF_rdy' = [PRF_rdy EXCEPT ![e.phys] = e.awake]
           /\ \A r \in PhysReg : r /= e.phys => PRF'[r] = PRF[r]
           /\ e.val /= None => e.awake /\ PRF'[e.phys] = e.val,
         e.dst = None => UNCHANGED regVars,
         \A j \in Of(win) : j /= k /\ win[j].alx /= None =>
           AL'.slot[win[j].alx] = AL.slot[win[j].alx],
         AL'.slot[x].completed => e.sys \/ HasResult(e)
  PROVE  RegistersInv'
<1>1. CommittedReady(PRF_rdy, AMT) /\ ResultsOf(PRF, PRF_rdy, win) /\ DoneOf(AL, win)
  BY DEF RegistersInv
<1>2. e.dst /= None => /\ e.phys \in PhysReg
                       /\ \A l \in LogReg : AMT[l] /= e.phys
                       /\ \A j \in Of(win) : j /= k => win[j].phys /= e.phys
  BY WriterAlone
<1>3. \A r \in PhysReg : e.dst = None \/ r /= e.phys =>
        PRF_rdy'[r] = PRF_rdy[r] /\ PRF'[r] = PRF[r]
  <2>1. CASE e.dst = None
    BY <2>1 DEF regVars
  <2>2. CASE e.dst /= None
    BY <2>2, <1>2, Types
  <2> QED BY <2>1, <2>2
<1>4. CommittedReady(PRF_rdy', AMT')
  <2>1. \A l \in LogReg : AMT[l] \in PhysReg
    BY Types
  <2> QED BY <2>1, <1>1, <1>2, <1>3 DEF CommittedReady
<1>5. ResultsOf(PRF', PRF_rdy', win')
  <2> SUFFICES ASSUME NEW j \in Of(win')
               PROVE  IF win'[j].alx = None THEN win'[j].val = None /\ ~win'[j].awake
                      ELSE win'[j].dst /= None =>
                             /\ PRF_rdy'[win'[j].phys] = win'[j].awake
                             /\ win'[j].val /= None =>
                                  win'[j].awake /\ PRF'[win'[j].phys] = win'[j].val
    BY DEF ResultsOf
  <2>1. CASE j = k
    <3>1. e.dst /= None => PRF_rdy'[e.phys] = e.awake
      BY <1>2, Types
    <3> QED BY <2>1, <3>1
  <2>2. CASE j /= k
    <3>1. win'[j] = win[j] /\ j \in Of(win)
      BY <2>2 DEF OthersSame
    <3>2. win[j].dst /= None => win[j].phys \in PhysReg
      BY <3>1, WriterAlone
    <3>3. win[j].dst /= None => /\ PRF_rdy'[win[j].phys] = PRF_rdy[win[j].phys]
                                /\ PRF'[win[j].phys] = PRF[win[j].phys]
      BY <2>2, <3>1, <3>2, <1>2, <1>3
    <3> QED BY <3>1, <3>3, <1>1 DEF ResultsOf
  <2> QED BY <2>1, <2>2
<1>6. DoneOf(AL', win')
  <2> SUFFICES ASSUME NEW j \in Of(win'), win'[j].alx /= None,
                      AL'.slot[win'[j].alx].completed
               PROVE  win'[j].sys \/ HasResult(win'[j])
    BY DEF DoneOf
  <2>1. CASE j = k
    BY <2>1
  <2>2. CASE j /= k
    <3>1. win'[j] = win[j] /\ j \in Of(win)
      BY <2>2 DEF OthersSame
    <3> QED BY <2>2, <3>1, <1>1 DEF DoneOf
  <2> QED BY <2>1, <2>2
<1> QED BY <1>4, <1>5, <1>6 DEF RegistersInv

(* Dispatch clears the ready bit the register still has from its last use. *)
LEMMA DispatchRegs ==
  ASSUME IInv, IInv', RegistersInv, NEW k \in Of(win), DispatchInst(k)
  PROVE  RegistersInv'
<1> DEFINE e == [win[k] EXCEPT !.alx = AL'.rear]
           a == [dst_lgc |-> win[k].dst, dst_phy |-> win[k].phys,
                 completed |-> FALSE, marks |-> {}, sys |-> win[k].sys]
<1>1. win[k] \in Inst /\ AL'.rear \in Index /\ None \notin Index
  BY Types, InstAt, Sizes DEF IInv, TypeOK, QueueOf
<1>2. /\ e \in Inst /\ e.alx = AL'.rear /\ e.dst = win[k].dst
      /\ e.phys = win[k].phys /\ e.sys = win[k].sys
      /\ e.val = win[k].val /\ e.awake = win[k].awake
  BY <1>1 DEF Inst
<1>3. win' = [win EXCEPT ![k] = e] /\ AL' = Add(AL, a) /\ AMT' = AMT /\ PRF' = PRF
  BY DEF DispatchInst, dispatch_inst
<1> HIDE DEF e, a
<1>4. /\ Len(win') = Len(win) /\ Of(win') = Of(win) /\ win'[k] = e
      /\ OthersSame(win, win', k)
  BY <1>2, <1>3, Types, OfPut DEF Of, OthersSame
<1>5. e.val = None /\ e.awake = FALSE
  <2>1. win[k].alx = None
    BY DEF DispatchInst, Dispatched
  <2> QED BY <2>1, <1>1, <1>2 DEF RegistersInv, ResultsOf, Inst
<1>6. /\ e.dst /= None => PRF_rdy' = [PRF_rdy EXCEPT ![e.phys] = e.awake]
      /\ e.dst = None => UNCHANGED regVars
  BY <1>2, <1>3, <1>5 DEF DispatchInst, clear_ready, regVars
<1>7. AL'.rear = Succ(AL.rear)
      /\ \A i \in Index : AL'.slot[i] = IF i = AL'.rear THEN a ELSE AL.slot[i]
  BY <1>1, <1>3, Types, SuccIs DEF Add, QueueOf
<1>8. \A j \in Of(win) : j /= k /\ win[j].alx /= None =>
        AL'.slot[win[j].alx] = AL.slot[win[j].alx]
  <2> SUFFICES ASSUME NEW j \in Of(win), j /= k, win[j].alx /= None
               PROVE  AL'.slot[win[j].alx] = AL.slot[win[j].alx]
    OBVIOUS
  <2>1. win[j].alx \in Index
    BY Types, InstAt
  <2>2. win'[j].alx = win[j].alx /\ win'[k].alx = AL'.rear
    BY <1>2, <1>4 DEF OthersSame
  <2>3. win[j].alx /= AL'.rear
    <3>1. ASSUME win[j].alx = AL'.rear PROVE FALSE
      <4>1. PICK n \in 0 .. Len(win') : n <= ListSize /\ ListUpTo(AL', win', n)
        BY DEF IInv, ListOf
      <4>2. j \in 1 .. n /\ k \in 1 .. n
        BY <1>1, <1>4, <2>2, <3>1, <4>1, Types, LenProperties DEF ListUpTo, Of
      <4>3. win' \in Seq(Inst) /\ AL'.front \in Index
        BY DEF IInv, TypeOK, QueueOf
      <4>4. j = k
        BY <2>2, <3>1, <4>1, <4>2, <4>3, PlacesDiffer
      <4> QED BY <4>4
    <3> QED BY <3>1
  <2> QED BY <2>1, <2>3, <1>7
<1>9. ~AL'.slot[AL'.rear].completed
  BY <1>1, <1>7 DEF a
<1> QED BY <1>1, <1>2, <1>3, <1>4, <1>5, <1>6, <1>8, <1>9, OneResultRegs

(* A wake-up or a result.                                                  *)
LEMMA WritebackRegs ==
  ASSUME IInv, RegistersInv, NEW k \in Of(win),
         Wakeup(k) \/ \E v \in Value : WriteResult(k, v)
  PROVE  RegistersInv'
<1>1. win[k] \in Inst /\ win[k].alx \in Index \cup {None} /\ None \notin Index
  BY Types, InstAt, Sizes
<1>2. /\ win[k].alx /= None /\ win[k].dst /= None
      /\ AMT' = AMT /\ AL' = AL
      /\ PRF_rdy' = [PRF_rdy EXCEPT ![win[k].phys] = TRUE]
  BY DEF Wakeup, WriteResult, Dispatched, write, set_ready, mapVars
<1>3. DoneOf(AL, win) /\ ResultsOf(PRF, PRF_rdy, win)
  BY DEF RegistersInv
<1>4. ASSUME NEW e \in Inst, e.dst = win[k].dst, e.phys = win[k].phys,
             e.sys = win[k].sys, e.alx = win[k].alx, e.awake = TRUE,
             win' = [win EXCEPT ![k] = e],
             e.val /= None => PRF'[e.phys] = e.val,
             \A r \in PhysReg : r /= e.phys => PRF'[r] = PRF[r],
             HasResult(win[k]) => HasResult(e)
      PROVE  RegistersInv'
  <2>1. /\ Len(win') = Len(win) /\ Of(win') = Of(win) /\ win'[k] = e
        /\ OthersSame(win, win', k)
    BY <1>4, Types, OfPut DEF Of, OthersSame
  <2>2. AL'.slot[e.alx].completed => e.sys \/ HasResult(e)
    BY <1>2, <1>3, <1>4 DEF DoneOf
  <2> QED BY <1>2, <1>4, <2>1, <2>2, OneResultRegs
<1>5. CASE Wakeup(k)
  <2> DEFINE e == [win[k] EXCEPT !.awake = TRUE]
  <2>1. /\ e \in Inst /\ e.dst = win[k].dst /\ e.phys = win[k].phys
        /\ e.sys = win[k].sys /\ e.alx = win[k].alx /\ e.awake = TRUE
        /\ e.val = win[k].val
    BY <1>1 DEF Inst
  <2>2. win' = [win EXCEPT ![k] = e] /\ PRF' = PRF /\ win[k].awake = FALSE
    BY <1>1, <1>5 DEF Wakeup, Inst
  <2> HIDE DEF e
  <2>3. win[k].val = None
    BY <1>2, <1>3, <2>2 DEF ResultsOf
  <2> QED BY <1>4, <2>1, <2>2, <2>3 DEF HasResult
<1>6. ASSUME NEW v \in Value, WriteResult(k, v) PROVE RegistersInv'
  <2> DEFINE e == [win[k] EXCEPT !.val = v, !.awake = TRUE]
  <2>1. /\ e \in Inst /\ e.dst = win[k].dst /\ e.phys = win[k].phys
        /\ e.sys = win[k].sys /\ e.alx = win[k].alx /\ e.awake = TRUE
        /\ e.val = v
    BY <1>1 DEF Inst
  <2>2. win' = [win EXCEPT ![k] = e]
    <3>1. win' = [win EXCEPT ![k].val = v, ![k].awake = TRUE]
      BY <1>6 DEF WriteResult
    <3>2. win \in [1 .. Len(win) -> Inst] /\ k \in 1 .. Len(win)
      BY Types, LenProperties DEF Of
    <3> QED BY <3>1, <3>2
  <2>3. PRF' = [PRF EXCEPT ![win[k].phys] = v] /\ win[k].phys \in PhysReg
    BY <1>2, <1>6, WriterAlone DEF WriteResult, write
  <2> HIDE DEF e
  <2>4. v /= None
    BY Sizes
  <2>5. PRF'[e.phys] = e.val /\ \A r \in PhysReg : r /= e.phys => PRF'[r] = PRF[r]
    BY <2>1, <2>3, Types
  <2> QED BY <1>4, <2>1, <2>2, <2>4, <2>5 DEF HasResult
<1> QED BY <1>5, <1>6

(* A setter changes one entry; set_complete asks for the result first.     *)
LEMMA EntryRegs ==
  ASSUME IInv, RegistersInv, NEW k \in Of(win),
         CompleteInst(k) \/ \E mark \in Marks : MarkInst(k, mark)
  PROVE  RegistersInv'
<1>1. /\ win' = win /\ AMT' = AMT /\ PRF' = PRF /\ PRF_rdy' = PRF_rdy
      /\ win[k].alx /= None
  BY DEF CompleteInst, MarkInst, Dispatched, regVars
<1>2. \A j \in Of(win) : win[j].alx /= None =>
        /\ win[j].alx \in Index
        /\ AL.slot[win[j].alx] \in ALEntry
        /\ j /= k => win[j].alx /= win[k].alx
  <2> SUFFICES ASSUME NEW j \in Of(win), win[j].alx /= None
               PROVE  /\ win[j].alx \in Index
                      /\ AL.slot[win[j].alx] \in ALEntry
                      /\ j /= k => win[j].alx /= win[k].alx
    OBVIOUS
  <2>1. EntryOf(AL, win[j], j) /\ win[j].alx \in Index
    BY Types, EntryAt DEF IInv
  <2> QED BY <2>1, EntriesDiffer DEF EntryOf, EntryFor
<1>3. DoneOf(AL, win)
  BY DEF RegistersInv
<1>4. ASSUME NEW j \in Of(win), win[j].alx /= None,
             AL'.slot[win[j].alx].completed
      PROVE  win[j].sys \/ HasResult(win[j])
  <2> DEFINE x == win[k].alx
  <2>1. x \in Index /\ AL.slot[x] \in ALEntry /\ win[j].alx \in Index
    BY <1>1, <1>2, <1>4
  <2>2. CASE CompleteInst(k)
    <3>1. Finished(k) \/ win[k].sys
      BY <2>2 DEF CompleteInst
    <3>2. AL' = [AL EXCEPT !.slot[x].completed = TRUE]
      BY <2>2 DEF CompleteInst, set_complete
    <3>3. \A i \in Index : i /= x => AL'.slot[i] = AL.slot[i]
      BY <3>2, <2>1, Types DEF QueueOf
    <3>4. CASE j = k
      BY <3>1, <3>4 DEF Finished, HasResult
    <3>5. CASE j /= k
      BY <3>3, <3>5, <2>1, <1>2, <1>3, <1>4 DEF DoneOf
    <3> QED BY <3>4, <3>5
  <2>3. ASSUME NEW mark \in Marks, MarkInst(k, mark)
        PROVE  win[j].sys \/ HasResult(win[j])
    <3> DEFINE e == [AL.slot[x] EXCEPT !.marks = @ \cup {mark}]
    <3>1. AL' = [AL EXCEPT !.slot[x] = e]
      BY <2>3 DEF MarkInst, set_mark
    <3>2. e.completed = AL.slot[x].completed
      BY <2>1 DEF ALEntry
    <3> HIDE DEF e
    <3>3. AL'.slot[win[j].alx].completed = AL.slot[win[j].alx].completed
      BY <3>1, <3>2, <2>1, Types DEF QueueOf
    <3> QED BY <3>3, <1>3, <1>4 DEF DoneOf
  <2> QED BY <2>2, <2>3
<1>5. DoneOf(AL', win')
  BY <1>1, <1>4 DEF DoneOf
<1> QED BY <1>1, <1>5 DEF RegistersInv

(* A resolution changes neither a result nor a register; a misprediction   *)
(* drops the instructions behind the branch.                               *)
LEMMA ResolveRegs ==
  ASSUME IInv, RegistersInv, NEW k \in Of(win),
         ResolveCorrect(k) \/ ResolveMispredict(k)
  PROVE  RegistersInv'
<1>1. /\ AMT' = AMT /\ PRF' = PRF /\ PRF_rdy' = PRF_rdy /\ AL'.slot = AL.slot
  BY Types DEF ResolveCorrect, ResolveMispredict, resolve_correct,
               resolve_mispredict, RestoreRear, QueueOf, regVars
<1>2. Len(win) \in Nat /\ Of(win) = 1 .. Len(win) /\ \A j \in Of(win) : win[j] \in Inst
  BY Types, LenProperties, InstAt DEF Of
<1>3. \A j \in Of(win') : j \in Of(win) /\ SameResult(win'[j], win[j])
  <2>1. CASE ResolveCorrect(k)
    <3>1. /\ win' \in Seq(Inst) /\ Resolved(win, win', k)
      BY <2>1, Types, ResolvedFacts DEF ResolveCorrect
    <3>2. win' = [j \in Of(win) |-> [win[j] EXCEPT !.mask = @ \ {win[k].br},
                                      !.br = IF j = k THEN None ELSE @]]
      BY <2>1, Types DEF ResolveCorrect
    <3>3. Of(win') = Of(win)
      BY <3>1 DEF Resolved
    <3> SUFFICES ASSUME NEW j \in Of(win) PROVE SameResult(win'[j], win[j])
      BY <3>3
    <3>4. win'[j] = [win[j] EXCEPT !.mask = @ \ {win[k].br},
                                   !.br = IF j = k THEN None ELSE @]
      BY <3>2
    <3> QED BY <3>4, <1>2 DEF Inst, SameResult
  <2>2. CASE ResolveMispredict(k)
    <3> DEFINE v == [win EXCEPT ![k].br = None]
    <3>1. PICK m \in Of(win) : win' = SubSeq(v, 1, m)
      BY <2>2, Types DEF ResolveMispredict
    <3>2. \A j \in Of(win) : SameResult(v[j], win[j])
      BY <1>2, Types DEF Inst, SameResult
    <3>3. Of(win') = 1 .. m /\ \A j \in 1 .. m : win'[j] = v[j]
      BY <1>2, <3>1 DEF Of
    <3> QED BY <1>2, <3>2, <3>3
  <2> QED BY <2>1, <2>2
<1>4. CommittedReady(PRF_rdy, AMT) /\ ResultsOf(PRF, PRF_rdy, win) /\ DoneOf(AL, win)
  BY DEF RegistersInv
<1>5. ResultsOf(PRF, PRF_rdy, win') /\ DoneOf(AL', win')
  BY <1>1, <1>3, <1>4, ResultsFrame
<1> QED BY <1>1, <1>4, <1>5 DEF RegistersInv

(* The head that retires has its result; a serialising one may get it now. *)
LEMMA HeadResult ==
  ASSUME IInv, RegistersInv, HeadCompleted
  PROVE  /\ Len(win) > 0 /\ 1 \in Of(win) /\ win[1].alx /= None
         /\ Oldest.dst_lgc = win[1].dst /\ Oldest.dst_phy = win[1].phys
         /\ Oldest.sys = win[1].sys
         /\ win[1].dst \in LogReg \cup {None}
         /\ win[1].dst /= None => win[1].phys \in PhysReg
         /\ ~Oldest.sys => HasResult(win[1])
         /\ win[1].dst /= None /\ win[1].val /= None =>
              PRF_rdy[win[1].phys] = TRUE /\ PRF[win[1].phys] = win[1].val
<1>1. ~IsEmpty(AL) /\ Oldest.completed
  BY DEF HeadCompleted, precommit
<1>2. /\ Len(win) > 0 /\ 1 \in Of(win) /\ EntryOf(AL, win[1], 1)
      /\ AL.slot[win[1].alx] = Oldest
  BY <1>1, Types, HeadIsOldest DEF IInv, Oldest
<1>3. /\ win[1].alx /= None /\ win[1].dst \in LogReg \cup {None}
      /\ win[1].awake \in BOOLEAN /\ AL.front \in Index
  <2>1. win[1].alx = At(AL.front, 1) /\ AL.front \in Index
    BY <1>2, Types DEF EntryOf
  <2>2. At(AL.front, 1) \in Index
    BY <2>1, SuccIs DEF At, Succ
  <2> QED BY <1>2, <2>1, <2>2, Types, InstAt, ResultAt, Sizes
<1>4. Oldest.dst_lgc = win[1].dst /\ Oldest.dst_phy = win[1].phys
      /\ Oldest.sys = win[1].sys
  BY <1>2 DEF EntryOf, EntryFor
<1>5. win[1].dst /= None => win[1].phys \in PhysReg
  BY <1>2, WriterAlone
<1>6. ~Oldest.sys => HasResult(win[1])
  BY <1>1, <1>2, <1>3, <1>4 DEF RegistersInv, DoneOf
<1>7. win[1].dst /= None /\ win[1].val /= None =>
        PRF_rdy[win[1].phys] = TRUE /\ PRF[win[1].phys] = win[1].val
  BY <1>2, <1>3 DEF RegistersInv, ResultsOf
<1> QED BY <1>2, <1>3, <1>4, <1>5, <1>6, <1>7

(* The committed map takes a register that is ready.                       *)
LEMMA CommittedIsReady ==
  ASSUME IInv, RegistersInv, HeadCompleted, NEW rdy \in [PhysReg -> BOOLEAN],
         \A r \in PhysReg : PRF_rdy[r] = TRUE => rdy[r] = TRUE,
         win[1].dst /= None => rdy[win[1].phys] = TRUE
  PROVE  CommittedReady(rdy, CommittedAMT)
<1>1. /\ Oldest.dst_lgc = win[1].dst /\ Oldest.dst_phy = win[1].phys
      /\ win[1].dst \in LogReg \cup {None}
  BY HeadResult
<1>2. \A l \in LogReg : AMT[l] \in PhysReg /\ PRF_rdy[AMT[l]] = TRUE
  BY Types DEF RegistersInv, CommittedReady
<1>3. \A l \in LogReg :
        CommittedAMT[l] = IF win[1].dst = l THEN win[1].phys ELSE AMT[l]
  <2>1. CASE win[1].dst = None
    BY <2>1, <1>1, Sizes DEF CommittedAMT
  <2>2. CASE win[1].dst /= None
    BY <2>2, <1>1, Types DEF CommittedAMT
  <2> QED BY <2>1, <2>2
<1>4. None \notin LogReg
  BY Sizes
<1> QED BY <1>2, <1>3, <1>4 DEF CommittedReady

(* A commit.                                                               *)
LEMMA CommitRegs ==
  ASSUME IInv, RegistersInv, RetireCommit
  PROVE  RegistersInv'
<1>1. /\ HeadCompleted /\ ~Oldest.sys /\ AMT' = CommittedAMT /\ AL' = Delete(AL)
      /\ win' = Tail(win) /\ PRF' = PRF /\ PRF_rdy' = PRF_rdy
  BY DEF RetireCommit, commit, regVars
<1>2. /\ Len(win) > 0 /\ HasResult(win[1])
      /\ win[1].dst /= None => PRF_rdy[win[1].phys] = TRUE
  BY <1>1, HeadResult DEF HasResult
<1>3. CommittedReady(PRF_rdy, CommittedAMT)
  BY <1>1, <1>2, Types, CommittedIsReady
<1>4. \A k \in Of(win') : k + 1 \in Of(win) /\ win'[k] = win[k + 1]
  <2>1. win \in Seq(Inst) /\ Len(win) > 0 /\ win' = Tail(win)
    BY <1>1, <1>2, Types
  <2> QED BY <2>1, OfTail
<1>5. \A k \in Of(win') : \E j \in Of(win) : SameResult(win'[k], win[j])
  BY <1>4 DEF SameResult
<1>6. AL'.slot = AL.slot
  BY <1>1, Types DEF Delete, QueueOf
<1>7. ResultsOf(PRF, PRF_rdy, win') /\ DoneOf(AL', win')
  BY <1>5, <1>6, ResultsFrame DEF RegistersInv
<1> QED BY <1>1, <1>3, <1>7 DEF RegistersInv

(* The squashes: nothing in flight is left, the committed registers stay   *)
(* ready.                                                                  *)
LEMMA SquashRegs ==
  ASSUME win' = <<>>, CommittedReady(PRF_rdy', AMT')
  PROVE  RegistersInv'
<1>1. Of(win') = {}
  BY DEF Of
<1> QED BY <1>1 DEF RegistersInv, ResultsOf, DoneOf

(* After a retirement that squashes the window every committed register is *)
(* still ready.                                                            *)
LEMMA SquashingRegs ==
  ASSUME IInv, RegistersInv,
         RetireOffending \/ RetireDeferred \/ \E v \in Value : RetireSys(v)
  PROVE  RegistersInv'
<1>1. CASE RetireOffending
  <2>1. AMT' = AMT /\ PRF_rdy' = PRF_rdy /\ win' = <<>>
    BY <1>1 DEF RetireOffending, squash, NothingInFlight, regVars
  <2> QED BY <2>1, SquashRegs DEF RegistersInv
<1>2. CASE RetireDeferred
  <2>1. /\ AMT' = CommittedAMT /\ PRF_rdy' = PRF_rdy /\ win' = <<>>
        /\ HeadCompleted /\ ~Oldest.sys
    BY <1>2 DEF RetireDeferred, squash, NothingInFlight, regVars
  <2>2. win[1].dst /= None => PRF_rdy[win[1].phys] = TRUE
    BY <2>1, HeadResult DEF HasResult
  <2> QED BY <2>1, <2>2, Types, CommittedIsReady, SquashRegs
<1>3. ASSUME NEW v \in Value, RetireSys(v) PROVE RegistersInv'
  <2>1. AMT' = CommittedAMT /\ win' = <<>> /\ HeadCompleted
    BY <1>3 DEF RetireSys, squash, NothingInFlight
  <2>2. CASE win[1].dst /= None /\ win[1].val = None
    <3>1. PRF_rdy' = [PRF_rdy EXCEPT ![win[1].phys] = TRUE] /\ win[1].phys \in PhysReg
      BY <1>3, <2>1, <2>2, HeadResult DEF RetireSys, write, set_ready
    <3>2. /\ PRF_rdy' \in [PhysReg -> BOOLEAN] /\ PRF_rdy'[win[1].phys] = TRUE
          /\ \A r \in PhysReg : PRF_rdy[r] = TRUE => PRF_rdy'[r] = TRUE
      BY <3>1, Types
    <3> QED BY <2>1, <3>2, CommittedIsReady, SquashRegs
  <2>3. CASE ~(win[1].dst /= None /\ win[1].val = None)
    <3>1. PRF_rdy' = PRF_rdy
      BY <1>3, <2>3 DEF RetireSys, regVars
    <3>2. win[1].dst /= None => PRF_rdy[win[1].phys] = TRUE
      BY <2>1, <2>3, HeadResult
    <3> QED BY <2>1, <3>1, <3>2, Types, CommittedIsReady, SquashRegs
  <2> QED BY <2>2, <2>3
<1> QED BY <1>1, <1>2, <1>3

(* Every step keeps the operand parts.                                     *)
LEMMA RegistersNext ==
  ASSUME IInv, IInv', RegistersInv, [Next]_vars
  PROVE  RegistersInv'
<1>1. ASSUME UNCHANGED <<win, AMT, AL, regVars>> PROVE RegistersInv'
  BY <1>1 DEF RegistersInv, regVars
<1>2. CASE Rename
  <2>1. CASE \/ \E n \in 1 .. MaxBundle, d, b \in 0 .. MaxBundle : Arrive(n, d, b)
             \/ StartRename
    BY <2>1, <1>1 DEF Arrive, StartRename, renVars, regVars
  <2>2. CASE \/ \E dst \in LogReg \cup {None}, sys \in SysInst : RenameInst(dst, sys)
             \/ \E dst \in LogReg \cup {None}, id \in BranchID : RenameBranch(dst, id)
    BY <2>2, RenameRegs
  <2> QED BY <1>2, <2>1, <2>2 DEF Rename
<1>3. CASE Dispatch
  <2>1. CASE StartDispatch
    BY <2>1, <1>1 DEF StartDispatch, renVars, regVars
  <2>2. CASE \E k \in InFlight : DispatchInst(k)
    BY <2>2, Types, DispatchRegs
  <2> QED BY <1>3, <2>1, <2>2 DEF Dispatch
<1>4. CASE Execute
  <2>1. PICK k \in Of(win) : \/ Wakeup(k)
                             \/ \E v \in Value : WriteResult(k, v)
                             \/ CompleteInst(k)
                             \/ \E mark \in Marks : MarkInst(k, mark)
    BY <1>4, Types DEF Execute
  <2>2. CASE Wakeup(k) \/ \E v \in Value : WriteResult(k, v)
    BY <2>2, WritebackRegs
  <2>3. CASE CompleteInst(k) \/ \E mark \in Marks : MarkInst(k, mark)
    BY <2>3, EntryRegs
  <2> QED BY <2>1, <2>2, <2>3
<1>5. CASE Resolve
  <2>1. PICK k \in Of(win) : ResolveCorrect(k) \/ ResolveMispredict(k)
    BY <1>5, Types DEF Resolve
  <2> QED BY <2>1, ResolveRegs
<1>6. CASE Retire
  BY <1>6, CommitRegs, SquashingRegs DEF Retire
<1>7. CASE UNCHANGED vars
  BY <1>7, <1>1 DEF vars, regVars
<1> QED BY <1>2, <1>3, <1>4, <1>5, <1>6, <1>7 DEF Next

(***************************************************************************)
(* The invariant and what follows from it.                                 *)
(***************************************************************************)
(* The constructor, after the caller wrote every architectural register.   *)
LEMMA OperandInit == Init => OperandInv
<1> SUFFICES ASSUME Init PROVE OperandInv
  OBVIOUS
<1>1. win = <<>> /\ bundle = NoBundle /\ Of(win) = {}
  BY DEF Init, Of
<1>2. PromiseOf(bundle, FL, AL, GBM)
  BY <1>1 DEF PromiseOf, NoBundle
<1>3. CommittedReady(PRF_rdy, AMT)
  <2>1. (\A l \in LogReg : PRF_rdy[l]) /\ \A l \in LogReg : AMT[l] = l
    BY DEF Init, RenamerInit, Constructed
  <2> QED BY <2>1 DEF CommittedReady
<1> QED BY <1>1, <1>2, <1>3 DEF OperandInv, ResultsOf, DoneOf

(* Ready bits, results and promises are right in every reachable state.    *)
THEOREM OperandsInductive == Spec => [](IInv /\ OperandInv)
<1>1. Init => IInv /\ OperandInv
  BY InitInv, OperandInit
<1>2. IInv /\ OperandInv /\ [Next]_vars => (IInv /\ OperandInv)'
  <2> SUFFICES ASSUME IInv, OperandInv, [Next]_vars PROVE (IInv /\ OperandInv)'
    OBVIOUS
  <2>1. IInv'
    BY NextInv
  <2>2. RegistersInv'
    BY <2>1, RegistersNext DEF OperandInv, RegistersInv
  <2>3. PromiseOf(bundle', FL', AL', GBM')
    BY PromiseNext DEF OperandInv
  <2> QED BY <2>1, <2>2, <2>3 DEF OperandInv, RegistersInv
<1> QED BY <1>1, <1>2, PTL DEF Spec

(* No assertion of the class can fail: a bundle that was let in finds a    *)
(* free register, a checkpoint and an active list entry for every          *)
(* instruction that needs one, and a commit finds room in the free list.   *)
THEOREM NoAssertFails == Spec => []AssertsHold
<1>1. IInv /\ OperandInv => AssertsHold
  <2> SUFFICES ASSUME IInv, OperandInv PROVE AssertsHold
    OBVIOUS
  <2>1. PromiseOf(bundle, FL, AL, GBM)
    BY DEF OperandInv
  <2>2. /\ bundle.dst \in Nat /\ bundle.br \in Nat /\ bundle.left \in Nat
        /\ NBr \in Nat /\ ListSize \in Nat
        /\ Count(FL) \in Nat /\ Count(AL) \in Nat
    <3>1. /\ bundle.dst \in 0 .. MaxBundle /\ bundle.br \in 0 .. MaxBundle
          /\ bundle.left \in 0 .. MaxBundle
      BY Types DEF Bundle
    <3>2. 0 \in Nat
      OBVIOUS
    <3>3. Count(FL) \in 0 .. ListSize /\ Count(AL) \in 0 .. ListSize
      BY <3>2, Types, QueriesCount
    <3> QED BY <3>1, <3>3, Sizes, PipelineAssumption, RenamerAssumption
  <2>3. ASSUME bundle.phase = "rename", bundle.dst > 0 PROVE ~IsEmpty(FL)
    <3>1. Count(FL) /= 0
      BY <2>1, <2>2, <2>3 DEF PromiseOf
    <3> QED BY <3>1, Types, CountMoves DEF IsEmpty
  <2>4. ASSUME bundle.phase = "rename", bundle.br > 0 PROVE GBM /= BranchID
    <3>1. Cardinality(GBM) + bundle.br <= NBr
      BY <2>1, <2>4 DEF PromiseOf
    <3>2. Cardinality(BranchID) = NBr
      BY Types, MaskCounts
    <3> QED BY <3>1, <3>2, <2>2, <2>4
  <2>5. ASSUME bundle.phase = "dispatch" PROVE ~IsFull(AL)
    <3>1. bundle.left > 0
      BY <2>5 DEF IInv, BundleInv
    <3>2. Count(AL) /= ListSize
      BY <2>1, <2>2, <2>5, <3>1 DEF PromiseOf
    <3> QED BY <3>2, Types, CountMoves
  <2>6. ASSUME precommit, Oldest.dst_lgc /= None PROVE ~IsFull(FL)
    <3>1. /\ 1 \in Of(win) /\ EntryOf(AL, win[1], 1)
          /\ AL.slot[win[1].alx] = Oldest
      BY <2>6, Types, HeadIsOldest DEF IInv, Oldest, precommit
    <3>2. win[1].dst /= None
      BY <2>6, <3>1 DEF EntryOf, EntryFor
    <3>3. FL.front /= Gap(FL)
      BY <3>1, <3>2, Types, OldestOwns DEF IInv
    <3> QED BY <3>3, Types, FullIs
  <2> QED BY <2>3, <2>4, <2>5, <2>6 DEF AssertsHold
<1> QED BY <1>1, OperandsInductive, PTL

(* What a dispatched instruction sees of each source is its producer's     *)
(* state: ready exactly when announced, the result once it is written; a   *)
(* source without a producer in flight is committed and ready.             *)
THEOREM OperandsAreExact == Spec => []OperandsExact
<1>1. IInv /\ OperandInv => OperandsExact
  <2> SUFFICES ASSUME IInv, OperandInv, NEW k \in Of(win), NEW l \in LogReg,
                      Dispatched(k)
               PROVE  \/ /\ NoWriter(l, k - 1) /\ win[k].srcs[l] = AMT[l]
                         /\ is_ready(win[k].srcs[l])
                      \/ \E j \in 1 .. k - 1 :
                           /\ NewestWriter(l, k - 1, j)
                           /\ is_ready(win[k].srcs[l]) = win[j].awake
                           /\ win[j].val /= None =>
                                PRF[win[k].srcs[l]] = win[j].val
    BY Types DEF OperandsExact
  <2>1. MapOf(win[k].srcs, AMT, win, k - 1)
    BY DEF IInv, MapsOf
  <2>2. MapAfter(win[k].srcs, k - 1)
    BY <2>1, MapIs
  <2>3. CASE NoWriter(l, k - 1) /\ win[k].srcs[l] = AMT[l]
    BY <2>3 DEF OperandInv, CommittedReady, is_ready
  <2>4. ASSUME NEW j \in 1 .. k - 1, NewestWriter(l, k - 1, j),
               win[k].srcs[l] = win[j].phys
        PROVE  /\ is_ready(win[k].srcs[l]) = win[j].awake
               /\ win[j].val /= None => PRF[win[k].srcs[l]] = win[j].val
    <3>1. PICK n \in 0 .. Len(win) : n <= ListSize /\ ListUpTo(AL, win, n)
      BY DEF IInv, ListOf
    <3>2. j \in Of(win) /\ j <= k /\ n \in Nat /\ k \in Nat
      BY <3>1, Types, LenProperties DEF Of
    <3>3. k <= n
      BY <3>1 DEF ListUpTo, Dispatched
    <3>4. win[j].alx /= None
      BY <3>1, <3>2, <3>3 DEF ListUpTo
    <3>5. win[j].dst /= None
      BY <2>4, Sizes DEF NewestWriter
    <3> QED BY <2>4, <3>2, <3>4, <3>5 DEF OperandInv, ResultsOf, is_ready
  <2> QED BY <2>2, <2>3, <2>4 DEF MapAfter
<1> QED BY <1>1, OperandsInductive, PTL

(***************************************************************************)
(* The refinement: the registers read through the committed map, and the   *)
(* destinations and results in flight, behave as PreciseCore.              *)
(***************************************************************************)
Seen(i)          == [dst |-> i.dst, val |-> i.val]
FlightOf(w)      == [k \in Of(w) |-> Seen(w[k])]
ArchOf(prf, amt) == [l \in LogReg |-> prf[amt[l]]]
InFlightSeen     == [dst : LogReg \cup {None}, val : Value \cup {None}]

(* A window is seen as a sequence of the same length.                      *)
LEMMA FlightIs ==
  ASSUME NEW w \in Seq(Inst)
  PROVE  /\ FlightOf(w) \in Seq(InFlightSeen) /\ Len(FlightOf(w)) = Len(w)
         /\ Len(w) \in Nat /\ Of(w) = 1 .. Len(w)
         /\ \A k \in Of(w) : FlightOf(w)[k] = Seen(w[k])
<1>1. Len(w) \in Nat /\ Of(w) = 1 .. Len(w)
  BY LenProperties DEF Of
<1>2. \A k \in Of(w) : Seen(w[k]) \in InFlightSeen
  BY InstAt, ResultAt DEF Seen, InFlightSeen
<1>3. FlightOf(w) \in [1 .. Len(w) -> InFlightSeen]
  BY <1>1, <1>2 DEF FlightOf
<1>4. FlightOf(w) \in Seq(InFlightSeen) /\ Len(FlightOf(w)) = Len(w)
  BY <1>1, <1>3, SeqOfFunction
<1> QED BY <1>1, <1>4 DEF FlightOf

(* Windows that agree in destinations and results look the same.           *)
LEMMA SameFlight ==
  ASSUME NEW w, NEW w2, Of(w2) = Of(w),
         \A k \in Of(w) : w2[k].dst = w[k].dst /\ w2[k].val = w[k].val
  PROVE  FlightOf(w2) = FlightOf(w)
  BY DEF FlightOf, Seen

(* The three changes of the window, as seen.                               *)
LEMMA FlightAppend ==
  ASSUME NEW w \in Seq(Inst), NEW new \in Inst
  PROVE  FlightOf(Append(w, new)) = Append(FlightOf(w), Seen(new))
<1> DEFINE w2 == Append(w, new)
           f  == Append(FlightOf(w), Seen(new))
<1>1. /\ w2 \in Seq(Inst) /\ Len(w2) = Len(w) + 1 /\ Len(w) \in Nat
      /\ w2[Len(w) + 1] = new /\ \A k \in Of(w) : w2[k] = w[k]
      /\ Of(w) = 1 .. Len(w)
  BY OfAppend
<1>2. /\ FlightOf(w) \in Seq(InFlightSeen) /\ Len(FlightOf(w)) = Len(w)
      /\ \A k \in Of(w) : FlightOf(w)[k] = Seen(w[k])
  BY FlightIs
<1> HIDE DEF w2
<1>3. /\ FlightOf(w2) \in Seq(InFlightSeen) /\ Len(FlightOf(w2)) = Len(w) + 1
      /\ Of(w2) = 1 .. Len(w) + 1
      /\ \A k \in Of(w2) : FlightOf(w2)[k] = Seen(w2[k])
  BY <1>1, FlightIs
<1>4. Seen(new) \in InFlightSeen
  <2>1. Len(w) + 1 \in 1 .. Len(w) + 1
    BY <1>1
  <2>2. FlightOf(w2)[Len(w) + 1] = Seen(new)
    BY <2>1, <1>1, <1>3
  <2> QED BY <2>1, <2>2, <1>3, ElementOfSeq
<1>5. /\ f \in Seq(InFlightSeen) /\ Len(f) = Len(w) + 1
      /\ \A k \in 1 .. Len(w) : f[k] = FlightOf(w)[k]
      /\ f[Len(w) + 1] = Seen(new)
  BY <1>2, <1>4, AppendProperties
<1> HIDE DEF f
<1>6. \A k \in 1 .. Len(w) + 1 : FlightOf(w2)[k] = f[k]
  <2> TAKE k \in 1 .. Len(w) + 1
  <2>1. CASE k = Len(w) + 1
    BY <2>1, <1>1, <1>3, <1>5
  <2>2. CASE k /= Len(w) + 1
    <3>1. k \in 1 .. Len(w)
      BY <2>2, <1>1
    <3> QED BY <3>1, <1>1, <1>2, <1>3, <1>5
  <2> QED BY <2>1, <2>2
<1>7. FlightOf(w2) = f
  BY <1>3, <1>5, <1>6, SeqEqual
<1> QED BY <1>7 DEF w2, f

(* A commit takes the oldest away.                                         *)
LEMMA FlightTail ==
  ASSUME NEW w \in Seq(Inst), Len(w) > 0
  PROVE  FlightOf(Tail(w)) = Tail(FlightOf(w))
<1> DEFINE f == Tail(FlightOf(w))
           w2 == Tail(w)
<1>1. /\ w2 \in Seq(Inst) /\ Len(w2) = Len(w) - 1 /\ Len(w) \in Nat
      /\ \A k \in Of(w2) : k + 1 \in Of(w) /\ w2[k] = w[k + 1]
  BY OfTail
<1>2. /\ FlightOf(w) \in Seq(InFlightSeen) /\ Len(FlightOf(w)) = Len(w)
      /\ \A k \in Of(w) : FlightOf(w)[k] = Seen(w[k])
  BY FlightIs
<1> HIDE DEF w2
<1>3. /\ FlightOf(w2) \in Seq(InFlightSeen) /\ Len(FlightOf(w2)) = Len(w) - 1
      /\ Of(w2) = 1 .. Len(w) - 1
      /\ \A k \in Of(w2) : FlightOf(w2)[k] = Seen(w2[k])
  BY <1>1, FlightIs
<1>4. FlightOf(w) /= <<>>
  BY <1>2, EmptySeq
<1>5. /\ f \in Seq(InFlightSeen) /\ Len(f) = Len(w) - 1
      /\ \A k \in 1 .. Len(f) : f[k] = FlightOf(w)[k + 1]
  BY <1>2, <1>4, HeadTailProperties
<1> HIDE DEF f
<1>6. \A k \in 1 .. Len(f) : FlightOf(w2)[k] = f[k]
  BY <1>1, <1>2, <1>3, <1>5
<1>7. FlightOf(w2) = f
  BY <1>3, <1>5, <1>6, SeqEqual
<1> QED BY <1>7 DEF w2, f

(* A misprediction cuts the window behind the branch.                      *)
LEMMA FlightCut ==
  ASSUME NEW w \in Seq(Inst), NEW m \in Of(w), NEW w2 \in Seq(Inst), Len(w2) = m,
         \A j \in 1 .. m : w2[j].dst = w[j].dst /\ w2[j].val = w[j].val
  PROVE  FlightOf(w2) = SubSeq(FlightOf(w), 1, m)
<1> DEFINE f == SubSeq(FlightOf(w), 1, m)
<1>1. /\ FlightOf(w) \in Seq(InFlightSeen) /\ Len(FlightOf(w)) = Len(w)
      /\ Len(w) \in Nat /\ Of(w) = 1 .. Len(w)
      /\ \A k \in Of(w) : FlightOf(w)[k] = Seen(w[k])
  BY FlightIs
<1>2. /\ FlightOf(w2) \in Seq(InFlightSeen) /\ Len(FlightOf(w2)) = m
      /\ Of(w2) = 1 .. m
      /\ \A k \in Of(w2) : FlightOf(w2)[k] = Seen(w2[k])
  BY FlightIs
<1>3. /\ f \in Seq(InFlightSeen) /\ Len(f) = m
      /\ \A k \in 1 .. m : f[k] = FlightOf(w)[k]
  <2>1. 1 \in Int /\ m \in Int /\ 1 <= m /\ m <= Len(w)
    BY <1>1
  <2>2. \A i \in 1 .. m : FlightOf(w)[i] \in InFlightSeen
    BY <1>1, <2>1, ElementOfSeq
  <2>3. /\ f \in Seq(InFlightSeen) /\ Len(f) = IF 1 <= m THEN m - 1 + 1 ELSE 0
        /\ \A i \in 1 .. m - 1 + 1 : f[i] = FlightOf(w)[1 + i - 1]
    BY <2>1, <2>2, SubSeqProperties
  <2> QED BY <2>1, <2>3
<1> HIDE DEF f
<1>4. \A k \in 1 .. m : FlightOf(w2)[k] = f[k]
  <2> TAKE k \in 1 .. m
  <2>1. k \in Of(w) /\ k \in Of(w2)
    BY <1>1, <1>2
  <2>2. Seen(w2[k]) = Seen(w[k])
    BY DEF Seen
  <2> QED BY <2>1, <2>2, <1>1, <1>2, <1>3
<1>5. FlightOf(w2) = f
  BY <1>2, <1>3, <1>4, SeqEqual
<1> QED BY <1>5 DEF f

(* The abstract machine in terms of what is seen.                          *)
Arch   == ArchOf(PRF, AMT)
Flight == FlightOf(win)

(* What the abstract core sees of a state that the invariant describes.    *)
LEMMA SeenFacts ==
  ASSUME IInv
  PROVE  /\ Arch = [l \in LogReg |-> PRF[AMT[l]]] /\ Arch \in [LogReg -> Value]
         /\ Flight = [k \in InFlight |-> [dst |-> win[k].dst, val |-> win[k].val]]
         /\ Flight \in Seq(InFlightSeen) /\ Len(Flight) = Len(win)
         /\ Of(win) = 1 .. Len(Flight)
         /\ \A k \in Of(win) : Flight[k].dst = win[k].dst /\ Flight[k].val = win[k].val
<1>1. Arch = [l \in LogReg |-> PRF[AMT[l]]] /\ Arch \in [LogReg -> Value]
  BY Types DEF Arch, ArchOf
<1>2. Flight = [k \in InFlight |-> [dst |-> win[k].dst, val |-> win[k].val]]
  BY DEF Flight, FlightOf, Seen, InFlight, Of
<1>3. /\ Flight \in Seq(InFlightSeen) /\ Len(Flight) = Len(win)
      /\ Of(win) = 1 .. Len(win)
      /\ \A k \in Of(win) : Flight[k] = Seen(win[k])
  BY Types, FlightIs DEF Flight
<1>4. \A k \in Of(win) : Flight[k].dst = win[k].dst /\ Flight[k].val = win[k].val
  <2> TAKE k \in Of(win)
  <2>1. Flight[k] = [dst |-> win[k].dst, val |-> win[k].val]
    BY <1>3 DEF Seen
  <2> QED BY <2>1
<1> QED BY <1>1, <1>2, <1>3, <1>4

(* A rename is an Enter.                                                   *)
LEMMA RenameEnters ==
  ASSUME IInv, IInv', NEW dst \in LogReg \cup {None},
         \/ \E sys \in SysInst : RenameInst(dst, sys)
         \/ \E id \in BranchID : RenameBranch(dst, id)
  PROVE  /\ Flight' = Append(Flight, [dst |-> dst, val |-> None])
         /\ Arch' = Arch
<1>1. PICK id, sys : win' = Append(win, Renamed(dst, id, sys))
  BY DEF RenameInst, RenameBranch
<1> DEFINE new == Renamed(dst, id, sys)
<1>2. Seen(new) = [dst |-> dst, val |-> None]
  BY DEF Renamed, Seen
<1> HIDE DEF new
<1>3. new \in Inst
  <2>1. win' = Append(win, new) /\ win' \in Seq(Inst)
    BY <1>1, Types DEF IInv, TypeOK, new
  <2>2. Len(win) + 1 \in 1 .. Len(win') /\ win'[Len(win) + 1] = new
    BY <2>1, Types, LenProperties, AppendProperties
  <2> QED BY <2>1, <2>2
<1>4. FlightOf(win') = Append(FlightOf(win), [dst |-> dst, val |-> None])
  BY <1>1, <1>2, <1>3, Types, FlightAppend DEF new
<1>5. PRF' = PRF /\ AMT' = AMT
  BY DEF RenameInst, RenameBranch, regVars
<1> QED BY <1>4, <1>5 DEF Flight, Arch

(* A result that is written is a Produce: no committed register is the one *)
(* that is written.                                                        *)
LEMMA WriteProduces ==
  ASSUME IInv, NEW k \in Of(win), NEW v \in Value, WriteResult(k, v)
  PROVE  /\ Flight[k].dst /= None /\ Flight[k].val = None
         /\ Flight' = [Flight EXCEPT ![k].val = v]
         /\ Arch' = Arch
<1> DEFINE e == [win[k] EXCEPT !.val = v, !.awake = TRUE]
<1>1. win[k] \in Inst /\ win[k].dst /= None /\ win[k].val = None
  BY Types, InstAt DEF WriteResult
<1>2. /\ e \in Inst /\ e.dst = win[k].dst /\ e.val = v
  BY <1>1 DEF Inst
<1>3. win' = [win EXCEPT ![k] = e]
  <2>1. win' = [win EXCEPT ![k].val = v, ![k].awake = TRUE]
    BY DEF WriteResult
  <2>2. win \in [1 .. Len(win) -> Inst] /\ k \in 1 .. Len(win)
    BY Types, LenProperties DEF Of
  <2> QED BY <2>1, <2>2
<1> HIDE DEF e
<1>4. /\ win' \in Seq(Inst) /\ Of(win') = Of(win) /\ win'[k] = e
      /\ \A j \in Of(win) : j /= k => win'[j] = win[j]
  BY <1>2, <1>3, Types, OfPut DEF Of
<1>5. Flight' = [j \in Of(win) |-> Seen(win'[j])]
  BY <1>4 DEF Flight, FlightOf
<1>6. Flight = [j \in Of(win) |-> Seen(win[j])]
  BY DEF Flight, FlightOf
<1>7. Seen(win'[k]) = [Seen(win[k]) EXCEPT !.val = v]
  BY <1>2, <1>4 DEF Seen
<1>8. Flight' = [Flight EXCEPT ![k].val = v]
  BY <1>4, <1>5, <1>6, <1>7
<1>9. PRF' = [PRF EXCEPT ![win[k].phys] = v] /\ AMT' = AMT
  BY DEF WriteResult, write, mapVars
<1>10. \A l \in LogReg : AMT[l] \in PhysReg /\ AMT[l] /= win[k].phys
  BY <1>1, Types, WriterAlone
<1>11. Arch' = Arch
  BY <1>9, <1>10, Types DEF Arch, ArchOf
<1> QED BY <1>1, <1>8, <1>11, SeenFacts

(* Steps that nobody sees.                                                 *)
LEMMA UnseenSteps ==
  ASSUME IInv,
         \/ \E n \in 1 .. MaxBundle, d, b \in 0 .. MaxBundle : Arrive(n, d, b)
         \/ StartRename \/ Dispatch
         \/ \E k \in InFlight : \/ Wakeup(k) \/ CompleteInst(k)
                                \/ \E mark \in Marks : MarkInst(k, mark)
                                \/ ResolveCorrect(k)
         \/ UNCHANGED vars
  PROVE  Flight' = Flight /\ Arch' = Arch
<1>1. PRF' = PRF /\ AMT' = AMT
  BY DEF Arrive, StartRename, Dispatch, StartDispatch, DispatchInst, Wakeup,
         CompleteInst, MarkInst, ResolveCorrect, resolve_correct, vars,
         renVars, regVars, mapVars
<1>2. ASSUME Of(win') = Of(win),
             \A j \in Of(win) : win'[j].dst = win[j].dst /\ win'[j].val = win[j].val
      PROVE  Flight' = Flight
  BY <1>2, SameFlight DEF Flight
<1>3. \A j \in Of(win) : win[j] \in Inst
  BY Types, InstAt
<1>4. ASSUME win' = win PROVE Flight' = Flight
  BY <1>4 DEF Flight, FlightOf, Of
<1>5. ASSUME NEW k \in Of(win), DispatchInst(k) \/ Wakeup(k)
      PROVE  Flight' = Flight
  <2>1. PICK e : /\ win' = [win EXCEPT ![k] = e]
                 /\ e.dst = win[k].dst /\ e.val = win[k].val
    <3>1. CASE DispatchInst(k)
      <4> DEFINE e == [win[k] EXCEPT !.alx = AL'.rear]
      <4>1. win' = [win EXCEPT ![k] = e]
        BY <3>1 DEF DispatchInst
      <4>2. e.dst = win[k].dst /\ e.val = win[k].val
        BY <1>3 DEF Inst
      <4> QED BY <4>1, <4>2
    <3>2. CASE Wakeup(k)
      <4> DEFINE e == [win[k] EXCEPT !.awake = TRUE]
      <4>1. win' = [win EXCEPT ![k] = e]
        BY <3>2 DEF Wakeup
      <4>2. e.dst = win[k].dst /\ e.val = win[k].val
        BY <1>3 DEF Inst
      <4> QED BY <4>1, <4>2
    <3> QED BY <1>5, <3>1, <3>2
  <2>2. Len(win') = Len(win)
    BY <2>1, Types
  <2>3. \A j \in Of(win) : win'[j] = IF j = k THEN e ELSE win[j]
    BY <2>1, Types DEF Of
  <2> QED BY <1>2, <2>1, <2>2, <2>3 DEF Of
<1>6. ASSUME NEW k \in Of(win), ResolveCorrect(k)
      PROVE  Flight' = Flight
  <2>1. win' = [j \in Of(win) |-> [win[j] EXCEPT !.mask = @ \ {win[k].br},
                                      !.br = IF j = k THEN None ELSE @]]
    BY <1>6, Types DEF ResolveCorrect
  <2>2. Of(win') = Of(win)
    <3>1. win \in Seq(Inst)
      BY Types
    <3>2. Resolved(win, win', k)
      BY <2>1, <3>1, ResolvedFacts
    <3> QED BY <3>2 DEF Resolved
  <2>3. \A j \in Of(win) :
          win'[j] = [win[j] EXCEPT !.mask = @ \ {win[k].br},
                                   !.br = IF j = k THEN None ELSE @]
    BY <2>1
  <2>4. \A j \in Of(win) : win'[j].dst = win[j].dst /\ win'[j].val = win[j].val
    <3> TAKE j \in Of(win)
    <3>1. PICK i \in Inst : i = win[j]
      BY <1>3
    <3>2. PICK m, b : m = i.mask \ {win[k].br} /\ b = IF j = k THEN None ELSE i.br
      OBVIOUS
    <3>3. win'[j] = [i EXCEPT !.mask = m, !.br = b]
      BY <2>3, <3>1, <3>2, Zenon
    <3>4. win'[j].dst = i.dst /\ win'[j].val = i.val
      BY <3>3 DEF Inst
    <3> QED BY <3>1, <3>4, Zenon
  <2> QED BY <1>2, <2>2, <2>4
<1>7. Flight' = Flight
  <2>1. CASE \/ \E n \in 1 .. MaxBundle, d, b \in 0 .. MaxBundle : Arrive(n, d, b)
             \/ StartRename \/ StartDispatch
             \/ \E k \in InFlight : \/ CompleteInst(k)
                                    \/ \E mark \in Marks : MarkInst(k, mark)
             \/ UNCHANGED vars
    BY <2>1, <1>4 DEF Arrive, StartRename, StartDispatch, CompleteInst, MarkInst, vars
  <2>2. CASE \E k \in InFlight : DispatchInst(k) \/ Wakeup(k)
    BY <2>2, <1>5, Types
  <2>3. CASE \E k \in InFlight : ResolveCorrect(k)
    BY <2>3, <1>6, Types
  <2> QED BY <2>1, <2>2, <2>3 DEF Dispatch
<1> QED BY <1>1, <1>7 DEF Arch

(* A misprediction cuts what is in flight.                                 *)
LEMMA MispredictCuts ==
  ASSUME IInv, IInv', NEW k \in Of(win), ResolveMispredict(k)
  PROVE  /\ \E m \in Of(win) : Flight' = SubSeq(Flight, 1, m)
         /\ Arch' = Arch
<1>1. PRF' = PRF /\ AMT' = AMT
  BY DEF ResolveMispredict, resolve_mispredict, regVars
<1> DEFINE v == [win EXCEPT ![k].br = None]
<1>2. PICK m \in Of(win) : win' = SubSeq(v, 1, m)
  BY Types DEF ResolveMispredict
<1>3. Len(win) \in Nat /\ Of(win) = 1 .. Len(win) /\ \A j \in Of(win) : win[j] \in Inst
  BY Types, LenProperties, InstAt DEF Of
<1>4. Len(win') = m /\ \A j \in 1 .. m : win'[j] = v[j]
  BY <1>2, <1>3
<1>5. \A j \in Of(win) : v[j].dst = win[j].dst /\ v[j].val = win[j].val
  BY <1>3, Types DEF Inst
<1> HIDE DEF v
<1>6. \A j \in 1 .. m : win'[j].dst = win[j].dst /\ win'[j].val = win[j].val
  BY <1>3, <1>4, <1>5
<1>7. win' \in Seq(Inst)
  BY DEF IInv, TypeOK
<1>8. FlightOf(win') = SubSeq(FlightOf(win), 1, m)
  BY <1>4, <1>6, <1>7, Types, FlightCut
<1> QED BY <1>1, <1>8 DEF Flight, Arch

(* The registers after the head committed with v as its result if it has   *)
(* none yet.                                                               *)
AfterHead(v) ==
  IF Flight[1].dst = None THEN Arch
  ELSE [Arch EXCEPT ![Flight[1].dst] =
          IF Flight[1].val = None THEN v ELSE Flight[1].val]

(* The committed values once the head's register is in the AMT.            *)
LEMMA CommittedArch ==
  ASSUME IInv, RegistersInv, HeadCompleted, NEW prf, NEW v,
         \A r \in PhysReg : r /= win[1].phys => prf[r] = PRF[r],
         win[1].dst /= None =>
           prf[win[1].phys] = IF win[1].val = None THEN v ELSE win[1].val
  PROVE  ArchOf(prf, CommittedAMT) = AfterHead(v)
<1>1. /\ 1 \in Of(win) /\ Oldest.dst_lgc = win[1].dst /\ Oldest.dst_phy = win[1].phys
      /\ win[1].dst \in LogReg \cup {None}
  BY HeadResult
<1>2. Flight[1].dst = win[1].dst /\ Flight[1].val = win[1].val
  BY <1>1, SeenFacts
<1>3. \A l \in LogReg : AMT[l] \in PhysReg /\ AMT[l] /= win[1].phys
  <2>1. CASE win[1].dst = None
    <3>1. win[1].phys = None
      BY <2>1, <1>1 DEF IInv, DstOf
    <3> QED BY <3>1, Types, Sizes
  <2>2. CASE win[1].dst /= None
    BY <2>2, <1>1, Types, WriterAlone
  <2> QED BY <2>1, <2>2
<1>4. \A l \in LogReg : prf[AMT[l]] = PRF[AMT[l]]
  BY <1>3
<1>5. CASE win[1].dst = None
  <2>1. CommittedAMT = AMT /\ AfterHead(v) = Arch
    BY <1>1, <1>2, <1>5 DEF CommittedAMT, AfterHead
  <2> QED BY <2>1, <1>4 DEF Arch, ArchOf
<1>6. CASE win[1].dst /= None
  <2> DEFINE x == IF win[1].val = None THEN v ELSE win[1].val
  <2>1. CommittedAMT = [AMT EXCEPT ![win[1].dst] = win[1].phys]
    BY <1>1, <1>6 DEF CommittedAMT
  <2>2. AfterHead(v) = [Arch EXCEPT ![win[1].dst] = x]
    BY <1>2, <1>6 DEF AfterHead
  <2>3. prf[win[1].phys] = x
    BY <1>6
  <2> HIDE DEF x
  <2>4. \A l \in LogReg :
          prf[CommittedAMT[l]] = IF l = win[1].dst THEN x ELSE PRF[AMT[l]]
    BY <2>1, <2>3, <1>1, <1>4, <1>6, Types
  <2>5. AfterHead(v) = [l \in LogReg |-> IF l = win[1].dst THEN x ELSE PRF[AMT[l]]]
    BY <2>2, <1>1, <1>6 DEF Arch, ArchOf
  <2> QED BY <2>4, <2>5 DEF ArchOf
<1> QED BY <1>5, <1>6

(* What the retire stage does is a Commit, a Flush or both.                *)
LEMMA RetireCommits ==
  ASSUME IInv, RegistersInv, RetireCommit
  PROVE  /\ Flight /= <<>>
         /\ Flight[1].dst = None \/ Flight[1].val /= None
         /\ Arch' = AfterHead(None)
         /\ Flight' = Tail(Flight)
<1>1. /\ HeadCompleted /\ ~Oldest.sys /\ AMT' = CommittedAMT
      /\ win' = Tail(win) /\ PRF' = PRF
  BY DEF RetireCommit, commit, regVars
<1>2. /\ Len(win) > 0 /\ 1 \in Of(win) /\ HasResult(win[1])
      /\ win[1].dst /= None => PRF[win[1].phys] = win[1].val
  BY <1>1, HeadResult DEF HasResult
<1>3. Flight /= <<>> /\ Flight[1].dst = win[1].dst /\ Flight[1].val = win[1].val
  <2>1. Len(Flight) > 0 /\ Flight \in Seq(InFlightSeen)
    BY <1>2, SeenFacts
  <2> QED BY <1>2, <2>1, SeenFacts, EmptySeq
<1>4. ArchOf(PRF, CommittedAMT) = AfterHead(None)
  BY <1>1, <1>2, CommittedArch DEF HasResult
<1>5. FlightOf(win') = Tail(FlightOf(win))
  BY <1>1, <1>2, Types, FlightTail
<1> QED BY <1>1, <1>2, <1>3, <1>4, <1>5 DEF Arch, Flight, HasResult

(* An offending head is not committed, and everything in flight is gone    *)
(* with it.                                                                *)
LEMMA RetireFlushes ==
  ASSUME IInv, RegistersInv, RetireOffending
  PROVE  Flight' = <<>> /\ Arch' = Arch
<1>1. AMT' = AMT /\ PRF' = PRF /\ win' = <<>>
  BY DEF RetireOffending, squash, NothingInFlight, regVars
<1>2. FlightOf(<<>>) = <<>>
  BY DEF FlightOf, Of
<1> QED BY <1>1, <1>2 DEF Arch, Flight

(* A head that commits and then squashes: the abstract core commits it,    *)
(* and drops the rest.                                                     *)
LEMMA RetireCommitsAndFlushes ==
  ASSUME IInv, RegistersInv, RetireDeferred \/ \E v \in Value : RetireSys(v)
  PROVE  /\ Flight /= <<>> /\ Flight' = <<>>
         /\ \E v \in Value : Arch' = AfterHead(v)
<1>1. AMT' = CommittedAMT /\ win' = <<>> /\ HeadCompleted
  BY DEF RetireDeferred, RetireSys, squash, NothingInFlight
<1>2. Flight' = <<>>
  <2>1. FlightOf(<<>>) = <<>>
    BY DEF FlightOf, Of
  <2> QED BY <1>1, <2>1 DEF Flight
<1>3. /\ Len(win) > 0 /\ 1 \in Of(win)
      /\ ~Oldest.sys => HasResult(win[1])
      /\ win[1].dst /= None => win[1].phys \in PhysReg
      /\ win[1].dst /= None /\ win[1].val /= None => PRF[win[1].phys] = win[1].val
  BY <1>1, HeadResult
<1>4. Flight /= <<>>
  <2>1. Len(Flight) > 0
    BY <1>3, SeenFacts
  <2> QED BY <2>1, EmptySeq
<1>5. PICK v \in Value :
        /\ \A r \in PhysReg : r /= win[1].phys => PRF'[r] = PRF[r]
        /\ win[1].dst /= None =>
             PRF'[win[1].phys] = IF win[1].val = None THEN v ELSE win[1].val
  <2>1. CASE RetireDeferred
    <3>1. PRF' = PRF /\ HasResult(win[1])
      BY <2>1, <1>3 DEF RetireDeferred, regVars
    <3>2. 0 \in PhysReg
      BY RenamerAssumption DEF PhysReg
    <3>3. PRF[0] \in Value
      BY <3>2, Types
    <3> QED BY <3>1, <3>3, <1>3 DEF HasResult
  <2>2. ASSUME NEW u \in Value, RetireSys(u)
        PROVE  \E v \in Value :
                 /\ \A r \in PhysReg : r /= win[1].phys => PRF'[r] = PRF[r]
                 /\ win[1].dst /= None =>
                      PRF'[win[1].phys] = IF win[1].val = None THEN v ELSE win[1].val
    <3>1. CASE win[1].dst /= None /\ win[1].val = None
      <4>1. PRF' = [PRF EXCEPT ![win[1].phys] = u]
        BY <2>2, <3>1, <1>1, HeadResult DEF RetireSys, write
      <4>2. /\ \A r \in PhysReg : r /= win[1].phys => PRF'[r] = PRF[r]
            /\ PRF'[win[1].phys] = u
        BY <4>1, <3>1, <1>3, Types
      <4> QED BY <3>1, <4>2
    <3>2. CASE ~(win[1].dst /= None /\ win[1].val = None)
      <4>1. PRF' = PRF
        BY <2>2, <3>2 DEF RetireSys, regVars
      <4> QED BY <4>1, <3>2, <1>3
    <3> QED BY <3>1, <3>2
  <2> QED BY <2>1, <2>2
<1>6. ArchOf(PRF', CommittedAMT) = AfterHead(v)
  BY <1>1, <1>5, CommittedArch
<1> QED BY <1>1, <1>2, <1>4, <1>6 DEF Arch

(* PreciseCore of what is seen: Precise of RenamerProps, with the mapping  *)
(* named.                                                                  *)
Core == INSTANCE PreciseCore WITH
          Reg <- LogReg, Val <- Value, arch <- Arch, flight <- Flight

(* PreciseCore's actions.                                                  *)
LEMMA PreciseActions ==
  /\ \A dst \in LogReg \cup {None} :
       (Flight' = Append(Flight, [dst |-> dst, val |-> None]) /\ Arch' = Arch)
         => Core!Next
  /\ \A k \in 1 .. Len(Flight), v \in Value :
       (/\ Flight[k].dst /= None /\ Flight[k].val = None
        /\ Flight' = [Flight EXCEPT ![k].val = v] /\ Arch' = Arch)
         => Core!Next
  /\ (/\ Flight /= <<>>
      /\ Flight[1].dst = None \/ Flight[1].val /= None
      /\ Arch' = AfterHead(None)
      /\ Flight' = Tail(Flight))
       => Core!Next
  /\ \A m \in 1 .. Len(Flight) :
       (Flight' = SubSeq(Flight, 1, m) /\ Arch' = Arch) => Core!Next
  /\ (Flight' = <<>> /\ Arch' = Arch) => Core!Next
  /\ \A v \in Value :
       (Flight /= <<>> /\ Arch' = AfterHead(v) /\ Flight' = <<>>) => Core!Next
<1>1. \A dst \in LogReg \cup {None} :
        (Flight' = Append(Flight, [dst |-> dst, val |-> None]) /\ Arch' = Arch)
          => Core!Enter(dst)
  BY DEF Core!Enter
<1>2. \A k \in 1 .. Len(Flight), v \in Value :
        (/\ Flight[k].dst /= None /\ Flight[k].val = None
         /\ Flight' = [Flight EXCEPT ![k].val = v] /\ Arch' = Arch)
          => Core!Produce(k, v)
  BY Zenon DEF Core!Produce
<1>3. \A v : Core!AfterOldest(v) = AfterHead(v)
  BY DEF Core!AfterOldest, AfterHead
<1>4. (/\ Flight /= <<>>
       /\ Flight[1].dst = None \/ Flight[1].val /= None
       /\ Arch' = AfterHead(None)
       /\ Flight' = Tail(Flight))
        => Core!Commit
  BY <1>3 DEF Core!Commit
<1>5. \A m \in 1 .. Len(Flight) :
        (Flight' = SubSeq(Flight, 1, m) /\ Arch' = Arch) => Core!Mispredict(m)
  BY DEF Core!Mispredict
<1>6. (Flight' = <<>> /\ Arch' = Arch) => Core!Flush
  BY DEF Core!Flush
<1>7. \A v \in Value :
        (Flight /= <<>> /\ Arch' = AfterHead(v) /\ Flight' = <<>>)
          => Core!CommitAndFlush(v)
  BY <1>3 DEF Core!CommitAndFlush
<1> QED BY Zenon, <1>1, <1>2, <1>4, <1>5, <1>6, <1>7 DEF Core!Next

(* Every step is a step of PreciseCore or is not seen.                     *)
LEMMA StepIsPrecise ==
  ASSUME IInv, IInv', RegistersInv, [Next]_vars
  PROVE  Core!Next \/ UNCHANGED <<Arch, Flight>>
<1>1. Of(win) = 1 .. Len(Flight)
  BY SeenFacts
<1>2. CASE Rename
  <2>1. ASSUME NEW dst \in LogReg \cup {None},
               \/ \E sys \in SysInst : RenameInst(dst, sys)
               \/ \E id \in BranchID : RenameBranch(dst, id)
        PROVE  Core!Next
    BY <2>1, RenameEnters, PreciseActions
  <2> QED BY <1>2, <2>1, UnseenSteps DEF Rename
<1>3. CASE Dispatch
  BY <1>3, UnseenSteps
<1>4. CASE Execute
  <2>1. PICK k \in Of(win) : \/ Wakeup(k)
                             \/ \E v \in Value : WriteResult(k, v)
                             \/ CompleteInst(k)
                             \/ \E mark \in Marks : MarkInst(k, mark)
    BY <1>4, Types DEF Execute
  <2>2. CASE \E v \in Value : WriteResult(k, v)
    BY <2>2, <1>1, WriteProduces, PreciseActions
  <2>3. CASE Wakeup(k) \/ CompleteInst(k) \/ \E mark \in Marks : MarkInst(k, mark)
    BY <2>3, Types, UnseenSteps
  <2> QED BY <2>1, <2>2, <2>3
<1>5. CASE Resolve
  <2>1. PICK k \in Of(win) : ResolveCorrect(k) \/ ResolveMispredict(k)
    BY <1>5, Types DEF Resolve
  <2>2. CASE ResolveCorrect(k)
    BY <2>2, Types, UnseenSteps
  <2>3. CASE ResolveMispredict(k)
    BY <2>3, <1>1, MispredictCuts, PreciseActions
  <2> QED BY <2>1, <2>2, <2>3
<1>6. CASE Retire
  <2>1. CASE RetireCommit
    BY <2>1, RetireCommits, PreciseActions
  <2>2. CASE RetireOffending
    BY <2>2, RetireFlushes, PreciseActions
  <2>3. CASE RetireDeferred \/ \E v \in Value : RetireSys(v)
    BY <2>3, RetireCommitsAndFlushes, PreciseActions
  <2> QED BY <1>6, <2>1, <2>2, <2>3 DEF Retire
<1>7. CASE UNCHANGED vars
  BY <1>7, UnseenSteps
<1> QED BY <1>2, <1>3, <1>4, <1>5, <1>6, <1>7 DEF Next

(* The renamer implements precise registers: read through the committed    *)
(* map, the register file changes only when the oldest instruction commits *)
(* and then by its result; a misprediction drops what is behind the branch *)
(* and nothing else, an exception drops everything.                        *)
THEOREM RenamerIsPrecise == Spec => PreciseSpec
<1>1. Init => Core!Init
  <2> SUFFICES ASSUME Init PROVE Core!Init
    OBVIOUS
  <2>1. Arch \in [LogReg -> Value]
    BY InitInv, SeenFacts
  <2>2. Flight = <<>>
    BY DEF Init, Flight, FlightOf, Of
  <2> QED BY <2>1, <2>2 DEF Core!Init
<1>2. (IInv /\ OperandInv) /\ (IInv /\ OperandInv)' /\ [Next]_vars =>
        [Core!Next]_<<Arch, Flight>>
  BY StepIsPrecise DEF OperandInv, RegistersInv
<1>3. Core!Init => Precise!Init
  BY DEF Core!Init, Precise!Init, Arch, ArchOf, Flight, FlightOf, Seen, Of, InFlight
<1>4. [Core!Next]_<<Arch, Flight>> =>
        [Precise!Next]_<<[l \in LogReg |-> PRF[AMT[l]]],
                         [k \in InFlight |-> [dst |-> win[k].dst, val |-> win[k].val]]>>
  BY DEF Core!Next, Core!Enter, Core!Produce, Core!Commit, Core!AfterOldest,
         Core!Mispredict, Core!Flush, Core!CommitAndFlush,
         Precise!Next, Precise!Enter, Precise!Produce, Precise!Commit,
         Precise!AfterOldest, Precise!Mispredict, Precise!Flush,
         Precise!CommitAndFlush, Arch, ArchOf, Flight, FlightOf, Seen, Of, InFlight
<1> QED BY <1>1, <1>2, <1>3, <1>4, OperandsInductive, PTL
        DEF Spec, PreciseSpec, Precise!Spec
=============================================================================
