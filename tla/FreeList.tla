------------------------------ MODULE FreeList ------------------------------
(***************************************************************************)
(* The free list of Project05 (FreeList.h) by itself: the ring of Queue,   *)
(* filled by the constructor, with one action per method.  The renamer is  *)
(* the caller; here any caller that keeps the methods' assertions.         *)
(***************************************************************************)
EXTENDS Queue, Sequences

CONSTANT Item

VARIABLES q

(* The constructor adds Max items; the slot it never writes holds anything.*)
FreeListInit ==
  q \in {[front |-> 0, rear |-> Max, slot |-> s] : s \in [Index -> Item]}

GetFreeReg == ~IsEmpty(q) /\ q' = Delete(q)

ReturnFreeReg(x) == ~IsFull(q) /\ q' = Add(q, x)

(* The caller restores a front it read before loans that are still open.   *)
Restore(i) == Dist(q, i) <= Dist(q, q.front) /\ q' = RestoreFront(q, i)

Squash == q' = RefillAll(q)

Next ==
  \/ GetFreeReg
  \/ \E x \in Item : ReturnFreeReg(x)
  \/ \E i \in Index : Restore(i)
  \/ Squash

Spec == FreeListInit /\ [][Next]_q

(* The two ends stay inside the array and every slot holds an item.        *)
FreeListTypeOK == q \in QueueOf(Item)

(* The two stall queries answer for the whole bundle what they are asked   *)
(* for: whether fewer than n items are there, whether fewer than n fit;    *)
(* wherever the ends of the ring are, and for n beyond its size.           *)
StallCountsExact ==
  \A n \in 0 .. 2 * Max :
    /\ IsEmptyFor(q, n) <=> Count(q) < n
    /\ IsFullFor(q, n) <=> Max - Count(q) < n

(* The free list as an UndoFifo, whose order starts behind the gap.        *)
Fifo == INSTANCE UndoFifo WITH
          all   <- [i \in 1 .. Max |-> q.slot[(Gap(q) + i) % Maxsize]],
          taken <- Dist(q, q.front)

(* Moving the front back, a single assignment, undoes exactly the loans    *)
(* made since, whatever was returned meanwhile, and a squash all of them:  *)
(* no item appears twice, none is lost and their order stays.              *)
UndoFifoSpec == Fifo!Spec
=============================================================================
