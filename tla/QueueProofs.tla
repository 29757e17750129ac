---------------------------- MODULE QueueProofs ----------------------------
(***************************************************************************)
(* Facts about the ring of Queue, for every size: how the indices move,    *)
(* how the items are ordered by their distance from the gap, and what the  *)
(* queries with a bundle size answer.                                      *)
(***************************************************************************)
EXTENDS Queue, TLAPS

(* Adding to an index wraps at most once. *)
LEMMA Wrap ==
  ASSUME NEW i \in Index, NEW k \in 0 .. Maxsize
  PROVE  (i + k) % Maxsize = IF i + k >= Maxsize THEN i + k - Maxsize ELSE i + k
  BY MaxAssumption DEF Index, Maxsize

(* Succ steps to the next slot and wraps at the last.                      *)
LEMMA SuccIs ==
  ASSUME NEW i \in Index
  PROVE  Succ(i) = (IF i = Max THEN 0 ELSE i + 1) /\ Succ(i) \in Index
<1>1. (i + 1) % Maxsize = IF i + 1 >= Maxsize THEN i + 1 - Maxsize ELSE i + 1
  <2>1. 1 \in 0 .. Maxsize BY MaxAssumption DEF Maxsize
  <2> QED BY <2>1, Wrap
<1> QED BY <1>1, MaxAssumption DEF Index, Maxsize, Succ

(* stall_reg's loop: with n items requested, IsEmpty(n) answers exactly    *)
(* whether the queue holds fewer than n.                                   *)
THEOREM IsEmptyForCounts ==
  ASSUME NEW q, q.front \in Index, q.rear \in Index, NEW n \in Nat
  PROVE  IsEmptyFor(q, n) <=> Count(q) < n
<1>1. ASSUME Count(q) < n PROVE IsEmptyFor(q, n)
  <2>1. Count(q) \in 0 .. n - 1 /\ Count(q) \in 0 .. Maxsize
    BY <1>1, MaxAssumption DEF Count, Index, Maxsize
  <2>2. (q.front + Count(q)) % Maxsize = q.rear
    <3>1. (q.front + Count(q)) % Maxsize =
            IF q.front + Count(q) >= Maxsize
            THEN q.front + Count(q) - Maxsize ELSE q.front + Count(q)
      BY <2>1, Wrap
    <3> QED BY <3>1, MaxAssumption DEF Count, Index, Maxsize
  <2> QED BY <2>1, <2>2 DEF IsEmptyFor
<1>2. ASSUME IsEmptyFor(q, n) PROVE Count(q) < n
  <2>1. PICK i \in 0 .. n - 1 : (q.front + i) % Maxsize = q.rear
    BY <1>2 DEF IsEmptyFor
  <2>2. CASE i > Max
    BY <2>1, <2>2, MaxAssumption DEF Count, Index, Maxsize
  <2>3. CASE i <= Max
    <3>1. i \in 0 .. Maxsize BY <2>3, MaxAssumption DEF Maxsize
    <3>2. (q.front + i) % Maxsize =
            IF q.front + i >= Maxsize THEN q.front + i - Maxsize ELSE q.front + i
      BY <3>1, Wrap
    <3> QED BY <3>2, <2>1, <2>3, MaxAssumption DEF Count, Index, Maxsize
  <2> QED BY <2>2, <2>3, MaxAssumption
<1> QED BY <1>1, <1>2

(* stall_dispatch's loop: IsFull(n) answers exactly whether fewer than n   *)
(* more items fit.                                                         *)
THEOREM IsFullForCounts ==
  ASSUME NEW q, q.front \in Index, q.rear \in Index, NEW n \in Nat
  PROVE  IsFullFor(q, n) <=> Max - Count(q) < n
<1>1. ASSUME Max - Count(q) < n PROVE IsFullFor(q, n)
  <2> DEFINE i == Maxsize - Count(q)
  <2>1. i \in 1 .. n /\ i \in 0 .. Maxsize
    BY <1>1, MaxAssumption DEF Count, Index, Maxsize
  <2>2. (q.rear + i) % Maxsize = q.front
    <3>1. (q.rear + i) % Maxsize =
            IF q.rear + i >= Maxsize THEN q.rear + i - Maxsize ELSE q.rear + i
      BY <2>1, Wrap
    <3> QED BY <3>1, MaxAssumption DEF Count, Index, Maxsize
  <2> QED BY <2>1, <2>2 DEF IsFullFor
<1>2. ASSUME IsFullFor(q, n) PROVE Max - Count(q) < n
  <2>1. PICK i \in 1 .. n : (q.rear + i) % Maxsize = q.front
    BY <1>2 DEF IsFullFor
  <2>2. CASE i > Max
    BY <2>1, <2>2, MaxAssumption DEF Count, Index, Maxsize
  <2>3. CASE i <= Max
    <3>1. i \in 0 .. Maxsize BY <2>3, MaxAssumption DEF Maxsize
    <3>2. (q.rear + i) % Maxsize =
            IF q.rear + i >= Maxsize THEN q.rear + i - Maxsize ELSE q.rear + i
      BY <3>1, Wrap
    <3> QED BY <3>2, <2>1, <2>3, MaxAssumption DEF Count, Index, Maxsize
  <2> QED BY <2>2, <2>3, MaxAssumption
<1> QED BY <1>1, <1>2

(* The distance from the gap numbers the slots 0..Max, the gap being 0 and *)
(* the youngest item's slot Max.                                           *)
LEMMA DistRange ==
  ASSUME NEW q, q.rear \in Index, NEW i \in Index
  PROVE  /\ Dist(q, i) \in Index
         /\ Dist(q, i) = 0 <=> i = Gap(q)
         /\ Dist(q, q.rear) = Max
         /\ Gap(q) \in Index
  BY SuccIs, MaxAssumption DEF Dist, Gap, Index, Maxsize

(* No two slots lie equally far behind the gap.                            *)
LEMMA DistInjective ==
  ASSUME NEW q, q.rear \in Index, NEW i \in Index, NEW j \in Index,
         Dist(q, i) = Dist(q, j)
  PROVE  i = j
  BY SuccIs, MaxAssumption DEF Dist, Gap, Index, Maxsize

(* One slot on is one further from the gap, up to rear.                    *)
LEMMA DistSucc ==
  ASSUME NEW q, q.rear \in Index, NEW i \in Index, i /= q.rear
  PROVE  Dist(q, Succ(i)) = Dist(q, i) + 1
  BY SuccIs, MaxAssumption DEF Dist, Gap, Index, Maxsize

(* Adding an item moves the gap on by one slot. *)
LEMMA DistAdd ==
  ASSUME NEW q, NEW r, q.rear \in Index, r.rear = Succ(q.rear),
         NEW i \in Index
  PROVE  Dist(r, i) = IF i = Gap(q) THEN Max ELSE Dist(q, i) - 1
  BY SuccIs, MaxAssumption DEF Dist, Gap, Index, Maxsize
=============================================================================
