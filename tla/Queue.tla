------------------------------- MODULE Queue -------------------------------
(***************************************************************************)
(* The circular buffer of Project05 (queue.h) that holds the free list and *)
(* the active list.  A buffer for Max items has Max+1 slots: the slot that *)
(* follows `rear' is always unused (the gap), so that front = rear means   *)
(* empty and Succ(rear) = front means full.  `front' is the slot before    *)
(* the oldest item and `rear' the slot of the youngest one.                *)
(*                                                                         *)
(* A buffer is a record [front, rear, slot]; the methods of the class are  *)
(* operators from buffers to buffers.  Their assertions (`not full',       *)
(* `not empty') are guards of the actions that call them.                  *)
(***************************************************************************)
EXTENDS Naturals

CONSTANT Max

ASSUME MaxAssumption == Max \in Nat \ {0}

Maxsize == Max + 1
Index   == 0 .. Max

SuccNoWrap(i) == i + 1      \* mutant: the index is not reduced

Succ(i) == (i + 1) % Maxsize

QueueOf(Item) == [front : Index, rear : Index, slot : [Index -> Item]]

(***************************************************************************)
(* Queries.  IsFullFor and IsEmptyFor are the overloads that take a bundle *)
(* size: whether some one of n additions (removals) would find the buffer  *)
(* full (empty).  The loop advances an index and compares it each time.    *)
(***************************************************************************)
IsFullOneMore(q, n) == \E i \in 1 .. n + 1 : (q.rear + i) % Maxsize = q.front
                            \* mutant: demands one slot too many
IsEmptyNow(q, n)    == n > 0 /\ q.front = q.rear
                            \* mutant: asks for one item, not for n

IsFull(q)        == (q.front + Maxsize) % Maxsize = Succ(q.rear)
IsFullFor(q, n)  == \E i \in 1 .. n : (q.rear + i) % Maxsize = q.front
IsEmpty(q)       == q.front = q.rear
IsEmptyFor(q, n) == \E i \in 0 .. n - 1 : (q.front + i) % Maxsize = q.rear
GetHead(q)       == q.slot[Succ(q.front)]
Find(q, x)       == \E i \in Index : q.slot[i] = x

(***************************************************************************)
(* Updates.                                                                *)
(***************************************************************************)
Add(q, x) == [q EXCEPT !.rear = Succ(q.rear), !.slot[Succ(q.rear)] = x]
Delete(q) == [q EXCEPT !.front = Succ(q.front)]

(* What FreeList and ActiveList add: moving one end back. *)
RestoreFront(q, i) == [q EXCEPT !.front = i]
RestoreRear(q, i)  == [q EXCEPT !.rear = i]
RefillNone(q)      == [q EXCEPT !.front = q.rear]  \* mutant: empties it
RefillAll(q)       == [q EXCEPT !.front = Succ(q.rear)]
DropAll(q)         == [q EXCEPT !.rear = q.front]

(* The number of items, from the two indices. *)
Count(q) == IF q.rear >= q.front THEN q.rear - q.front
            ELSE q.rear - q.front + Maxsize

(* How far slot i lies after the gap: the measure the ring is ordered by.  *)
Gap(q)     == Succ(q.rear)
Dist(q, i) == IF i >= Gap(q) THEN i - Gap(q) ELSE i - Gap(q) + Maxsize

(* The slots of the items a buffer holds. *)
ItemSlots(q) == {i \in Index : Dist(q, i) > Dist(q, q.front)}
=============================================================================
