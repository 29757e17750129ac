------------------------------ MODULE UndoFifo ------------------------------
(***************************************************************************)
(* What a free list promises: a queue of Max items of which the first      *)
(* `taken' are out on loan.  Items are taken in order, a return puts a new *)
(* item behind the last and settles the oldest loan, and the most recent   *)
(* loans can be taken back, as if they had never been made.                *)
(***************************************************************************)
EXTENDS Naturals, Sequences

CONSTANTS Max, Item

VARIABLES all,   \* the items, the next to be taken at taken + 1
          taken

Init == all \in [1 .. Max -> Item] /\ taken = 0

Take == taken < Max /\ taken' = taken + 1 /\ UNCHANGED all

Return(x) ==
  /\ taken > 0
  /\ all' = Append(Tail(all), x)
  /\ taken' = taken - 1

Undo == taken' \in 0 .. taken /\ UNCHANGED all

Next == Take \/ (\E x \in Item : Return(x)) \/ Undo

Spec == Init /\ [][Next]_<<all, taken>>
=============================================================================
