--------------------------- MODULE ReorderBuffer ---------------------------
(***************************************************************************)
(* The ROB class of Project03 (sim_proc.h): a circular queue of the        *)
(* instructions between rename and retirement, oldest at Head, that tells  *)
(* full from empty by a flag.  The tag of an instruction, by which its     *)
(* consumers wait for it, is its index here, and is used again.            *)
(***************************************************************************)
EXTENDS Naturals

CONSTANTS RobSize,  \* rob_size
          Width     \* instructions per stage and cycle

Tag == 0 .. RobSize - 1

(* The methods are operators on records [cqueue, Head, Tail, Full].        *)
RobOf(Seq0, Dst) ==
  [cqueue : [Tag -> [rdy : BOOLEAN, seq : Seq0, dst : Dst]],
   Head : Tag, Tail : Tag, Full : BOOLEAN]

EmptyRob(dst0) ==
  [cqueue |-> [t \in Tag |-> [rdy |-> FALSE, seq |-> 0, dst |-> dst0]],
   Head |-> RobSize - 1, Tail |-> RobSize - 1, Full |-> FALSE]

NextIdxNoWrap(i) == i + 1   \* mutant: the index is not reduced

NextIdx(i) == (i + 1) % RobSize

RobIsFull(rob) ==
  \/ rob.Full
  \/ \E j \in 1 .. Width - 1 : (rob.Tail + j) % RobSize = rob.Head

Allocate(rob, seq, dst) ==
  [rob EXCEPT !.cqueue[rob.Tail] = [rdy |-> FALSE, seq |-> seq, dst |-> dst],
              !.Tail = NextIdx(@),
              !.Full = NextIdx(rob.Tail) = rob.Head]

CurrentRob(rob)   == rob.cqueue[rob.Head]
GetRdy(rob, tag)  == rob.cqueue[tag].rdy
SetRdy(rob, tags) == [rob EXCEPT !.cqueue = [t \in Tag |->
                        [rob.cqueue[t] EXCEPT !.rdy = @ \/ t \in tags]]]

(* Mutant: empty is announced with one instruction left.                   *)
EmptiedByTooEarly(rob) == NextIdx(NextIdx(rob.Head)) = rob.Tail

(* ROB::Retire, and whether it says that the queue is empty now.           *)
RemoveHead(rob) == [rob EXCEPT !.Head = NextIdx(@), !.Full = FALSE]
EmptiedBy(rob) == NextIdx(rob.Head) = rob.Tail

(* The number of instructions it holds, and the tags of those, in order.   *)
RobCount(rob) ==
  IF rob.Full THEN RobSize ELSE (rob.Tail + RobSize - rob.Head) % RobSize
RobTag(rob, j) == (rob.Head + j - 1) % RobSize
=============================================================================
