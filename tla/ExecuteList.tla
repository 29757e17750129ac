---------------------------- MODULE ExecuteList ----------------------------
(***************************************************************************)
(* The EXC_LIST class of Project03 (sim_proc.h): 5 * Width function units, *)
(* each counting down the cycles of its instruction.  cnt = None (-1) is   *)
(* an idle unit, cnt = 0 one whose instruction is done this cycle: both    *)
(* can be given the next instruction.                                      *)
(***************************************************************************)
EXTENDS Naturals

CONSTANTS Width,
          None

Op == 0 .. 2
Latency(op) == CASE op = 0 -> 1 [] op = 1 -> 2 [] op = 2 -> 5

Unit == 0 .. 5 * Width - 1

ExcOf(Seq0, Tag0) ==
  [Unit -> [seq : Seq0, cnt : (0 .. 5) \cup {None}, dst_tag : Tag0]]

IdleUnits == [u \in Unit |-> [seq |-> 0, cnt |-> None, dst_tag |-> 0]]

Available(exc, u) == exc[u].cnt \in {None, 0}

IsFirstEmpty(exc, u) ==
  Available(exc, u) /\ \A w \in 0 .. u - 1 : ~Available(exc, w)

Load(exc, u, seq, op, dst_tag) ==
  [exc EXCEPT ![u] = [seq |-> seq, cnt |-> Latency(op), dst_tag |-> dst_tag]]

DecCnt(exc) ==
  [u \in Unit |-> [exc[u] EXCEPT !.cnt = IF @ \in {None, 0} THEN None ELSE @ - 1]]

Done(exc) == {u \in Unit : exc[u].cnt = 0}
=============================================================================
