----------------------------- MODULE IssueQueue -----------------------------
(***************************************************************************)
(* The IQ class of Project03 (sim_proc.h): dispatched instructions wait in *)
(* any free entry until both sources are ready; the oldest ready one       *)
(* issues.                                                                 *)
(***************************************************************************)
EXTENDS Naturals

CONSTANTS IqSize,  \* iq_size
          Width,
          None     \* -1

Entry == 0 .. IqSize - 1

(* v is INV, RDY or NRDY; queue entries and their count make an IQ.        *)
IqRegOf(Seq0, Op, Tag0, Src) ==
  [v : {"INV", "RDY", "NRDY"}, seq : Seq0 \cup {None}, op : Op, dst_tag : Tag0,
   rs1_rdy : BOOLEAN, rs1_tag : Src, rs2_rdy : BOOLEAN, rs2_tag : Src]

InvEntry == [v |-> "INV", seq |-> None, op |-> 0, dst_tag |-> 0,
             rs1_rdy |-> FALSE, rs1_tag |-> 0, rs2_rdy |-> FALSE, rs2_tag |-> 0]

EmptyIq == [queue |-> [i \in Entry |-> InvEntry], cnt |-> 0, seq_max |-> 1]

(* Mutant: room for one, not for Width. *)
IqIsFullNow(iq) == iq.cnt = IqSize

IqIsFull(iq) == \E j \in 0 .. Width - 1 : iq.cnt + j = IqSize

IsFirstInv(iq, i) ==
  /\ iq.queue[i].v = "INV"
  /\ \A j \in 0 .. i - 1 : iq.queue[j].v /= "INV"

(* Ready entries older than seq_max, which starts at 1 and counts the      *)
(* dispatches: the comparison bounds the search for the oldest.            *)
Candidates(iq) ==
  {i \in Entry : iq.queue[i].v = "RDY" /\ iq.queue[i].seq < iq.seq_max}

IsOldestRdy(iq, i) ==
  i \in Candidates(iq) /\ \A j \in Candidates(iq) : iq.queue[i].seq <= iq.queue[j].seq

Invalidation(iq, i) == [iq EXCEPT !.queue[i] = InvEntry, !.cnt = @ - 1]

Insert(iq, i, entry) ==
  [iq EXCEPT !.queue[i] = entry, !.cnt = @ + 1, !.seq_max = @ + 1]

Woken(e, tags) ==
  LET r1 == e.rs1_rdy \/ e.rs1_tag \in tags
      r2 == e.rs2_rdy \/ e.rs2_tag \in tags
  IN  IF e.v /= "NRDY" THEN e
      ELSE [e EXCEPT !.rs1_rdy = r1, !.rs2_rdy = r2,
                     !.v = IF r1 /\ r2 THEN "RDY" ELSE "NRDY"]

(* Update for every tag that is done in a cycle. *)
Update(iq, tags) ==
  [iq EXCEPT !.queue = [i \in Entry |-> Woken(@[i], tags)]]
=============================================================================
