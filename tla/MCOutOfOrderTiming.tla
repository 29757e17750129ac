------------------------- MODULE MCOutOfOrderTiming -------------------------
(***************************************************************************)
(* OutOfOrderTiming on small instances.                                    *)
(***************************************************************************)
EXTENDS OutOfOrderTiming

I(op, src1, src2, dst) == [op |-> op, src1 |-> src1, src2 |-> src2, dst |-> dst]
M(rob, iq, w) == [rob_size |-> rob, iq_size |-> iq, width |-> w]

(* Machines on which every tag is used again by short traces.              *)
Scalar    == M(3, 2, 1)
TwoWide   == M(4, 2, 2)
Machines  == {Scalar, TwoWide}
OneBundle  == {M(2, 2, 2)}

(* One register: a slow producer, a consumer, and both in one.             *)
OneRegister == {I(2, None, None, 0), I(0, 0, None, None), I(1, None, 0, 0)}

(***************************************************************************)
(* Nothing reads an instruction of the trace once it has retired: the view *)
(* forgets those, their number aside, and units and write-backs that       *)
(* ended.  Cycles are only subtracted from each other, the last one with   *)
(* an empty reorder buffer only compared with the present one: the view    *)
(* keeps how long ago they were.                                           *)
(***************************************************************************)
Ago(c) == IF c = None THEN None ELSE cycle - c

TimedView ==
  <<params, Len(prog), SubSeq(prog, Oldest + 1, Len(prog)), last, loop,
    inst_input, stage, slot, De, Rn, Rr, Di, Rmt, Rob, Iq,
    [u \in BusyUnits |-> Exc[u]], [u \in Unit |-> Exc[u].cnt],
    {<<Wb[u].seq, Wb[u].Rob_tag>> : u \in {w \in Unit : Wb[w].v}},
    FE, DE, RN, RR, DI, IS, empty, done_flag,
    [i \in DOMAIN info |-> <<info[i].seq, [s \in Column |-> Ago(info[i].bc[s])],
                             info[i].dur>>],
    last_cycle >= cycle, last_cycle > cycle, last_seq>>
=============================================================================
