---------------------------- MODULE MCOutOfOrder ----------------------------
(***************************************************************************)
(* OutOfOrderProps on small instances.  The instructions differ in latency *)
(* and in how they depend on each other through one or two registers.      *)
(***************************************************************************)
EXTENDS OutOfOrderProps

I(op, src1, src2, dst) == [op |-> op, src1 |-> src1, src2 |-> src2, dst |-> dst]

M(rob, iq, w) == [rob_size |-> rob, iq_size |-> iq, width |-> w]

(* Room for two bundles, for one; and for none in either queue.            *)
Machines == {M(4, 2, 2), M(2, 2, 2), M(4, 1, 2), M(1, 2, 2)}

TwoRegisters == {I(1, None, None, 0), I(0, 0, None, 1), I(2, 1, 0, 0),
                 I(0, 1, 1, None)}
=============================================================================
