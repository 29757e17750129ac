----------------------------- MODULE MCRenamer -----------------------------
(***************************************************************************)
(* RenamerInductive on small instances.  The class never clears what it no *)
(* longer uses; LiveView leaves out of a state what every action writes    *)
(* before it reads it: active list slots outside front..rear, the free     *)
(* list's gap slot, the checkpoints of branches that are not unresolved,   *)
(* and value and ready bit of a register that is neither committed nor the *)
(* destination of a dispatched instruction (dispatch clears the bit).  The *)
(* marks of an active list entry matter to retirement only: one that is    *)
(* offending outweighs the others, and a serialising instruction squashes  *)
(* with and without the others.                                            *)
(***************************************************************************)
EXTENDS RenamerInductive, TLC

LiveRegs ==
  {r \in PhysReg :
     \/ \E l \in LogReg : AMT[l] = r
     \/ \E k \in InFlight : Dispatched(k) /\ win[k].phys = r}

MarksSeen(e) ==
  IF e.marks \cap Offending /= {} THEN Offending
  ELSE IF e.sys THEN {} ELSE e.marks

LiveView ==
  <<RMT, AMT, FL.front, FL.rear, [i \in Index \ {Gap(FL)} |-> FL.slot[i]],
    AL.front, AL.rear,
    [i \in ItemSlots(AL) |-> [AL.slot[i] EXCEPT !.marks = MarksSeen(AL.slot[i])]],
    [r \in LiveRegs |-> <<PRF[r], PRF_rdy[r]>>],
    GBM, [b \in GBM |-> BRCP[b]], win, bundle>>

(* Values are only copied, never compared. *)
ValueSymmetry == Permutations(Value)
=============================================================================
