------------------------------ MODULE Renamer ------------------------------
(***************************************************************************)
(* The renamer class of Project05 (renamer.h, renamer.cc): register        *)
(* renaming with a rename map table, a committed map table, a free list    *)
(* and an active list in two rings, branch checkpoints, and a physical     *)
(* register file with ready bits.                                          *)
(*                                                                         *)
(* Every method is an operator.  A method that changes state is an action  *)
(* over the variables it may change; an assert of the code is a conjunct   *)
(* of that action.  The pipeline that calls them is RenamerPipeline.       *)
(***************************************************************************)
EXTENDS Naturals, FiniteSets

CONSTANTS NLog,     \* n_log_regs
          NPhys,    \* n_phys_regs
          NBr,      \* n_branches, the number of checkpoints
          Value,    \* what a register can hold
          None      \* "no register", "no index", an unwritten word

ASSUME RenamerAssumption ==
  /\ NLog \in Nat \ {0} /\ NPhys \in Nat /\ NPhys > NLog
  /\ NBr \in 1 .. 64
  /\ None \notin Nat /\ None \notin Value

LogReg   == 0 .. NLog - 1
PhysReg  == 0 .. NPhys - 1
BranchID == 0 .. NBr - 1
ListSize == NPhys - NLog

INSTANCE Queue WITH Max <- ListSize

VARIABLES RMT,      \* rename map table: the speculative map
          AMT,      \* architectural map table: the committed map
          FL,       \* free list
          AL,       \* active list
          PRF,      \* physical register file
          PRF_rdy,  \* its ready bits
          GBM,      \* global branch mask, as the set of its 1 bits
          BRCP      \* branch checkpoints

mapVars == <<RMT, AMT, FL, AL, GBM, BRCP>>
regVars == <<PRF, PRF_rdy>>
renVars == <<RMT, AMT, FL, AL, PRF, PRF_rdy, GBM, BRCP>>

(***************************************************************************)
(* An active list entry.  dst_lgc = None is flg_dst = false.  `marks' are  *)
(* the bits among exception, load_viol, br_misp and val_misp that are set; *)
(* `sys' is amo or csr.  PC, load, store and branch are only passed on.    *)
(***************************************************************************)
Mark == {"exception", "load_viol", "br_misp", "val_misp"}
Offending == {"exception", "load_viol"}

ALEntry == [dst_lgc : LogReg \cup {None}, dst_phy : PhysReg \cup {None},
            completed : BOOLEAN, marks : SUBSET Mark, sys : BOOLEAN]

Checkpoint == [RMT_shdw : [LogReg -> PhysReg], FL_head : Index,
               GBM : SUBSET BranchID]

(***************************************************************************)
(* The constructor.  The map tables start as the identity and the free     *)
(* list holds the other registers in slots 1..ListSize.  Slot 0 of the     *)
(* ring, the active list's slots, the checkpoints and the register file    *)
(* are never initialised: their contents are arbitrary.  (None in slot 0   *)
(* is any word that names no register; an active list slot and a           *)
(* checkpoint's map are written before they are read, so that one          *)
(* arbitrary value stands for all.)  The caller then writes every          *)
(* architectural register before it renames anything.                      *)
(***************************************************************************)
InitialSlot(junk) ==
  [i \in Index |-> IF i = 0 THEN junk ELSE NLog + i - 1]

(* The sanity check of the constructor: each register but 0 is found in    *)
(* exactly one of RMT and the free list's array.                           *)
RMT_Find(x) == \E l \in LogReg : RMT[l] = x
ConstructorCheck == \A x \in 1 .. NPhys - 1 : RMT_Find(x) /= Find(FL, x)

Constructed ==
  /\ RMT = [l \in LogReg |-> l]
  /\ AMT = [l \in LogReg |-> l]
  /\ \E junk \in PhysReg \cup {None} :
       FL = [front |-> 0, rear |-> ListSize, slot |-> InitialSlot(junk)]
  /\ AL = [front |-> 0, rear |-> 0, slot |-> [i \in Index |-> None]]
  /\ PRF \in [PhysReg -> Value]
  /\ PRF_rdy \in [PhysReg -> BOOLEAN]
  /\ GBM = {}
  /\ \E junk \in [BranchID -> SUBSET BranchID] :
       BRCP = [b \in BranchID |-> [RMT_shdw |-> [l \in LogReg |-> 0],
                                   FL_head |-> 0, GBM |-> junk[b]]]

RenamerInit ==
  /\ Constructed
  /\ ConstructorCheck
  /\ \A l \in LogReg : PRF_rdy[l]

(***************************************************************************)
(* Rename stage.                                                           *)
(***************************************************************************)
stall_reg(bundle_dst)       == IsEmptyFor(FL, bundle_dst)
stall_branchAtLast(bundle_branch) == Cardinality(GBM) + bundle_branch >= NBr
                                \* mutant: never gives the last checkpoint
stall_branch(bundle_branch) == Cardinality(GBM) + bundle_branch > NBr
get_branch_mask             == GBM
rename_rsrc(log_reg)        == RMT[log_reg]

rename_rdst(log_reg) ==
  /\ ~IsEmpty(FL)
  /\ RMT' = [RMT EXCEPT ![log_reg] = GetHead(FL)]
  /\ FL' = Delete(FL)

Xor(S, T) == (S \ T) \cup (T \ S)

(* The scan for a 0 bit starts at the highest one.  The bundle's step has  *)
(* renamed the branch's own destination already: RMT' and FL' are the      *)
(* tables checkpoint() finds.                                              *)
HighestFree(id) == id \in BranchID \ GBM /\ \A b \in BranchID \ GBM : b <= id

(* Mutant: taken before the branch's own destination is renamed. *)
checkpointTooEarly(id) ==
  /\ HighestFree(id)
  /\ BRCP' = [BRCP EXCEPT ![id] = [RMT_shdw |-> RMT, FL_head |-> FL.front,
                                   GBM |-> GBM]]
  /\ GBM' = Xor(GBM, {id})

checkpoint(id) ==
  /\ HighestFree(id)
  /\ BRCP' = [BRCP EXCEPT ![id] = [RMT_shdw |-> RMT', FL_head |-> FL'.front,
                                   GBM |-> GBM]]
  /\ GBM' = Xor(GBM, {id})

(***************************************************************************)
(* Dispatch, schedule and writeback stages.                                *)
(***************************************************************************)
stall_dispatch(bundle_inst) == IsFullFor(AL, bundle_inst)

dispatch_inst(log_reg, phys_reg, sys) ==
  /\ ~IsFull(AL)
  /\ AL' = Add(AL, [dst_lgc |-> log_reg, dst_phy |-> phys_reg,
                    completed |-> FALSE, marks |-> {}, sys |-> sys])

is_ready(phys_reg)    == PRF_rdy[phys_reg]
keep_ready(phys_reg)  == UNCHANGED PRF_rdy   \* mutant: the bit is left alone
clear_ready(phys_reg) == PRF_rdy' = [PRF_rdy EXCEPT ![phys_reg] = FALSE]
set_ready(phys_reg)   == PRF_rdy' = [PRF_rdy EXCEPT ![phys_reg] = TRUE]

write(phys_reg, value) ==
  /\ PRF' = [PRF EXCEPT ![phys_reg] = value]
  /\ set_ready(phys_reg)

set_complete(AL_index) ==
  AL' = [AL EXCEPT !.slot[AL_index].completed = TRUE]

(* set_exception, set_load_violation, set_branch_misprediction and         *)
(* set_value_misprediction.                                                *)
set_mark(AL_index, mark) ==
  AL' = [AL EXCEPT !.slot[AL_index].marks = @ \cup {mark}]

(***************************************************************************)
(* Branch resolution.                                                      *)
(***************************************************************************)
(* Mutant: the bit stays in the checkpoints. *)
resolve_keepCheckpoints(branch_ID) ==
  /\ GBM' = Xor(GBM, {branch_ID})
  /\ UNCHANGED <<BRCP, RMT, AMT, FL, AL>>

resolve_correct(branch_ID) ==
  /\ GBM' = Xor(GBM, {branch_ID})
  /\ BRCP' = [b \in BranchID |->
                IF branch_ID \in BRCP[b].GBM
                THEN [BRCP[b] EXCEPT !.GBM = Xor(@, {branch_ID})]
                ELSE BRCP[b]]
  /\ UNCHANGED <<RMT, AMT, FL, AL>>

(* Mutants: the map is restored from the committed one; the active list's  *)
(* tail is not moved back.                                                 *)
resolve_toCommitted(AL_index, branch_ID) ==
  /\ GBM' = BRCP[branch_ID].GBM
  /\ FL' = RestoreFront(FL, BRCP[branch_ID].FL_head)
  /\ AL' = RestoreRear(AL, AL_index)
  /\ RMT' = AMT
  /\ UNCHANGED <<AMT, BRCP>>

resolve_keepTail(AL_index, branch_ID) ==
  /\ GBM' = BRCP[branch_ID].GBM
  /\ FL' = RestoreFront(FL, BRCP[branch_ID].FL_head)
  /\ RMT' = BRCP[branch_ID].RMT_shdw
  /\ UNCHANGED <<AMT, AL, BRCP>>

resolve_mispredict(AL_index, branch_ID) ==
  /\ GBM' = BRCP[branch_ID].GBM
  /\ FL' = RestoreFront(FL, BRCP[branch_ID].FL_head)
  /\ AL' = RestoreRear(AL, AL_index)
  /\ RMT' = BRCP[branch_ID].RMT_shdw
  /\ UNCHANGED <<AMT, BRCP>>

(***************************************************************************)
(* Retire stage.  What commit() leaves in the two structures it changes is *)
(* named, because the retire stage may call squash() right after it.       *)
(***************************************************************************)
precommit == ~IsEmpty(AL)
Oldest    == GetHead(AL)

(* Mutants: the youngest mapping is committed; the new one is freed. *)
CommittedYoungest ==
  IF Oldest.dst_lgc = None THEN AMT
  ELSE [AMT EXCEPT ![Oldest.dst_lgc] = RMT[Oldest.dst_lgc]]

CommittedFreesNew ==
  IF Oldest.dst_lgc = None THEN FL ELSE Add(FL, Oldest.dst_phy)

CommittedAMT ==
  IF Oldest.dst_lgc = None THEN AMT
  ELSE [AMT EXCEPT ![Oldest.dst_lgc] = Oldest.dst_phy]

CommittedFL ==
  IF Oldest.dst_lgc = None THEN FL ELSE Add(FL, AMT[Oldest.dst_lgc])

CanCommit ==
  /\ ~IsEmpty(AL)
  /\ Oldest.completed
  /\ Oldest.marks \cap Offending = {}
  /\ Oldest.dst_lgc /= None => ~IsFull(FL)

commit ==
  /\ CanCommit
  /\ AMT' = CommittedAMT
  /\ FL' = CommittedFL
  /\ AL' = Delete(AL)
  /\ UNCHANGED <<RMT, GBM, BRCP>>

(* Mutant: the maps are copied the wrong way. *)
squashToSpeculative(amt, fl, al) ==
  /\ AL' = DropAll(al)
  /\ FL' = RefillAll(fl)
  /\ AMT' = RMT
  /\ UNCHANGED RMT
  /\ GBM' = {}
  /\ BRCP' = [b \in BranchID |-> [RMT_shdw |-> [l \in LogReg |-> 0],
                                  FL_head |-> 0, GBM |-> {}]]

(* squash() when the committed map, the free list and the active list are  *)
(* amt, fl and al.                                                         *)
squash(amt, fl, al) ==
  /\ AL' = DropAll(al)
  /\ FL' = RefillAll(fl)
  /\ RMT' = amt
  /\ AMT' = amt
  /\ GBM' = {}
  /\ BRCP' = [b \in BranchID |-> [RMT_shdw |-> [l \in LogReg |-> 0],
                                  FL_head |-> 0, GBM |-> {}]]
=============================================================================
