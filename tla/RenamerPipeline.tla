-------------------------- MODULE RenamerPipeline --------------------------
(***************************************************************************)
(* The renamer driven by the stages of the 721sim pipeline, which the      *)
(* repository holds as a library only (lib721sim.a).  `win' is the         *)
(* pipeline's own view: the instructions in flight, in program order, with *)
(* what the renamer told the pipeline about each.  The duties of the       *)
(* caller that renamer.h states are the guards here; the renamer's         *)
(* assertions must then hold by themselves.                                *)
(*                                                                         *)
(* One simulated cycle calls the stages one after the other in a single    *)
(* thread, so a rename bundle and a dispatch bundle run to their end       *)
(* before any other call.  Which of the other calls come in which order is *)
(* left open.                                                              *)
(***************************************************************************)
EXTENDS Renamer, Sequences

CONSTANTS MaxBundle,  \* instructions in a rename bundle
          Marks,      \* the marks the pipeline sets
          SysInst,    \* a subset of BOOLEAN: whether amo/csr are fetched
          EarlyWakeup \* whether results are announced ahead of the write

ASSUME PipelineAssumption ==
  /\ MaxBundle \in Nat \ {0}
  /\ Marks \subseteq Mark
  /\ SysInst \subseteq BOOLEAN
  /\ EarlyWakeup \in BOOLEAN

VARIABLES win,    \* the instructions in flight, oldest first
          bundle  \* progress of the bundle in the rename/dispatch latch

vars == <<RMT, AMT, FL, AL, PRF, PRF_rdy, GBM, BRCP, win, bundle>>

(***************************************************************************)
(* dst, phys, srcs : the logical and physical destination and the physical *)
(*     name of each logical register as a source                           *)
(* br   : the branch's ID while it is unresolved, None otherwise           *)
(* mask : the unresolved branches the instruction depends on               *)
(* alx  : its active list index, None before dispatch                      *)
(* val  : the result, None before it is written; awake: set_ready was      *)
(*     called for the result, possibly before the write                    *)
(* slot : the free list's front after its rename (history; for a branch it *)
(*     is what the checkpoint holds)                                       *)
(***************************************************************************)
Inst == [dst : LogReg \cup {None}, phys : PhysReg \cup {None},
         srcs : [LogReg -> PhysReg], br : BranchID \cup {None},
         mask : SUBSET BranchID, alx : Index \cup {None},
         val : Value \cup {None}, awake : BOOLEAN, sys : BOOLEAN,
         slot : Index]

(* phase : empty -> waiting -> rename -> latched -> dispatch -> empty      *)
(* size  : instructions in the bundle; left, dst, br: still to be renamed  *)
(*     (left: or dispatched), and how many of them write a register or are *)
(*     branches                                                            *)
Bundle == [phase : {"empty", "waiting", "rename", "latched", "dispatch"},
           size : 0 .. MaxBundle, left : 0 .. MaxBundle,
           dst : 0 .. MaxBundle, br : 0 .. MaxBundle]

NoBundle == [phase |-> "empty", size |-> 0, left |-> 0, dst |-> 0, br |-> 0]

Busy == bundle.phase \in {"rename", "dispatch"}
Dispatched(k) == win[k].alx /= None
InFlight == 1 .. Len(win)

Init ==
  /\ RenamerInit
  /\ win = <<>>
  /\ bundle = NoBundle

(***************************************************************************)
(* Rename stage (pipeline_t::rename2).  A bundle from the front end waits  *)
(* until the latch is empty and both stall queries, asked for all of it,   *)
(* say no; then each instruction is renamed: sources, destination, mask,   *)
(* checkpoint.                                                             *)
(***************************************************************************)
Arrive(n, d, b) ==
  /\ bundle.phase = "empty"
  /\ d <= n /\ b <= n
  /\ bundle' = [phase |-> "waiting", size |-> n, left |-> n, dst |-> d, br |-> b]
  /\ UNCHANGED <<win, renVars>>

StartRename ==
  /\ bundle.phase = "waiting"
  /\ ~stall_branch(bundle.br)
  /\ ~stall_reg(bundle.dst)
  /\ bundle' = [bundle EXCEPT !.phase = "rename"]
  /\ UNCHANGED <<win, renVars>>

(* The counts promised to the stall queries cover the rest of the bundle.  *)
TakeFromBundle(hasDst, isBr) ==
  /\ bundle.phase = "rename"
  /\ hasDst => bundle.dst > 0
  /\ isBr => bundle.br > 0
  /\ LET left == bundle.left - 1
         dst  == IF hasDst THEN bundle.dst - 1 ELSE bundle.dst
         br   == IF isBr THEN bundle.br - 1 ELSE bundle.br
     IN  /\ dst <= left /\ br <= left
         /\ bundle' = IF left = 0
                      THEN [NoBundle EXCEPT !.phase = "latched",
                                            !.size = bundle.size,
                                            !.left = bundle.size]
                      ELSE [bundle EXCEPT !.left = left, !.dst = dst, !.br = br]

Renamed(dst, id, sys) ==
  [dst |-> dst, phys |-> IF dst = None THEN None ELSE RMT'[dst],
   srcs |-> [l \in LogReg |-> rename_rsrc(l)],
   br |-> id, mask |-> get_branch_mask, alx |-> None, val |-> None,
   awake |-> FALSE, sys |-> sys, slot |-> FL'.front]

RenameDst(dst) ==
  IF dst = None THEN UNCHANGED <<RMT, FL>> ELSE rename_rdst(dst)

RenameInst(dst, sys) ==
  /\ TakeFromBundle(dst /= None, FALSE)
  /\ RenameDst(dst)
  /\ win' = Append(win, Renamed(dst, None, sys))
  /\ UNCHANGED <<AMT, AL, GBM, BRCP, regVars>>

RenameBranch(dst, id) ==
  /\ TakeFromBundle(dst /= None, TRUE)
  /\ RenameDst(dst)
  /\ checkpoint(id)
  /\ win' = Append(win, Renamed(dst, id, FALSE))
  /\ UNCHANGED <<AMT, AL, regVars>>

(***************************************************************************)
(* Dispatch stage (pipeline_t::dispatch): the whole latch or nothing.      *)
(***************************************************************************)
StartDispatch ==
  /\ bundle.phase = "latched"
  /\ ~stall_dispatch(bundle.size)
  /\ bundle' = [bundle EXCEPT !.phase = "dispatch"]
  /\ UNCHANGED <<win, renVars>>

DispatchInst(k) ==
  /\ bundle.phase = "dispatch"
  /\ ~Dispatched(k)
  /\ \A j \in 1 .. k - 1 : Dispatched(j)
  /\ dispatch_inst(win[k].dst, win[k].phys, win[k].sys)
  /\ IF win[k].dst = None THEN UNCHANGED PRF_rdy ELSE clear_ready(win[k].phys)
  /\ win' = [win EXCEPT ![k].alx = AL'.rear]
  /\ bundle' = IF bundle.left = 1 THEN NoBundle
               ELSE [bundle EXCEPT !.left = @ - 1]
  /\ UNCHANGED <<RMT, AMT, FL, PRF, GBM, BRCP>>

(***************************************************************************)
(* Register read, execute and writeback.  A result is announced once,      *)
(* possibly before it is written; a branch completes after it resolves.    *)
(***************************************************************************)
Wakeup(k) ==
  /\ EarlyWakeup /\ ~Busy /\ Dispatched(k) /\ win[k].dst /= None /\ ~win[k].awake
  /\ set_ready(win[k].phys)
  /\ win' = [win EXCEPT ![k].awake = TRUE]
  /\ UNCHANGED <<bundle, mapVars, PRF>>

WriteResult(k, v) ==
  /\ ~Busy /\ Dispatched(k) /\ win[k].dst /= None /\ win[k].val = None
  /\ write(win[k].phys, v)
  /\ win' = [win EXCEPT ![k].val = v, ![k].awake = TRUE]
  /\ UNCHANGED <<bundle, mapVars>>

Finished(k) == win[k].br = None /\ (win[k].dst = None \/ win[k].val /= None)

CompleteInst(k) ==
  /\ ~Busy /\ Dispatched(k)
  /\ Finished(k) \/ win[k].sys
  /\ ~AL.slot[win[k].alx].completed
  /\ set_complete(win[k].alx)
  /\ UNCHANGED <<win, bundle, RMT, AMT, FL, GBM, BRCP, regVars>>

(* A load violation may strike a load that has completed already. *)
MarkInst(k, mark) ==
  /\ ~Busy /\ Dispatched(k)
  /\ mark = "load_viol" \/ ~AL.slot[win[k].alx].completed
  /\ mark \notin AL.slot[win[k].alx].marks
  /\ set_mark(win[k].alx, mark)
  /\ UNCHANGED <<win, bundle, RMT, AMT, FL, GBM, BRCP, regVars>>

(* A branch that links (it has a destination) wrote it in execute.         *)
ReadyToResolve(k) ==
  /\ Dispatched(k) /\ win[k].br /= None
  /\ win[k].dst = None \/ win[k].val /= None

ResolveCorrect(k) ==
  /\ ~Busy /\ ReadyToResolve(k)
  /\ resolve_correct(win[k].br)
  /\ win' = [j \in InFlight |->
               [win[j] EXCEPT !.mask = @ \ {win[k].br},
                              !.br = IF j = k THEN None ELSE @]]
  /\ UNCHANGED <<bundle, regVars>>

(* pipeline_t::resolve flushes the latch and every instruction behind it   *)
(* whose mask has the branch's bit; what survives is a prefix (MaskExact   *)
(* is what makes it one).                                                  *)
Survivors(id) == {j \in InFlight : Dispatched(j) /\ id \notin win[j].mask}

ResolveMispredict(k) ==
  /\ ~Busy /\ ReadyToResolve(k)
  /\ resolve_mispredict(win[k].alx, win[k].br)
  /\ \E m \in InFlight :
       /\ Survivors(win[k].br) = 1 .. m
       /\ win' = SubSeq([win EXCEPT ![k].br = None], 1, m)
  /\ bundle' = NoBundle
  /\ UNCHANGED regVars

(***************************************************************************)
(* Retire stage (pipeline_t::retire): nothing until precommit shows a      *)
(* completed head; an offending head squashes the machine, any other is    *)
(* committed; a serialising instruction (amo, csr) executes first, may     *)
(* trap, and squashes the machine after its commit, as a deferred          *)
(* misprediction does.                                                     *)
(***************************************************************************)
HeadCompleted == ~Busy /\ precommit /\ Oldest.completed

NothingInFlight == win' = <<>> /\ bundle' = NoBundle

RetireCommit ==
  /\ HeadCompleted /\ Oldest.marks = {} /\ ~Oldest.sys
  /\ commit
  /\ win' = Tail(win)
  /\ UNCHANGED <<bundle, regVars>>

RetireOffending ==
  /\ HeadCompleted
  /\ Oldest.marks \cap Offending /= {} \/ Oldest.sys
  /\ squash(AMT, FL, AL)
  /\ NothingInFlight
  /\ UNCHANGED regVars

RetireDeferred ==
  /\ HeadCompleted /\ Oldest.marks /= {} /\ ~Oldest.sys
  /\ CanCommit
  /\ squash(CommittedAMT, CommittedFL, Delete(AL))
  /\ NothingInFlight
  /\ UNCHANGED regVars

RetireSys(v) ==
  /\ HeadCompleted /\ Oldest.sys
  /\ CanCommit
  /\ squash(CommittedAMT, CommittedFL, Delete(AL))
  /\ NothingInFlight
  /\ IF win[1].dst /= None /\ win[1].val = None
     THEN write(Oldest.dst_phy, v) ELSE UNCHANGED regVars

Rename ==
  \/ \E n \in 1 .. MaxBundle, d, b \in 0 .. MaxBundle : Arrive(n, d, b)
  \/ StartRename
  \/ \E dst \in LogReg \cup {None}, sys \in SysInst : RenameInst(dst, sys)
  \/ \E dst \in LogReg \cup {None}, id \in BranchID : RenameBranch(dst, id)

Dispatch == StartDispatch \/ \E k \in InFlight : DispatchInst(k)

Execute ==
  \E k \in InFlight :
    \/ Wakeup(k)
    \/ \E v \in Value : WriteResult(k, v)
    \/ CompleteInst(k)
    \/ \E mark \in Marks : MarkInst(k, mark)

Resolve == \E k \in InFlight : ResolveCorrect(k) \/ ResolveMispredict(k)

Retire ==
  \/ RetireCommit \/ RetireOffending \/ RetireDeferred
  \/ \E v \in Value : RetireSys(v)

Next == Rename \/ Dispatch \/ Execute \/ Resolve \/ Retire

Spec == Init /\ [][Next]_vars
=============================================================================
