---------------------------- MODULE RenamerProps ----------------------------
(***************************************************************************)
(* What makes the renamer correct, stated over the renamer's tables and    *)
(* the instructions in flight.                                             *)
(***************************************************************************)
EXTENDS RenamerPipeline

(* Every table, checkpoint and window entry keeps its shape; the indices   *)
(* and register numbers stay in range.                                     *)
TypeOK ==
  /\ RMT \in [LogReg -> PhysReg]
  /\ AMT \in [LogReg -> PhysReg]
  /\ FL \in QueueOf(PhysReg \cup {None})
  /\ AL \in QueueOf(ALEntry \cup {None})
  /\ PRF \in [PhysReg -> Value]
  /\ PRF_rdy \in [PhysReg -> BOOLEAN]
  /\ GBM \in SUBSET BranchID
  /\ BRCP \in [BranchID -> Checkpoint]
  /\ win \in Seq(Inst)
  /\ bundle \in Bundle

(***************************************************************************)
(* Physical registers.  A register is committed to a logical one, or the   *)
(* destination of an instruction in flight, or an item of the free list.   *)
(***************************************************************************)
Holders(r) ==
  {<<"committed", l>> : l \in {x \in LogReg : AMT[x] = r}}
  \cup {<<"in flight", k>> : k \in {x \in InFlight : win[x].phys = r}}
  \cup {<<"free", i>> : i \in {x \in ItemSlots(FL) : FL.slot[x] = r}}

(* Every physical register has exactly one holder in every state: renaming *)
(* never hands out a register that someone still uses, and no recovery     *)
(* (moving the free list's front back) loses one or frees one twice.       *)
OneHolder == \A r \in PhysReg : \E h \in Holders(r) : Holders(r) = {h}

(***************************************************************************)
(* Maps.  What program order says of the logical registers after the first *)
(* k instructions in flight: the newest writer's register, else the        *)
(* committed one.                                                          *)
(***************************************************************************)
NewestWriter(l, k, j) ==
  /\ j \in 1 .. k
  /\ win[j].dst = l
  /\ \A i \in j + 1 .. k : win[i].dst /= l

NoWriter(l, k) == \A j \in 1 .. k : win[j].dst /= l

MapAfter(map, k) ==
  \A l \in LogReg :
    \/ NoWriter(l, k) /\ map[l] = AMT[l]
    \/ \E j \in 1 .. k : NewestWriter(l, k, j) /\ map[l] = win[j].phys

(* The rename map is the committed map overlaid by everything in flight,   *)
(* and each instruction was told the sources that program order gives it,  *)
(* whatever was recovered in between.                                      *)
MapsExact ==
  /\ MapAfter(RMT, Len(win))
  /\ \A k \in InFlight : MapAfter(win[k].srcs, k - 1)

(* A checkpoint holds, for as long as its branch is unresolved, what a     *)
(* misprediction must restore: the map just behind the branch, the free    *)
(* list's front at that point and the branches older than it that are      *)
(* still unresolved.  The committed map and the ring move on meanwhile.    *)
CheckpointsExact ==
  \A k \in InFlight : win[k].br /= None =>
    LET c == BRCP[win[k].br]
    IN  /\ MapAfter(c.RMT_shdw, k)
        /\ c.FL_head = win[k].slot
        /\ c.GBM = win[k].mask

(* The bits of GBM are the unresolved branches in flight, no two with the  *)
(* same ID, and an instruction's mask names those older than itself: so a  *)
(* misprediction kills all younger instructions and no older one, although *)
(* IDs are used again.                                                     *)
MasksExact ==
  /\ GBM = {win[k].br : k \in InFlight} \ {None}
  /\ \A j, k \in InFlight : j < k /\ win[j].br /= None => win[j].br /= win[k].br
  /\ \A k \in InFlight : win[k].mask = {win[j].br : j \in 1 .. k - 1} \ {None}

(* The active list is the dispatched prefix of the instructions in flight, *)
(* in order: after a misprediction moved its tail back the next entry goes *)
(* right behind the branch, and the head is always the oldest instruction. *)
ActiveListExact ==
  \E n \in 0 .. Len(win) :
    /\ \A k \in InFlight : Dispatched(k) <=> k <= n
    /\ AL.rear = (AL.front + n) % Maxsize
    /\ n <= ListSize
    /\ \A k \in 1 .. n :
         /\ win[k].alx = (AL.front + k) % Maxsize
         /\ AL.slot[win[k].alx].dst_lgc = win[k].dst
         /\ AL.slot[win[k].alx].dst_phy = win[k].phys
         /\ AL.slot[win[k].alx].sys = win[k].sys

(* No assertion of the class can fail once the stall queries let a bundle  *)
(* in: each instruction that needs a register, a checkpoint or an active   *)
(* list entry finds one although the bundle asked only once, and a commit  *)
(* always finds room for the register it frees.                            *)
AssertsHold ==
  /\ bundle.phase = "rename" /\ bundle.dst > 0 => ~IsEmpty(FL)
  /\ bundle.phase = "rename" /\ bundle.br > 0 => GBM /= BranchID
  /\ bundle.phase = "dispatch" => ~IsFull(AL)
  /\ precommit /\ Oldest.dst_lgc /= None => ~IsFull(FL)

(***************************************************************************)
(* Operands.                                                               *)
(***************************************************************************)
(* What a dispatched instruction learns of a source is its producer's      *)
(* state and nobody else's: ready exactly when the producer was announced, *)
(* the producer's result once that is written; a source without a producer *)
(* in flight is the committed register, and ready.  Ready bits left over   *)
(* from a register's earlier life are never seen.                          *)
OperandsExact ==
  \A k \in InFlight, l \in LogReg : Dispatched(k) =>
    LET r == win[k].srcs[l]
    IN  \/ NoWriter(l, k - 1) /\ r = AMT[l] /\ is_ready(r)
        \/ \E j \in 1 .. k - 1 :
             /\ NewestWriter(l, k - 1, j)
             /\ is_ready(r) = win[j].awake
             /\ win[j].val /= None => PRF[r] = win[j].val

(* The renamer implements precise registers: read through the committed    *)
(* map, the register file changes only when the oldest instruction commits *)
(* and then by that instruction's result; a misprediction drops what is    *)
(* behind the branch and nothing else, and an exception drops everything.  *)
Precise == INSTANCE PreciseCore WITH
             Reg <- LogReg, Val <- Value,
             arch <- [l \in LogReg |-> PRF[AMT[l]]],
             flight <- [k \in InFlight |->
                          [dst |-> win[k].dst, val |-> win[k].val]]

PreciseSpec == Precise!Spec

(***************************************************************************)
(* Progress.  The simulator calls every stage in every cycle, and the      *)
(* oldest instruction waits for no other one: so it is executed, resolved, *)
(* completed and retired, and a bundle that may proceed does.  The arrival *)
(* of another bundle is not assumed.                                       *)
(***************************************************************************)
RenameNext ==
  \/ \E dst \in LogReg \cup {None}, sys \in SysInst : RenameInst(dst, sys)
  \/ \E dst \in LogReg \cup {None}, id \in BranchID : RenameBranch(dst, id)

Fairness ==
  /\ WF_vars(StartRename)
  /\ WF_vars(RenameNext)
  /\ WF_vars(Dispatch)
  /\ WF_vars(InFlight /= {} /\ \E v \in Value : WriteResult(1, v))
  /\ WF_vars(InFlight /= {} /\ (ResolveCorrect(1) \/ ResolveMispredict(1)))
  /\ WF_vars(InFlight /= {} /\ CompleteInst(1))
  /\ WF_vars(Retire)

FairSpec == Spec /\ Fairness

(* Every stall of the rename stage ends: the registers and checkpoints a   *)
(* bundle waits for come free while it waits, even when all are taken,     *)
(* unless the bundle needs more than the machine has.                      *)
RenameStallEnds ==
  bundle.phase = "waiting" /\ bundle.dst <= ListSize /\ bundle.br <= NBr
    ~> bundle.phase /= "waiting"

(* A renamed bundle leaves the latch: the active list makes room for it,   *)
(* unless the bundle is larger than the whole list.                        *)
LatchDrains ==
  bundle.phase = "latched" /\ bundle.size <= ListSize
    ~> bundle.phase /= "latched"
(***************************************************************************)
(* The constructor asserts its own sanity check.  Its first states, before *)
(* that assertion, as a specification:                                     *)
(***************************************************************************)
ConstructorSpec ==
  /\ Constructed /\ win = <<>> /\ bundle = NoBundle
  /\ [][UNCHANGED vars]_vars

(* "one physical register exist in both RMT and FreeList" (renamer.cc:27)  *)
(* never shows on a freshly built renamer: each register but 0 is found in *)
(* exactly one of the two.                                                 *)
FreshRenamerPassesCheck == ConstructorCheck
=============================================================================
