-------------------------- MODULE RenamerInductive --------------------------
(***************************************************************************)
(* The inductive invariant of the renamer: what has to be known of every   *)
(* state for the properties of RenamerProps to survive each step.  They    *)
(* are not inductive by themselves: a recovery moves the ends of two rings *)
(* to remembered places, and is right only because every slot of the rings *)
(* has an owner in program order.                                          *)
(*                                                                         *)
(* The parts are operators on the tables they speak of, so that a lemma    *)
(* can compare the tables before and after a step.  w is a window.         *)
(***************************************************************************)
EXTENDS RenamerProps

Of(w) == 1 .. Len(w)

(* A destination is named twice or not at all; a serialising instruction   *)
(* is no branch.                                                           *)
DstOf(w) ==
  \A k \in Of(w) : /\ w[k].dst /= None <=> w[k].phys /= None
                   /\ w[k].sys => w[k].br = None

(* The active list: entry k lies k slots behind the front.  A branch does  *)
(* not complete before it is resolved.                                     *)
At(i, k) == (i + k) % Maxsize

EntryFor(e, i) ==
  /\ e \in ALEntry
  /\ e.dst_lgc = i.dst /\ e.dst_phy = i.phys /\ e.sys = i.sys
  /\ e.completed => i.br = None

EntryOf(al, i, k) == i.alx = At(al.front, k) /\ EntryFor(al.slot[i.alx], i)

ListUpTo(al, w, n) ==
  /\ al.rear = At(al.front, n)
  /\ \A k \in Of(w) : w[k].alx /= None <=> k <= n
  /\ \A k \in 1 .. n : EntryOf(al, w[k], k)

ListOf(al, w) == \E n \in 0 .. Len(w) : n <= ListSize /\ ListUpTo(al, w, n)

(* The free list's ring: the slots between the gap and the front belong,   *)
(* in program order, to the instructions in flight that write a register.  *)
SlotsTyped(fl) == \A i \in Index \ {Gap(fl)} : fl.slot[i] \in PhysReg

RingOf(fl, w) ==
  /\ SlotsTyped(fl)
  /\ \A k \in Of(w) : w[k].dst /= None =>
       fl.slot[w[k].slot] = w[k].phys /\ Dist(fl, w[k].slot) > 0
  /\ \A j, k \in Of(w) : j < k =>
       IF w[k].dst /= None THEN Dist(fl, w[j].slot) < Dist(fl, w[k].slot)
                           ELSE Dist(fl, w[j].slot) <= Dist(fl, w[k].slot)
  /\ \A k \in Of(w) : Dist(fl, w[k].slot) <= Dist(fl, fl.front)
  /\ \A i \in Index : 0 < Dist(fl, i) /\ Dist(fl, i) <= Dist(fl, fl.front) =>
       \E k \in Of(w) : w[k].dst /= None /\ w[k].slot = i

(* The ring without its gap and the committed map share out the registers. *)
HeldOf(fl, amt) ==
  /\ \A i, j \in Index \ {Gap(fl)} : fl.slot[i] = fl.slot[j] => i = j
  /\ \A l, m \in LogReg : amt[l] = amt[m] => l = m
  /\ \A i \in Index \ {Gap(fl)}, l \in LogReg : fl.slot[i] /= amt[l]
  /\ \A r \in PhysReg : \/ \E i \in Index \ {Gap(fl)} : fl.slot[i] = r
                        \/ \E l \in LogReg : amt[l] = r

(* Branch IDs and masks, bit by bit.                                       *)
MaskOf(gbm, w) ==
  /\ \A b \in BranchID : b \in gbm <=> \E k \in Of(w) : w[k].br = b
  /\ \A j, k \in Of(w) : j < k /\ w[j].br /= None => w[j].br /= w[k].br
  /\ \A k \in Of(w), b \in BranchID :
       b \in w[k].mask <=> \E j \in 1 .. k - 1 : w[j].br = b

CkptOf(brcp, w) ==
  \A k \in Of(w) : w[k].br /= None => /\ brcp[w[k].br].GBM = w[k].mask
                                      /\ brcp[w[k].br].FL_head = w[k].slot

(* MapAfter, with its window and committed map.                            *)
MapOf(map, amt, w, k) ==
  \A l \in LogReg :
    \/ /\ \A j \in 1 .. k : w[j].dst /= l
       /\ map[l] = amt[l]
    \/ \E j \in 1 .. k : /\ w[j].dst = l /\ map[l] = w[j].phys
                         /\ \A i \in j + 1 .. k : w[i].dst /= l

MapsOf(rmt, amt, brcp, w) ==
  /\ MapOf(rmt, amt, w, Len(w))
  /\ \A k \in Of(w) : MapOf(w[k].srcs, amt, w, k - 1)
  /\ \A k \in Of(w) : w[k].br /= None => MapOf(brcp[w[k].br].RMT_shdw, amt, w, k)

(* A bundle under way has an instruction left.                             *)
BundleInv == bundle.phase /= "empty" => bundle.left > 0 /\ bundle.size > 0

IInv ==
  /\ TypeOK /\ BundleInv /\ DstOf(win)
  /\ ListOf(AL, win)
  /\ RingOf(FL, win) /\ HeldOf(FL, AMT)
  /\ MaskOf(GBM, win) /\ CkptOf(BRCP, win)
  /\ MapsOf(RMT, AMT, BRCP, win)

(***************************************************************************)
(* What the registers hold.  A committed register is ready.  A dispatched  *)
(* writer's register is ready when its result was announced and holds the  *)
(* result once that is written; before dispatch there is neither.          *)
(***************************************************************************)
CommittedReady(rdy, amt) == \A l \in LogReg : rdy[amt[l]]

ResultsOf(prf, rdy, w) ==
  \A k \in Of(w) :
    IF w[k].alx = None THEN w[k].val = None /\ ~w[k].awake
    ELSE w[k].dst /= None =>
           /\ rdy[w[k].phys] = w[k].awake
           /\ w[k].val /= None => w[k].awake /\ prf[w[k].phys] = w[k].val

(* An instruction completes with its result in place, unless it is         *)
(* serialising and executes when it retires.                               *)
HasResult(i) == i.dst = None \/ i.val /= None

DoneOf(al, w) ==
  \A k \in Of(w) : w[k].alx /= None /\ al.slot[w[k].alx].completed =>
    w[k].sys \/ HasResult(w[k])

(* What the stall queries promised is still there for the rest of the      *)
(* bundle, although each was asked only once.                              *)
PromiseOf(b, fl, al, gbm) ==
  /\ b.phase = "rename" => /\ b.dst <= Count(fl)
                           /\ Cardinality(gbm) + b.br <= NBr
  /\ b.phase = "latched" => b.left = b.size
  /\ b.phase = "dispatch" => b.left + Count(al) <= ListSize

OperandInv ==
  /\ CommittedReady(PRF_rdy, AMT)
  /\ ResultsOf(PRF, PRF_rdy, win)
  /\ DoneOf(AL, win)
  /\ PromiseOf(bundle, FL, AL, GBM)
=============================================================================
