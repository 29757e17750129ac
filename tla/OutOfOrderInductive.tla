------------------------ MODULE OutOfOrderInductive ------------------------
(***************************************************************************)
(* The inductive invariant of the out-of-order core.  The properties of    *)
(* OutOfOrderProps are about one queue or table each; a step preserves     *)
(* them only because of where every instruction of the trace is, stage by  *)
(* stage, also while a stage has handed on a latch that the stage before   *)
(* it has not overwritten yet.                                             *)
(*                                                                         *)
(* rd, rn, de and fe are numbers of the trace: the first instruction not   *)
(* behind Rr, Rn, De and inst_input, in that order.  Those below           *)
(* Dispatched are in the issue queue or further.                           *)
(***************************************************************************)
EXTENDS OutOfOrderProps

Dispatched == Iq.seq_max - 1

(***************************************************************************)
(* What is said of the tags, as one table: the reorder buffer by distance  *)
(* from its head, the tags it holds, and those that are ready or stand in  *)
(* Wb.  The parts of the invariant are operators on such a table, tb, and  *)
(* on the trace, prg.                                                      *)
(***************************************************************************)
Pos(t) == IF t >= Rob.Head THEN t - Rob.Head ELSE t - Rob.Head + RobSize

Tags == [size  |-> RobCount(Rob),
         held  |-> {t \in Tag : Pos(t) < RobCount(Rob)},
         pos   |-> [t \in Tag |-> Pos(t)],
         seq   |-> [t \in Tag |-> Rob.cqueue[t].seq],
         dst   |-> [t \in Tag |-> Rob.cqueue[t].dst],
         ready |-> {t \in Tag : GetRdy(Rob, t)},
         wb    |-> WbTags]

Holder(tb, t, q) == t \in tb.held /\ tb.seq[t] = q

(***************************************************************************)
(* Program order in the latches.  From slot lo on, a latch holds the       *)
(* instructions from .. upto - 1, then empty entries.                      *)
(***************************************************************************)
InOrder(latch, lo, hi, from, upto) ==
  /\ from <= upto /\ upto <= from + (hi - lo)
  /\ \A k \in lo .. hi - 1 :
       latch[k].seq = IF from + (k - lo) < upto THEN from + (k - lo) ELSE None

(* Where a latch still counts: not where it was handed on. *)
RnMoves == stage = "RenameInst" \/ (stage = "Decode" /\ RN)
DeMoves == stage = "Fetch" /\ DE

DiFrom == CASE stage = "Enqueue" -> slot
            [] stage = "RegRead" /\ DI -> Width
            [] OTHER -> 0
RrTo   == CASE stage = "RenameInst" -> slot
            [] stage = "Rename" /\ RR -> 0
            [] OTHER -> Width
RnFrom == CASE stage = "RenameInst" -> slot
            [] stage = "Decode" /\ RN -> Width
            [] OTHER -> 0
DeFrom == IF DeMoves THEN Width ELSE 0
InFrom == IF stage \in {"Read", "End"} \/ (stage = "Advance_Cycle" /\ FE)
          THEN Width ELSE 0

LatchesInOrder(rd, rn, de, fe) ==
  /\ InOrder(Di, DiFrom, Width, Dispatched, rd)
  /\ InOrder(Rr, 0, RrTo, rd, rn)
  /\ InOrder(Rn, RnFrom, Width, rn, de)
  /\ InOrder(De, DeFrom, Width, de, fe)
  /\ InOrder(inst_input, InFrom, Width, fe, Len(prog))

(* What has not been renamed is as it was fetched.                         *)
Raw(prg, latch, lo, hi) ==
  \A k \in lo .. hi - 1 :
    latch[k] = IF latch[k].seq = None THEN Bubble
               ELSE Fetched(prg[latch[k].seq + 1], latch[k].seq)

AsFetched == /\ Raw(prog, Rn, RnFrom, Width)
             /\ Raw(prog, De, 0, Width) /\ Raw(prog, inst_input, 0, Width)

(* Rn, De and inst_input move together: once something was renamed no      *)
(* empty bundle is followed by another one, but at the end of the trace.   *)
NoGaps(rn, de, fe) ==
  /\ ~RnMoves /\ de = rn /\ rn < Len(prog) => rn = 0
  /\ ~DeMoves /\ fe = de /\ de < Len(prog) => de = 0
  /\ ~DeMoves /\ fe = de /\ loop = "trace" => de = 0 \/ (last /\ InFrom /= 0)
  /\ InFrom = 0 /\ fe = Len(prog) => last
  /\ loop = "trace" /\ stage = "Read" => ~last
  /\ loop = "drain" => last /\ (stage /= "Read" => IsBubbles(inst_input))

(***************************************************************************)
(* The reorder buffer holds the instructions before rn, and those not yet  *)
(* dispatched are not ready.                                               *)
(***************************************************************************)
RobInOrder(prg, tb, d, rn) ==
  /\ tb.size <= rn /\ rn <= tb.size + d
  /\ \A t \in tb.held :
       /\ tb.seq[t] = (rn - tb.size) + tb.pos[t]
       /\ tb.dst[t] = prg[tb.seq[t] + 1].dst
       /\ d <= tb.seq[t] => t \notin tb.ready
  /\ rn = 0 => tb.ready = {}

RobHasRoom(rn) ==
  /\ Rob.Full => Rob.Head = Rob.Tail
  /\ rn > 0 \/ stage = "RenameInst" => Width <= RobSize
  /\ stage = "RenameInst" => RN /\ Tags.size + (Width - slot) <= RobSize

(* Retire does not ask whether there is an oldest instruction: there is,   *)
(* but at the very start, when no entry is ready, and at the very end.     *)
RobRunsEmpty(rn, de) ==
  /\ Tags.size = 0 /\ rn > 0 =>
       CASE stage \in {"Read", "UpdInfo"} -> FALSE
         [] stage \in {"Decode", "Fetch", "Advance_Cycle", "End"} ->
              loop = "drain" /\ done_flag
         [] stage = "RenameInst" /\ loop = "trace" -> empty /\ slot = 0 /\ rn < de
         [] OTHER -> empty
  /\ empty /\ stage \notin {"Read", "UpdInfo"} => done_flag
  /\ empty /\ stage = "Retire" => Tags.size = 0
  /\ done_flag => Tags.size < rn
  /\ stage = "End" => done_flag

StageOK(rd, rn, de) ==
  /\ slot /= 0 => stage \in {"Retire", "Issue", "Enqueue", "RenameInst"}
  /\ stage = "Rename" /\ ~RR => rd < rn
  /\ stage = "RenameInst" /\ rn < de => rn = rd + slot

(***************************************************************************)
(* What is left in a latch that was handed on stands in the next one.      *)
(***************************************************************************)
HandedOn ==
  /\ RnMoves => \A k \in 0 .. RnFrom - 1 : Rn[k].seq = Rr[k].seq
  /\ DeMoves => \A k \in Slot : De[k].seq = Rn[k].seq
  /\ InFrom /= 0 => \A k \in Slot : inst_input[k].seq \in {None, De[k].seq}

(* While there is something to rename, a reorder buffer of two bundles     *)
(* cannot run empty: either the last bundle renamed is still on its way to *)
(* the issue queue, or it did not fit because more than W are left.        *)
Refilled(rd, rn, de) == 2 * Width <= RobSize =>
  /\ stage \in {"Decode", "Fetch", "Advance_Cycle", "Read", "UpdInfo", "Retire"}
       /\ 0 < rn /\ rn < Len(prog) => rd < rn \/ RobSize < Tags.size + slot + Width
  /\ stage = "RenameInst" /\ rn = de /\ 0 < rn /\ rn < Len(prog) => rd < rn
  /\ done_flag => loop = "drain" /\ rn = Len(prog) /\ Tags.size = 0

TraceOrder(rd, rn, de, fe) ==
  /\ LatchesInOrder(rd, rn, de, fe) /\ NoGaps(rn, de, fe)
  /\ RobInOrder(prog, Tags, Dispatched, rn)
  /\ RobHasRoom(rn) /\ RobRunsEmpty(rn, de) /\ StageOK(rd, rn, de)
  /\ Refilled(rd, rn, de)

(* The rename map names the youngest writer of each register. *)
MapExact(tb, rmt) ==
  \A r \in Reg :
    /\ rmt[r] = None => \A t \in tb.held : tb.dst[t] /= r
    /\ rmt[r] /= None =>
         /\ rmt[r] \in tb.held /\ tb.dst[rmt[r]] = r
         /\ \A t \in tb.held : tb.pos[t] > tb.pos[rmt[r]] => tb.dst[t] /= r

(***************************************************************************)
(* A source that is awaited names its producer; one that is not has none   *)
(* that is still to be executed.                                           *)
(***************************************************************************)
Producer(prg, p, q, r) ==
  /\ p < q /\ prg[p + 1].dst = r
  /\ \A m \in p + 1 .. q - 1 : prg[m + 1].dst /= r

Known(prg, tb, q, r) ==
  \A t \in tb.held : Producer(prg, tb.seq[t], q, r) => t \in tb.ready \cup tb.wb

(* A producer may retire before Dispatch and RegRead look at its consumer, *)
(* not after.                                                              *)
Retired(tb, tag) ==
  tag \in tb.ready /\ \A t \in tb.held : tb.seq[tag] < tb.seq[t]

SourceOK(prg, tb, q, r, waits, tag, looked) ==
  IF waits THEN /\ r /= None /\ Producer(prg, tb.seq[tag], q, r)
                /\ tag \in tb.held \/ (~looked /\ Retired(tb, tag))
  ELSE r = None \/ Known(prg, tb, q, r)

EntryOK(prg, tb, e, looked) ==
  IF e.seq = None THEN ~e.rob1 /\ ~e.rob2
  ELSE /\ Holder(tb, e.dst, e.seq)
       /\ SourceOK(prg, tb, e.seq, prg[e.seq + 1].src1, e.rob1, e.src1, looked)
       /\ SourceOK(prg, tb, e.seq, prg[e.seq + 1].src2, e.rob2, e.src2, looked)

LatchOK(prg, tb, latch, looked) ==
  \A k \in DOMAIN latch : EntryOK(prg, tb, latch[k], looked)

BackToDispatch == {"Retire", "Writeback", "Execute", "Issue", "Dispatch"}
BackToRegRead  == BackToDispatch \cup {"Enqueue", "RegRead"}

LatchesOK ==
  /\ LatchOK(prog, Tags, Rr, stage \notin BackToRegRead)
  /\ LatchOK(prog, Tags, Di, stage \notin BackToDispatch)
  /\ stage = "Enqueue" => \A k \in Slot :
       /\ Di[k].rob1 => Di[k].src1 \notin Tags.ready \cup Tags.wb
       /\ Di[k].rob2 => Di[k].src2 \notin Tags.ready \cup Tags.wb

(* In the issue queue and in the units every instruction has its own tag,  *)
(* which is not announced yet; what Wb announces is.                       *)
Pending(tb, d, q, tag) ==
  q < d /\ Holder(tb, tag, q) /\ tag \notin tb.ready \cup tb.wb

WaitsForTag(prg, tb, q, r, ready, tag) ==
  IF ready THEN r = None \/ Known(prg, tb, q, r)
  ELSE /\ r /= None /\ Producer(prg, tb.seq[tag], q, r)
       /\ tag \in tb.held \ (tb.ready \cup tb.wb)

IqEntryOK(prg, tb, d, e) ==
  /\ e.seq /= None /\ Pending(tb, d, e.seq, e.dst_tag)
  /\ WaitsForTag(prg, tb, e.seq, prg[e.seq + 1].src1, e.rs1_rdy, e.rs1_tag)
  /\ WaitsForTag(prg, tb, e.seq, prg[e.seq + 1].src2, e.rs2_rdy, e.rs2_tag)
  /\ e.v = "RDY" <=> e.rs1_rdy /\ e.rs2_rdy

IqOK(prg, tb, d, queue, valid) ==
  /\ \A x \in valid : IqEntryOK(prg, tb, d, queue[x])
  /\ \A x, y \in valid : queue[x].dst_tag = queue[y].dst_tag => x = y

ExcOK(tb, d, exc, busy) ==
  /\ \A u \in busy : Pending(tb, d, exc[u].seq, exc[u].dst_tag)
  /\ \A u, w \in busy : exc[u].dst_tag = exc[w].dst_tag => u = w

TagsOf(table, places) == {table[x].dst_tag : x \in places}
IqTags  == TagsOf(Iq.queue, ValidIq)
ExcTags == TagsOf(Exc, BusyUnits)

WbOK(tb, d, wb, done) ==
  \A u \in DOMAIN wb : wb[u].v =>
    /\ wb[u].seq < d /\ Holder(tb, wb[u].Rob_tag, wb[u].seq)
    /\ wb[u].Rob_tag \in tb.ready <=> done

(* Nothing that was dispatched is lost. *)
NothingLost(tb, d, tags) ==
  \A t \in tb.held : tb.seq[t] < d => t \in tb.ready \cup tb.wb \cup tags

BackEndOK ==
  /\ IqOK(prog, Tags, Dispatched, Iq.queue, ValidIq)
  /\ ExcOK(Tags, Dispatched, Exc, BusyUnits)
  /\ IqTags \cap ExcTags = {}
  /\ WbOK(Tags, Dispatched, Wb, stage = "Execute")
  /\ NothingLost(Tags, Dispatched, IqTags \cup ExcTags)

(***************************************************************************)
(* Room for a bundle, asked for before it is used.                         *)
(***************************************************************************)
IqHasRoom ==
  /\ Iq.cnt = Cardinality(ValidIq)
  /\ Dispatched > 0 \/ stage = "Enqueue" => Width <= IqSize
  /\ stage = "Dispatch" /\ IS => Iq.cnt + Width <= IqSize
  /\ stage = "Enqueue" => DI /\ Iq.cnt + (Width - slot) <= IqSize

(* Units still at k cycles or more were given an instruction in the last   *)
(* 5 - k cycles or in this one.                                            *)
UnitsFrom(k) == {u \in Unit : Exc[u].cnt \in k .. 5}
UnitsSuffice ==
  \A k \in 1 .. 5 :
    Cardinality(UnitsFrom(k)) <=
      IF stage = "Issue" THEN (5 - k) * Width + slot ELSE (6 - k) * Width

CoreAt(rd, rn, de, fe) ==
  /\ CpuTypeOK
  /\ Iq = [queue |-> Iq.queue, cnt |-> Iq.cnt, seq_max |-> Iq.seq_max]
  /\ TraceOrder(rd, rn, de, fe)
  /\ AsFetched /\ HandedOn
  /\ MapExact(Tags, Rmt) /\ LatchesOK /\ BackEndOK
  /\ IqHasRoom /\ UnitsSuffice

CoreInv == \E rd, rn, de, fe \in 0 .. Len(prog) : CoreAt(rd, rn, de, fe)
=============================================================================
