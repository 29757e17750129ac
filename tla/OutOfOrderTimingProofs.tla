----------------------- MODULE OutOfOrderTimingProofs -----------------------
(***************************************************************************)
(* The report of OutOfOrderTiming is right, for every machine and trace:   *)
(* each row is that of one instruction, follows it from stage to stage,    *)
(* and is blank before another instruction gets its index.                 *)
(***************************************************************************)
EXTENDS OutOfOrderProofs, OutOfOrderTiming

(***************************************************************************)
(* The invariant.                                                          *)
(***************************************************************************)
RowType == [seq : Seq0 \cup {None}, bc : [Column -> Nat \cup {None}],
            dur : [Column -> Nat \cup {None}]]

InfoTypeOK == cycle \in Nat /\ info \in [0 .. InfoSize - 1 -> RowType]

(* Instructions that have a row, and the row.                              *)
Live     == Seqs(De) \cup Seqs(Rn) \cup RobSeqs
RowOf(q) == info[InfoIdx(q)]
Lat(q)   == Latency(prog[q + 1].op)

(* The stages of a cycle by number.                                        *)
WhenAt(s) ==
  CASE s = "Retire" -> 1     [] s = "Writeback" -> 2
    [] s = "Execute" -> 3    [] s = "Issue" -> 4
    [] s = "Dispatch" -> 5   [] s = "Enqueue" -> 6
    [] s = "RegRead" -> 7    [] s = "Rename" -> 8
    [] s = "RenameInst" -> 9 [] s = "Decode" -> 10
    [] s = "Fetch" -> 11     [] s = "Advance_Cycle" -> 12
    [] OTHER -> 13
When == WhenAt(stage)

(* The instructions in the stage of column n, without those that were      *)
(* handed on.                                                              *)
Moving(latch, lo, hi) == {latch[k].seq : k \in lo .. hi - 1} \ {None}

IqSeqs    == {Iq.queue[i].seq : i \in ValidIq}
WbSeqs    == {Wb[u].seq : u \in {w \in Unit : Wb[w].v}}
ReadySeqs == {Tags.seq[t] : t \in Tags.held \cap Tags.ready}

InStage(n) ==
  CASE n = 2 -> Moving(De, DeFrom, Width)
    [] n = 3 -> Moving(Rn, RnFrom, Width)
    [] n = 4 -> Moving(Rr, 0, RrTo)
    [] n = 5 -> Moving(Di, DiFrom, Width)
    [] n = 6 -> IqSeqs
    [] n = 7 -> ExecSeqs
    [] n = 8 -> WbSeqs
    [] OTHER -> ReadySeqs

(* Some may have got there in this cycle, after UpdInfo.                   *)
Moved(n) ==
  CASE n = 2 -> When > 11 [] n = 3 -> When > 10 [] n = 4 -> When > 8
    [] n = 5 -> When > 7  [] n = 6 -> When > 5  [] OTHER -> When > 3

(* A row of instruction q in which the first n columns have begun and all  *)
(* but the last of these have ended; write-back ends when it begins.       *)
FilledRow(row, q, n, latency) ==
  /\ row.seq = q
  /\ \A j \in 1 .. n : row.bc[Order[j]] \in Nat
  /\ \A j \in n + 1 .. 8 : row.bc[Order[j]] = None
  /\ \A j \in 1 .. n - 1 :
       /\ row.dur[Order[j]] \in Nat \ {0}
       /\ row.bc[Order[j]] + row.dur[Order[j]] = row.bc[Order[j + 1]]
  /\ \A j \in n .. 7 : row.dur[Order[j]] = None
  /\ IF n = 8
     THEN row.dur.WB = 1 /\ row.bc.RT = row.bc.WB + 1 /\ row.dur.EX = latency
     ELSE row.dur.WB = None /\ row.bc.RT = None
  /\ row.dur.RT = None

Begun(q, n) ==
  /\ FilledRow(RowOf(q), q, n, Lat(q))
  /\ RowOf(q).bc[Order[n]] <= cycle
  /\ When = 13 => RowOf(q).bc[Order[n]] < cycle

Entered(q, n) == Begun(q, n) \/ (Moved(n) /\ Begun(q, n - 1))

RowsFollow ==
  /\ \A n \in 2 .. 8 : \A q \in InStage(n) : Entered(q, n)
  /\ \A q \in ReadySeqs : Begun(q, 8) /\ (When <= 2 => RowOf(q).bc.WB < cycle)

(* A unit counts down what is left of the latency.                         *)
Clock == IF When \in 4 .. 12 THEN cycle + 1 ELSE cycle

Left(q, cnt) ==
  IF RowOf(q).bc.EX = None THEN cnt = Lat(q)
  ELSE cnt + (Clock - RowOf(q).bc.EX) = Lat(q)

CyclesLeft ==
  /\ \A u \in BusyUnits : Left(Exc[u].seq, Exc[u].cnt)
  /\ \A q \in WbSeqs : RowOf(q).bc.WB = None => Left(q, 0)

OthersBlank ==
  \A i \in 0 .. InfoSize - 1 : (\A q \in Live : InfoIdx(q) /= i) => info[i] = BlankRow

(* What was renamed is still of its kind.                                  *)
OpsOf(latch) ==
  \A k \in Slot : latch[k].seq /= None => latch[k].op = prog[latch[k].seq + 1].op

OpsKept ==
  /\ OpsOf(Rr) /\ OpsOf(Di)
  /\ \A x \in ValidIq : Iq.queue[x].op = prog[Iq.queue[x].seq + 1].op

(* The totals are those of the last cycle in which an instruction retired. *)
TotalsKept ==
  2 * Width <= RobSize /\ done_flag =>
    /\ loop = "drain" /\ stage \notin {"Read", "UpdInfo"}
    /\ last_seq = Len(prog)
    /\ last_cycle = IF stage = "End" THEN cycle ELSE cycle + 1

TimedInv ==
  InfoTypeOK /\ RowsFollow /\ CyclesLeft /\ OthersBlank /\ OpsKept /\ TotalsKept

(***************************************************************************)
(* The columns, and the table's indices.                                   *)
(***************************************************************************)
LEMMA Columns ==
  /\ Column = {Order[j] : j \in 1 .. 9}
  /\ \A j, k \in 1 .. 9 : Order[j] = Order[k] => j = k
  /\ \A j \in 1 .. 9 : Order[j] \in Column
  /\ Order[1] = "FE" /\ Order[2] = "DE" /\ Order[3] = "RN" /\ Order[4] = "RR"
  /\ Order[5] = "DI" /\ Order[6] = "IS" /\ Order[7] = "EX" /\ Order[8] = "WB"
  /\ Order[9] = "RT"
  /\ \A j \in 1 .. 7 : StageAfter[Order[j]] = Order[j + 1]
<1>1. /\ Order[1] = "FE" /\ Order[2] = "DE" /\ Order[3] = "RN" /\ Order[4] = "RR"
      /\ Order[5] = "DI" /\ Order[6] = "IS" /\ Order[7] = "EX" /\ Order[8] = "WB"
      /\ Order[9] = "RT"
  BY DEF Order
<1>2. 1 .. 9 = {1, 2, 3, 4, 5, 6, 7, 8, 9} /\ 1 .. 7 = {1, 2, 3, 4, 5, 6, 7}
  OBVIOUS
<1> HIDE DEF Order
<1>3. Column = {Order[j] : j \in 1 .. 9}
  BY <1>1, <1>2 DEF Column
<1>4. \A j, k \in 1 .. 9 : Order[j] = Order[k] => j = k
  BY <1>1, <1>2
<1>5. \A j \in 1 .. 7 : StageAfter[Order[j]] = Order[j + 1]
  BY <1>1, <1>2 DEF StageAfter
<1> QED BY <1>1, <1>3, <1>4, <1>5

(* Numbers less than n apart have different remainders.                    *)
LEMMA ModApart ==
  ASSUME NEW n \in Nat \ {0}, NEW lo \in Nat, NEW p \in lo .. lo + n - 1,
         NEW q \in lo .. lo + n - 1, p % n = q % n
  PROVE  p = q
<1>1. /\ p \in Nat /\ q \in Nat
      /\ p \div n \in Nat /\ q \div n \in Nat /\ p % n \in Nat
      /\ p = (p \div n) * n + (p % n) /\ q = (q \div n) * n + (p % n)
  OBVIOUS
<1> DEFINE a == p \div n
           b == q \div n
           r == p % n
<1>2. a \in Nat /\ b \in Nat /\ r \in Nat /\ p = a * n + r /\ q = b * n + r
  BY <1>1
<1> HIDE DEF a, b, r
<1>3. \A x, y \in Nat : x < y => y * n >= x * n + n
  <2> TAKE x, y \in Nat
  <2> HAVE x < y
  <2>1. PICK d \in Nat : y = x + (1 + d)
    <3>1. y - (x + 1) \in Nat /\ y = x + (1 + (y - (x + 1)))
      OBVIOUS
    <3> QED BY <3>1
  <2>2. (x + (1 + d)) * n = x * n + (n + d * n)
    OBVIOUS
  <2>3. d * n \in Nat /\ x * n \in Nat
    OBVIOUS
  <2> QED BY <2>1, <2>2, <2>3
<1>4. a * n \in Nat /\ b * n \in Nat
  BY <1>2
<1>5. ~(a < b) /\ ~(b < a)
  BY <1>2, <1>3, <1>4
<1> QED BY <1>2, <1>5

(* The stages' numbers.                                                    *)
LEMMA WhenIs ==
  /\ WhenAt("Retire") = 1 /\ WhenAt("Writeback") = 2 /\ WhenAt("Execute") = 3
  /\ WhenAt("Issue") = 4 /\ WhenAt("Dispatch") = 5 /\ WhenAt("Enqueue") = 6
  /\ WhenAt("RegRead") = 7 /\ WhenAt("Rename") = 8 /\ WhenAt("RenameInst") = 9
  /\ WhenAt("Decode") = 10 /\ WhenAt("Fetch") = 11
  /\ WhenAt("Advance_Cycle") = 12
  /\ WhenAt("Read") = 13 /\ WhenAt("UpdInfo") = 13 /\ WhenAt("End") = 13
  /\ \A s \in Stages : WhenAt(s) \in 1 .. 13
<1>1. /\ WhenAt("Retire") = 1 /\ WhenAt("Writeback") = 2 /\ WhenAt("Execute") = 3
      /\ WhenAt("Issue") = 4 /\ WhenAt("Dispatch") = 5 /\ WhenAt("Enqueue") = 6
      /\ WhenAt("RegRead") = 7 /\ WhenAt("Rename") = 8 /\ WhenAt("RenameInst") = 9
      /\ WhenAt("Decode") = 10 /\ WhenAt("Fetch") = 11
      /\ WhenAt("Advance_Cycle") = 12
      /\ WhenAt("Read") = 13 /\ WhenAt("UpdInfo") = 13 /\ WhenAt("End") = 13
  BY DEF WhenAt
<1>2. \A s \in Stages : WhenAt(s) \in 1 .. 13
  BY <1>1, StagesIs
<1> QED BY <1>1, <1>2

(* The sets that the columns stand for, before and after a step.           *)
LEMMA InStageIs ==
  /\ InStage(2) = Moving(De, DeFrom, Width) /\ InStage(3) = Moving(Rn, RnFrom, Width)
  /\ InStage(4) = Moving(Rr, 0, RrTo)       /\ InStage(5) = Moving(Di, DiFrom, Width)
  /\ InStage(6) = IqSeqs /\ InStage(7) = ExecSeqs /\ InStage(8) = WbSeqs
  /\ InStage(2)' = Moving(De, DeFrom, Width)' /\ InStage(3)' = Moving(Rn, RnFrom, Width)'
  /\ InStage(4)' = Moving(Rr, 0, RrTo)'       /\ InStage(5)' = Moving(Di, DiFrom, Width)'
  /\ InStage(6)' = IqSeqs' /\ InStage(7)' = ExecSeqs' /\ InStage(8)' = WbSeqs'
  BY DEF InStage

(* Where the latches count is a slot or the end of the latch.              *)
LEMMA FromsIn ==
  ASSUME CpuTypeOK
  PROVE  /\ DiFrom \in 0 .. Width /\ DeFrom \in 0 .. Width /\ RnFrom \in 0 .. Width
         /\ RrTo \in 0 .. Width
<1>1. slot \in 0 .. Width - 1 /\ Width \in Nat \ {0}
  BY Sizes, Types
<1> QED BY <1>1 DEF DiFrom, DeFrom, RnFrom, RrTo, DeMoves

(* A run of slots holds a run of numbers.                                  *)
LEMMA MovingIs ==
  ASSUME CpuTypeOK, NEW latch, NEW lo \in Nat, NEW hi \in Nat, lo <= hi,
         NEW from \in Nat, NEW upto \in Nat, InOrder(latch, lo, hi, from, upto)
  PROVE  Moving(latch, lo, hi) = from .. upto - 1
<1>1. None \notin Nat
  BY Types, Sizes
<1>2. ASSUME NEW q \in Moving(latch, lo, hi)
      PROVE  q \in from .. upto - 1
  <2>1. PICK k \in lo .. hi - 1 : q = latch[k].seq /\ q /= None
    BY <1>2 DEF Moving
  <2>2. q = IF from + (k - lo) < upto THEN from + (k - lo) ELSE None
    BY <2>1 DEF InOrder
  <2>3. q = from + (k - lo) /\ from + (k - lo) < upto
    BY <2>1, <2>2
  <2> QED BY <2>3
<1>3. ASSUME NEW q \in from .. upto - 1
      PROVE  q \in Moving(latch, lo, hi)
  <2>1. from <= upto /\ upto <= from + (hi - lo)
    BY DEF InOrder
  <2>2. PICK k \in lo .. hi - 1 : from + (k - lo) = q
    <3>1. lo + (q - from) \in lo .. hi - 1 /\ from + ((lo + (q - from)) - lo) = q
      BY <2>1
    <3> QED BY <3>1
  <2>3. latch[k].seq = q
    BY <2>2 DEF InOrder
  <2> QED BY <1>1, <2>3 DEF Moving
<1> QED BY <1>2, <1>3

(* The latches hold runs of the trace, one behind the other.               *)
LEMMA LatchesAre ==
  ASSUME NEW rd \in 0 .. Len(prog), NEW rn \in 0 .. Len(prog),
         NEW de \in 0 .. Len(prog), NEW fe \in 0 .. Len(prog),
         CoreAt(rd, rn, de, fe)
  PROVE  /\ InStage(2) = de .. fe - 1 /\ InStage(3) = rn .. de - 1
         /\ InStage(4) = rd .. rn - 1 /\ InStage(5) = Dispatched .. rd - 1
         /\ Dispatched \in Nat
<1>1. /\ CpuTypeOK /\ MiddleAt(rd, rn) /\ FrontAt(rn, de, fe) /\ RobAt(rd, rn, de)
      /\ rd \in Nat /\ rn \in Nat /\ de \in Nat /\ fe \in Nat
  BY CoreIs, Numbers DEF CoreAt
<1>2. /\ DiFrom \in 0 .. Width /\ DeFrom \in 0 .. Width /\ RnFrom \in 0 .. Width
      /\ RrTo \in 0 .. Width /\ Width \in Nat
  BY <1>1, FromsIn, Numbers
<1>3. Dispatched \in Nat
  BY <1>1, TableIs DEF RobAt
<1>4. Moving(De, DeFrom, Width) = de .. fe - 1 /\ Moving(Rn, RnFrom, Width) = rn .. de - 1
  BY <1>1, <1>2, MovingIs DEF FrontAt
<1>5. Moving(Di, DiFrom, Width) = Dispatched .. rd - 1 /\ Moving(Rr, 0, RrTo) = rd .. rn - 1
  BY <1>1, <1>2, <1>3, MovingIs DEF MiddleAt
<1> QED BY <1>3, <1>4, <1>5, InStageIs

(* Numbers of a run.                                                       *)
LEMMA InARun ==
  ASSUME NEW rn \in Nat, NEW size \in Nat, NEW n \in Nat, NEW q \in Nat,
         NEW fe \in Nat, NEW len \in Nat, rn - size \in Nat,
         rn - size <= q, q < fe, fe <= (rn - size) + n, fe <= len
  PROVE  q \in rn - size .. (rn - size) + n - 1 /\ q \in 0 .. len - 1
  OBVIOUS

(* All that have a row are less than the size of the table apart, since    *)
(* what was handed on stands in the next latch as well.                    *)
LEMMA LiveIs ==
  ASSUME NEW rd \in 0 .. Len(prog), NEW rn \in 0 .. Len(prog),
         NEW de \in 0 .. Len(prog), NEW fe \in 0 .. Len(prog),
         CoreAt(rd, rn, de, fe)
  PROVE  /\ InfoSize \in Nat \ {0} /\ rn - Tags.size \in Nat
         /\ \A q \in Live : /\ q \in rn - Tags.size .. (rn - Tags.size) + InfoSize - 1
                            /\ q \in 0 .. Len(prog) - 1
         /\ RobSeqs = rn - Tags.size .. rn - 1
         /\ RnMoves => \A k \in 0 .. RnFrom - 1 : Rn[k].seq \in RobSeqs \cup {None}
         /\ \A q \in Live : q < fe
<1>1. /\ CpuTypeOK /\ FrontAt(rn, de, fe) /\ RobAt(rd, rn, de) /\ TagsOK
      /\ rd \in Nat /\ rn \in Nat /\ de \in Nat /\ fe \in Nat /\ Len(prog) \in Nat
      /\ Width \in Nat \ {0} /\ RobSize \in Nat \ {0} /\ Slot = 0 .. Width - 1
      /\ None \notin Nat
  BY CoreIs, Numbers, Sizes DEF CoreAt
<1>2. RobSeqs = rn - Tags.size .. rn - 1 /\ rn - Tags.size \in Nat
  BY <1>1, RobSeqsAre, HeldIs DEF RobAt
<1>3. Tags.size \in 0 .. RobSize
  BY <1>1, TagsIs
<1>4. InfoSize = 2 * Width + RobSize /\ InfoSize \in Nat \ {0}
  BY <1>1 DEF InfoSize
<1>5. /\ InOrder(Rn, RnFrom, Width, rn, de) /\ InOrder(De, DeFrom, Width, de, fe)
      /\ HandedOn /\ LatchOK(prog, Tags, Rr, stage \notin BackToRegRead)
  BY <1>1 DEF FrontAt, TagsOK, LatchesOK
<1>6. /\ RnFrom \in 0 .. Width /\ DeFrom \in 0 .. Width
      /\ RnFrom \in Nat /\ DeFrom \in Nat /\ Width \in Nat
  BY <1>1, FromsIn
<1>0. /\ rn <= de /\ de <= rn + (Width - RnFrom)
      /\ de <= fe /\ fe <= de + (Width - DeFrom)
      /\ \A k \in RnFrom .. Width - 1 : Rn[k].seq = None \/ Rn[k].seq \in rn .. de - 1
      /\ \A k \in DeFrom .. Width - 1 : De[k].seq = None \/ De[k].seq \in de .. fe - 1
  <2>1. /\ rn <= de /\ de <= rn + (Width - RnFrom)
        /\ \A k \in RnFrom .. Width - 1 : Rn[k].seq = None \/ Rn[k].seq \in rn .. de - 1
    BY <1>1, <1>5, <1>6, InOrderIs
  <2>2. /\ de <= fe /\ fe <= de + (Width - DeFrom)
        /\ \A k \in DeFrom .. Width - 1 : De[k].seq = None \/ De[k].seq \in de .. fe - 1
    BY <1>1, <1>5, <1>6, InOrderIs
  <2> QED BY <2>1, <2>2
<1>7. \A k \in Slot : Rr[k].seq \in RobSeqs \cup {None}
  <2> TAKE k \in Slot
  <2> SUFFICES ASSUME Rr[k].seq /= None
               PROVE  Rr[k].seq \in RobSeqs
    OBVIOUS
  <2>1. DOMAIN Rr = Slot
    BY <1>1, Types
  <2>2. Holder(Tags, Rr[k].dst, Rr[k].seq)
    BY <1>5, <2>1 DEF LatchOK, EntryOK
  <2>3. Rr[k].seq \in {Rob.cqueue[t].seq : t \in Tags.held}
    <3>1. Rr[k].dst \in Tags.held /\ Tags.seq[Rr[k].dst] = Rr[k].seq
      BY <2>2 DEF Holder
    <3>2. Rr[k].dst \in Tag /\ Tags.seq[Rr[k].dst] = Rob.cqueue[Rr[k].dst].seq
      BY <1>1, <3>1, TagsIs
    <3> QED BY <3>1, <3>2
  <2> QED BY <1>1, <2>3, RobTagIs DEF RobSeqs
<1>8. RnMoves => \A k \in 0 .. RnFrom - 1 : Rn[k].seq \in RobSeqs \cup {None}
  BY <1>1, <1>5, <1>6, <1>7 DEF HandedOn
<1>9. \A k \in Slot : Rn[k].seq \in RobSeqs \cup {None} \cup rn .. de - 1
  <2> TAKE k \in Slot
  <2>1. CASE k \in RnFrom .. Width - 1
    BY <1>0, <2>1
  <2>2. CASE k \notin RnFrom .. Width - 1
    <3>1. k \in 0 .. RnFrom - 1 /\ RnFrom /= 0
      BY <1>1, <1>6, <2>2
    <3>2. RnMoves
      BY <3>1 DEF RnFrom, RnMoves
    <3> QED BY <1>8, <3>1, <3>2
  <2> QED BY <2>1, <2>2
<1>10. \A k \in Slot : De[k].seq \in RobSeqs \cup {None} \cup rn .. de - 1 \cup de .. fe - 1
  <2> TAKE k \in Slot
  <2>1. CASE DeMoves
    BY <1>5, <1>9, <2>1 DEF HandedOn
  <2>2. CASE ~DeMoves
    <3>1. DeFrom = 0
      BY <2>2 DEF DeFrom
    <3> QED BY <1>0, <1>1, <3>1
  <2> QED BY <2>1, <2>2
<1>11. de <= rn + Width /\ fe <= de + Width /\ rn <= de /\ de <= fe
  BY <1>0, <1>1, <1>6
<1>12. \A q \in Live : q \in RobSeqs \cup rn .. de - 1 \cup de .. fe - 1
  BY <1>9, <1>10 DEF Live, Seqs
<1>13. \A q \in Live : /\ q \in rn - Tags.size .. (rn - Tags.size) + InfoSize - 1
                       /\ q \in 0 .. Len(prog) - 1
                       /\ q < fe
  <2> TAKE q \in Live
  <2>1. \/ q \in rn - Tags.size .. rn - 1
        \/ q \in rn .. de - 1
        \/ q \in de .. fe - 1
    BY <1>2, <1>12
  <2>2. PICK size \in Nat : size = Tags.size /\ rn - size \in Nat /\ size <= RobSize
    BY <1>1, <1>2, <1>3
  <2>3. q \in Nat /\ rn - size <= q /\ q < fe
    <3>1. CASE q \in rn - Tags.size .. rn - 1
      <4>1. q \in rn - size .. rn - 1
        BY <2>2, <3>1
      <4>2. q \in Int /\ rn - size <= q /\ q < rn
        BY <1>1, <2>2, <4>1
      <4> QED BY <1>1, <1>11, <2>2, <4>2
    <3>2. CASE q \in rn .. de - 1
      BY <1>1, <1>11, <2>2, <3>2
    <3>3. CASE q \in de .. fe - 1
      BY <1>1, <1>11, <2>2, <3>3
    <3> QED BY <2>1, <3>1, <3>2, <3>3
  <2>4. PICK n \in Nat : n = InfoSize /\ fe <= (rn - size) + n /\ fe <= Len(prog)
    <3>1. PICK w \in Nat, r \in Nat : w = Width /\ r = RobSize
      BY <1>1
    <3>2. /\ fe <= rn + 2 * w /\ size <= r /\ InfoSize = 2 * w + r
          /\ 2 * w + r \in Nat
      BY <1>1, <1>4, <1>11, <2>2, <3>1
    <3>3. fe <= (rn - size) + (2 * w + r)
      <4>1. rn \in Nat /\ fe \in Nat /\ size \in Nat
        BY <1>1, <2>2
      <4> QED BY <3>2, <4>1
    <3>4. fe <= Len(prog)
      OBVIOUS
    <3> QED BY <3>2, <3>3, <3>4
  <2>5. q \in rn - size .. (rn - size) + n - 1 /\ q \in 0 .. Len(prog) - 1
    BY <1>1, <2>2, <2>3, <2>4, InARun
  <2>6. size = Tags.size /\ n = InfoSize
    BY <2>2, <2>4
  <2> QED BY <2>3, <2>5, <2>6, Zenon
<1> QED BY <1>2, <1>4, <1>8, <1>13

(***************************************************************************)
(* UpdInfo, one row at a time.                                             *)
(***************************************************************************)
(* The columns after UpdInfo, by number.                                   *)
LEMMA Updates ==
  ASSUME InfoTypeOK, UpdInfo, NEW i \in 0 .. InfoSize - 1
  PROVE  /\ info[i] \in RowType
         /\ info'[i] = [seq |-> info[i].seq, bc  |-> [s \in Column |-> Begin(i, s)],
                        dur |-> [s \in Column |-> Duration(i, s)]]
         /\ info'[i].seq = info[i].seq
         /\ info'[i].bc = [s \in Column |-> Begin(i, s)]
         /\ info'[i].dur = [s \in Column |-> Duration(i, s)]
         /\ info'[i].bc["FE"] = info[i].bc["FE"]
         /\ \A j \in 2 .. 8 : info'[i].bc[Order[j]] =
              IF Enters(i, Order[j]) THEN cycle ELSE info[i].bc[Order[j]]
         /\ info'[i].bc["RT"] =
              IF Enters(i, Order[8]) THEN cycle + 1 ELSE info[i].bc["RT"]
         /\ \A j \in 1 .. 7 : info'[i].dur[Order[j]] =
              IF Enters(i, Order[j + 1]) THEN Since(info'[i].bc[Order[j]])
              ELSE info[i].dur[Order[j]]
         /\ info'[i].dur["WB"] = IF Enters(i, Order[8]) THEN 1 ELSE info[i].dur["WB"]
         /\ info'[i].dur["RT"] = info[i].dur["RT"]
<1>1. info[i] \in RowType /\ DOMAIN info = 0 .. InfoSize - 1
  BY DEF InfoTypeOK
<1>2. info'[i] = [info[i] EXCEPT !.bc  = [s \in Column |-> Begin(i, s)],
                                 !.dur = [s \in Column |-> Duration(i, s)]]
  BY <1>1 DEF UpdInfo
<1> DEFINE B == [s \in Column |-> Begin(i, s)]
           D == [s \in Column |-> Duration(i, s)]
<1>3. info'[i] = [seq |-> info[i].seq, bc |-> B, dur |-> D]
  <2> HIDE DEF B, D
  <2> QED BY <1>1, <1>2 DEF RowType, B, D
<1>4. info'[i].seq = info[i].seq /\ info'[i].bc = B /\ info'[i].dur = D
  BY <1>3
<1>5. \A s \in Column : info'[i].bc[s] = Begin(i, s) /\ info'[i].dur[s] = Duration(i, s)
  BY <1>4
<1>6. \A j \in 1 .. 9 : Order[j] \in Column
  BY Columns
<1>7. /\ \A j \in 1 .. 8 : Order[j] /= "RT"
      /\ \A j \in 2 .. 9 : Order[j] /= "FE"
      /\ \A j \in 1 .. 7 : Order[j] /= "WB"
  <2>1. 1 .. 9 = 1 .. 9 /\ \A j \in 1 .. 9 : j \in 1 .. 8 \/ j = 9
    OBVIOUS
  <2> QED BY Columns
<1>8. \A j \in 2 .. 8 : info'[i].bc[Order[j]] =
        IF Enters(i, Order[j]) THEN cycle ELSE info[i].bc[Order[j]]
  <2> TAKE j \in 2 .. 8
  <2>1. Order[j] \in Column /\ Order[j] /= "RT"
    BY <1>6, <1>7
  <2> QED BY <1>5, <2>1 DEF Begin
<1>9. /\ info'[i].bc["FE"] = info[i].bc["FE"]
      /\ info'[i].bc["RT"] =
           IF Enters(i, Order[8]) THEN cycle + 1 ELSE info[i].bc["RT"]
  <2>1. "FE" \in Column /\ "RT" \in Column /\ Order[8] = "WB"
    BY Columns DEF Column
  <2>2. ~Enters(i, "FE")
    BY DEF Enters
  <2> QED BY <1>5, <2>1, <2>2 DEF Begin
<1>10. \A j \in 1 .. 7 : info'[i].dur[Order[j]] =
         IF Enters(i, Order[j + 1]) THEN Since(info'[i].bc[Order[j]])
         ELSE info[i].dur[Order[j]]
  <2> TAKE j \in 1 .. 7
  <2>1. /\ Order[j] \in Column /\ Order[j] /= "RT" /\ Order[j] /= "WB"
        /\ StageAfter[Order[j]] = Order[j + 1]
    BY <1>6, <1>7, Columns
  <2> QED BY <1>5, <2>1 DEF Duration
<1>11. /\ info'[i].dur["WB"] = IF Enters(i, Order[8]) THEN 1 ELSE info[i].dur["WB"]
       /\ info'[i].dur["RT"] = info[i].dur["RT"]
  <2>1. "WB" \in Column /\ "RT" \in Column /\ Order[8] = "WB"
    BY Columns DEF Column
  <2> QED BY <1>5, <2>1 DEF Duration
<1> QED BY <1>1, <1>3, <1>4, <1>8, <1>9, <1>10, <1>11

(* Where nobody enters a stage nothing changes.                            *)
LEMMA RowStays ==
  ASSUME InfoTypeOK, UpdInfo, NEW i \in 0 .. InfoSize - 1,
         \A j \in 2 .. 8 : ~Enters(i, Order[j])
  PROVE  info'[i] = info[i]
<1> DEFINE f == [s \in Column |-> Begin(i, s)]
           g == [s \in Column |-> Duration(i, s)]
<1>1. /\ f = [s \in Column |-> f[s]] /\ g = [s \in Column |-> g[s]]
      /\ info[i] \in RowType /\ info'[i] = [seq |-> info[i].seq, bc |-> f, dur |-> g]
      /\ f = info'[i].bc /\ g = info'[i].dur
  BY Updates
<1> HIDE DEF f, g
<1>2. /\ \A j \in 1 .. 9 : j = 1 \/ j \in 2 .. 8 \/ j = 9
      /\ \A j \in 1 .. 9 : j \in 1 .. 7 \/ j = 8 \/ j = 9
      /\ \A j \in 1 .. 7 : j + 1 \in 2 .. 8
      /\ 8 \in 2 .. 8
  OBVIOUS
<1>3. /\ info'[i].bc["FE"] = info[i].bc["FE"] /\ info'[i].bc["RT"] = info[i].bc["RT"]
      /\ \A j \in 2 .. 8 : info'[i].bc[Order[j]] = info[i].bc[Order[j]]
  BY <1>2, Updates
<1>4. /\ info'[i].dur["WB"] = info[i].dur["WB"] /\ info'[i].dur["RT"] = info[i].dur["RT"]
      /\ \A j \in 1 .. 7 : info'[i].dur[Order[j]] = info[i].dur[Order[j]]
  BY <1>2, Updates
<1>5. PICK r \in RowType : r = info[i]
  BY <1>1
<1>6. \A j \in 1 .. 9 : f[Order[j]] = r.bc[Order[j]] /\ g[Order[j]] = r.dur[Order[j]]
  <2> TAKE j \in 1 .. 9
  <2>1. Order[1] = "FE" /\ Order[8] = "WB" /\ Order[9] = "RT"
    BY Columns
  <2>2. f[Order[j]] = info'[i].bc[Order[j]] /\ g[Order[j]] = info'[i].dur[Order[j]]
    BY <1>1, Zenon
  <2>3. info'[i].bc[Order[j]] = info[i].bc[Order[j]]
    BY <1>2, <1>3, <2>1
  <2>4. info'[i].dur[Order[j]] = info[i].dur[Order[j]]
    BY <1>2, <1>4, <2>1
  <2> QED BY <1>5, <2>2, <2>3, <2>4, Zenon
<1>7. \A s \in Column : f[s] = r.bc[s] /\ g[s] = r.dur[s]
  <2> TAKE s \in Column
  <2>1. PICK j \in 1 .. 9 : s = Order[j]
    BY Columns
  <2> QED BY <1>6, <2>1
<1>8. /\ r.bc \in [Column -> Nat \cup {None}] /\ r.dur \in [Column -> Nat \cup {None}]
      /\ r = [seq |-> r.seq, bc |-> r.bc, dur |-> r.dur]
  BY DEF RowType
<1>9. f = [s \in Column |-> f[s]] /\ g = [s \in Column |-> g[s]]
  BY <1>1
<1>10. f = r.bc /\ g = r.dur
  BY <1>7, <1>8, <1>9
<1>11. [seq |-> r.seq, bc |-> f, dur |-> g] = r
  BY <1>8, <1>10, Zenon
<1> QED BY <1>1, <1>5, <1>11, Zenon

(* An instruction that enters a stage ends the one before.                 *)
LEMMA RowGrows ==
  ASSUME InfoTypeOK, UpdInfo, NEW i \in 0 .. InfoSize - 1,
         NEW n \in 2 .. 8, NEW q, NEW latency,
         FilledRow(info[i], q, n - 1, latency),
         Enters(i, Order[n]), \A j \in 2 .. 8 : j /= n => ~Enters(i, Order[j]),
         info[i].bc[Order[n - 1]] < cycle,
         n = 8 => cycle - info[i].bc["EX"] = latency
  PROVE  /\ FilledRow(info'[i], q, n, latency)
         /\ info'[i].bc[Order[n]] = cycle /\ info'[i] \in RowType
<1> DEFINE row == info[i]
           new == info'[i]
<1>1. /\ row.seq = q /\ row \in RowType
      /\ \A j \in 1 .. n - 1 : row.bc[Order[j]] \in Nat
      /\ \A j \in n .. 8 : row.bc[Order[j]] = None
      /\ \A j \in 1 .. n - 2 :
           /\ row.dur[Order[j]] \in Nat \ {0}
           /\ row.bc[Order[j]] + row.dur[Order[j]] = row.bc[Order[j + 1]]
      /\ \A j \in n - 1 .. 7 : row.dur[Order[j]] = None
      /\ row.dur["WB"] = None /\ row.bc["RT"] = None /\ row.dur["RT"] = None
  <2>1. (n - 1) + 1 = n /\ (n - 1) - 1 = n - 2 /\ n - 1 /= 8
    OBVIOUS
  <2>2. row \in RowType
    BY Updates
  <2> QED BY <2>1, <2>2 DEF FilledRow
<1>2. /\ new.seq = q /\ new.bc["FE"] = row.bc["FE"]
      /\ \A j \in 2 .. 8 : new.bc[Order[j]] = IF j = n THEN cycle ELSE row.bc[Order[j]]
      /\ new.bc["RT"] = IF n = 8 THEN cycle + 1 ELSE None
      /\ \A j \in 1 .. 7 : new.dur[Order[j]] =
           IF j = n - 1 THEN Since(new.bc[Order[j]]) ELSE row.dur[Order[j]]
      /\ new.dur["WB"] = IF n = 8 THEN 1 ELSE None
      /\ new.dur["RT"] = None
  <2>1. new.seq = q /\ new.bc["FE"] = row.bc["FE"] /\ new.dur["RT"] = None
    BY <1>1, Updates
  <2>2. \A j \in 2 .. 8 : new.bc[Order[j]] = IF j = n THEN cycle ELSE row.bc[Order[j]]
    BY Updates
  <2>3. /\ new.bc["RT"] = IF n = 8 THEN cycle + 1 ELSE None
        /\ new.dur["WB"] = IF n = 8 THEN 1 ELSE None
    <3>1. Enters(i, Order[8]) <=> n = 8
      OBVIOUS
    <3> QED BY <1>1, <3>1, Updates
  <2>4. \A j \in 1 .. 7 : new.dur[Order[j]] =
          IF j = n - 1 THEN Since(new.bc[Order[j]]) ELSE row.dur[Order[j]]
    <3> TAKE j \in 1 .. 7
    <3>1. j + 1 \in 2 .. 8 /\ (j + 1 = n <=> j = n - 1)
      OBVIOUS
    <3>2. Enters(i, Order[j + 1]) <=> j = n - 1
      BY <3>1
    <3> QED BY <3>2, Updates
  <2> QED BY <2>1, <2>2, <2>3, <2>4
<1>3. cycle \in Nat /\ None \notin Nat
  BY CpuAssumption DEF InfoTypeOK
<1> HIDE DEF row, new
<1>4. new.bc[Order[n]] = cycle
  BY <1>2
<1>5. \A j \in 1 .. n - 1 : new.bc[Order[j]] = row.bc[Order[j]]
  <2> TAKE j \in 1 .. n - 1
  <2>1. j = 1 \/ (j \in 2 .. 8 /\ j /= n)
    OBVIOUS
  <2> QED BY <1>2, <2>1, Columns
<1>6. \A j \in n + 1 .. 8 : new.bc[Order[j]] = None
  BY <1>1, <1>2
<1>7. \A j \in 1 .. n : new.bc[Order[j]] \in Nat
  <2> TAKE j \in 1 .. n
  <2>1. j = n \/ j \in 1 .. n - 1
    OBVIOUS
  <2> QED BY <1>1, <1>3, <1>4, <1>5, <2>1
<1>8. /\ new.dur[Order[n - 1]] = cycle - row.bc[Order[n - 1]]
      /\ cycle - row.bc[Order[n - 1]] \in Nat \ {0}
  <2>1. n - 1 \in 1 .. 7 /\ n - 1 \in 1 .. n - 1
    OBVIOUS
  <2>2. row.bc[Order[n - 1]] \in Nat /\ row.bc[Order[n - 1]] < cycle
    BY <1>1, <2>1 DEF row
  <2>3. new.dur[Order[n - 1]] = Since(row.bc[Order[n - 1]])
    BY <1>2, <1>5, <2>1
  <2> QED BY <1>3, <2>2, <2>3 DEF Since
<1>9. \A j \in 1 .. n - 1 :
        /\ new.dur[Order[j]] \in Nat \ {0}
        /\ new.bc[Order[j]] + new.dur[Order[j]] = new.bc[Order[j + 1]]
  <2> TAKE j \in 1 .. n - 1
  <2>1. CASE j = n - 1
    <3>1. j + 1 = n /\ row.bc[Order[j]] \in Nat
      BY <1>1, <2>1
    <3> QED BY <1>3, <1>4, <1>5, <1>8, <2>1, <3>1
  <2>2. CASE j /= n - 1
    <3>1. j \in 1 .. n - 2 /\ j + 1 \in 1 .. n - 1 /\ j \in 1 .. 7
      BY <2>2
    <3>2. new.dur[Order[j]] = row.dur[Order[j]]
      BY <1>2, <2>2, <3>1
    <3> QED BY <1>1, <1>5, <3>1, <3>2
  <2> QED BY <2>1, <2>2
<1>10. \A j \in n .. 7 : new.dur[Order[j]] = None
  BY <1>1, <1>2
<1>11. n = 8 => new.dur["EX"] = latency
  <2> SUFFICES ASSUME n = 8
               PROVE  new.dur["EX"] = latency
    OBVIOUS
  <2>1. Order[n - 1] = "EX"
    BY Columns
  <2> QED BY <1>8, <2>1 DEF row
<1>12. FilledRow(new, q, n, latency)
  <2>1. IF n = 8
        THEN new.dur["WB"] = 1 /\ new.bc["RT"] = new.bc["WB"] + 1 /\ new.dur["EX"] = latency
        ELSE new.dur["WB"] = None /\ new.bc["RT"] = None
    BY <1>2, <1>4, <1>11, Columns
  <2> QED BY <1>2, <1>6, <1>7, <1>9, <1>10, <2>1 DEF FilledRow
<1>13. new \in RowType
  <2>1. /\ new = [seq |-> new.seq, bc |-> new.bc, dur |-> new.dur]
        /\ new.bc = [s \in Column |-> new.bc[s]] /\ new.dur = [s \in Column |-> new.dur[s]]
        /\ new.seq = row.seq
    BY Updates DEF new, row
  <2>2. \A j \in 1 .. 9 : new.bc[Order[j]] \in Nat \cup {None}
    <3> TAKE j \in 1 .. 9
    <3>1. j \in 1 .. n \/ j \in n + 1 .. 8 \/ j = 9
      OBVIOUS
    <3> QED BY <1>2, <1>3, <1>6, <1>7, <3>1, Columns
  <2>3. \A j \in 1 .. 9 : new.dur[Order[j]] \in Nat \cup {None}
    <3> TAKE j \in 1 .. 9
    <3>1. j \in 1 .. n - 1 \/ j \in n .. 7 \/ j = 8 \/ j = 9
      OBVIOUS
    <3> QED BY <1>2, <1>9, <1>10, <3>1, Columns
  <2>4. \A s \in Column : /\ new.bc[s] \in Nat \cup {None}
                          /\ new.dur[s] \in Nat \cup {None}
    BY <2>2, <2>3, Columns
  <2>5. new.bc \in [Column -> Nat \cup {None}] /\ new.dur \in [Column -> Nat \cup {None}]
    BY <2>1, <2>4
  <2>6. new.seq \in Seq0 \cup {None}
    BY <1>1, <2>1 DEF RowType
  <2> QED BY <2>1, <2>5, <2>6 DEF RowType
<1> QED BY <1>4, <1>12, <1>13 DEF new

(***************************************************************************)
(* Rows and instructions.                                                  *)
(***************************************************************************)
(* Every instruction that is anywhere has a row of its own.                *)
OwnRows ==
  /\ InfoSize \in Nat \ {0}
  /\ \A q \in Live : q \in 0 .. Len(prog) - 1 /\ InfoIdx(q) \in 0 .. InfoSize - 1
  /\ \A p, q \in Live : InfoIdx(p) = InfoIdx(q) => p = q
  /\ \A n \in 2 .. 8 : InStage(n) \subseteq Live
  /\ ReadySeqs \subseteq Live

(* What was dispatched is in the reorder buffer.                           *)
LEMMA BackEndSeqs ==
  ASSUME CpuTypeOK, TagsOK
  PROVE  /\ IqSeqs \subseteq RobSeqs /\ ExecSeqs \subseteq RobSeqs
         /\ WbSeqs \subseteq RobSeqs /\ ReadySeqs \subseteq RobSeqs
         /\ WbSeqs \subseteq DoneSeqs
<1>1. /\ IqOK(prog, Tags, Dispatched, Iq.queue, ValidIq)
      /\ ExcOK(Tags, Dispatched, Exc, BusyUnits)
      /\ WbOK(Tags, Dispatched, Wb, stage = "Execute")
  BY DEF TagsOK, BackEndOK
<1>2. RobSeqs = {Tags.seq[t] : t \in Tags.held}
  <2>1. InRob = Tags.held /\ \A t \in Tags.held : Tags.seq[t] = Rob.cqueue[t].seq
    BY RobTagIs, TagsIs
  <2> QED BY <2>1 DEF RobSeqs
<1>3. \A t, q : Holder(Tags, t, q) => q \in RobSeqs
  BY <1>2 DEF Holder
<1>4. IqSeqs \subseteq RobSeqs
  BY <1>1, <1>3 DEF IqSeqs, IqOK, IqEntryOK, Pending
<1>5. ExecSeqs \subseteq RobSeqs
  BY <1>1, <1>3 DEF ExecSeqs, ExcOK, Pending
<1>6. \A u \in Unit : Wb[u].v => Holder(Tags, Wb[u].Rob_tag, Wb[u].seq)
  <2>1. DOMAIN Wb = Unit
    BY AllTypes
  <2> QED BY <1>1, <2>1 DEF WbOK
<1>7. WbSeqs \subseteq RobSeqs
  BY <1>3, <1>6 DEF WbSeqs
<1>8. ReadySeqs \subseteq RobSeqs
  BY <1>2 DEF ReadySeqs
<1>9. WbSeqs \subseteq DoneSeqs
  <2> SUFFICES ASSUME NEW q \in WbSeqs
               PROVE  q \in DoneSeqs
    OBVIOUS
  <2>1. PICK u \in Unit : Wb[u].v /\ q = Wb[u].seq
    BY DEF WbSeqs
  <2>2. Wb[u].Rob_tag \in Tags.held /\ Tags.seq[Wb[u].Rob_tag] = q
    BY <1>6, <2>1 DEF Holder
  <2>3. Wb[u].Rob_tag \in Tags.wb
    <3>1. Tags.wb = WbTags
      BY TagsIs
    <3> QED BY <2>1, <3>1 DEF WbTags
  <2> QED BY <2>2, <2>3, DoneSeqsAre DEF DoneTags
<1> QED BY <1>4, <1>5, <1>7, <1>8, <1>9

(* No two instructions that have a row share one: they are less than the   *)
(* size of the table apart (InfoSize, CPU_OOO's instr_info).               *)
LEMMA RowsAreOwn ==
  ASSUME NEW rd \in 0 .. Len(prog), NEW rn \in 0 .. Len(prog),
         NEW de \in 0 .. Len(prog), NEW fe \in 0 .. Len(prog),
         CoreAt(rd, rn, de, fe)
  PROVE  OwnRows
<1>1. CpuTypeOK /\ TagsOK /\ RobAt(rd, rn, de) /\ MiddleAt(rd, rn)
  BY CoreIs
<1>2. PICK n \in Nat \ {0} : n = InfoSize
  BY LiveIs
<1>3. PICK lo \in Nat : lo = rn - Tags.size
  BY LiveIs
<1>4. \A q \in Live : q \in lo .. lo + n - 1 /\ q \in 0 .. Len(prog) - 1
  <2>1. \A q \in Live : /\ q \in rn - Tags.size .. (rn - Tags.size) + InfoSize - 1
                        /\ q \in 0 .. Len(prog) - 1
    BY LiveIs
  <2> QED BY <1>2, <1>3, <2>1, Zenon
<1>5. \A q \in Live : InfoIdx(q) = q % n
  BY <1>2 DEF InfoIdx
<1>6. \A q \in Live : InfoIdx(q) \in 0 .. n - 1
  <2> TAKE q \in Live
  <2>1. q \in Nat
    BY <1>3, <1>4
  <2>2. q % n \in 0 .. n - 1
    BY <2>1
  <2> QED BY <1>5, <2>2
<1>7. \A p, q \in Live : InfoIdx(p) = InfoIdx(q) => p = q
  BY <1>4, <1>5, ModApart
<1>8. RobSeqs \subseteq Live /\ Seqs(De) \subseteq Live /\ Seqs(Rn) \subseteq Live
  BY DEF Live
<1>9. InStage(2) \subseteq Live /\ InStage(3) \subseteq Live
  <2>1. Slot = 0 .. Width - 1 /\ Width \in Nat /\ DeFrom \in 0 .. Width /\ RnFrom \in 0 .. Width
    BY <1>1, FromsIn, Types, Sizes
  <2>2. DeFrom .. Width - 1 \subseteq Slot /\ RnFrom .. Width - 1 \subseteq Slot
    BY <2>1
  <2>3. InStage(2) \subseteq Seqs(De) /\ InStage(3) \subseteq Seqs(Rn)
    BY <2>2, InStageIs DEF Moving, Seqs
  <2> QED BY <1>8, <2>3
<1>10. InStage(4) \subseteq Live /\ InStage(5) \subseteq Live
  <2>1. /\ InStage(4) = rd .. rn - 1 /\ InStage(5) = Dispatched .. rd - 1
        /\ Dispatched \in Nat /\ RobSeqs = rn - Tags.size .. rn - 1
    BY LatchesAre, LiveIs
  <2>2. rd \in Nat /\ rn \in Nat /\ Tags.size \in Nat
    BY <1>1, Numbers, TagsIs
  <2>3. Dispatched <= rd /\ rd <= rn
    <3>1. /\ DiFrom \in Nat /\ Width \in Nat /\ RrTo \in Nat
          /\ InOrder(Di, DiFrom, Width, Dispatched, rd) /\ InOrder(Rr, 0, RrTo, rd, rn)
      BY <1>1, FromsIn, Sizes, Types DEF MiddleAt
    <3> QED BY <3>1 DEF InOrder
  <2>4. rn <= Tags.size + Dispatched
    BY <1>1 DEF RobAt, RobInOrder
  <2>5. PICK d \in Nat, size \in Nat : d = Dispatched /\ size = Tags.size
    BY <2>1, <2>2
  <2>6. rd .. rn - 1 \subseteq rn - size .. rn - 1 /\ d .. rd - 1 \subseteq rn - size .. rn - 1
    <3>1. rn <= size + d /\ d <= rd /\ rd <= rn
      BY <2>3, <2>4, <2>5, Zenon
    <3>2. rd \in Nat /\ rn \in Nat
      BY <2>2
    <3>3. rn - size <= d
      BY <3>1, <3>2
    <3> QED BY <3>1, <3>2, <3>3
  <2>7. InStage(4) \subseteq RobSeqs /\ InStage(5) \subseteq RobSeqs
    BY <2>1, <2>5, <2>6, Zenon
  <2> QED BY <1>8, <2>7
<1>11. InStage(6) \subseteq Live /\ InStage(7) \subseteq Live /\ InStage(8) \subseteq Live
  BY <1>1, <1>8, BackEndSeqs, InStageIs
<1>12. \A k \in 2 .. 8 : InStage(k) \subseteq Live
  <2>1. 2 .. 8 = {2, 3, 4, 5, 6, 7, 8}
    OBVIOUS
  <2> QED BY <1>9, <1>10, <1>11, <2>1
<1>13. ReadySeqs \subseteq Live
  BY <1>1, <1>8, BackEndSeqs
<1> QED BY <1>2, <1>4, <1>6, <1>7, <1>12, <1>13 DEF OwnRows

(* When a cycle begins no instruction is in two stages, and UpdInfo looks  *)
(* at all of each.                                                         *)
LEMMA StagesApart ==
  ASSUME NEW rd \in 0 .. Len(prog), NEW rn \in 0 .. Len(prog),
         NEW de \in 0 .. Len(prog), NEW fe \in 0 .. Len(prog),
         CoreAt(rd, rn, de, fe), stage = "UpdInfo"
  PROVE  /\ \A n \in 2 .. 8 : FoundIn[Order[n]] = InStage(n)
         /\ \A j, n \in 2 .. 8 : \A q \in InStage(n) : q \in InStage(j) => j = n
<1>1. CpuTypeOK /\ TagsOK /\ RobAt(rd, rn, de) /\ Width \in Nat \ {0} /\ Slot = 0 .. Width - 1
  BY CoreIs, Numbers
<1>2. 2 .. 8 = {2, 3, 4, 5, 6, 7, 8}
  OBVIOUS
<1>3. DiFrom = 0 /\ RrTo = Width /\ RnFrom = 0 /\ DeFrom = 0
  BY FromsIs DEF Calm, Behind, Settled
<1>4. /\ InStage(2) = Seqs(De) /\ InStage(3) = Seqs(Rn) /\ InStage(4) = Seqs(Rr)
      /\ InStage(5) = Seqs(Di) /\ InStage(6) = IqSeqs /\ InStage(7) = ExecSeqs
      /\ InStage(8) = WbSeqs
  <2>1. \A latch : Moving(latch, 0, Width) = Seqs(latch)
    BY <1>1 DEF Moving, Seqs
  <2> QED BY <1>3, <2>1, InStageIs, Zenon
<1>5. \A n \in 2 .. 8 : FoundIn[Order[n]] = InStage(n)
  <2>1. /\ FoundIn["DE"] = Seqs(De) /\ FoundIn["RN"] = Seqs(Rn) /\ FoundIn["RR"] = Seqs(Rr)
        /\ FoundIn["DI"] = Seqs(Di) /\ FoundIn["IS"] = IqSeqs /\ FoundIn["EX"] = ExecSeqs
        /\ FoundIn["WB"] = WbSeqs
    BY DEF FoundIn, IqSeqs, WbSeqs
  <2> QED BY <1>2, <1>4, <2>1, Columns
<1>6. /\ InStage(2) = de .. fe - 1 /\ InStage(3) = rn .. de - 1
      /\ RobSeqs = rn - Tags.size .. rn - 1
      /\ rn \in Nat /\ de \in Nat /\ fe \in Nat /\ rn - Tags.size \in Nat
  <2>1. InStage(2) = de .. fe - 1 /\ InStage(3) = rn .. de - 1
    BY LatchesAre
  <2>2. RobSeqs = rn - Tags.size .. rn - 1 /\ rn - Tags.size \in Nat
    BY LiveIs
  <2>3. rn \in Nat /\ de \in Nat /\ fe \in Nat
    BY <1>1, Numbers
  <2> QED BY <2>1, <2>2, <2>3
<1>7. /\ \A q \in InStage(3) : q \notin RobSeqs /\ q \in Nat
      /\ \A q \in InStage(2) : q \notin InStage(3) /\ q \notin RobSeqs /\ q \in Nat
  <2>1. rn <= de
    BY <1>3, AtUpdInfo DEF InOrder
  <2>2. \A q \in RobSeqs : q < rn /\ q \in Int
    BY <1>6
  <2>3. rn \in Nat /\ de \in Nat
    BY <1>6
  <2>4. \A q \in rn .. de - 1 : rn <= q /\ q < de /\ q \in Nat
    BY <2>3
  <2>5. \A q \in de .. fe - 1 : de <= q /\ q \in Nat
    BY <2>3
  <2>6. \A q \in InStage(3) : rn <= q /\ q < de /\ q \in Nat
    BY <1>6, <2>4, Zenon
  <2>7. \A q \in InStage(2) : de <= q /\ q \in Nat
    BY <1>6, <2>5, Zenon
  <2>8. \A q \in InStage(3) : q \notin RobSeqs
    BY <2>2, <2>3, <2>6
  <2>9. \A q \in InStage(2) : q \notin InStage(3) /\ q \notin RobSeqs
    BY <2>1, <2>2, <2>3, <2>6, <2>7
  <2> QED BY <2>6, <2>7, <2>8, <2>9
<1>0. /\ InStage(4) = rd .. rn - 1 /\ InStage(5) = Dispatched .. rd - 1
      /\ rd \in Nat /\ Dispatched \in Nat
  BY <1>1, LatchesAre, Numbers
<1>8. \A q \in InStage(4) : RrAt(q) /= {} /\ q \in Nat
  <2>1. \A q \in InStage(4) : q \in Nat
    <3>1. PICK lo \in Nat, hi \in Nat : lo = rd /\ hi = rn
      BY <1>0, <1>6
    <3>2. \A q \in lo .. hi - 1 : q \in Nat
      OBVIOUS
    <3> QED BY <1>0, <3>1, <3>2, Zenon
  <2> QED BY <1>4, <2>1 DEF Seqs, RrAt
<1>9. \A q \in InStage(5) : DiAt(q) /= {} /\ q \in Nat
  <2>1. \A q \in InStage(5) : q \in Nat
    <3>1. PICK lo \in Nat, hi \in Nat : lo = Dispatched /\ hi = rd
      BY <1>0, <1>6
    <3>2. \A q \in lo .. hi - 1 : q \in Nat
      OBVIOUS
    <3> QED BY <1>0, <3>1, <3>2, Zenon
  <2> QED BY <1>4, <2>1 DEF Seqs, DiAt
<1>10. \A q \in RobSeqs : q \in Nat
  BY <1>6
<1>11. \A q \in InStage(6) : IqAt(q) /= {} /\ q \in Nat
  BY <1>1, <1>4, <1>10, BackEndSeqs DEF IqSeqs, IqAt
<1>12. \A q \in InStage(7) : ExcAt(q) /= {} /\ q \in Nat
  BY <1>1, <1>4, <1>10, BackEndSeqs DEF ExecSeqs, ExcAt
<1>13. \A q \in InStage(8) : q \in DoneSeqs /\ q \in RobSeqs /\ q \in Nat
  BY <1>1, <1>4, <1>10, BackEndSeqs
<1>14. \A q \in Nat :
         /\ RrAt(q) /= {} => DiAt(q) = {} /\ IqAt(q) = {} /\ ExcAt(q) = {}
         /\ DiAt(q) /= {} => IqAt(q) = {} /\ ExcAt(q) = {}
         /\ IqAt(q) /= {} => ExcAt(q) = {}
         /\ q \notin RobSeqs => /\ RrAt(q) = {} /\ DiAt(q) = {}
                                /\ IqAt(q) = {} /\ ExcAt(q) = {}
         /\ q \in DoneSeqs => /\ RrAt(q) = {} /\ DiAt(q) = {}
                              /\ IqAt(q) = {} /\ ExcAt(q) = {}
  BY PlacesAre
<1>15. \A q : /\ q \in InStage(2) => q \notin InStage(3)
              /\ q \in InStage(2) \cup InStage(3) =>
                   /\ q \notin InStage(4) /\ q \notin InStage(5) /\ q \notin InStage(6)
                   /\ q \notin InStage(7) /\ q \notin InStage(8)
              /\ q \in InStage(4) => /\ q \notin InStage(5) /\ q \notin InStage(6)
                                     /\ q \notin InStage(7) /\ q \notin InStage(8)
              /\ q \in InStage(5) => /\ q \notin InStage(6)
                                     /\ q \notin InStage(7) /\ q \notin InStage(8)
              /\ q \in InStage(6) => q \notin InStage(7) /\ q \notin InStage(8)
              /\ q \in InStage(7) => q \notin InStage(8)
  BY <1>7, <1>8, <1>9, <1>11, <1>12, <1>13, <1>14
<1>16. \A j, n \in 2 .. 8 : \A q \in InStage(n) : q \in InStage(j) => j = n
  <2> TAKE j, n \in 2 .. 8
  <2> TAKE q \in InStage(n)
  <2> HAVE q \in InStage(j)
  <2>1. n \in {2, 3, 4, 5, 6, 7, 8} /\ j \in {2, 3, 4, 5, 6, 7, 8}
    BY <1>2
  <2> QED BY <1>15, <2>1
<1> QED BY <1>5, <1>16

(***************************************************************************)
(* A cycle begins.                                                         *)
(***************************************************************************)
Quiet == {"Read", "UpdInfo", "Retire", "Writeback", "Execute", "Issue", "Dispatch",
          "Advance_Cycle", "End"}

(* Nothing in a latch was handed on.                                       *)
LEMMA QuietIs ==
  /\ stage \in Quiet => DiFrom = 0 /\ RrTo = Width /\ RnFrom = 0 /\ DeFrom = 0
  /\ stage' \in Quiet => DiFrom' = 0 /\ RrTo' = Width' /\ RnFrom' = 0 /\ DeFrom' = 0
  BY DEF Quiet, DiFrom, RrTo, RnFrom, DeFrom, DeMoves

(* A row stays at its index.                                               *)
LEMMA SameIdx ==
  ASSUME params' = params
  PROVE  /\ InfoSize' = InfoSize /\ \A q : InfoIdx(q)' = InfoIdx(q)
         /\ \A q : RowOf(q)' = info'[InfoIdx(q)]
         /\ \A q : RowOf(q) = info[InfoIdx(q)]
         /\ \A q : prog'[q + 1] = prog[q + 1] => Lat(q)' = Lat(q)
  BY SameMachine DEF InfoSize, InfoIdx, RowOf, Lat

(* Who is in the latches, if these and what counts of them stay.           *)
LEMMA LatchesStay ==
  ASSUME UNCHANGED <<params, De, Rn, Rr, Di>>, stage \in Quiet, stage' \in Quiet
  PROVE  /\ InStage(2)' = InStage(2) /\ InStage(3)' = InStage(3)
         /\ InStage(4)' = InStage(4) /\ InStage(5)' = InStage(5)
         /\ Seqs(De)' = Seqs(De) /\ Seqs(Rn)' = Seqs(Rn)
<1>1. Width' = Width /\ Slot' = Slot
  BY SameMachine
<1>2. /\ DiFrom' = DiFrom /\ RrTo' = RrTo /\ RnFrom' = RnFrom /\ DeFrom' = DeFrom
  BY <1>1, QuietIs
<1>3. Seqs(De)' = Seqs(De) /\ Seqs(Rn)' = Seqs(Rn)
  BY <1>1 DEF Seqs
<1>4. /\ Moving(De, DeFrom, Width)' = Moving(De, DeFrom, Width)
      /\ Moving(Rn, RnFrom, Width)' = Moving(Rn, RnFrom, Width)
      /\ Moving(Rr, 0, RrTo)' = Moving(Rr, 0, RrTo)
      /\ Moving(Di, DiFrom, Width)' = Moving(Di, DiFrom, Width)
  BY <1>1, <1>2 DEF Moving
<1> QED BY <1>3, <1>4, InStageIs

(* Who is in the queues and the units, if nothing moves there.             *)
LEMMA QueuesStay ==
  ASSUME UNCHANGED <<params, Iq, Exc, Wb>>
  PROVE  /\ IqSeqs' = IqSeqs /\ ExecSeqs' = ExecSeqs /\ WbSeqs' = WbSeqs
         /\ ValidIq' = ValidIq /\ BusyUnits' = BusyUnits
<1>1. Entry' = Entry /\ Unit' = Unit
  BY SameMachine
<1>2. ValidIq' = ValidIq /\ BusyUnits' = BusyUnits
  BY <1>1 DEF ValidIq, BusyUnits
<1> QED BY <1>1, <1>2 DEF IqSeqs, ExecSeqs, WbSeqs

(* Who is in the reorder buffer, if nothing changes there.                 *)
LEMMA RobStays ==
  ASSUME UNCHANGED <<params, Rob>>
  PROVE  ReadySeqs' = ReadySeqs /\ RobSeqs' = RobSeqs
<1>1. RobSize' = RobSize /\ Tag' = Tag
  BY SameMachine
<1>2. ReadySeqs' = ReadySeqs
  BY ExecuteTags DEF ReadySeqs
<1>3. RobSeqs' = RobSeqs
  BY <1>1 DEF RobSeqs, InRob, RobTag, RobCount
<1> QED BY <1>2, <1>3

(* Of two instructions in the stages one alone enters a row.               *)
LEMMA EntersOwn ==
  ASSUME NEW rd \in 0 .. Len(prog), NEW rn \in 0 .. Len(prog),
         NEW de \in 0 .. Len(prog), NEW fe \in 0 .. Len(prog),
         CoreAt(rd, rn, de, fe), OwnRows, stage = "UpdInfo"
  PROVE  /\ \A j \in 2 .. 8 : \A i : Enters(i, Order[j]) <=>
              info[i].bc[Order[j]] = None /\ \E q \in InStage(j) : InfoIdx(q) = i
         /\ \A n, j \in 2 .. 8 : \A q \in InStage(n) :
              j /= n => ~Enters(InfoIdx(q), Order[j])
<1>1. \A j \in 2 .. 8 : Order[j] /= "FE" /\ FoundIn[Order[j]] = InStage(j)
  <2>1. \A j \in 2 .. 8 : j \in 1 .. 9 /\ j /= 1 /\ 1 \in 1 .. 9
    OBVIOUS
  <2>2. \A j \in 2 .. 8 : Order[j] /= Order[1]
    BY <2>1, Columns
  <2> QED BY <2>2, Columns, StagesApart
<1>2. \A j \in 2 .. 8 : \A i : Enters(i, Order[j]) <=>
        info[i].bc[Order[j]] = None /\ \E q \in InStage(j) : InfoIdx(q) = i
  BY <1>1 DEF Enters
<1>3. ASSUME NEW n \in 2 .. 8, NEW j \in 2 .. 8, NEW q \in InStage(n), j /= n
      PROVE  ~Enters(InfoIdx(q), Order[j])
  <2> SUFFICES ASSUME NEW p \in InStage(j), InfoIdx(p) = InfoIdx(q)
               PROVE  FALSE
    BY <1>2
  <2>1. p = q
    BY DEF OwnRows
  <2> QED BY <1>3, <2>1, StagesApart
<1> QED BY <1>2, <1>3

(* The row of an instruction that is in a stage shows it, from now on.     *)
LEMMA RowCatchesUp ==
  ASSUME NEW rd \in 0 .. Len(prog), NEW rn \in 0 .. Len(prog),
         NEW de \in 0 .. Len(prog), NEW fe \in 0 .. Len(prog),
         CoreAt(rd, rn, de, fe), OwnRows, BeginCycle, UpdInfo,
         InfoTypeOK, RowsFollow, CyclesLeft,
         NEW n \in 2 .. 8, NEW q \in InStage(n)
  PROVE  /\ Begun(q, n)' /\ RowOf(q)' \in RowType
         /\ IF RowOf(q).bc[Order[n]] = None
            THEN RowOf(q)'.bc[Order[n]] = cycle /\ Begun(q, n - 1)
            ELSE RowOf(q)' = RowOf(q)
<1> DEFINE i == InfoIdx(q)
<1>1. /\ stage = "UpdInfo" /\ stage' = "Retire" /\ params' = params /\ prog' = prog
      /\ cycle' = cycle /\ cycle \in Nat /\ None \notin Nat
  BY CpuAssumption DEF BeginCycle, GoTo, mainVars, UpdInfo, InfoTypeOK
<1>2. When = 13 /\ When' = 1
  BY <1>1, WhenIs DEF When
<1>3. /\ i \in 0 .. InfoSize - 1 /\ RowOf(q) = info[i] /\ RowOf(q)' = info'[i]
      /\ Lat(q)' = Lat(q) /\ info[i] \in RowType
  <2>1. i \in 0 .. InfoSize - 1
    BY DEF OwnRows
  <2> QED BY <1>1, <2>1, SameIdx DEF InfoTypeOK
<1>4. \A j \in 2 .. 8 : j /= n => ~Enters(i, Order[j])
  BY <1>1, EntersOwn
<1>5. Begun(q, n) \/ Begun(q, n - 1)
  BY DEF RowsFollow, Entered
<1>6. CASE Begun(q, n)
  <2>1. FilledRow(info[i], q, n, Lat(q)) /\ info[i].bc[Order[n]] \in Nat
        /\ info[i].bc[Order[n]] <= cycle
    <3>1. FilledRow(info[i], q, n, Lat(q)) /\ info[i].bc[Order[n]] <= cycle
      BY <1>3, <1>6 DEF Begun
    <3>2. n \in 1 .. n
      OBVIOUS
    <3> QED BY <3>1, <3>2 DEF FilledRow
  <2>2. ~Enters(i, Order[n])
    BY <1>1, <2>1, EntersOwn
  <2>3. info'[i] = info[i]
    BY <1>3, <1>4, <2>2, RowStays
  <2>4. Begun(q, n)'
    <3>1. /\ FilledRow(RowOf(q)', q, n, Lat(q)') /\ RowOf(q)'.bc[Order[n]] <= cycle'
          /\ When' /= 13
      BY <1>1, <1>2, <1>3, <2>1, <2>3
    <3> QED BY <3>1 DEF Begun, FilledRow
  <2> QED BY <1>1, <1>3, <2>1, <2>3, <2>4
<1>7. CASE ~Begun(q, n)
  <2>1. /\ FilledRow(info[i], q, n - 1, Lat(q)) /\ Begun(q, n - 1)
        /\ info[i].bc[Order[n - 1]] < cycle
    BY <1>2, <1>3, <1>5, <1>7 DEF Begun
  <2>2. info[i].bc[Order[n]] = None /\ info[i].bc[Order[n - 1]] \in Nat
    <3>1. n \in (n - 1) + 1 .. 8 /\ n - 1 \in 1 .. n - 1
      OBVIOUS
    <3> QED BY <2>1, <3>1 DEF FilledRow
  <2>3. Enters(i, Order[n])
    BY <1>1, <2>2, EntersOwn
  <2>4. n = 8 => cycle - info[i].bc["EX"] = Lat(q)
    <3> SUFFICES ASSUME n = 8
                 PROVE  cycle - info[i].bc["EX"] = Lat(q)
      OBVIOUS
    <3>1. Order[n - 1] = "EX" /\ Order[n] = "WB"
      BY Columns
    <3>2. q \in WbSeqs /\ RowOf(q).bc["WB"] = None
      BY <1>3, <2>2, <3>1, InStageIs
    <3>3. Left(q, 0)
      BY <3>2 DEF CyclesLeft
    <3>4. info[i].bc["EX"] \in Nat
      BY <2>2, <3>1
    <3>5. Clock = cycle
      BY <1>2 DEF Clock
    <3>6. 0 + (cycle - info[i].bc["EX"]) = Lat(q)
      BY <1>1, <1>3, <3>3, <3>4, <3>5 DEF Left
    <3> QED BY <1>1, <3>4, <3>6
  <2>5. /\ FilledRow(info'[i], q, n, Lat(q))
        /\ info'[i].bc[Order[n]] = cycle /\ info'[i] \in RowType
    BY <1>3, <1>4, <2>1, <2>3, <2>4, RowGrows
  <2>6. Begun(q, n)'
    <3>1. /\ FilledRow(RowOf(q)', q, n, Lat(q)') /\ RowOf(q)'.bc[Order[n]] <= cycle'
          /\ When' /= 13
      BY <1>1, <1>2, <1>3, <2>5
    <3> QED BY <3>1 DEF Begun, FilledRow
  <2> QED BY <1>3, <2>1, <2>2, <2>5, <2>6
<1> QED BY <1>6, <1>7

(* UpdInfo as a whole: the start of a cycle keeps the invariant.           *)
LEMMA UpdInfoKeeps ==
  ASSUME NEW rd \in 0 .. Len(prog), NEW rn \in 0 .. Len(prog),
         NEW de \in 0 .. Len(prog), NEW fe \in 0 .. Len(prog),
         CoreAt(rd, rn, de, fe), OwnRows, TimedInv, BeginCycle, UpdInfo
  PROVE  TimedInv'
<1>1. /\ stage = "UpdInfo" /\ stage' = "Retire"
      /\ UNCHANGED <<params, prog, De, Rn, Rr, Di, Rob, Iq, Exc, Wb, done_flag, loop>>
      /\ UNCHANGED <<cycle, last_cycle, last_seq>>
      /\ cycle \in Nat /\ None \notin Nat
  BY CpuAssumption DEF BeginCycle, GoTo, mainVars, frontVars, UpdInfo, TimedInv, InfoTypeOK
<1>2. When = 13 /\ When' = 1
  BY <1>1, WhenIs DEF When
<1>3. InfoTypeOK /\ RowsFollow /\ CyclesLeft /\ OthersBlank /\ OpsKept /\ TotalsKept /\ CpuTypeOK
  BY CoreIs DEF TimedInv
<1>4. /\ IqSeqs' = IqSeqs /\ ExecSeqs' = ExecSeqs /\ WbSeqs' = WbSeqs
      /\ ReadySeqs' = ReadySeqs /\ Live' = Live
      /\ ValidIq' = ValidIq /\ BusyUnits' = BusyUnits
      /\ \A n \in 2 .. 8 : InStage(n)' = InStage(n)
  <2>1. /\ IqSeqs' = IqSeqs /\ ExecSeqs' = ExecSeqs /\ WbSeqs' = WbSeqs
        /\ ReadySeqs' = ReadySeqs /\ RobSeqs' = RobSeqs
        /\ ValidIq' = ValidIq /\ BusyUnits' = BusyUnits
    BY <1>1, QueuesStay, RobStays
  <2>2. /\ InStage(2)' = InStage(2) /\ InStage(3)' = InStage(3)
        /\ InStage(4)' = InStage(4) /\ InStage(5)' = InStage(5)
        /\ Seqs(De)' = Seqs(De) /\ Seqs(Rn)' = Seqs(Rn)
    BY <1>1, LatchesStay DEF Quiet
  <2>3. \A n \in 2 .. 8 : n \in {2, 3, 4, 5, 6, 7, 8}
    OBVIOUS
  <2>4. InStage(6)' = InStage(6) /\ InStage(7)' = InStage(7) /\ InStage(8)' = InStage(8)
    BY <2>1, InStageIs
  <2>5. \A n \in 2 .. 8 : InStage(n)' = InStage(n)
    BY <2>2, <2>3, <2>4
  <2>6. Live' = Live
    BY <2>1, <2>2 DEF Live
  <2> QED BY <2>1, <2>5, <2>6
<1>5. \A n \in 2 .. 8 : \A q \in InStage(n) :
        /\ Begun(q, n)' /\ RowOf(q)' \in RowType
        /\ IF RowOf(q).bc[Order[n]] = None
           THEN RowOf(q)'.bc[Order[n]] = cycle /\ Begun(q, n - 1)
           ELSE RowOf(q)' = RowOf(q)
  BY <1>3, RowCatchesUp
<1>6. /\ InfoSize' = InfoSize /\ \A q : InfoIdx(q)' = InfoIdx(q)
      /\ \A q : RowOf(q)' = info'[InfoIdx(q)] /\ RowOf(q) = info[InfoIdx(q)]
      /\ \A q : Lat(q)' = Lat(q)
  BY <1>1, SameIdx
<1>7. \A q \in ReadySeqs : RowOf(q)' = RowOf(q)
  <2> TAKE q \in ReadySeqs
  <2>1. InfoIdx(q) \in 0 .. InfoSize - 1
    BY DEF OwnRows
  <2>2. \A j \in 2 .. 8 : RowOf(q).bc[Order[j]] \in Nat
    <3>1. FilledRow(RowOf(q), q, 8, Lat(q))
      BY <1>3 DEF RowsFollow, Begun
    <3>2. \A j \in 2 .. 8 : j \in 1 .. 8
      OBVIOUS
    <3> QED BY <3>1, <3>2 DEF FilledRow
  <2>3. \A j \in 2 .. 8 : ~Enters(InfoIdx(q), Order[j])
    <3> TAKE j \in 2 .. 8
    <3>1. info[InfoIdx(q)].bc[Order[j]] /= None
      BY <1>1, <1>6, <2>2
    <3> QED BY <3>1 DEF Enters
  <2> QED BY <1>3, <1>6, <2>1, <2>3, RowStays
<1>8. RowsFollow'
  <2>1. \A n \in 2 .. 8 : \A q \in InStage(n)' : Entered(q, n)'
    BY <1>4, <1>5 DEF Entered
  <2>2. ASSUME NEW q \in ReadySeqs'
        PROVE  Begun(q, 8)' /\ RowOf(q)'.bc.WB < cycle'
    <3>1. q \in ReadySeqs /\ RowOf(q)' = RowOf(q)
      BY <1>4, <1>7
    <3>2. /\ FilledRow(RowOf(q), q, 8, Lat(q)) /\ RowOf(q).bc[Order[8]] <= cycle
          /\ RowOf(q).bc[Order[8]] < cycle
      BY <1>2, <1>3, <3>1 DEF RowsFollow, Begun
    <3>3. FilledRow(RowOf(q)', q, 8, Lat(q)') /\ RowOf(q)'.bc[Order[8]] <= cycle'
      BY <1>1, <1>6, <3>1, <3>2
    <3>4. RowOf(q)'.bc.WB < cycle'
      BY <1>1, <3>1, <3>2, Columns
    <3> QED BY <1>2, <3>3, <3>4 DEF Begun, FilledRow
  <2> QED BY <2>1, <2>2 DEF RowsFollow
<1>9. CyclesLeft'
  <2>1. Clock = cycle /\ Clock' = cycle
    BY <1>1, <1>2 DEF Clock
  <2>2. ASSUME NEW u \in BusyUnits'
        PROVE  Left(Exc[u].seq, Exc[u].cnt)'
    <3>1. PICK q : q = Exc[u].seq
      OBVIOUS
    <3>2. u \in BusyUnits /\ q \in InStage(7) /\ Exc'[u].seq = q /\ Exc'[u].cnt = Exc[u].cnt
      BY <1>1, <1>4, <3>1, InStageIs DEF ExecSeqs
    <3>3. Exc[u].cnt \in Nat
      <4>1. u \in Unit
        BY <3>2 DEF BusyUnits
      <4> QED BY <1>3, <3>2, <4>1, UnitsAre
    <3>4. Left(q, Exc[u].cnt)
      BY <1>3, <3>1, <3>2 DEF CyclesLeft
    <3>5. Order[7] = "EX" /\ 7 \in 2 .. 8
      BY Columns
    <3>6. CASE RowOf(q).bc["EX"] = None
      <4>1. Exc[u].cnt = Lat(q)
        BY <3>4, <3>6 DEF Left
      <4>2. RowOf(q)'.bc["EX"] = cycle
        BY <1>5, <3>2, <3>5, <3>6
      <4>3. Exc[u].cnt + (cycle - cycle) = Lat(q)'
        BY <1>1, <1>6, <3>3, <4>1
      <4> QED BY <1>1, <2>1, <3>2, <4>2, <4>3 DEF Left
    <3>7. CASE RowOf(q).bc["EX"] /= None
      <4>1. RowOf(q)' = RowOf(q)
        BY <1>5, <3>2, <3>5, <3>7
      <4>2. Exc[u].cnt + (cycle - RowOf(q).bc["EX"]) = Lat(q)
        BY <2>1, <3>4, <3>7 DEF Left
      <4> QED BY <1>6, <2>1, <3>2, <3>7, <4>1, <4>2 DEF Left
    <3> QED BY <3>6, <3>7
  <2>3. ASSUME NEW q \in WbSeqs'
        PROVE  RowOf(q)'.bc.WB /= None
    <3>1. Begun(q, 8)'
      BY <1>4, <1>5, InStageIs
    <3>2. RowOf(q)'.bc[Order[8]] \in Nat
      <4>1. FilledRow(RowOf(q)', q, 8, Lat(q)')
        BY <3>1 DEF Begun, FilledRow
      <4> QED BY <4>1 DEF FilledRow
    <3> QED BY <1>1, <3>2, Columns
  <2> QED BY <2>2, <2>3 DEF CyclesLeft
<1>10. ASSUME NEW i \in 0 .. InfoSize - 1
       PROVE  info'[i] \in RowType /\ ((\A q \in Live : InfoIdx(q) /= i) => info'[i] = info[i])
  <2>1. CASE \E j \in 2 .. 8 : Enters(i, Order[j])
    <3>1. PICK j \in 2 .. 8 : Enters(i, Order[j])
      BY <2>1
    <3>2. PICK q \in InStage(j) : InfoIdx(q) = i
      BY <1>1, <3>1, EntersOwn
    <3>3. q \in Live
      BY <3>2 DEF OwnRows
    <3> QED BY <1>5, <1>6, <3>2, <3>3
  <2>2. CASE ~\E j \in 2 .. 8 : Enters(i, Order[j])
    BY <1>3, <2>2, RowStays DEF InfoTypeOK
  <2> QED BY <2>1, <2>2
<1>11. InfoTypeOK'
  <2>1. info' = [i \in 0 .. InfoSize - 1 |-> info'[i]]
    BY <1>3 DEF UpdInfo, InfoTypeOK
  <2> QED BY <1>1, <1>6, <1>10, <2>1 DEF InfoTypeOK
<1>12. OthersBlank'
  BY <1>3, <1>4, <1>6, <1>10 DEF OthersBlank
<1>13. OpsKept' /\ TotalsKept'
  <2>1. Slot' = Slot /\ Width' = Width /\ RobSize' = RobSize
    BY <1>1, SameMachine
  <2> QED BY <1>1, <1>3, <1>4, <2>1 DEF OpsKept, OpsOf, TotalsKept
<1> QED BY <1>8, <1>9, <1>11, <1>12, <1>13 DEF TimedInv

(***************************************************************************)
(* The stages of a cycle: instructions move on, rows wait for UpdInfo.     *)
(***************************************************************************)
Advances(q, n) ==
  \/ q \in InStage(n)
  \/ n > 2 /\ q \in InStage(n - 1) /\ ~Moved(n - 1) /\ Moved(n)'

NowDone(q) == q \in ReadySeqs \/ (q \in WbSeqs /\ ~Moved(8) /\ When' > 2)

TimeGoesOn ==
  /\ params' = params /\ cycle \in Nat /\ cycle' \in {cycle, cycle + 1}
  /\ stage \in Stages /\ stage' \in Stages
  /\ When <= When' /\ (When' = 13 => When = 13 \/ cycle' = cycle + 1)

RowKept(q) == RowOf(q)' = RowOf(q) /\ prog'[q + 1] = prog[q + 1]

(* A stage that leaves a row alone leaves what has begun in it.            *)
LEMMA BegunKept ==
  ASSUME TimeGoesOn, NEW q, RowKept(q), NEW n \in 1 .. 8, Begun(q, n)
  PROVE  Begun(q, n)'
<1>1. Lat(q)' = Lat(q)
  BY SameIdx DEF TimeGoesOn, RowKept
<1>2. n \in 1 .. n
  OBVIOUS
<1>3. FilledRow(RowOf(q), q, n, Lat(q)) /\ RowOf(q).bc[Order[n]] \in Nat
  BY <1>2 DEF Begun, FilledRow
<1>4. FilledRow(RowOf(q)', q, n, Lat(q)')
  BY <1>1, <1>3 DEF RowKept
<1>5. RowOf(q)'.bc[Order[n]] <= cycle' /\ (When' = 13 => RowOf(q)'.bc[Order[n]] < cycle')
  BY <1>3 DEF Begun, RowKept, TimeGoesOn
<1> QED BY <1>4, <1>5 DEF Begun, FilledRow

(* Once a stage has handed on in a cycle, it has until the next UpdInfo.   *)
LEMMA MovedKept ==
  ASSUME TimeGoesOn, NEW n \in 2 .. 8, Moved(n)
  PROVE  Moved(n)'
<1>1. When \in Nat /\ When' \in Nat /\ When <= When'
  BY WhenIs DEF TimeGoesOn, When
<1> QED BY <1>1 DEF Moved

(* An instruction that moves one stage on, with its row left alone, is     *)
(* where its row says.                                                     *)
LEMMA EnteredKept ==
  ASSUME TimeGoesOn, RowsFollow, NEW n \in 2 .. 8, NEW q, RowKept(q), Advances(q, n)
  PROVE  Entered(q, n)'
<1>1. CASE q \in InStage(n)
  <2>1. Begun(q, n) \/ (Moved(n) /\ Begun(q, n - 1))
    BY <1>1 DEF RowsFollow, Entered
  <2>2. n \in 1 .. 8 /\ n - 1 \in 1 .. 8
    OBVIOUS
  <2>3. Begun(q, n)' \/ (Moved(n)' /\ Begun(q, n - 1)')
    BY <2>1, <2>2, BegunKept, MovedKept
  <2> QED BY <2>3 DEF Entered
<1>2. CASE n > 2 /\ q \in InStage(n - 1) /\ ~Moved(n - 1) /\ Moved(n)'
  <2>1. n - 1 \in 2 .. 8 /\ n - 1 \in 1 .. 8
    BY <1>2
  <2>2. Begun(q, n - 1)
    BY <1>2, <2>1 DEF RowsFollow, Entered
  <2>3. Begun(q, n - 1)'
    BY <2>1, <2>2, BegunKept
  <2> QED BY <1>2, <2>3 DEF Entered
<1> QED BY <1>1, <1>2 DEF Advances

(* An instruction that becomes ready to retire has its write-back row.     *)
LEMMA ReadyKept ==
  ASSUME TimeGoesOn, RowsFollow, NEW q, RowKept(q), NowDone(q)
  PROVE  Begun(q, 8)' /\ (When' <= 2 => RowOf(q)'.bc.WB < cycle')
<1>1. When \in Nat /\ When' \in Nat /\ When <= When'
  BY WhenIs DEF TimeGoesOn, When
<1>2. 8 \in 1 .. 8 /\ 8 \in 2 .. 8
  OBVIOUS
<1>3. CASE q \in ReadySeqs
  <2>1. Begun(q, 8) /\ (When <= 2 => RowOf(q).bc.WB < cycle)
    BY <1>3 DEF RowsFollow
  <2>2. Begun(q, 8)' /\ RowOf(q).bc["WB"] \in Nat
    <3>1. FilledRow(RowOf(q), q, 8, Lat(q))
      BY <2>1 DEF Begun
    <3>2. RowOf(q).bc[Order[8]] \in Nat
      BY <1>2, <3>1 DEF FilledRow
    <3> QED BY <1>2, <2>1, <3>2, BegunKept, Columns
  <2>3. When' <= 2 => RowOf(q)'.bc.WB < cycle'
    BY <1>1, <2>1, <2>2 DEF RowKept, TimeGoesOn
  <2> QED BY <2>2, <2>3
<1>4. CASE q \in WbSeqs /\ ~Moved(8) /\ When' > 2
  <2>1. Begun(q, 8)
    BY <1>2, <1>4, InStageIs DEF RowsFollow, Entered
  <2> QED BY <1>1, <1>2, <1>4, <2>1, BegunKept
<1> QED BY <1>3, <1>4 DEF NowDone

(* The table and the time stay.                                            *)
LEMMA TimedStays ==
  ASSUME TimeGoesOn, UNCHANGED reportVars, TimedInv, OwnRows,
         Len(prog) \in Nat, \A m \in 1 .. Len(prog) : prog'[m] = prog[m],
         \A n \in 2 .. 8 : \A q \in InStage(n)' : Advances(q, n),
         \A q \in ReadySeqs' : NowDone(q),
         Live \subseteq Live', OpsKept', CyclesLeft',
         done_flag' = done_flag, loop' = loop,
         \/ stage = "Read"
         \/ /\ stage \notin {"Read", "UpdInfo", "End"} /\ prog' = prog
            /\ stage' \notin {"Read", "UpdInfo", "End"}
  PROVE  TimedInv'
<1>1. /\ InfoTypeOK /\ RowsFollow /\ OthersBlank /\ TotalsKept
      /\ params' = params /\ info' = info /\ cycle' = cycle
      /\ last_cycle' = last_cycle /\ last_seq' = last_seq
  BY DEF TimedInv, TimeGoesOn, reportVars
<1>2. /\ InfoSize' = InfoSize /\ \A q : InfoIdx(q)' = InfoIdx(q)
      /\ \A q : RowOf(q)' = RowOf(q)
  BY <1>1, SameIdx
<1>3. \A q \in Live : RowKept(q)
  <2> TAKE q \in Live
  <2>1. q \in 0 .. Len(prog) - 1
    BY DEF OwnRows
  <2>2. q + 1 \in 1 .. Len(prog)
    BY <2>1
  <2> QED BY <1>2, <2>2 DEF RowKept
<1>4. InfoTypeOK'
  BY <1>1, <1>2 DEF InfoTypeOK
<1>5. RowsFollow'
  <2>1. ASSUME NEW n \in 2 .. 8, NEW q \in InStage(n)'
        PROVE  Entered(q, n)'
    <3>1. Advances(q, n)
      OBVIOUS
    <3>2. q \in Live
      <4>1. n > 2 => n - 1 \in 2 .. 8
        OBVIOUS
      <4> QED BY <3>1, <4>1 DEF Advances, OwnRows
    <3> QED BY <1>1, <1>3, <3>1, <3>2, EnteredKept
  <2>2. ASSUME NEW q \in ReadySeqs'
        PROVE  Begun(q, 8)' /\ (When' <= 2 => RowOf(q)'.bc.WB < cycle')
    <3>1. NowDone(q)
      OBVIOUS
    <3>2. q \in Live
      BY <3>1, InStageIs DEF NowDone, OwnRows
    <3> QED BY <1>1, <1>3, <3>1, <3>2, ReadyKept
  <2> QED BY <2>1, <2>2 DEF RowsFollow
<1>6. OthersBlank'
  BY <1>1, <1>2 DEF OthersBlank
<1>7. TotalsKept'
  <2>1. Width' = Width /\ RobSize' = RobSize
    BY <1>1, SameMachine
  <2>2. CASE stage = "Read"
    BY <1>1, <2>1, <2>2 DEF TotalsKept
  <2>3. CASE /\ stage \notin {"Read", "UpdInfo", "End"} /\ prog' = prog
             /\ stage' \notin {"Read", "UpdInfo", "End"}
    BY <1>1, <2>1, <2>3 DEF TotalsKept
  <2> QED BY <2>2, <2>3
<1> QED BY <1>4, <1>5, <1>6, <1>7 DEF TimedInv

(* A set that stays, and the units' cycles, if no unit is touched.         *)
LEMMA UnitsStay ==
  ASSUME UNCHANGED <<params, Exc, Wb>>, Clock' = Clock, CyclesLeft,
         \A q \in ExecSeqs \cup WbSeqs : RowKept(q)
  PROVE  CyclesLeft'
<1>1. BusyUnits' = BusyUnits /\ WbSeqs' = WbSeqs
  <2>1. Unit' = Unit
    BY SameMachine
  <2> QED BY <2>1 DEF BusyUnits, WbSeqs
<1>2. \A q \in ExecSeqs \cup WbSeqs : \A cnt : Left(q, cnt) => Left(q, cnt)'
  <2> TAKE q \in ExecSeqs \cup WbSeqs
  <2>1. RowOf(q)' = RowOf(q) /\ Lat(q)' = Lat(q)
    BY SameIdx DEF RowKept
  <2> QED BY <2>1 DEF Left
<1>3. ASSUME NEW u \in BusyUnits'
      PROVE  Left(Exc[u].seq, Exc[u].cnt)'
  <2>1. PICK q, cnt : q = Exc[u].seq /\ cnt = Exc[u].cnt
    OBVIOUS
  <2>2. Left(q, cnt) /\ q \in ExecSeqs /\ Exc'[u].seq = q /\ Exc'[u].cnt = cnt
    BY <1>1, <2>1 DEF CyclesLeft, ExecSeqs
  <2>3. Left(q, cnt)'
    BY <1>2, <2>2
  <2> QED BY <2>2, <2>3 DEF Left, RowOf, Lat, InfoIdx
<1>4. ASSUME NEW q \in WbSeqs', RowOf(q)'.bc.WB = None
      PROVE  Left(q, 0)'
  BY <1>1, <1>2, <1>4 DEF CyclesLeft, RowKept
<1> QED BY <1>3, <1>4 DEF CyclesLeft

(* The operations, if the latches behind Rename and the queue stay.        *)
LEMMA OpsStay ==
  ASSUME UNCHANGED <<params, prog, Rr, Di, Iq>>, OpsKept
  PROVE  OpsKept'
<1>1. Slot' = Slot /\ ValidIq' = ValidIq
  BY SameMachine DEF ValidIq
<1> QED BY <1>1 DEF OpsKept, OpsOf

(***************************************************************************)
(* What the stages are told of the state they start from and end in.       *)
(***************************************************************************)
Own(rn) ==
  /\ CpuTypeOK /\ OwnRows
  /\ rn \in Nat /\ rn - Tags.size \in Nat /\ RobSeqs = rn - Tags.size .. rn - 1
  /\ 2 * Width <= RobSize /\ done_flag =>
       loop = "drain" /\ rn = Len(prog) /\ Tags.size = 0

(* What the core invariant says of the rows, for the next state as well.   *)
LEMMA OwnIs == \A rn : CoreFor(rn) => Own(rn)
<1> SUFFICES ASSUME NEW rn, CoreFor(rn)
             PROVE  Own(rn)
  OBVIOUS
<1>1. PICK rd, de, fe \in 0 .. Len(prog) : CoreAt(rd, rn, de, fe)
  BY DEF CoreFor
<1>2. rn \in 0 .. Len(prog)
  BY DEF CoreFor
<1>3. CpuTypeOK /\ OwnRows
  BY <1>1, <1>2, RowsAreOwn DEF CoreAt
<1>4. rn \in Nat
  BY <1>1, <1>2, <1>3, Numbers
<1>5. rn - Tags.size \in Nat /\ RobSeqs = rn - Tags.size .. rn - 1
  BY <1>1, <1>2, LiveIs
<1>6. 2 * Width <= RobSize /\ done_flag =>
        loop = "drain" /\ rn = Len(prog) /\ Tags.size = 0
  BY <1>1 DEF CoreAt, TraceOrder, Refilled
<1> QED BY <1>3, <1>4, <1>5, <1>6 DEF Own

(* The parts of the invariants that a stage starts from.                   *)
LEMMA AtStage ==
  ASSUME NEW rd \in 0 .. Len(prog), NEW rn \in 0 .. Len(prog),
         NEW de \in 0 .. Len(prog), NEW fe \in 0 .. Len(prog),
         CoreAt(rd, rn, de, fe), TimedInv
  PROVE  /\ CpuTypeOK /\ IqIsRecord /\ FrontAt(rn, de, fe) /\ MiddleAt(rd, rn)
         /\ RobAt(rd, rn, de) /\ TagsOK /\ IqHasRoom
         /\ InfoTypeOK /\ RowsFollow /\ CyclesLeft /\ OthersBlank /\ OpsKept
         /\ TotalsKept
         /\ cycle \in Nat /\ stage \in Stages /\ slot \in Slot /\ params \in Params
         /\ Len(prog) \in Nat /\ Width \in Nat \ {0} /\ Slot = 0 .. Width - 1
         /\ None \notin Nat
         /\ RobInOrder(prog, Tags, Dispatched, rn)
  BY CoreIs, Types, Sizes DEF TimedInv, InfoTypeOK, RobAt

(* Stages by number.                                                       *)
LEMMA Stays ==
  ASSUME \A n \in {2, 3, 4, 5, 6, 7, 8} : InStage(n)' \subseteq InStage(n)
  PROVE  \A n \in 2 .. 8 : \A q \in InStage(n)' : Advances(q, n)
<1>1. \A n \in 2 .. 8 : n \in {2, 3, 4, 5, 6, 7, 8}
  OBVIOUS
<1> QED BY <1>1 DEF Advances

(* Every instruction that has a row keeps it.                              *)
LEMMA RowsKept ==
  ASSUME OwnRows, Len(prog) \in Nat, params' = params, info' = info,
         \A m \in 1 .. Len(prog) : prog'[m] = prog[m]
  PROVE  /\ \A q \in Live : RowKept(q)
         /\ \A q \in ExecSeqs \cup WbSeqs : RowKept(q)
<1>1. \A q \in Live : RowKept(q)
  <2> TAKE q \in Live
  <2>1. q \in 0 .. Len(prog) - 1
    BY DEF OwnRows
  <2>2. q + 1 \in 1 .. Len(prog)
    BY <2>1
  <2> QED BY <2>2, SameIdx DEF RowKept
<1>2. 7 \in 2 .. 8 /\ 8 \in 2 .. 8
  OBVIOUS
<1>3. ExecSeqs \subseteq Live /\ WbSeqs \subseteq Live
  BY <1>2, InStageIs DEF OwnRows
<1> QED BY <1>1, <1>3

(***************************************************************************)
(* Writeback: what stands in Wb is ready now.                              *)
(***************************************************************************)
LEMMA WritebackTimed ==
  ASSUME NEW rd \in 0 .. Len(prog), NEW rn \in 0 .. Len(prog),
         NEW de \in 0 .. Len(prog), NEW fe \in 0 .. Len(prog),
         CoreAt(rd, rn, de, fe), Own(rn), Own(rn)', TimedInv,
         Writeback, UNCHANGED reportVars
  PROVE  TimedInv'
<1>1. /\ stage = "Writeback" /\ stage' = "Execute" /\ Rob' = SetRdy(Rob, WbTags)
      /\ UNCHANGED <<params, prog, De, Rn, Rr, Di, Iq, Exc, Wb, done_flag, loop>>
      /\ UNCHANGED <<cycle, info, last_cycle, last_seq>>
  BY DEF Writeback, GoTo, mainVars, frontVars, reportVars
<1>2. When = 2 /\ When' = 3
  BY <1>1, WhenIs DEF When
<1>3. /\ CpuTypeOK /\ TagsOK /\ CyclesLeft /\ OpsKept /\ cycle \in Nat
      /\ Len(prog) \in Nat /\ OwnRows
  BY AtStage DEF Own
<1>4. TimeGoesOn
  BY <1>1, <1>2, <1>3, StagesIs DEF TimeGoesOn
<1>5. /\ Tags'.size = Tags.size /\ Tags'.held = Tags.held /\ Tags'.seq = Tags.seq
      /\ Tags'.ready = Tags.ready \cup Tags.wb
  BY <1>1, <1>3, WritebackTags
<1>6. /\ IqSeqs' = IqSeqs /\ ExecSeqs' = ExecSeqs /\ WbSeqs' = WbSeqs
  BY <1>1, QueuesStay
<1>7. /\ InStage(2)' = InStage(2) /\ InStage(3)' = InStage(3)
      /\ InStage(4)' = InStage(4) /\ InStage(5)' = InStage(5)
      /\ Seqs(De)' = Seqs(De) /\ Seqs(Rn)' = Seqs(Rn)
  BY <1>1, LatchesStay DEF Quiet
<1>8. Live' = Live
  BY <1>5, <1>7 DEF Own, Live
<1>9. \A n \in 2 .. 8 : \A q \in InStage(n)' : Advances(q, n)
  BY <1>6, <1>7, InStageIs, Stays
<1>10. ASSUME NEW q \in ReadySeqs'
       PROVE  NowDone(q)
  <2>1. PICK t \in Tags.held : t \in Tags.ready \cup Tags.wb /\ q = Tags.seq[t]
    BY <1>5 DEF ReadySeqs
  <2>2. CASE t \in Tags.ready
    BY <2>1, <2>2 DEF ReadySeqs, NowDone
  <2>3. CASE t \in Tags.wb
    <3>1. PICK u \in Unit : Wb[u].v /\ t = Wb[u].Rob_tag
      <4>1. t \in WbTags
        BY <1>3, <2>3, TagsIs
      <4> QED BY <4>1 DEF WbTags
    <3>2. Holder(Tags, t, Wb[u].seq)
      <4>1. DOMAIN Wb = Unit
        BY <1>3, AllTypes
      <4> QED BY <1>3, <3>1, <4>1 DEF TagsOK, BackEndOK, WbOK
    <3>3. q \in WbSeqs
      BY <2>1, <3>1, <3>2 DEF Holder, WbSeqs
    <3>4. ~Moved(8) /\ When' > 2
      BY <1>2 DEF Moved
    <3> QED BY <3>3, <3>4 DEF NowDone
  <2> QED BY <2>1, <2>2, <2>3
<1>11. CyclesLeft'
  <2>1. Clock' = Clock
    BY <1>1, <1>2 DEF Clock
  <2>2. \A q \in ExecSeqs \cup WbSeqs : RowKept(q)
    BY <1>1, <1>3, RowsKept
  <2> QED BY <1>1, <1>3, <2>1, <2>2, UnitsStay
<1>12. OpsKept'
  BY <1>1, <1>3, OpsStay
<1> QED BY <1>1, <1>3, <1>4, <1>8, <1>9, <1>10, <1>11, <1>12, TimedStays

(***************************************************************************)
(* Execute: a unit counts down, and one that comes to zero is written back *)
(* next.                                                                   *)
(***************************************************************************)
LEMMA WokenOp ==
  ASSUME NEW e \in IqReg, NEW tags
  PROVE  Woken(e, tags).op = e.op
  BY DEF Woken, IqReg, IqRegOf

(* Execute: the units count down, and a result is ready when the count     *)
(* is out (CPU_OOO::Execute, cpu.cc).                                      *)
LEMMA ExecuteTimed ==
  ASSUME NEW rd \in 0 .. Len(prog), NEW rn \in 0 .. Len(prog),
         NEW de \in 0 .. Len(prog), NEW fe \in 0 .. Len(prog),
         CoreAt(rd, rn, de, fe), Own(rn), TimedInv,
         Execute, UNCHANGED reportVars
  PROVE  TimedInv'
<1>1. /\ stage = "Execute" /\ stage' = "Issue" /\ Exc' = DecCnt(Exc)
      /\ Iq' = Update(Iq, {Exc'[u].dst_tag : u \in Done(Exc')})
      /\ Wb' = [u \in Unit |->
              IF u \in Done(Exc')
              THEN [v |-> TRUE, seq |-> Exc'[u].seq, Rob_tag |-> Exc'[u].dst_tag]
              ELSE [v |-> FALSE, seq |-> 0, Rob_tag |-> 0]]
      /\ UNCHANGED <<params, prog, De, Rn, Rr, Di, Rob, done_flag, loop>>
      /\ UNCHANGED <<cycle, info, last_cycle, last_seq>>
  BY DEF Execute, GoTo, mainVars, frontVars, reportVars
<1>2. When = 3 /\ When' = 4
  BY <1>1, WhenIs DEF When
<1>3. /\ CpuTypeOK /\ IqIsRecord /\ CyclesLeft /\ RowsFollow /\ OpsKept /\ cycle \in Nat
      /\ Len(prog) \in Nat /\ OwnRows /\ None \notin Nat
  BY AtStage DEF Own
<1>4. TimeGoesOn
  BY <1>1, <1>2, <1>3, StagesIs DEF TimeGoesOn
<1>5. /\ InStage(2)' = InStage(2) /\ InStage(3)' = InStage(3)
      /\ InStage(4)' = InStage(4) /\ InStage(5)' = InStage(5)
      /\ Seqs(De)' = Seqs(De) /\ Seqs(Rn)' = Seqs(Rn)
  BY <1>1, LatchesStay DEF Quiet
<1>6. ReadySeqs' = ReadySeqs /\ RobSeqs' = RobSeqs
  BY <1>1, RobStays
<1>7. Live' = Live
  BY <1>5, <1>6 DEF Live
<1>8. /\ \A u \in Unit : Exc'[u].seq = Exc[u].seq
      /\ Done(Exc') = {u \in Unit : Exc[u].cnt = 1}
      /\ BusyUnits' = {u \in Unit : Exc[u].cnt \in 2 .. 5}
      /\ Unit' = Unit
  BY <1>1, <1>3, CountedDown, SameMachine
<1>9. \A u \in Unit : u \in BusyUnits <=> Exc[u].cnt \in 1 .. 5
  BY <1>3, UnitsAre
<1>10. /\ ValidIq' = ValidIq
       /\ \A x \in ValidIq : /\ Iq'.queue[x].seq = Iq.queue[x].seq
                             /\ Iq'.queue[x].op = Iq.queue[x].op
  <2>1. PICK tags : Iq' = Update(Iq, tags)
    BY <1>1
  <2>2. /\ ValidIq' = ValidIq
        /\ \A i \in Entry : Iq'.queue[i] = Woken(Iq.queue[i], tags)
    BY <1>1, <1>3, <2>1, Updated
  <2>3. \A i \in Entry : Iq.queue[i] \in IqReg
    BY <1>3, QueueIs
  <2>4. ValidIq \subseteq Entry
    BY DEF ValidIq
  <2> QED BY <2>2, <2>3, <2>4, WokenIs, WokenOp
<1>11. IqSeqs' = IqSeqs
  BY <1>10 DEF IqSeqs
<1>12. \A u \in BusyUnits' : u \in BusyUnits /\ Exc'[u].cnt = Exc[u].cnt - 1 /\ Exc[u].cnt \in Nat
  <2> TAKE u \in BusyUnits'
  <2>1. u \in Unit /\ Exc[u].cnt \in 2 .. 5
    BY <1>8
  <2>2. Exc'[u].cnt = IF Exc[u].cnt \in {None, 0} THEN None ELSE Exc[u].cnt - 1
    <3>1. Exc[u] \in [seq : Seq0, cnt : (0 .. 5) \cup {None}, dst_tag : Tag]
      BY <1>3, <2>1, UnitsAre
    <3>2. Exc'[u] = [Exc[u] EXCEPT !.cnt = IF @ \in {None, 0} THEN None ELSE @ - 1]
      BY <1>1, <2>1 DEF DecCnt
    <3> QED BY <3>1, <3>2
  <2>3. Exc[u].cnt \in Nat /\ Exc[u].cnt \notin {None, 0} /\ Exc[u].cnt \in 1 .. 5
    BY <1>3, <2>1
  <2> QED BY <1>9, <2>1, <2>2, <2>3
<1>13. ExecSeqs' \subseteq ExecSeqs
  BY <1>8, <1>12 DEF ExecSeqs
<1>14. ASSUME NEW q \in WbSeqs'
       PROVE  \E u \in BusyUnits : Exc[u].cnt = 1 /\ q = Exc[u].seq
  <2>1. PICK u \in Unit : Wb'[u].v /\ q = Wb'[u].seq
    BY <1>8 DEF WbSeqs
  <2>2. u \in Done(Exc') /\ q = Exc'[u].seq
    BY <1>1, <2>1
  <2>3. Exc[u].cnt = 1 /\ 1 \in 1 .. 5
    BY <1>8, <2>2
  <2> QED BY <1>8, <1>9, <2>1, <2>2, <2>3
<1>15. ~Moved(7) /\ Moved(8)' /\ 7 \in 2 .. 8 /\ 8 - 1 = 7 /\ 8 > 2
  BY <1>2 DEF Moved
<1>16. \A n \in 2 .. 8 : \A q \in InStage(n)' : Advances(q, n)
  <2>1. \A n \in 2 .. 8 : n \in {2, 3, 4, 5, 6, 7, 8}
    OBVIOUS
  <2>2. \A n \in {2, 3, 4, 5, 6, 7} : InStage(n)' \subseteq InStage(n)
    BY <1>5, <1>11, <1>13, InStageIs
  <2>3. \A q \in InStage(8)' : q \in InStage(7)
    BY <1>14, InStageIs DEF ExecSeqs
  <2> QED BY <1>15, <2>1, <2>2, <2>3 DEF Advances
<1>17. \A q \in ReadySeqs' : NowDone(q)
  BY <1>6 DEF NowDone
<1>18. /\ Clock = cycle /\ Clock' = cycle + 1
       /\ \A q \in Live : RowKept(q)
       /\ \A q : RowKept(q) => Lat(q)' = Lat(q)
  <2>1. \A q : RowKept(q) => Lat(q)' = Lat(q)
    BY <1>1, SameIdx DEF RowKept
  <2> QED BY <1>1, <1>2, <1>3, <2>1, RowsKept DEF Clock
<1>19. \A u \in BusyUnits : \A q : q = Exc[u].seq =>
         /\ RowOf(q).bc["EX"] \in Nat /\ RowKept(q)
         /\ Exc[u].cnt + (cycle - RowOf(q).bc["EX"]) = Lat(q)
  <2> TAKE u \in BusyUnits
  <2> TAKE q
  <2> HAVE q = Exc[u].seq
  <2>1. q \in InStage(7) /\ Left(q, Exc[u].cnt)
    BY <1>3, InStageIs DEF ExecSeqs, CyclesLeft
  <2>2. Begun(q, 7)
    BY <1>3, <1>15, <2>1 DEF RowsFollow, Entered
  <2>3. RowOf(q).bc["EX"] \in Nat
    <3>1. 7 \in 1 .. 7 /\ Order[7] = "EX"
      BY Columns
    <3> QED BY <2>2, <3>1 DEF Begun, FilledRow
  <2>4. Exc[u].cnt + (cycle - RowOf(q).bc["EX"]) = Lat(q)
    BY <1>3, <1>18, <2>1, <2>3 DEF Left
  <2>5. RowKept(q)
    BY <1>3, <1>15, <1>18, <2>1 DEF OwnRows
  <2> QED BY <2>3, <2>4, <2>5
<1>20. CyclesLeft'
  <2>1. ASSUME NEW u \in BusyUnits'
        PROVE  Left(Exc[u].seq, Exc[u].cnt)'
    <3>1. PICK q, cnt : q = Exc'[u].seq /\ cnt = Exc[u].cnt
      OBVIOUS
    <3>2. u \in BusyUnits /\ u \in Unit /\ q = Exc[u].seq /\ Exc'[u].cnt = cnt - 1 /\ cnt \in Nat
      BY <1>8, <1>12, <3>1
    <3>3. /\ RowOf(q)'.bc["EX"] \in Nat /\ RowOf(q)'.bc["EX"] = RowOf(q).bc["EX"]
          /\ Lat(q)' = Lat(q) /\ cnt + (cycle - RowOf(q).bc["EX"]) = Lat(q)
      BY <1>18, <1>19, <3>1, <3>2 DEF RowKept
    <3>4. (cnt - 1) + (Clock' - RowOf(q)'.bc["EX"]) = Lat(q)'
      <4>1. PICK ex \in Nat : ex = RowOf(q).bc["EX"]
        BY <3>3
      <4>2. cnt + (cycle - ex) = Lat(q)
        BY <3>3, <4>1
      <4>3. cnt + (cycle - ex) = (cnt - 1) + ((cycle + 1) - ex)
        <5>1. cnt \in Nat /\ cycle \in Nat
          BY <1>3, <3>2
        <5> QED BY <5>1
      <4> QED BY <1>18, <3>3, <4>1, <4>2, <4>3
    <3> QED BY <1>3, <3>1, <3>2, <3>3, <3>4 DEF Left, RowOf, Lat, InfoIdx
  <2>2. ASSUME NEW q \in WbSeqs'
        PROVE  Left(q, 0)'
    <3>1. PICK u \in BusyUnits : Exc[u].cnt = 1 /\ q = Exc[u].seq
      BY <1>14
    <3>2. /\ RowOf(q)'.bc["EX"] \in Nat /\ RowOf(q)'.bc["EX"] = RowOf(q).bc["EX"]
          /\ Lat(q)' = Lat(q) /\ 1 + (cycle - RowOf(q).bc["EX"]) = Lat(q)
      BY <1>18, <1>19, <3>1 DEF RowKept
    <3>3. 0 + (Clock' - RowOf(q)'.bc["EX"]) = Lat(q)'
      BY <1>3, <1>18, <3>2
    <3> QED BY <1>3, <3>2, <3>3 DEF Left
  <2> QED BY <2>1, <2>2 DEF CyclesLeft
<1>21. OpsKept'
  <2>1. Slot' = Slot
    BY <1>1, SameMachine
  <2> QED BY <1>1, <1>3, <1>10, <2>1 DEF OpsKept, OpsOf
<1> QED BY <1>1, <1>3, <1>4, <1>7, <1>16, <1>17, <1>20, <1>21, TimedStays

(***************************************************************************)
(* Issue: a unit is given the whole latency.                               *)
(***************************************************************************)
LEMMA IssueTimed ==
  ASSUME NEW rd \in 0 .. Len(prog), NEW rn \in 0 .. Len(prog),
         NEW de \in 0 .. Len(prog), NEW fe \in 0 .. Len(prog),
         CoreAt(rd, rn, de, fe), Own(rn), TimedInv,
         Issue, UNCHANGED reportVars
  PROVE  TimedInv'
<1>1. /\ stage = "Issue" /\ stage' \in {"Issue", "Dispatch"}
      /\ UNCHANGED <<params, prog, De, Rn, Rr, Di, Rob, Wb, done_flag, loop>>
      /\ UNCHANGED <<cycle, info, last_cycle, last_seq>>
      /\ UNCHANGED <<Exc, Iq>> \/ \E i \in Entry, u \in Unit : IssueTo(i, u)
  BY DEF Issue, NothingToIssue, TurnThen, GoTo, mainVars, frontVars, reportVars
<1>2. When = 4 /\ When' \in {4, 5}
  BY <1>1, WhenIs DEF When
<1>3. /\ CpuTypeOK /\ IqIsRecord /\ CyclesLeft /\ RowsFollow /\ OpsKept /\ cycle \in Nat
      /\ Len(prog) \in Nat /\ OwnRows /\ None \notin Nat /\ IqHasRoom
  BY AtStage DEF Own
<1>4. TimeGoesOn
  BY <1>1, <1>2, <1>3, StagesIs DEF TimeGoesOn
<1>5. /\ InStage(2)' = InStage(2) /\ InStage(3)' = InStage(3)
      /\ InStage(4)' = InStage(4) /\ InStage(5)' = InStage(5)
      /\ Seqs(De)' = Seqs(De) /\ Seqs(Rn)' = Seqs(Rn)
  BY <1>1, LatchesStay DEF Quiet
<1>6. ReadySeqs' = ReadySeqs /\ RobSeqs' = RobSeqs
  BY <1>1, RobStays
<1>7. Live' = Live
  BY <1>5, <1>6 DEF Live
<1>8. \A q \in ReadySeqs' : NowDone(q)
  BY <1>6 DEF NowDone
<1>9. /\ Clock' = Clock
      /\ \A q \in Live : RowKept(q)
      /\ \A q \in ExecSeqs \cup WbSeqs : RowKept(q)
  BY <1>1, <1>2, <1>3, RowsKept DEF Clock
<1>10. CASE UNCHANGED <<Exc, Iq>>
  <2>1. IqSeqs' = IqSeqs /\ ExecSeqs' = ExecSeqs /\ WbSeqs' = WbSeqs
    BY <1>1, <1>10, QueuesStay
  <2>2. \A n \in 2 .. 8 : \A q \in InStage(n)' : Advances(q, n)
    BY <1>5, <2>1, InStageIs, Stays
  <2>3. CyclesLeft' /\ OpsKept'
    BY <1>1, <1>3, <1>9, <1>10, UnitsStay, OpsStay
  <2> QED BY <1>1, <1>3, <1>4, <1>7, <1>8, <2>2, <2>3, TimedStays
<1>11. CASE \E i \in Entry, u \in Unit : IssueTo(i, u)
  <2>1. PICK i \in Entry, u \in Unit : IssueTo(i, u)
    BY <1>11
  <2>2. /\ Iq.queue[i].v = "RDY" /\ Available(Exc, u)
        /\ Exc' = Load(Exc, u, Iq.queue[i].seq, Iq.queue[i].op, Iq.queue[i].dst_tag)
        /\ Iq' = Invalidation(Iq, i)
    BY <2>1 DEF IssueTo, IsOldestRdy, Candidates, IsFirstEmpty
  <2>3. i \in ValidIq
    BY <2>2 DEF ValidIq
  <2>4. PICK q, op, tag : q = Iq.queue[i].seq /\ op = Iq.queue[i].op /\ tag = Iq.queue[i].dst_tag
    OBVIOUS
  <2>5. q \in IqSeqs /\ q \in InStage(6) /\ op = prog[q + 1].op
    BY <1>3, <2>3, <2>4, InStageIs DEF IqSeqs, OpsKept
  <2>6. /\ \A x \in Entry \ {i} : Iq'.queue[x] = Iq.queue[x]
        /\ ValidIq' = ValidIq \ {i}
    BY <1>1, <1>3, <2>2, <2>3, Invalidated DEF IqHasRoom
  <2>7. q \in Seq0 /\ op \in Op /\ tag \in Tag
    <3>1. q \in Seq0 \cup {None} /\ op \in Op /\ tag \in Tag
      <4>1. Iq.queue[i] \in IqReg
        BY <1>3, QueueIs
      <4> QED BY <2>4, <4>1 DEF IqReg, IqRegOf
    <3>2. q \in Live
      <4>1. 6 \in 2 .. 8
        OBVIOUS
      <4> QED BY <1>3, <2>5, <4>1 DEF OwnRows
    <3>3. q \in Nat
      BY <1>3, <3>2 DEF OwnRows
    <3> QED BY <1>3, <3>1, <3>3
  <2>8. /\ Exc'[u].seq = q /\ \A w \in Unit \ {u} : Exc'[w] = Exc[w]
        /\ BusyUnits' = BusyUnits \cup {u} /\ u \notin BusyUnits
    <3>1. Exc' = Load(Exc, u, q, op, tag)
      BY <2>2, <2>4, Zenon
    <3>2. CpuTypeOK /\ params' = params /\ Available(Exc, u)
      BY <1>1, <1>3, <2>2
    <3> QED BY <2>7, <3>1, <3>2, Loaded
  <2>9. Exc'[u].cnt = Latency(op)
    <3>1. Exc \in [Unit -> [seq : Seq0, cnt : (0 .. 5) \cup {None}, dst_tag : Tag]]
      BY <1>3, UnitsAre
    <3> QED BY <2>2, <2>4, <3>1 DEF Load
  <2>10. BusyUnits \subseteq Unit /\ ValidIq \subseteq Entry
    BY DEF BusyUnits, ValidIq
  <2>11. IqSeqs' \subseteq IqSeqs
    BY <2>6, <2>10 DEF IqSeqs
  <2>12. ExecSeqs' \subseteq ExecSeqs \cup {q}
    BY <2>8, <2>10 DEF ExecSeqs
  <2>13. WbSeqs' = WbSeqs
    BY <1>1, SameMachine DEF WbSeqs
  <2>14. ~Moved(6) /\ Moved(7)' /\ 7 - 1 = 6 /\ 7 > 2 /\ 6 \in 2 .. 8
    BY <1>2 DEF Moved
  <2>15. \A n \in 2 .. 8 : \A p \in InStage(n)' : Advances(p, n)
    <3>1. \A n \in 2 .. 8 : n \in {2, 3, 4, 5, 6, 7, 8}
      OBVIOUS
    <3>2. \A n \in {2, 3, 4, 5, 6, 8} : InStage(n)' \subseteq InStage(n)
      BY <1>5, <2>11, <2>13, InStageIs
    <3>3. InStage(7)' \subseteq InStage(7) \cup {q}
      BY <2>12, InStageIs
    <3> QED BY <2>5, <2>14, <3>1, <3>2, <3>3 DEF Advances
  <2>16. RowOf(q).bc["EX"] = None /\ RowKept(q)
    <3>1. Begun(q, 6)
      BY <1>3, <2>5, <2>14 DEF RowsFollow, Entered
    <3>2. 7 \in 6 + 1 .. 8 /\ Order[7] = "EX"
      BY Columns
    <3>3. q \in Live
      BY <1>3, <2>5, <2>14 DEF OwnRows
    <3> QED BY <1>9, <3>1, <3>2, <3>3 DEF Begun, FilledRow
  <2>17. \A p : RowKept(p) => RowOf(p)' = RowOf(p) /\ Lat(p)' = Lat(p)
    BY <1>1, SameIdx DEF RowKept
  <2>18. CyclesLeft'
    <3>1. ASSUME NEW w \in BusyUnits'
          PROVE  Left(Exc[w].seq, Exc[w].cnt)'
      <4>1. PICK p, cnt : p = Exc'[w].seq /\ cnt = Exc'[w].cnt
        OBVIOUS
      <4>2. CASE w = u
        <5>1. p = q /\ cnt = Lat(q)
          BY <2>5, <2>8, <2>9, <4>1, <4>2 DEF Lat
        <5>2. cnt = Lat(p)' /\ RowOf(p)'.bc["EX"] = None
          BY <2>16, <2>17, <5>1
        <5> QED BY <4>1, <5>2 DEF Left, RowOf, Lat, InfoIdx
      <4>3. CASE w /= u
        <5>1. w \in BusyUnits /\ p = Exc[w].seq /\ cnt = Exc[w].cnt
          BY <2>8, <2>10, <4>1, <4>3
        <5>2. p \in ExecSeqs /\ Left(p, cnt)
          BY <1>3, <5>1 DEF CyclesLeft, ExecSeqs
        <5>3. RowOf(p)' = RowOf(p) /\ Lat(p)' = Lat(p)
          BY <1>9, <2>17, <5>2
        <5> QED BY <1>9, <4>1, <5>2, <5>3 DEF Left, RowOf, Lat, InfoIdx
      <4> QED BY <4>2, <4>3
    <3>2. ASSUME NEW p \in WbSeqs', RowOf(p)'.bc.WB = None
          PROVE  Left(p, 0)'
      <4>1. p \in WbSeqs /\ RowOf(p)' = RowOf(p) /\ Lat(p)' = Lat(p)
        BY <1>9, <2>13, <2>17, <3>2
      <4>2. Left(p, 0)
        BY <1>3, <3>2, <4>1 DEF CyclesLeft
      <4> QED BY <1>9, <4>1, <4>2 DEF Left
    <3> QED BY <3>1, <3>2 DEF CyclesLeft
  <2>19. OpsKept'
    <3>1. Slot' = Slot
      BY <1>1, SameMachine
    <3>2. \A x \in ValidIq' : x \in ValidIq /\ Iq'.queue[x] = Iq.queue[x]
      BY <2>6, <2>10
    <3> QED BY <1>1, <1>3, <3>1, <3>2 DEF OpsKept, OpsOf
  <2> QED BY <1>1, <1>3, <1>4, <1>7, <1>8, <2>15, <2>18, <2>19, TimedStays
<1> QED BY <1>1, <1>10, <1>11

(***************************************************************************)
(* Dispatch and Enqueue: from the latch into the issue queue.              *)
(***************************************************************************)
(* Before the front of the pipeline is reached its latches stay.           *)
LEMMA FrontOfRename ==
  ASSUME UNCHANGED <<params, De, Rn, Rr>>,
         stage \in {"Dispatch", "Enqueue"}, stage' \in {"Enqueue", "RegRead"}
  PROVE  /\ InStage(2)' = InStage(2) /\ InStage(3)' = InStage(3)
         /\ InStage(4)' = InStage(4)
         /\ Seqs(De)' = Seqs(De) /\ Seqs(Rn)' = Seqs(Rn)
<1>1. Width' = Width /\ Slot' = Slot
  BY SameMachine
<1>2. /\ RrTo' = RrTo /\ RnFrom' = RnFrom /\ DeFrom' = DeFrom
  BY <1>1 DEF RrTo, RnFrom, DeFrom, DeMoves
<1>3. Seqs(De)' = Seqs(De) /\ Seqs(Rn)' = Seqs(Rn)
  BY <1>1 DEF Seqs
<1>4. /\ Moving(De, DeFrom, Width)' = Moving(De, DeFrom, Width)
      /\ Moving(Rn, RnFrom, Width)' = Moving(Rn, RnFrom, Width)
      /\ Moving(Rr, 0, RrTo)' = Moving(Rr, 0, RrTo)
  BY <1>1, <1>2 DEF Moving
<1> QED BY <1>3, <1>4, InStageIs

(* Dispatch asks the ROB for the sources and leaves the kind alone.        *)
LEMMA CheckedOp ==
  ASSUME NEW reg \in PipeReg
  PROVE  Checked(reg).op = reg.op
  BY DEF Checked, PipeReg

(* Dispatch keeps the invariant: no instruction moves before Enqueue.      *)
LEMMA DispatchTimed ==
  ASSUME NEW rd \in 0 .. Len(prog), NEW rn \in 0 .. Len(prog),
         NEW de \in 0 .. Len(prog), NEW fe \in 0 .. Len(prog),
         CoreAt(rd, rn, de, fe), Own(rn), TimedInv,
         Dispatch, UNCHANGED reportVars
  PROVE  TimedInv'
<1>1. /\ stage = "Dispatch" /\ stage' \in {"Enqueue", "RegRead"} /\ slot' = 0
      /\ Di' = [k \in Slot |-> IF Di[k].seq = None THEN Di[k] ELSE Checked(Di[k])]
      /\ stage' = "RegRead" => DI' = IsBubbles(Di)
      /\ UNCHANGED <<params, prog, De, Rn, Rr, Rob, Iq, Exc, Wb, done_flag, loop>>
      /\ UNCHANGED <<cycle, info, last_cycle, last_seq>>
  BY DEF Dispatch, GoTo, mainVars, frontVars, reportVars
<1>2. When = 5 /\ When' \in {6, 7}
  BY <1>1, WhenIs DEF When
<1>3. /\ CpuTypeOK /\ CyclesLeft /\ OpsKept /\ cycle \in Nat
      /\ Len(prog) \in Nat /\ OwnRows /\ Width \in Nat \ {0} /\ Slot = 0 .. Width - 1
  BY AtStage DEF Own
<1>4. TimeGoesOn
  BY <1>1, <1>2, <1>3, StagesIs DEF TimeGoesOn
<1>5. /\ InStage(2)' = InStage(2) /\ InStage(3)' = InStage(3)
      /\ InStage(4)' = InStage(4)
      /\ Seqs(De)' = Seqs(De) /\ Seqs(Rn)' = Seqs(Rn)
  BY <1>1, FrontOfRename
<1>6. /\ ReadySeqs' = ReadySeqs /\ RobSeqs' = RobSeqs
      /\ IqSeqs' = IqSeqs /\ ExecSeqs' = ExecSeqs /\ WbSeqs' = WbSeqs /\ ValidIq' = ValidIq
  BY <1>1, RobStays, QueuesStay
<1>7. Live' = Live /\ \A q \in ReadySeqs' : NowDone(q)
  BY <1>5, <1>6 DEF Live, NowDone
<1>8. \A k \in Slot : Di'[k].seq = Di[k].seq /\ Di'[k].op = Di[k].op
  <2> TAKE k \in Slot
  <2>1. Di[k] \in PipeReg
    BY <1>3, Types
  <2> QED BY <1>1, <2>1, CheckedIs, CheckedOp
<1>9. InStage(5)' \subseteq InStage(5)
  <2>1. DiFrom = 0 /\ DiFrom' \in {0, Width} /\ Width' = Width
    BY <1>1, SameMachine DEF DiFrom
  <2>2. \A k \in DiFrom' .. Width - 1 : k \in 0 .. Width - 1 /\ Di'[k].seq = Di[k].seq
    BY <1>3, <1>8, <2>1
  <2>3. Moving(Di, DiFrom, Width)' \subseteq Moving(Di, 0, Width)
    BY <2>1, <2>2 DEF Moving
  <2> QED BY <2>1, <2>3, InStageIs
<1>10. \A n \in 2 .. 8 : \A q \in InStage(n)' : Advances(q, n)
  BY <1>5, <1>6, <1>9, InStageIs, Stays
<1>11. CyclesLeft'
  <2>1. Clock' = Clock
    BY <1>1, <1>2 DEF Clock
  <2>2. \A q \in ExecSeqs \cup WbSeqs : RowKept(q)
    BY <1>1, <1>3, RowsKept
  <2> QED BY <1>1, <1>3, <2>1, <2>2, UnitsStay
<1>12. OpsKept'
  <2>1. Slot' = Slot
    BY <1>1, SameMachine
  <2> QED BY <1>1, <1>3, <1>6, <1>8, <2>1 DEF OpsKept, OpsOf
<1> QED BY <1>1, <1>3, <1>4, <1>7, <1>10, <1>11, <1>12, TimedStays

(* What stands in the latches of the front, if these stay and count as     *)
(* before.                                                                 *)
LEMMA FrontStays ==
  ASSUME UNCHANGED <<params, De, Rn>>, DeFrom' = DeFrom, RnFrom' = RnFrom
  PROVE  /\ InStage(2)' = InStage(2) /\ InStage(3)' = InStage(3)
         /\ Seqs(De)' = Seqs(De) /\ Seqs(Rn)' = Seqs(Rn)
<1>1. Width' = Width /\ Slot' = Slot
  BY SameMachine
<1>2. Seqs(De)' = Seqs(De) /\ Seqs(Rn)' = Seqs(Rn)
  BY <1>1 DEF Seqs
<1>3. /\ Moving(De, DeFrom, Width)' = Moving(De, DeFrom, Width)
      /\ Moving(Rn, RnFrom, Width)' = Moving(Rn, RnFrom, Width)
  BY <1>1 DEF Moving
<1> QED BY <1>2, <1>3, InStageIs

(* Enqueue moves one instruction from the latch DI to the issue queue.     *)
LEMMA EnqueueTimed ==
  ASSUME NEW rd \in 0 .. Len(prog), NEW rn \in 0 .. Len(prog),
         NEW de \in 0 .. Len(prog), NEW fe \in 0 .. Len(prog),
         CoreAt(rd, rn, de, fe), Own(rn), TimedInv,
         Enqueue, UNCHANGED reportVars
  PROVE  TimedInv'
<1>1. /\ stage = "Enqueue" /\ TurnThen("RegRead")
      /\ UNCHANGED <<params, prog, De, Rn, Rr, Di, Rob, Exc, Wb, DI, done_flag, loop>>
      /\ UNCHANGED <<cycle, info, last_cycle, last_seq>>
      /\ IF Di[slot].seq = None THEN UNCHANGED Iq
         ELSE \E i \in Entry : Iq' = Insert(Iq, i, IqEntry(Di[slot]))
  BY DEF Enqueue, mainVars, frontVars, reportVars
<1>2. /\ CpuTypeOK /\ IqIsRecord /\ CyclesLeft /\ OpsKept /\ cycle \in Nat
      /\ Len(prog) \in Nat /\ OwnRows /\ Width \in Nat \ {0} /\ Slot = 0 .. Width - 1
      /\ slot \in Slot /\ DI /\ params \in Params /\ stage \in Stages
  BY <1>1, AtStage DEF Own, IqHasRoom
<1>3. \/ slot < Width - 1 /\ stage' = "Enqueue" /\ slot' = slot + 1
      \/ slot = Width - 1 /\ stage' = "RegRead" /\ slot' = 0
  BY <1>1, <1>2, TurnIs, StagesIs
<1>4. When = 6 /\ When' \in {6, 7}
  BY <1>1, <1>3, WhenIs DEF When
<1>5. TimeGoesOn
  BY <1>1, <1>2, <1>3, <1>4, StagesIs DEF TimeGoesOn
<1>6. /\ InStage(2)' = InStage(2) /\ InStage(3)' = InStage(3)
      /\ InStage(4)' = InStage(4)
      /\ Seqs(De)' = Seqs(De) /\ Seqs(Rn)' = Seqs(Rn)
  BY <1>1, <1>3, FrontOfRename
<1>7. ReadySeqs' = ReadySeqs /\ RobSeqs' = RobSeqs
  BY <1>1, RobStays
<1>8. Live' = Live /\ \A q \in ReadySeqs' : NowDone(q)
  BY <1>6, <1>7 DEF Live, NowDone
<1>9. ExecSeqs' = ExecSeqs /\ WbSeqs' = WbSeqs
  BY <1>1, SameMachine DEF ExecSeqs, BusyUnits, WbSeqs
<1>10. DiFrom = slot /\ DiFrom' = slot + 1 /\ Width' = Width
  <2>1. Width' = Width
    BY <1>1, SameMachine
  <2>2. DiFrom' = slot + 1
    BY <1>1, <1>2, <1>3, <2>1 DEF DiFrom
  <2> QED BY <1>1, <2>1, <2>2 DEF DiFrom
<1>11. InStage(5)' \subseteq InStage(5)
  <2>1. slot + 1 .. Width - 1 \subseteq slot .. Width - 1
    BY <1>2
  <2>2. Moving(Di, DiFrom, Width)' \subseteq Moving(Di, DiFrom, Width)
    BY <1>1, <1>10, <2>1 DEF Moving
  <2> QED BY <2>2, InStageIs
<1>12. Di[slot].seq /= None => Di[slot].seq \in InStage(5)
  <2>1. slot \in slot .. Width - 1
    BY <1>2
  <2> QED BY <1>10, <2>1, InStageIs DEF Moving
<1>13. ~Moved(5) /\ Moved(6)' /\ 6 - 1 = 5 /\ 6 > 2
  BY <1>4 DEF Moved
<1>14. \A x \in ValidIq' :
         \/ x \in ValidIq /\ Iq'.queue[x] = Iq.queue[x]
         \/ /\ Di[slot].seq /= None /\ Iq'.queue[x].seq = Di[slot].seq
            /\ Iq'.queue[x].op = Di[slot].op
  <2> TAKE x \in ValidIq'
  <2>1. Entry' = Entry /\ x \in Entry /\ Iq'.queue[x].v /= "INV"
    BY <1>1, SameMachine DEF ValidIq
  <2>2. CASE Di[slot].seq = None
    BY <1>1, <2>1, <2>2 DEF ValidIq
  <2>3. CASE Di[slot].seq /= None
    <3>1. PICK i \in Entry : Iq' = Insert(Iq, i, IqEntry(Di[slot]))
      BY <1>1, <2>3
    <3>2. Iq'.queue = [Iq.queue EXCEPT ![i] = IqEntry(Di[slot])]
      BY <1>2, <3>1 DEF Insert, IqIsRecord
    <3>3. DOMAIN Iq.queue = Entry
      BY <1>2, QueueIs
    <3>4. IqEntry(Di[slot]).seq = Di[slot].seq /\ IqEntry(Di[slot]).op = Di[slot].op
      BY DEF IqEntry
    <3> QED BY <2>1, <2>3, <3>2, <3>3, <3>4 DEF ValidIq
  <2> QED BY <2>2, <2>3
<1>15. \A n \in 2 .. 8 : \A q \in InStage(n)' : Advances(q, n)
  <2>1. \A n \in 2 .. 8 : n \in {2, 3, 4, 5, 6, 7, 8}
    OBVIOUS
  <2>2. \A n \in {2, 3, 4, 5, 7, 8} : InStage(n)' \subseteq InStage(n)
    BY <1>6, <1>9, <1>11, InStageIs
  <2>3. \A q \in InStage(6)' : q \in InStage(6) \/ q \in InStage(5)
    BY <1>12, <1>14, InStageIs DEF IqSeqs
  <2> QED BY <1>13, <2>1, <2>2, <2>3 DEF Advances
<1>16. CyclesLeft'
  <2>1. Clock' = Clock
    BY <1>1, <1>4 DEF Clock
  <2>2. \A q \in ExecSeqs \cup WbSeqs : RowKept(q)
    BY <1>1, <1>2, RowsKept
  <2> QED BY <1>1, <1>2, <2>1, <2>2, UnitsStay
<1>17. OpsKept'
  <2>1. Slot' = Slot
    BY <1>1, SameMachine
  <2>2. OpsOf(Rr) /\ OpsOf(Di) /\ prog' = prog /\ Rr' = Rr /\ Di' = Di /\ slot \in Slot
    BY <1>1, <1>2 DEF OpsKept
  <2>3. OpsOf(Rr)' /\ OpsOf(Di)'
    BY <2>1, <2>2 DEF OpsOf
  <2>4. \A x \in ValidIq' : Iq'.queue[x].op = prog[Iq'.queue[x].seq + 1].op
    <3> TAKE x \in ValidIq'
    <3>1. CASE x \in ValidIq /\ Iq'.queue[x] = Iq.queue[x]
      BY <1>2, <3>1 DEF OpsKept
    <3>2. CASE /\ Di[slot].seq /= None /\ Iq'.queue[x].seq = Di[slot].seq
               /\ Iq'.queue[x].op = Di[slot].op
      <4>1. Di[slot].op = prog[Di[slot].seq + 1].op
        BY <2>2, <3>2 DEF OpsOf
      <4> QED BY <3>2, <4>1, Zenon
    <3> QED BY <1>14, <3>1, <3>2
  <2> QED BY <2>2, <2>3, <2>4 DEF OpsKept
<1> QED BY <1>1, <1>2, <1>3, <1>5, <1>8, <1>15, <1>16, <1>17, TimedStays

(***************************************************************************)
(* RegRead and Rename: on from Rr, or not.                                 *)
(***************************************************************************)
LEMMA RegReadTimed ==
  ASSUME NEW rd \in 0 .. Len(prog), NEW rn \in 0 .. Len(prog),
         NEW de \in 0 .. Len(prog), NEW fe \in 0 .. Len(prog),
         CoreAt(rd, rn, de, fe), Own(rn), TimedInv,
         RegRead, UNCHANGED reportVars
  PROVE  TimedInv'
<1>1. /\ stage = "RegRead" /\ stage' = "Rename" /\ slot' = 0
      /\ Rr' = [k \in Slot |-> Checked(Rr[k])]
      /\ IF DI THEN Di' = Rr' /\ RR' = TRUE ELSE Di' = Di
      /\ DI' = DI
      /\ UNCHANGED <<params, prog, De, Rn, Rob, Iq, Exc, Wb, done_flag, loop>>
      /\ UNCHANGED <<cycle, info, last_cycle, last_seq>>
  BY DEF RegRead, GoTo, mainVars, frontVars, reportVars
<1>2. When = 7 /\ When' = 8
  BY <1>1, WhenIs DEF When
<1>3. /\ CpuTypeOK /\ CyclesLeft /\ OpsKept /\ cycle \in Nat
      /\ Len(prog) \in Nat /\ OwnRows /\ Width \in Nat \ {0} /\ Slot = 0 .. Width - 1
  BY AtStage DEF Own
<1>4. TimeGoesOn
  BY <1>1, <1>2, <1>3, StagesIs DEF TimeGoesOn
<1>5. /\ InStage(2)' = InStage(2) /\ InStage(3)' = InStage(3)
      /\ Seqs(De)' = Seqs(De) /\ Seqs(Rn)' = Seqs(Rn)
  <2>1. DeFrom' = DeFrom /\ RnFrom' = RnFrom
    BY <1>1 DEF DeFrom, DeMoves, RnFrom
  <2> QED BY <1>1, <2>1, FrontStays
<1>6. /\ ReadySeqs' = ReadySeqs /\ RobSeqs' = RobSeqs
      /\ IqSeqs' = IqSeqs /\ ExecSeqs' = ExecSeqs /\ WbSeqs' = WbSeqs /\ ValidIq' = ValidIq
  BY <1>1, RobStays, QueuesStay
<1>7. Live' = Live /\ \A q \in ReadySeqs' : NowDone(q)
  BY <1>5, <1>6 DEF Live, NowDone
<1>8. \A k \in Slot : Rr'[k].seq = Rr[k].seq /\ Rr'[k].op = Rr[k].op
  <2> TAKE k \in Slot
  <2>1. Rr[k] \in PipeReg
    BY <1>3, Types
  <2> QED BY <1>1, <2>1, CheckedIs, CheckedOp
<1>9. /\ Width' = Width /\ Slot' = Slot /\ RrTo = Width /\ RrTo' \in {0, Width}
      /\ DiFrom' = 0 /\ (~DI => DiFrom = 0)
  <2>1. Width' = Width /\ Slot' = Slot
    BY <1>1, SameMachine
  <2> QED BY <1>1, <2>1 DEF RrTo, DiFrom
<1>10. InStage(4)' \subseteq InStage(4)
  <2>1. \A k \in 0 .. RrTo' - 1 : k \in 0 .. Width - 1
    <3>1. CASE RrTo' = 0
      BY <3>1
    <3>2. CASE RrTo' = Width
      BY <3>2
    <3> QED BY <1>9, <3>1, <3>2
  <2>2. ASSUME NEW q \in Moving(Rr, 0, RrTo)'
        PROVE  q \in Moving(Rr, 0, RrTo)
    <3>1. PICK k \in 0 .. RrTo' - 1 : q = Rr'[k].seq /\ q /= None
      BY <2>2 DEF Moving
    <3>2. k \in 0 .. RrTo - 1 /\ k \in Slot
      BY <1>3, <1>9, <2>1
    <3>3. q = Rr[k].seq
      BY <1>8, <3>1, <3>2
    <3> QED BY <3>1, <3>2, <3>3 DEF Moving
  <2> QED BY <2>2, InStageIs
<1>11. \A q \in InStage(5)' : q \in InStage(5) \/ q \in InStage(4)
  <2>1. CASE DI
    <3>1. ASSUME NEW q \in Moving(Di, DiFrom, Width)'
          PROVE  q \in Moving(Rr, 0, RrTo)
      <4>1. PICK k \in DiFrom' .. Width' - 1 : q = Di'[k].seq /\ q /= None
        BY <3>1 DEF Moving
      <4>2. k \in 0 .. RrTo - 1 /\ k \in Slot
        <5>1. k \in 0 .. Width - 1
          <6>1. DiFrom' .. Width' - 1 = 0 .. Width - 1
            BY <1>9, Zenon
          <6> QED BY <4>1, <6>1
        <5> QED BY <1>3, <1>9, <5>1
      <4>3. Di' = Rr'
        BY <1>1, <2>1
      <4>4. q = Rr[k].seq
        BY <1>8, <4>1, <4>2, <4>3
      <4> QED BY <4>1, <4>2, <4>4 DEF Moving
    <3> QED BY <3>1, InStageIs
  <2>2. CASE ~DI
    <3>1. Di' = Di
      BY <1>1, <2>2
    <3>3. DiFrom' .. Width' - 1 = DiFrom .. Width - 1
      BY <1>9, <2>2, Zenon
    <3>2. Moving(Di, DiFrom, Width)' = Moving(Di, DiFrom, Width)
      BY <3>1, <3>3, Zenon DEF Moving
    <3> QED BY <3>2, InStageIs
  <2> QED BY <2>1, <2>2
<1>12. ~Moved(4) /\ Moved(5)' /\ 5 - 1 = 4 /\ 5 > 2
  BY <1>2 DEF Moved
<1>13. \A n \in 2 .. 8 : \A q \in InStage(n)' : Advances(q, n)
  <2>1. \A n \in 2 .. 8 : n \in {2, 3, 4, 5, 6, 7, 8}
    OBVIOUS
  <2>2. \A n \in {2, 3, 4, 6, 7, 8} : InStage(n)' \subseteq InStage(n)
    BY <1>5, <1>6, <1>10, InStageIs
  <2> QED BY <1>11, <1>12, <2>1, <2>2 DEF Advances
<1>14. CyclesLeft'
  <2>1. Clock' = Clock
    BY <1>1, <1>2 DEF Clock
  <2>2. \A q \in ExecSeqs \cup WbSeqs : RowKept(q)
    BY <1>1, <1>3, RowsKept
  <2> QED BY <1>1, <1>3, <2>1, <2>2, UnitsStay
<1>15. OpsKept'
  <2>1. OpsOf(Rr)'
    BY <1>1, <1>3, <1>8, <1>9 DEF OpsKept, OpsOf
  <2>2. OpsOf(Di)'
    BY <1>1, <1>3, <1>9, <2>1 DEF OpsKept, OpsOf
  <2> QED BY <1>1, <1>3, <1>6, <2>1, <2>2 DEF OpsKept
<1> QED BY <1>1, <1>3, <1>4, <1>7, <1>13, <1>14, <1>15, TimedStays

(* Rename as a whole: with a full ROB, what it clears has been handed on   *)
(* (CPU_OOO::Rename, cpu.cc).                                              *)
LEMMA RenameTimed ==
  ASSUME NEW rd \in 0 .. Len(prog), NEW rn \in 0 .. Len(prog),
         NEW de \in 0 .. Len(prog), NEW fe \in 0 .. Len(prog),
         CoreAt(rd, rn, de, fe), Own(rn), TimedInv,
         Rename, UNCHANGED reportVars
  PROVE  TimedInv'
<1>1. /\ stage = "Rename" /\ RN' = (RR /\ ~RobIsFull(Rob)) /\ slot' = 0
      /\ stage' = IF RN' THEN "RenameInst" ELSE "Decode"
      /\ Rr' = IF RR /\ RobIsFull(Rob) THEN NoBundle ELSE Rr
      /\ UNCHANGED <<params, prog, De, Rn, Di, Rob, Iq, Exc, Wb, done_flag, loop>>
      /\ UNCHANGED <<cycle, info, last_cycle, last_seq>>
  BY DEF Rename, GoTo, mainVars, frontVars, reportVars
<1>2. When = 8 /\ When' \in {9, 10}
  BY <1>1, WhenIs DEF When
<1>3. /\ CpuTypeOK /\ CyclesLeft /\ OpsKept /\ cycle \in Nat
      /\ Len(prog) \in Nat /\ OwnRows /\ Width \in Nat \ {0} /\ Slot = 0 .. Width - 1
  BY AtStage DEF Own
<1>4. TimeGoesOn
  BY <1>1, <1>2, <1>3, StagesIs DEF TimeGoesOn
<1>5. /\ InStage(2)' = InStage(2) /\ InStage(3)' = InStage(3)
      /\ Seqs(De)' = Seqs(De) /\ Seqs(Rn)' = Seqs(Rn)
  <2>1. DeFrom' = DeFrom /\ RnFrom' = RnFrom
    BY <1>1 DEF DeFrom, DeMoves, RnFrom
  <2> QED BY <1>1, <2>1, FrontStays
<1>6. /\ ReadySeqs' = ReadySeqs /\ RobSeqs' = RobSeqs
      /\ IqSeqs' = IqSeqs /\ ExecSeqs' = ExecSeqs /\ WbSeqs' = WbSeqs /\ ValidIq' = ValidIq
  BY <1>1, RobStays, QueuesStay
<1>7. Live' = Live /\ \A q \in ReadySeqs' : NowDone(q)
  BY <1>5, <1>6 DEF Live, NowDone
<1>8. Width' = Width /\ Slot' = Slot
  BY <1>1, SameMachine
<1>9. InStage(5)' = InStage(5)
  <2>1. DiFrom' = DiFrom
    BY <1>1 DEF DiFrom
  <2>2. Moving(Di, DiFrom, Width)' = Moving(Di, DiFrom, Width)
    BY <1>1, <1>8, <2>1 DEF Moving
  <2> QED BY <2>2, InStageIs
<1>10. InStage(4)' \subseteq InStage(4)
  <2>1. CASE RN'
    <3>1. RrTo' = 0
      BY <1>1, <2>1 DEF RrTo
    <3>2. Moving(Rr, 0, RrTo)' = {}
      BY <3>1 DEF Moving
    <3> QED BY <3>2, InStageIs
  <2>2. CASE ~RN' /\ RR
    <3>1. Rr' = NoBundle /\ RrTo' = Width
      BY <1>1, <1>8, <2>2 DEF RrTo
    <3>2. \A k \in 0 .. Width - 1 : Rr'[k].seq = None
      BY <1>3, <3>1 DEF NoBundle, Bubble
    <3>3. Moving(Rr, 0, RrTo)' = {}
      BY <3>1, <3>2 DEF Moving
    <3> QED BY <3>3, InStageIs
  <2>3. CASE ~RN' /\ ~RR
    <3>1. Rr' = Rr /\ RrTo' = Width /\ RrTo = Width
      BY <1>1, <1>8, <2>3 DEF RrTo
    <3>2. Moving(Rr, 0, RrTo)' = Moving(Rr, 0, RrTo)
      BY <3>1 DEF Moving
    <3> QED BY <3>2, InStageIs
  <2>4. RR \in BOOLEAN
    BY <1>3, Types
  <2> QED BY <2>1, <2>2, <2>3, <2>4
<1>11. \A n \in 2 .. 8 : \A q \in InStage(n)' : Advances(q, n)
  BY <1>5, <1>6, <1>9, <1>10, InStageIs, Stays
<1>12. CyclesLeft'
  <2>1. Clock' = Clock
    BY <1>1, <1>2 DEF Clock
  <2>2. \A q \in ExecSeqs \cup WbSeqs : RowKept(q)
    BY <1>1, <1>3, RowsKept
  <2> QED BY <1>1, <1>3, <2>1, <2>2, UnitsStay
<1>13. OpsKept'
  <2>1. \A k \in Slot : Rr'[k].seq /= None => Rr'[k] = Rr[k]
    BY <1>1 DEF NoBundle, Bubble
  <2> QED BY <1>1, <1>3, <1>6, <1>8, <2>1 DEF OpsKept, OpsOf
<1> QED BY <1>1, <1>3, <1>4, <1>7, <1>11, <1>12, <1>13, TimedStays

(* Decode hands De on to Rn, whose own bundle stands in the reorder buffer *)
(* by then.                                                                *)
LEMMA DecodeTimed ==
  ASSUME NEW rd \in 0 .. Len(prog), NEW rn \in 0 .. Len(prog),
         NEW de \in 0 .. Len(prog), NEW fe \in 0 .. Len(prog),
         CoreAt(rd, rn, de, fe), Own(rn), TimedInv,
         Decode, UNCHANGED reportVars
  PROVE  TimedInv'
<1>1. /\ stage = "Decode" /\ stage' = "Fetch" /\ DE' = RN
      /\ Rn' = IF RN THEN De ELSE Rn
      /\ UNCHANGED <<params, prog, De, Rr, Di, Rob, Iq, Exc, Wb, RN, done_flag, loop>>
      /\ UNCHANGED <<cycle, info, last_cycle, last_seq>>
  BY DEF Decode, GoTo, mainVars, reportVars
<1>2. When = 10 /\ When' = 11
  BY <1>1, WhenIs DEF When
<1>3. /\ CpuTypeOK /\ CyclesLeft /\ OpsKept /\ cycle \in Nat
      /\ Len(prog) \in Nat /\ OwnRows /\ Width \in Nat \ {0} /\ Slot = 0 .. Width - 1
      /\ RN \in BOOLEAN
  BY AtStage, Types DEF Own
<1>4. TimeGoesOn
  BY <1>1, <1>2, <1>3, StagesIs DEF TimeGoesOn
<1>5. Width' = Width /\ Slot' = Slot
  BY <1>1, SameMachine
<1>6. /\ ReadySeqs' = ReadySeqs /\ RobSeqs' = RobSeqs
      /\ IqSeqs' = IqSeqs /\ ExecSeqs' = ExecSeqs /\ WbSeqs' = WbSeqs /\ ValidIq' = ValidIq
  BY <1>1, RobStays, QueuesStay
<1>7. InStage(4)' = InStage(4) /\ InStage(5)' = InStage(5)
  <2>1. RrTo' = RrTo /\ DiFrom' = DiFrom
    BY <1>1, <1>5 DEF RrTo, DiFrom
  <2>2. Moving(Di, DiFrom, Width)' = Moving(Di, DiFrom, Width)
    BY <1>1, <1>5, <2>1 DEF Moving
  <2>3. Moving(Rr, 0, RrTo)' = Moving(Rr, 0, RrTo)
    BY <1>1, <2>1 DEF Moving
  <2> QED BY <2>2, <2>3, InStageIs
<1>8. /\ RnFrom' = 0 /\ DeFrom = 0
      /\ RN => RnFrom = Width /\ DeFrom' = Width' /\ RnMoves
      /\ ~RN => RnFrom = 0 /\ DeFrom' = 0
  BY <1>1 DEF RnFrom, DeFrom, DeMoves, RnMoves
<1>9. /\ InStage(2)' \subseteq InStage(2)
      /\ \A q \in InStage(3)' : q \in InStage(3) \/ q \in InStage(2)
      /\ Seqs(De)' = Seqs(De) /\ Seqs(Rn) \subseteq Seqs(Rn)' \cup RobSeqs
  <2>1. CASE RN
    <3>1. Moving(De, DeFrom, Width)' = {}
      <4>1. DeFrom' .. Width' - 1 = Width .. Width - 1
        BY <1>5, <1>8, <2>1, Zenon
      <4>2. Width .. Width - 1 = {}
        BY <1>3
      <4> QED BY <4>1, <4>2, Zenon DEF Moving
    <3>2. Moving(Rn, RnFrom, Width)' = Moving(De, DeFrom, Width)
      <4>1. Rn' = De
        BY <1>1, <2>1
      <4>2. RnFrom' .. Width' - 1 = DeFrom .. Width - 1
        BY <1>5, <1>8, Zenon
      <4> QED BY <4>1, <4>2, Zenon DEF Moving
    <3>3. \A k \in Slot : Rn[k].seq \in RobSeqs \cup {None}
      BY <1>3, <1>8, <2>1, LiveIs
    <3>4. Seqs(Rn) \subseteq RobSeqs /\ Seqs(De)' = Seqs(De)
      BY <1>1, <1>5, <3>3 DEF Seqs
    <3> QED BY <3>1, <3>2, <3>4, InStageIs
  <2>2. CASE ~RN
    <3>1. /\ UNCHANGED <<params, De, Rn>> /\ DeFrom' = DeFrom /\ RnFrom' = RnFrom
      BY <1>1, <1>8, <2>2
    <3> QED BY <3>1, FrontStays
  <2> QED BY <2>1, <2>2
<1>10. Live \subseteq Live' /\ \A q \in ReadySeqs' : NowDone(q)
  BY <1>6, <1>9 DEF Live, NowDone
<1>11. ~Moved(2) /\ Moved(3)' /\ 3 - 1 = 2 /\ 3 > 2
  BY <1>2 DEF Moved
<1>12. \A n \in 2 .. 8 : \A q \in InStage(n)' : Advances(q, n)
  <2>1. \A n \in 2 .. 8 : n \in {2, 3, 4, 5, 6, 7, 8}
    OBVIOUS
  <2>2. \A n \in {2, 4, 5, 6, 7, 8} : InStage(n)' \subseteq InStage(n)
    BY <1>6, <1>7, <1>9, InStageIs
  <2> QED BY <1>9, <1>11, <2>1, <2>2 DEF Advances
<1>13. CyclesLeft'
  <2>1. Clock' = Clock
    BY <1>1, <1>2 DEF Clock
  <2>2. \A q \in ExecSeqs \cup WbSeqs : RowKept(q)
    BY <1>1, <1>3, RowsKept
  <2> QED BY <1>1, <1>3, <2>1, <2>2, UnitsStay
<1>14. OpsKept'
  BY <1>1, <1>3, OpsStay
<1> QED BY <1>1, <1>3, <1>4, <1>10, <1>12, <1>13, <1>14, TimedStays

(* Renaming changes the registers of an entry only.                        *)
LEMMA RenamedOp ==
  ASSUME NEW reg \in PipeReg
  PROVE  Renamed(reg).seq = reg.seq /\ Renamed(reg).op = reg.op
  BY DEF Renamed, PipeReg

(* What a turn of RenameInst does to the latches' numbers.                 *)
LEMMA RenameInstSeqs ==
  ASSUME CpuTypeOK, RenameInst
  PROVE  /\ \A k \in Slot : Rn'[k].seq = Rn[k].seq
         /\ \A k \in Slot : k /= slot => Rr'[k] = Rr[k]
         /\ Rr'[slot].seq = Rn[slot].seq /\ Rr'[slot].op = Rn[slot].op
         /\ IF Rn[slot].seq = None THEN Rob' = Rob
            ELSE Rob' = Allocate(Rob, Rn[slot].seq, Rn[slot].dst)
<1>1. /\ Rn \in [Slot -> PipeReg] /\ Rr \in [Slot -> PipeReg] /\ slot \in Slot
      /\ Rn[slot] \in PipeReg
  BY Types
<1>2. CASE Rn[slot].seq = None
  <2>1. Rr' = [Rr EXCEPT ![slot] = Rn[slot]] /\ Rn' = Rn /\ Rob' = Rob
    BY <1>2 DEF RenameInst
  <2> QED BY <1>1, <1>2, <2>1
<1>3. CASE Rn[slot].seq /= None
  <2>1. /\ Rr' = [Rr EXCEPT ![slot] = Renamed(Rn[slot])]
        /\ Rn' = [Rn EXCEPT ![slot] = Renamed(Rn[slot])]
        /\ Rob' = Allocate(Rob, Rn[slot].seq, Rn[slot].dst)
    BY <1>3 DEF RenameInst
  <2>2. Renamed(Rn[slot]).seq = Rn[slot].seq /\ Renamed(Rn[slot]).op = Rn[slot].op
    BY <1>1, RenamedOp
  <2> QED BY <1>1, <1>3, <2>1, <2>2
<1> QED BY <1>2, <1>3

(* A turn of RenameInst moves an instruction from Rn into Rr, and gives it *)
(* a tag that is not ready.                                                *)
LEMMA RenameInstTimed ==
  ASSUME NEW rd \in 0 .. Len(prog), NEW rn \in 0 .. Len(prog),
         NEW de \in 0 .. Len(prog), NEW fe \in 0 .. Len(prog),
         CoreAt(rd, rn, de, fe), Own(rn), TimedInv,
         NEW rn2, Own(rn2)', rn2 - Tags'.size = rn - Tags.size,
         RenameInst, UNCHANGED reportVars
  PROVE  TimedInv'
<1>1. /\ stage = "RenameInst" /\ TurnThen("Decode")
      /\ UNCHANGED <<params, prog, De, Di, Iq, Exc, Wb, RN, done_flag, loop>>
      /\ UNCHANGED <<cycle, info, last_cycle, last_seq>>
  BY DEF RenameInst, mainVars, reportVars
<1>3. /\ CpuTypeOK /\ CyclesLeft /\ OpsKept /\ cycle \in Nat
      /\ Len(prog) \in Nat /\ OwnRows /\ Width \in Nat \ {0} /\ Slot = 0 .. Width - 1
      /\ slot \in Slot /\ stage \in Stages /\ params \in Params /\ slot \in Nat
      /\ FrontAt(rn, de, fe) /\ RobAt(rd, rn, de)
  <2>1. /\ CpuTypeOK /\ CyclesLeft /\ OpsKept /\ cycle \in Nat
        /\ Len(prog) \in Nat /\ OwnRows /\ Width \in Nat \ {0} /\ Slot = 0 .. Width - 1
        /\ slot \in Slot /\ stage \in Stages /\ params \in Params
        /\ FrontAt(rn, de, fe) /\ RobAt(rd, rn, de)
    BY AtStage DEF Own
  <2>2. slot \in Nat
    BY <2>1
  <2> QED BY <2>1, <2>2
<1>4. \/ slot < Width - 1 /\ stage' = "RenameInst" /\ slot' = slot + 1
      \/ slot = Width - 1 /\ stage' = "Decode"
  BY <1>1, <1>3, TurnIs, StagesIs
<1>2. When = 9 /\ When' \in {9, 10}
  BY <1>1, <1>4, WhenIs DEF When
<1>5. TimeGoesOn
  BY <1>1, <1>2, <1>3, <1>4, StagesIs DEF TimeGoesOn
<1>6. Width' = Width /\ Slot' = Slot
  BY <1>1, SameMachine
<1>7. RnFrom = slot /\ RrTo = slot /\ RnFrom' = slot + 1 /\ RrTo' = slot + 1
  <2>1. RN
    BY <1>1, <1>3 DEF RobAt, RobHasRoom
  <2>2. RnFrom = slot /\ RrTo = slot
    BY <1>1 DEF RnFrom, RrTo
  <2>3. CASE stage' = "RenameInst" /\ slot' = slot + 1
    BY <1>1, <2>3 DEF RnFrom, RrTo
  <2>4. CASE slot = Width - 1 /\ stage' = "Decode"
    <3>1. RnFrom' = Width' /\ RrTo' = Width'
      BY <1>1, <2>1, <2>4 DEF RnFrom, RrTo
    <3>2. Width = slot + 1
      BY <1>3, <2>4
    <3> QED BY <1>6, <2>2, <3>1, <3>2
  <2> QED BY <1>4, <2>2, <2>3, <2>4
<1>8. /\ \A k \in Slot : Rn'[k].seq = Rn[k].seq
      /\ \A k \in Slot : k /= slot => Rr'[k] = Rr[k]
      /\ Rr'[slot].seq = Rn[slot].seq /\ Rr'[slot].op = Rn[slot].op
      /\ IF Rn[slot].seq = None THEN Rob' = Rob
         ELSE Rob' = Allocate(Rob, Rn[slot].seq, Rn[slot].dst)
  BY <1>3, RenameInstSeqs
<1>9. /\ InStage(2)' = InStage(2) /\ InStage(5)' = InStage(5)
      /\ Seqs(De)' = Seqs(De) /\ Seqs(Rn)' = Seqs(Rn)
  <2>1. DeFrom' = 0 /\ DeFrom = 0 /\ DiFrom' = 0 /\ DiFrom = 0
    BY <1>1, <1>4 DEF DeFrom, DeMoves, DiFrom
  <2>2. DeFrom' = DeFrom /\ DiFrom' = DiFrom
    BY <2>1
  <2>3. Moving(De, DeFrom, Width)' = Moving(De, DeFrom, Width)
    BY <1>1, <1>6, <2>2 DEF Moving
  <2>4. Moving(Di, DiFrom, Width)' = Moving(Di, DiFrom, Width)
    BY <1>1, <1>6, <2>2 DEF Moving
  <2>5. Seqs(De)' = Seqs(De)
    BY <1>1, <1>6 DEF Seqs
  <2>6. Seqs(Rn)' = Seqs(Rn)
    BY <1>6, <1>8 DEF Seqs
  <2> QED BY <2>3, <2>4, <2>5, <2>6, InStageIs
<1>10. InStage(3)' \subseteq InStage(3)
  <2>1. ASSUME NEW q \in Moving(Rn, RnFrom, Width)'
        PROVE  q \in Moving(Rn, RnFrom, Width)
    <3>1. PICK k \in RnFrom' .. Width' - 1 : q = Rn'[k].seq /\ q /= None
      BY <2>1 DEF Moving
    <3>2. RnFrom' .. Width' - 1 = slot + 1 .. Width - 1
      BY <1>6, <1>7, Zenon
    <3>3. k \in slot + 1 .. Width - 1
      BY <3>1, <3>2
    <3>4. k \in slot .. Width - 1 /\ k \in 0 .. Width - 1
      BY <1>3, <3>3
    <3>5. k \in RnFrom .. Width - 1
      BY <1>7, <3>4
    <3> QED BY <1>3, <1>8, <3>1, <3>4, <3>5 DEF Moving
  <2> QED BY <2>1, InStageIs
<1>11. \A q \in InStage(4)' : q \in InStage(4) \/ q \in InStage(3)
  <2>1. ASSUME NEW q \in Moving(Rr, 0, RrTo)'
        PROVE  q \in Moving(Rr, 0, RrTo) \/ q \in Moving(Rn, RnFrom, Width)
    <3>1. PICK k \in 0 .. RrTo' - 1 : q = Rr'[k].seq /\ q /= None
      BY <2>1 DEF Moving
    <3>2. 0 .. RrTo' - 1 = 0 .. (slot + 1) - 1
      BY <1>7, Zenon
    <3>3. k \in 0 .. (slot + 1) - 1
      BY <3>1, <3>2
    <3>4. k = slot \/ (k \in 0 .. slot - 1 /\ k /= slot /\ k \in 0 .. Width - 1)
      BY <1>3, <3>3
    <3>5. CASE k = slot
      <4>1. q = Rn[slot].seq
        BY <1>8, <3>1, <3>5
      <4>2. slot \in RnFrom .. Width - 1
        BY <1>3, <1>7
      <4> QED BY <3>1, <4>1, <4>2 DEF Moving
    <3>6. CASE k \in 0 .. slot - 1 /\ k /= slot /\ k \in 0 .. Width - 1
      <4>1. q = Rr[k].seq
        BY <1>3, <1>8, <3>1, <3>6
      <4>2. k \in 0 .. RrTo - 1
        BY <1>7, <3>6
      <4> QED BY <3>1, <4>1, <4>2 DEF Moving
    <3> QED BY <3>4, <3>5, <3>6
  <2> QED BY <2>1, InStageIs
<1>12. RobSeqs \subseteq RobSeqs' /\ ReadySeqs' \subseteq ReadySeqs
  <2>1. CASE Rn[slot].seq = None
    <3>1. UNCHANGED <<params, Rob>>
      BY <1>1, <1>8, <2>1
    <3> QED BY <3>1, RobStays
  <2>2. CASE Rn[slot].seq /= None
    <3>1. ~Rob.Full
      BY <1>1, <2>2, RoomIsThere DEF QueuesSuffice
    <3>2. Rob' = Allocate(Rob, Rn[slot].seq, Rn[slot].dst) /\ UNCHANGED <<params, Wb>>
      BY <1>1, <1>8, <2>2
    <3>3. /\ Tags'.size = Tags.size + 1
          /\ Tags'.held = Tags.held \cup {Rob.Tail} /\ Rob.Tail \notin Tags.held
          /\ \A t \in Tag \ {Rob.Tail} : Tags'.seq[t] = Tags.seq[t]
          /\ Tags'.ready = Tags.ready \ {Rob.Tail}
      BY <1>3, <3>1, <3>2, AllocateTags
    <3>4. /\ Tags.size \in Nat /\ Tags.held \subseteq Tag
      BY <1>3, TagsIs
    <3>5. ReadySeqs' \subseteq ReadySeqs
      BY <3>3, <3>4 DEF ReadySeqs
    <3>6. /\ RobSeqs = rn - Tags.size .. rn - 1 /\ rn \in Nat
          /\ RobSeqs' = rn2 - Tags'.size .. rn2 - 1 /\ rn2 \in Nat
      BY DEF Own
    <3>7. rn2 = rn + 1
      <4>1. PICK size \in Nat : size = Tags.size
        BY <3>4
      <4>2. rn2 - (size + 1) = rn - size
        BY <3>3, <4>1, Zenon
      <4>3. rn \in Nat /\ rn2 \in Nat
        BY <3>6
      <4> QED BY <4>2, <4>3
    <3>8. RobSeqs' = rn - Tags.size .. (rn + 1) - 1
      BY <3>6, <3>7, Zenon
    <3>9. rn - Tags.size .. rn - 1 \subseteq rn - Tags.size .. (rn + 1) - 1
      BY <3>4, <3>6
    <3> QED BY <3>5, <3>6, <3>8, <3>9
  <2> QED BY <2>1, <2>2
<1>13. /\ IqSeqs' = IqSeqs /\ ExecSeqs' = ExecSeqs /\ WbSeqs' = WbSeqs
       /\ ValidIq' = ValidIq
  BY <1>1, QueuesStay
<1>14. Live \subseteq Live' /\ \A q \in ReadySeqs' : NowDone(q)
  BY <1>9, <1>12 DEF Live, NowDone
<1>15. ~Moved(3) /\ Moved(4)' /\ 4 - 1 = 3 /\ 4 > 2
  BY <1>2 DEF Moved
<1>16. \A n \in 2 .. 8 : \A q \in InStage(n)' : Advances(q, n)
  <2>1. \A n \in 2 .. 8 : n \in {2, 3, 4, 5, 6, 7, 8}
    OBVIOUS
  <2>2. \A n \in {2, 3, 5, 6, 7, 8} : InStage(n)' \subseteq InStage(n)
    BY <1>9, <1>10, <1>13, InStageIs
  <2> QED BY <1>11, <1>15, <2>1, <2>2 DEF Advances
<1>17. CyclesLeft'
  <2>1. Clock' = Clock
    BY <1>1, <1>2 DEF Clock
  <2>2. \A q \in ExecSeqs \cup WbSeqs : RowKept(q)
    BY <1>1, <1>3, RowsKept
  <2> QED BY <1>1, <1>3, <2>1, <2>2, UnitsStay
<1>18. OpsKept'
  <2>1. Rn[slot].seq /= None => Rn[slot].op = prog[Rn[slot].seq + 1].op
    <3>1. Raw(prog, Rn, RnFrom, Width) /\ slot \in RnFrom .. Width - 1
      BY <1>3, <1>7 DEF FrontAt, AsFetched
    <3>2. Rn[slot] = IF Rn[slot].seq = None THEN Bubble
                     ELSE Fetched(prog[Rn[slot].seq + 1], Rn[slot].seq)
      BY <3>1 DEF Raw
    <3>3. \A i, s : Fetched(i, s).op = i.op
      BY DEF Fetched
    <3> QED BY <3>2, <3>3
  <2>2. ASSUME NEW k \in Slot, Rr'[k].seq /= None
        PROVE  Rr'[k].op = prog'[Rr'[k].seq + 1].op
    <3>1. CASE k = slot
      BY <1>1, <1>8, <2>1, <2>2, <3>1
    <3>2. CASE k /= slot
      BY <1>1, <1>3, <1>8, <2>2, <3>2 DEF OpsKept, OpsOf
    <3> QED BY <3>1, <3>2
  <2>3. OpsOf(Rr)'
    BY <1>6, <2>2 DEF OpsOf
  <2>4. OpsOf(Di)'
    BY <1>1, <1>3, <1>6 DEF OpsKept, OpsOf
  <2> QED BY <1>1, <1>3, <1>13, <2>3, <2>4 DEF OpsKept
<1>19. stage' \notin {"Read", "UpdInfo", "End"}
  BY <1>4
<1> QED BY <1>1, <1>3, <1>5, <1>14, <1>16, <1>17, <1>18, <1>19, TimedStays

(* The row of an instruction that was just fetched.                        *)
LEMMA NewRow ==
  ASSUME NEW q \in Seq0, cycle \in Nat, NEW row, NEW latency,
         row = [seq |-> q, bc |-> [Blank EXCEPT !["FE"] = cycle], dur |-> Blank]
  PROVE  /\ FilledRow(row, q, 1, latency) /\ row \in RowType
         /\ row.bc[Order[1]] = cycle
<1>1. row.seq = q /\ row.bc = [Blank EXCEPT !["FE"] = cycle] /\ row.dur = Blank
  OBVIOUS
<1>2. /\ "FE" \in Column /\ "WB" \in Column /\ "RT" \in Column
      /\ Blank \in [Column -> {None}]
      /\ \A s \in Column : Blank[s] = None
  BY DEF Column, Blank
<1>3. row \in RowType
  BY <1>1, <1>2 DEF RowType
<1>4. /\ row.bc["FE"] = cycle
      /\ \A s \in Column : s /= "FE" => row.bc[s] = None
      /\ \A s \in Column : row.dur[s] = None
  BY <1>1, <1>2
<1>5. /\ \A j \in 1 .. 1 : row.bc[Order[j]] \in Nat
      /\ \A j \in 1 + 1 .. 8 : row.bc[Order[j]] = None
      /\ \A j \in 1 .. 7 : row.dur[Order[j]] = None
  <2>1. Order[1] = "FE" /\ \A j \in 1 .. 9 : Order[j] \in Column
    BY Columns
  <2>2. \A j \in 2 .. 8 : Order[j] /= "FE"
    <3>1. \A j \in 1 .. 9 : Order[j] = Order[1] => j = 1
      BY Columns
    <3>2. \A j \in 2 .. 8 : j \in 1 .. 9 /\ j /= 1
      OBVIOUS
    <3> QED BY <2>1, <3>1, <3>2
  <2>3. \A j \in 2 .. 8 : j \in 1 .. 9
    OBVIOUS
  <2>4. \A j \in 1 .. 7 : j \in 1 .. 9
    OBVIOUS
  <2>5. 1 .. 1 = {1} /\ 1 + 1 .. 8 = 2 .. 8
    OBVIOUS
  <2> QED BY <1>4, <2>1, <2>2, <2>3, <2>4, <2>5
<1>6. row.dur.WB = None /\ row.bc.RT = None /\ row.dur.RT = None
  BY <1>2, <1>4
<1>7. 1 .. 1 - 1 = {} /\ 1 /= 8
  OBVIOUS
<1>8. FilledRow(row, q, 1, latency)
  BY <1>1, <1>5, <1>6, <1>7 DEF FilledRow
<1>9. row.bc[Order[1]] = cycle
  BY <1>4, Columns
<1> QED BY <1>3, <1>8, <1>9

(* When Fetch takes a bundle, the rows of its instructions were blank, and *)
(* those of all others stay.                                               *)
LEMMA FetchRows ==
  ASSUME NEW rd \in 0 .. Len(prog), NEW rn \in 0 .. Len(prog),
         NEW de \in 0 .. Len(prog), NEW fe \in 0 .. Len(prog),
         CoreAt(rd, rn, de, fe), OwnRows, OwnRows', TimedInv,
         Fetch, UpdPrintFetch, DE
  PROVE  /\ Live \subseteq Live' /\ Live' \subseteq Live \cup Seqs(De)'
         /\ \A q \in Live : RowOf(q)' = RowOf(q)
         /\ \A q \in Seqs(De)' : Begun(q, 1)'
         /\ InfoTypeOK' /\ OthersBlank'
<1>1. /\ stage = "Fetch" /\ stage' = "Advance_Cycle" /\ FE' /\ De' = inst_input
      /\ UNCHANGED <<params, prog, Rn, Rob>> /\ cycle' = cycle
  BY DEF Fetch, GoTo, mainVars, UpdPrintFetch
<1>0. info' = [i \in DOMAIN info |->
              IF FE' /\ info[i].bc.FE = None /\ \E q \in Seqs(De') : InfoIdx(q) = i
              THEN [info[i] EXCEPT !.seq = CHOOSE q \in Seqs(De') : InfoIdx(q) = i,
                                   !.bc.FE = cycle]
              ELSE info[i]]
  BY DEF UpdPrintFetch
<1>2. /\ CpuTypeOK /\ FrontAt(rn, de, fe) /\ cycle \in Nat /\ InfoTypeOK /\ OthersBlank
      /\ Len(prog) \in Nat /\ Width \in Nat \ {0} /\ Slot = 0 .. Width - 1
      /\ fe \in Nat /\ Len(prog) <= MaxTrace /\ MaxTrace \in Nat
  BY AtStage, Types, Sizes, Numbers
<1>3. Width' = Width /\ Slot' = Slot /\ InfoSize' = InfoSize /\ \A q : InfoIdx(q)' = InfoIdx(q)
  BY <1>1, SameMachine, SameIdx
<1> DEFINE New == Seqs(inst_input)
<1>4. Seqs(De)' = New /\ Seqs(De') = New
  BY <1>1, <1>3 DEF Seqs
<1>5. /\ New \subseteq fe .. Len(prog) - 1
  <2>1. InOrder(inst_input, 0, Width, fe, Len(prog))
    <3>1. InFrom = 0
      BY <1>1 DEF InFrom
    <3> QED BY <1>2, <3>1 DEF FrontAt
  <2>2. \A k \in 0 .. Width - 1 : \/ inst_input[k].seq = None
                                  \/ inst_input[k].seq \in fe .. Len(prog) - 1
    <3> TAKE k \in 0 .. Width - 1
    <3>1. k \in Nat /\ fe + (k - 0) = fe + k
      BY <1>2
    <3>2. inst_input[k].seq = IF fe + k < Len(prog) THEN fe + k ELSE None
      BY <2>1, <3>1 DEF InOrder
    <3> QED BY <1>2, <3>1, <3>2
  <2> QED BY <1>2, <2>2 DEF Seqs
<1>6. \A q \in New : q \in Seq0 /\ q \notin Live
  <2> TAKE q \in New
  <2>1. q \in Nat /\ fe <= q /\ q < Len(prog)
    BY <1>2, <1>5
  <2>2. q \in Live => q < fe
    BY LiveIs
  <2> QED BY <1>2, <2>1, <2>2 DEF Seq0
<1>7. Live \subseteq Live' /\ Live' = Live \cup New
  <2>1. RobSeqs' = RobSeqs /\ Seqs(Rn)' = Seqs(Rn)
    BY <1>1, <1>3, RobStays DEF Seqs
  <2>2. Seqs(De) \subseteq Seqs(Rn)
    <3>1. \A k \in Slot : De[k].seq = Rn[k].seq
      BY <1>1, <1>2 DEF FrontAt, HandedOn, DeMoves
    <3> QED BY <3>1 DEF Seqs
  <2> QED BY <1>4, <2>1, <2>2 DEF Live
<1>8. \A p, q \in Live' : InfoIdx(p) = InfoIdx(q) => p = q
  BY <1>3 DEF OwnRows
<1>9. DOMAIN info = 0 .. InfoSize - 1 /\ \A i \in 0 .. InfoSize - 1 : info[i] \in RowType
  BY <1>2 DEF InfoTypeOK
<1>10. \A q \in Live' : InfoIdx(q) \in 0 .. InfoSize - 1
  BY <1>3 DEF OwnRows
<1>11. ASSUME NEW i \in 0 .. InfoSize - 1, \A q \in New : InfoIdx(q) /= i
       PROVE  info'[i] = info[i]
  BY <1>0, <1>4, <1>9, <1>11
<1>12. \A q \in Live : RowOf(q)' = RowOf(q)
  <2> TAKE q \in Live
  <2>1. InfoIdx(q) \in 0 .. InfoSize - 1 /\ q \in Live'
    BY <1>7, <1>10
  <2>2. \A p \in New : InfoIdx(p) /= InfoIdx(q)
    BY <1>6, <1>7, <1>8, <2>1
  <2>3. info'[InfoIdx(q)] = info[InfoIdx(q)]
    BY <1>11, <2>1, <2>2
  <2> QED BY <1>1, <2>3, SameIdx
<1>13. ASSUME NEW q \in New
       PROVE  info'[InfoIdx(q)] =
                [seq |-> q, bc |-> [Blank EXCEPT !["FE"] = cycle], dur |-> Blank]
  <2> DEFINE i == InfoIdx(q)
  <2>1. i \in 0 .. InfoSize - 1 /\ q \in Live'
    BY <1>7, <1>10, <1>13
  <2>2. info[i] = BlankRow
    <3>1. \A p \in Live : InfoIdx(p) /= i
      BY <1>6, <1>7, <1>8, <1>13, <2>1
    <3> QED BY <1>2, <2>1, <3>1 DEF OthersBlank
  <2>3. info[i].bc.FE = None
    BY <2>2 DEF BlankRow, Blank, Column
  <2>4. (CHOOSE p \in New : InfoIdx(p) = i) = q
    <3>1. \A p \in New : InfoIdx(p) = i => p = q
      BY <1>7, <1>8, <2>1
    <3> QED BY <1>13, <3>1
  <2>5. info'[i] = [info[i] EXCEPT !.seq = CHOOSE p \in Seqs(De') : InfoIdx(p) = i,
                                   !.bc.FE = cycle]
    BY <1>0, <1>1, <1>4, <1>9, <1>13, <2>1, <2>3
  <2>6. info'[i] = [BlankRow EXCEPT !.seq = q, !.bc.FE = cycle]
    BY <1>4, <2>2, <2>4, <2>5
  <2> QED BY <2>6 DEF BlankRow
<1>14. \A q \in New : /\ FilledRow(info'[InfoIdx(q)], q, 1, Lat(q))
                      /\ info'[InfoIdx(q)] \in RowType
                      /\ info'[InfoIdx(q)].bc[Order[1]] = cycle
  BY <1>2, <1>6, <1>13, NewRow
<1>15. \A q \in New : Begun(q, 1)'
  <2> SUFFICES ASSUME NEW q \in New
               PROVE  Begun(q, 1)'
    OBVIOUS
  <2>1. RowOf(q)' = info'[InfoIdx(q)] /\ Lat(q)' = Lat(q)
    BY <1>1, SameIdx
  <2>2. When' = 12
    BY <1>1, WhenIs DEF When
  <2>3. FilledRow(RowOf(q)', q, 1, Lat(q)') /\ RowOf(q)'.bc[Order[1]] = cycle'
    BY <1>1, <1>14, <2>1
  <2>4. RowOf(q)'.bc[Order[1]] <= cycle'
    <3>1. cycle <= cycle
      BY <1>2
    <3> QED BY <1>1, <2>3, <3>1, Zenon
  <2> QED BY <2>2, <2>3, <2>4 DEF Begun
<1>16. InfoTypeOK'
  <2>1. \A i \in 0 .. InfoSize - 1 : info'[i] \in RowType
    <3> TAKE i \in 0 .. InfoSize - 1
    <3>1. CASE \A q \in New : InfoIdx(q) /= i
      BY <1>9, <1>11, <3>1
    <3>2. CASE \E q \in New : InfoIdx(q) = i
      BY <1>14, <3>2
    <3> QED BY <3>1, <3>2
  <2>2. info' \in [0 .. InfoSize - 1 -> RowType]
    BY <1>0, <1>9, <2>1
  <2> QED BY <1>1, <1>2, <1>3, <2>2 DEF InfoTypeOK
<1>17. OthersBlank'
  <2>1. ASSUME NEW i \in 0 .. InfoSize - 1, \A q \in Live' : InfoIdx(q) /= i
        PROVE  info'[i] = BlankRow
    <3>1. info'[i] = info[i]
      BY <1>7, <1>11, <2>1
    <3>2. info[i] = BlankRow
      BY <1>2, <1>7, <2>1 DEF OthersBlank
    <3> QED BY <3>1, <3>2
  <2> QED BY <1>3, <2>1 DEF OthersBlank
<1> HIDE DEF New
<1> QED BY <1>4, <1>7, <1>12, <1>15, <1>16, <1>17

(* Fetch: a bundle gets its rows, and stands in De.                        *)
LEMMA FetchTimed ==
  ASSUME NEW rd \in 0 .. Len(prog), NEW rn \in 0 .. Len(prog),
         NEW de \in 0 .. Len(prog), NEW fe \in 0 .. Len(prog),
         CoreAt(rd, rn, de, fe), Own(rn), Own(rn)', TimedInv,
         Fetch, UpdPrintFetch
  PROVE  TimedInv'
<1>1. /\ stage = "Fetch" /\ stage' = "Advance_Cycle" /\ FE' = DE
      /\ De' = IF DE THEN inst_input ELSE De
      /\ UNCHANGED <<params, prog, Rn, Rr, Di, Rob, Iq, Exc, Wb, done_flag, loop>>
      /\ UNCHANGED <<cycle, last_cycle, last_seq>>
  BY DEF Fetch, GoTo, mainVars, UpdPrintFetch
<1>2. When = 11 /\ When' = 12
  BY <1>1, WhenIs DEF When
<1>3. /\ CpuTypeOK /\ CyclesLeft /\ OpsKept /\ cycle \in Nat /\ RowsFollow
      /\ Len(prog) \in Nat /\ OwnRows /\ OwnRows'
      /\ Width \in Nat \ {0} /\ Slot = 0 .. Width - 1
      /\ DE \in BOOLEAN /\ InfoTypeOK /\ TotalsKept
  BY AtStage, Types DEF Own
<1>4. TimeGoesOn
  BY <1>1, <1>2, <1>3, StagesIs DEF TimeGoesOn
<1>5. Width' = Width /\ Slot' = Slot /\ RobSize' = RobSize
  BY <1>1, SameMachine
<1>6. /\ ReadySeqs' = ReadySeqs /\ RobSeqs' = RobSeqs
      /\ IqSeqs' = IqSeqs /\ ExecSeqs' = ExecSeqs /\ WbSeqs' = WbSeqs /\ ValidIq' = ValidIq
  BY <1>1, RobStays, QueuesStay
<1>7. /\ InStage(3)' = InStage(3) /\ InStage(4)' = InStage(4) /\ InStage(5)' = InStage(5)
      /\ DeFrom' = 0
  <2>1. RrTo' = RrTo /\ DiFrom' = DiFrom /\ RnFrom' = RnFrom /\ DeFrom' = 0
    BY <1>1, <1>5 DEF RrTo, DiFrom, RnFrom, DeFrom, DeMoves
  <2>2. Moving(Di, DiFrom, Width)' = Moving(Di, DiFrom, Width)
    BY <1>1, <1>5, <2>1 DEF Moving
  <2>3. Moving(Rr, 0, RrTo)' = Moving(Rr, 0, RrTo)
    BY <1>1, <2>1 DEF Moving
  <2>4. Moving(Rn, RnFrom, Width)' = Moving(Rn, RnFrom, Width)
    BY <1>1, <1>5, <2>1 DEF Moving
  <2> QED BY <2>1, <2>2, <2>3, <2>4, InStageIs
<1>8. OpsKept'
  BY <1>1, <1>3, OpsStay
<1>9. Clock' = Clock
  BY <1>1, <1>2 DEF Clock
<1>10. CASE ~DE
  <2>1. info' = info
    <3>1. info' = [i \in DOMAIN info |-> info[i]]
      BY <1>1, <1>10 DEF UpdPrintFetch
    <3> QED BY <1>3, <3>1 DEF InfoTypeOK
  <2>2. /\ InStage(2)' = InStage(2) /\ Seqs(De)' = Seqs(De) /\ Seqs(Rn)' = Seqs(Rn)
    <3>1. DeFrom' = DeFrom /\ RnFrom' = RnFrom
      BY <1>1, <1>10 DEF DeFrom, DeMoves, RnFrom
    <3> QED BY <1>1, <1>10, <3>1, FrontStays
  <2>3. Live' = Live /\ \A q \in ReadySeqs' : NowDone(q)
    BY <1>6, <2>2 DEF Live, NowDone
  <2>4. \A n \in 2 .. 8 : \A q \in InStage(n)' : Advances(q, n)
    BY <1>6, <1>7, <2>2, InStageIs, Stays
  <2>5. CyclesLeft'
    <3>1. \A q \in ExecSeqs \cup WbSeqs : RowKept(q)
      BY <1>1, <1>3, <2>1, RowsKept
    <3> QED BY <1>1, <1>3, <1>9, <3>1, UnitsStay
  <2>6. UNCHANGED reportVars
    BY <1>1, <2>1 DEF reportVars
  <2> QED BY <1>1, <1>3, <1>4, <1>8, <2>3, <2>4, <2>5, <2>6, TimedStays
<1>11. CASE DE
  <2>1. /\ Live \subseteq Live' /\ Live' \subseteq Live \cup Seqs(De)'
        /\ \A q \in Live : RowOf(q)' = RowOf(q)
        /\ \A q \in Seqs(De)' : Begun(q, 1)'
        /\ InfoTypeOK' /\ OthersBlank'
    BY <1>3, <1>11, FetchRows
  <2>2. \A q \in Live : RowKept(q)
    BY <1>1, <2>1 DEF RowKept
  <2>3. ASSUME NEW q \in InStage(2)'
        PROVE  Entered(q, 2)'
    <3>1. q \in Seqs(De)'
      <4>1. PICK k \in DeFrom' .. Width' - 1 : q = De'[k].seq /\ q /= None
        BY <2>3, InStageIs DEF Moving
      <4>2. DeFrom' .. Width' - 1 = 0 .. Width - 1
        BY <1>5, <1>7, Zenon
      <4>3. k \in Slot'
        BY <1>3, <1>5, <4>1, <4>2
      <4> QED BY <4>1, <4>3 DEF Seqs
    <3>2. Begun(q, 1)' /\ Moved(2)' /\ 2 - 1 = 1
      BY <1>2, <2>1, <3>1 DEF Moved
    <3> QED BY <3>2 DEF Entered
  <2>4. ASSUME NEW n \in 2 .. 8, NEW q \in InStage(n)'
        PROVE  Entered(q, n)'
    <3>1. n \in {2, 3, 4, 5, 6, 7, 8}
      OBVIOUS
    <3>2. CASE n = 2
      BY <2>3, <3>2
    <3>3. CASE n /= 2
      <4>1. q \in InStage(n)
        BY <1>6, <1>7, <3>1, <3>3, InStageIs
      <4>2. q \in Live
        BY <1>3, <4>1 DEF OwnRows
      <4> QED BY <1>3, <1>4, <2>2, <4>1, <4>2, EnteredKept DEF Advances
    <3> QED BY <3>2, <3>3
  <2>5. ASSUME NEW q \in ReadySeqs'
        PROVE  Begun(q, 8)' /\ (When' <= 2 => RowOf(q)'.bc.WB < cycle')
    <3>1. q \in Live /\ NowDone(q)
      BY <1>3, <1>6 DEF OwnRows, NowDone
    <3> QED BY <1>3, <1>4, <2>2, <3>1, ReadyKept
  <2>6. RowsFollow'
    BY <2>4, <2>5 DEF RowsFollow
  <2>7. CyclesLeft'
    <3>1. ExecSeqs \cup WbSeqs \subseteq Live
      <4>1. InStage(7) \subseteq Live /\ InStage(8) \subseteq Live
        BY <1>3 DEF OwnRows
      <4> QED BY <4>1, InStageIs
    <3> QED BY <1>1, <1>3, <1>9, <2>2, <3>1, UnitsStay
  <2>8. TotalsKept'
    BY <1>1, <1>3, <1>5 DEF TotalsKept
  <2> QED BY <1>8, <2>1, <2>6, <2>7, <2>8 DEF TimedInv
<1> QED BY <1>3, <1>10, <1>11

(* The end of a cycle: all that began in it began before the next one.     *)
LEMMA AdvanceTimed ==
  ASSUME NEW rd \in 0 .. Len(prog), NEW rn \in 0 .. Len(prog),
         NEW de \in 0 .. Len(prog), NEW fe \in 0 .. Len(prog),
         CoreAt(rd, rn, de, fe), Own(rn), TimedInv,
         Advance_Cycle, NextCycle
  PROVE  TimedInv'
<1>1. /\ stage = "Advance_Cycle" /\ stage' \in {"Read", "UpdInfo", "End"}
      /\ done_flag /\ loop = "drain" => stage' = "End" /\ loop' = "drain"
      /\ UNCHANGED <<params, prog, De, Rn, Rr, Di, Rob, Iq, Exc, Wb, done_flag>>
      /\ cycle' = cycle + 1 /\ UNCHANGED <<info, last_cycle, last_seq>>
  BY DEF Advance_Cycle, GoTo, frontVars, NextCycle
<1>2. When = 12 /\ When' = 13
  BY <1>1, WhenIs DEF When
<1>3. /\ CpuTypeOK /\ CyclesLeft /\ OpsKept /\ cycle \in Nat /\ RowsFollow
      /\ Len(prog) \in Nat /\ OwnRows /\ InfoTypeOK /\ OthersBlank /\ TotalsKept
  BY AtStage DEF Own
<1>4. TimeGoesOn
  BY <1>1, <1>2, <1>3, StagesIs DEF TimeGoesOn
<1>5. /\ stage \in Quiet /\ stage' \in Quiet
  BY <1>1 DEF Quiet
<1>6. /\ InStage(2)' = InStage(2) /\ InStage(3)' = InStage(3)
      /\ InStage(4)' = InStage(4) /\ InStage(5)' = InStage(5)
      /\ Seqs(De)' = Seqs(De) /\ Seqs(Rn)' = Seqs(Rn)
  BY <1>1, <1>5, LatchesStay
<1>7. /\ ReadySeqs' = ReadySeqs /\ RobSeqs' = RobSeqs
      /\ IqSeqs' = IqSeqs /\ ExecSeqs' = ExecSeqs /\ WbSeqs' = WbSeqs
  BY <1>1, RobStays, QueuesStay
<1>8. /\ \A q \in Live : RowKept(q)
      /\ \A q \in ExecSeqs \cup WbSeqs : RowKept(q)
  BY <1>1, <1>3, RowsKept
<1>9. InfoSize' = InfoSize /\ Width' = Width /\ RobSize' = RobSize
      /\ \A q : InfoIdx(q)' = InfoIdx(q)
  BY <1>1, SameIdx, SameMachine
<1>10. RowsFollow'
  <2>1. ASSUME NEW n \in 2 .. 8, NEW q \in InStage(n)'
        PROVE  Entered(q, n)'
    <3>1. n \in {2, 3, 4, 5, 6, 7, 8}
      OBVIOUS
    <3>2. q \in InStage(n)
      BY <1>6, <1>7, <2>1, <3>1, InStageIs
    <3>3. q \in Live
      BY <1>3, <3>2 DEF OwnRows
    <3> QED BY <1>3, <1>4, <1>8, <3>2, <3>3, EnteredKept DEF Advances
  <2>2. ASSUME NEW q \in ReadySeqs'
        PROVE  Begun(q, 8)' /\ (When' <= 2 => RowOf(q)'.bc.WB < cycle')
    <3>1. q \in Live /\ NowDone(q)
      BY <1>3, <1>7, <2>2 DEF OwnRows, NowDone
    <3> QED BY <1>3, <1>4, <1>8, <3>1, ReadyKept
  <2> QED BY <2>1, <2>2 DEF RowsFollow
<1>11. CyclesLeft'
  <2>1. Clock' = Clock
    BY <1>1, <1>2 DEF Clock
  <2> QED BY <1>1, <1>3, <1>8, <2>1, UnitsStay
<1>12. InfoTypeOK' /\ OthersBlank'
  <2>1. cycle' \in Nat
    BY <1>1, <1>3
  <2>2. InfoTypeOK'
    BY <1>1, <1>3, <1>9, <2>1 DEF InfoTypeOK
  <2>3. Live' = Live
    BY <1>6, <1>7 DEF Live
  <2>4. OthersBlank'
    BY <1>1, <1>3, <1>9, <2>3 DEF OthersBlank
  <2> QED BY <2>2, <2>4
<1>13. OpsKept'
  BY <1>1, <1>3, OpsStay
<1>14. TotalsKept'
  BY <1>1, <1>3, <1>9 DEF TotalsKept
<1> QED BY <1>10, <1>11, <1>12, <1>13, <1>14 DEF TimedInv

(* Reading goes on behind what is in the stages.                           *)
LEMMA ReadTimed ==
  ASSUME NEW rd \in 0 .. Len(prog), NEW rn \in 0 .. Len(prog),
         NEW de \in 0 .. Len(prog), NEW fe \in 0 .. Len(prog),
         CoreAt(rd, rn, de, fe), Own(rn), TimedInv,
         Read, UNCHANGED reportVars
  PROVE  TimedInv'
<1>1. /\ stage = "Read" /\ stage' = "UpdInfo"
      /\ UNCHANGED <<params, De, Rn, Rr, Di, Rob, Iq, Exc, Wb, done_flag, loop>>
      /\ UNCHANGED <<cycle, info, last_cycle, last_seq>>
  BY DEF Read, ReadNothing, ReadTrace, GoTo, reportVars
<1>2. When = 13 /\ When' = 13
  BY <1>1, WhenIs DEF When
<1>3. /\ CpuTypeOK /\ CyclesLeft /\ OpsKept /\ cycle \in Nat /\ MiddleAt(rd, rn)
      /\ Len(prog) \in Nat /\ OwnRows /\ Width \in Nat \ {0} /\ Slot = 0 .. Width - 1
      /\ prog \in Seq(Instr)
  BY AtStage, Types DEF Own
<1>4. \A m \in 1 .. Len(prog) : prog'[m] = prog[m]
  <2>1. CASE ReadNothing
    BY <2>1 DEF ReadNothing
  <2>2. ASSUME NEW n \in 0 .. Width, NEW bundle \in [1 .. n -> Instr], ReadTrace(n, bundle)
        PROVE  \A m \in 1 .. Len(prog) : prog'[m] = prog[m]
    <3>1. prog' = prog \o bundle
      BY <2>2 DEF ReadTrace
    <3>2. n \in Nat
      BY <1>3
    <3> QED BY <1>3, <3>1, <3>2, Appended
  <2> QED BY <2>1, <2>2 DEF Read
<1>5. TimeGoesOn
  BY <1>1, <1>2, <1>3, StagesIs DEF TimeGoesOn
<1>6. /\ stage \in Quiet /\ stage' \in Quiet
  BY <1>1 DEF Quiet
<1>7. /\ InStage(2)' = InStage(2) /\ InStage(3)' = InStage(3)
      /\ InStage(4)' = InStage(4) /\ InStage(5)' = InStage(5)
      /\ Seqs(De)' = Seqs(De) /\ Seqs(Rn)' = Seqs(Rn)
  BY <1>1, <1>6, LatchesStay
<1>8. /\ ReadySeqs' = ReadySeqs /\ RobSeqs' = RobSeqs
      /\ IqSeqs' = IqSeqs /\ ExecSeqs' = ExecSeqs /\ WbSeqs' = WbSeqs /\ ValidIq' = ValidIq
  BY <1>1, RobStays, QueuesStay
<1>9. Live' = Live /\ \A q \in ReadySeqs' : NowDone(q)
  BY <1>7, <1>8 DEF Live, NowDone
<1>10. \A n \in 2 .. 8 : \A q \in InStage(n)' : Advances(q, n)
  BY <1>7, <1>8, InStageIs, Stays
<1>11. CyclesLeft'
  <2>1. Clock' = Clock
    BY <1>1, <1>2 DEF Clock
  <2>2. \A q \in ExecSeqs \cup WbSeqs : RowKept(q)
    BY <1>1, <1>3, <1>4, RowsKept
  <2> QED BY <1>1, <1>3, <2>1, <2>2, UnitsStay
<1>12. OpsKept'
  <2>1. \A q \in Live : prog'[q + 1] = prog[q + 1]
    <3> TAKE q \in Live
    <3>1. q \in 0 .. Len(prog) - 1
      BY <1>3 DEF OwnRows
    <3>2. q + 1 \in 1 .. Len(prog)
      BY <1>3, <3>1
    <3> QED BY <1>4, <3>2
  <2>2. /\ InStage(4) \subseteq Live /\ InStage(5) \subseteq Live /\ InStage(6) \subseteq Live
    BY <1>3 DEF OwnRows
  <2>3. RrTo = Width /\ DiFrom = 0
    BY <1>6, QuietIs
  <2>4. \A k \in Slot : Rr[k].seq /= None => Rr[k].seq \in Live
    <3>1. InStage(4) = Moving(Rr, 0, Width)
      BY <2>3, InStageIs, Zenon
    <3> QED BY <1>3, <2>2, <3>1 DEF Moving
  <2>5. \A k \in Slot : Di[k].seq /= None => Di[k].seq \in Live
    <3>1. InStage(5) = Moving(Di, 0, Width)
      BY <2>3, InStageIs, Zenon
    <3> QED BY <1>3, <2>2, <3>1 DEF Moving
  <2>6. \A x \in ValidIq : Iq.queue[x].seq \in Live
    BY <2>2, InStageIs DEF IqSeqs
  <2>7. Slot' = Slot
    BY <1>1, SameMachine
  <2>8. OpsOf(Rr)'
    BY <1>1, <1>3, <2>1, <2>4, <2>7 DEF OpsKept, OpsOf
  <2>9. OpsOf(Di)'
    BY <1>1, <1>3, <2>1, <2>5, <2>7 DEF OpsKept, OpsOf
  <2> QED BY <1>1, <1>3, <1>8, <2>1, <2>6, <2>8, <2>9 DEF OpsKept
<1> QED BY <1>1, <1>3, <1>4, <1>5, <1>9, <1>10, <1>11, <1>12, TimedStays

(* The oldest instruction, which Retire removes, is in no stage any more,  *)
(* its row is its own and complete up to write-back.                       *)
LEMMA OldestRow ==
  ASSUME NEW rd \in 0 .. Len(prog), NEW rn \in 0 .. Len(prog),
         NEW de \in 0 .. Len(prog), NEW fe \in 0 .. Len(prog),
         CoreAt(rd, rn, de, fe), Own(rn), TimedInv, stage = "Retire", Retiring
  PROVE  /\ CurrentRob(Rob).seq = rn - Tags.size /\ rn - Tags.size \in Live
         /\ rn - Tags.size \in 0 .. Len(prog) - 1
         /\ Begun(rn - Tags.size, 8) /\ RowOf(rn - Tags.size).bc.WB < cycle
         /\ Tags.size > 0 /\ Tags.size \in Nat
         /\ Rob.Full => Rob.Head = Rob.Tail
<1>1. /\ CpuTypeOK /\ RobAt(rd, rn, de) /\ RowsFollow /\ OwnRows
      /\ RobInOrder(prog, Tags, Dispatched, rn) /\ rn \in Nat
  BY AtStage DEF Own
<1>2. Rob.Head \in Tags.ready /\ rn > 0 /\ Tags.size > 0
  BY <1>1, SomethingToRetire
<1>3. Rob.Head \in Tag /\ Pos(Rob.Head) = 0
  BY <1>1, RobTypes, PosIs
<1>4. /\ Rob.Head \in Tags.held /\ Tags.pos[Rob.Head] = 0 /\ Tags.size \in Nat
      /\ Tags.seq[Rob.Head] = Rob.cqueue[Rob.Head].seq
  BY <1>1, <1>2, <1>3, TagsIs
<1>5. Tags.seq[Rob.Head] = rn - Tags.size
  <2>1. Tags.seq[Rob.Head] = (rn - Tags.size) + Tags.pos[Rob.Head]
    BY <1>1, <1>4, HeldIs
  <2>2. (rn - Tags.size) + 0 = rn - Tags.size
    BY <1>1, <1>4
  <2> QED BY <1>4, <2>1, <2>2
<1>6. rn - Tags.size \in ReadySeqs
  BY <1>2, <1>4, <1>5 DEF ReadySeqs
<1>7. When = 1
  BY WhenIs DEF When
<1>8. /\ Begun(rn - Tags.size, 8) /\ RowOf(rn - Tags.size).bc.WB < cycle
  <2>1. When <= 2
    BY <1>7
  <2> QED BY <1>1, <1>6, <2>1 DEF RowsFollow
<1>9. rn - Tags.size \in Live /\ rn - Tags.size \in 0 .. Len(prog) - 1
  BY <1>1, <1>6 DEF OwnRows
<1>10. CurrentRob(Rob).seq = rn - Tags.size
  BY <1>4, <1>5 DEF CurrentRob
<1>11. Rob.Full => Rob.Head = Rob.Tail
  BY <1>1 DEF RobAt, RobHasRoom
<1> QED BY <1>2, <1>4, <1>8, <1>9, <1>10, <1>11

(* Retire blanks the row of the instruction that leaves and no other.      *)
LEMMA RetireTimed ==
  ASSUME NEW rd \in 0 .. Len(prog), NEW rn \in 0 .. Len(prog),
         NEW de \in 0 .. Len(prog), NEW fe \in 0 .. Len(prog),
         CoreAt(rd, rn, de, fe), Own(rn), Own(rn)', TimedInv,
         Retire, PrintInfo
  PROVE  TimedInv'
<1>1. /\ stage = "Retire" /\ TurnThen("Writeback")
      /\ UNCHANGED <<params, prog, De, Rn, Rr, Di, Iq, Exc, Wb, loop>>
  BY DEF Retire, mainVars, frontVars
<1>3. /\ CpuTypeOK /\ CyclesLeft /\ OpsKept /\ cycle \in Nat /\ RowsFollow
      /\ Len(prog) \in Nat /\ OwnRows /\ OwnRows' /\ InfoTypeOK /\ OthersBlank
      /\ TotalsKept
      /\ slot \in Slot /\ stage \in Stages /\ params \in Params
      /\ FrontAt(rn, de, fe) /\ RobAt(rd, rn, de)
  BY AtStage DEF Own
<1>4. stage' \in {"Retire", "Writeback"}
  BY <1>1, <1>3, TurnIs, StagesIs
<1>2. When = 1 /\ When' \in {1, 2}
  BY <1>1, <1>4, WhenIs DEF When
<1>5. /\ stage \in Quiet /\ stage' \in Quiet
  BY <1>1, <1>4 DEF Quiet
<1>6. /\ InStage(2)' = InStage(2) /\ InStage(3)' = InStage(3)
      /\ InStage(4)' = InStage(4) /\ InStage(5)' = InStage(5)
      /\ Seqs(De)' = Seqs(De) /\ Seqs(Rn)' = Seqs(Rn)
  BY <1>1, <1>5, LatchesStay
<1>7. /\ IqSeqs' = IqSeqs /\ ExecSeqs' = ExecSeqs /\ WbSeqs' = WbSeqs /\ ValidIq' = ValidIq
  BY <1>1, QueuesStay
<1>8. OpsKept'
  BY <1>1, <1>3, OpsStay
<1>9. CASE ~Retiring
  <2>1. UNCHANGED <<Rob, done_flag>> /\ UNCHANGED reportVars
    BY <1>9 DEF Retire, PrintInfo
  <2>2. cycle' = cycle
    BY <2>1 DEF reportVars
  <2>3. TimeGoesOn
    BY <1>1, <1>2, <1>3, <1>4, <2>2, StagesIs DEF TimeGoesOn
  <2>4. ReadySeqs' = ReadySeqs /\ RobSeqs' = RobSeqs
    BY <1>1, <2>1, RobStays
  <2>5. Live' = Live /\ \A q \in ReadySeqs' : NowDone(q)
    BY <1>6, <2>4 DEF Live, NowDone
  <2>6. \A n \in 2 .. 8 : \A q \in InStage(n)' : Advances(q, n)
    BY <1>6, <1>7, InStageIs, Stays
  <2>7. CyclesLeft'
    <3>1. \A q \in ExecSeqs \cup WbSeqs : RowKept(q)
      BY <1>1, <1>3, <2>1, RowsKept DEF reportVars
    <3>2. Clock' = Clock
      BY <1>2, <2>2 DEF Clock
    <3> QED BY <1>1, <1>3, <3>1, <3>2, UnitsStay
  <2> QED BY <1>1, <1>3, <1>4, <1>8, <2>1, <2>3, <2>5, <2>6, <2>7, TimedStays
<1>10. CASE Retiring
  <2>0. PICK q0 : q0 = rn - Tags.size
    OBVIOUS
  <2>1. /\ CurrentRob(Rob).seq = q0 /\ q0 \in Live /\ q0 \in 0 .. Len(prog) - 1
        /\ Begun(q0, 8) /\ Tags.size > 0 /\ Tags.size \in Nat
        /\ Rob.Full => Rob.Head = Rob.Tail
    <3>1. /\ CurrentRob(Rob).seq = rn - Tags.size /\ rn - Tags.size \in Live
          /\ rn - Tags.size \in 0 .. Len(prog) - 1
          /\ Begun(rn - Tags.size, 8) /\ Tags.size > 0 /\ Tags.size \in Nat
          /\ Rob.Full => Rob.Head = Rob.Tail
      BY <1>1, <1>10, OldestRow
    <3> QED BY <2>0, <3>1, Zenon
  <2>2. /\ Rob' = RemoveHead(Rob) /\ done_flag' = EmptiedBy(Rob)
        /\ info' = [info EXCEPT ![InfoIdx(q0)] = BlankRow]
        /\ EmptiedBy(Rob) => /\ last_cycle' = cycle + 1
                             /\ last_seq' = info[InfoIdx(q0)].seq + 1
        /\ cycle' = cycle
    BY <1>10, <2>1 DEF Retire, PrintInfo
  <2>3. /\ Tags'.size = Tags.size - 1 /\ Tags'.held \subseteq Tags.held
        /\ Tags'.seq = Tags.seq /\ Tags'.ready = Tags.ready
    BY <1>1, <1>3, <2>1, <2>2, RetireTags
  <2>4. /\ RobSeqs = q0 .. rn - 1 /\ RobSeqs' = q0 + 1 .. rn - 1
        /\ rn \in Nat /\ q0 \in Nat
    <3>1. /\ RobSeqs = rn - Tags.size .. rn - 1 /\ rn - Tags.size \in Nat /\ rn \in Nat
          /\ RobSeqs' = rn - Tags'.size .. rn - 1
      BY DEF Own
    <3>2. rn - Tags'.size = q0 + 1
      BY <2>0, <2>1, <2>3, <3>1
    <3>3. RobSeqs' = q0 + 1 .. rn - 1
      BY <3>1, <3>2, Zenon
    <3> QED BY <2>0, <3>1, <3>3
  <2>5. q0 \notin Seqs(De) /\ q0 \notin Seqs(Rn)
    <3>1. /\ InStage(2) = de .. fe - 1 /\ InStage(3) = rn .. de - 1
      BY LatchesAre
    <3>2. /\ rn \in Nat /\ de \in Nat /\ fe \in Nat /\ rn <= de /\ q0 < rn
          /\ Width \in Nat /\ Slot = 0 .. Width - 1
      <4>1. RnFrom \in Nat /\ Width \in Nat /\ Slot = 0 .. Width - 1
        BY <1>3, FromsIn, Types, Sizes
      <4>2. rn <= de /\ rn \in Nat /\ de \in Nat /\ fe \in Nat
        BY <1>3, Numbers DEF FrontAt, InOrder
      <4>3. q0 < rn
        BY <2>0, <2>1, <2>4
      <4> QED BY <4>1, <4>2, <4>3
    <3>3. Seqs(De) = InStage(2) /\ Seqs(Rn) = InStage(3)
      <4>1. DeFrom = 0 /\ RnFrom = 0
        BY <1>5, QuietIs
      <4>2. InStage(2) = Moving(De, 0, Width) /\ InStage(3) = Moving(Rn, 0, Width)
        BY <4>1, InStageIs, Zenon
      <4> QED BY <3>2, <4>2 DEF Moving, Seqs
    <3>4. q0 \notin de .. fe - 1 /\ q0 \notin rn .. de - 1
      BY <2>4, <3>2
    <3> QED BY <3>1, <3>3, <3>4
  <2>6. /\ q0 \notin Live' /\ Live' \subseteq Live /\ Live \subseteq Live' \cup {q0}
    <3>1. /\ q0 \notin q0 + 1 .. rn - 1 /\ q0 + 1 .. rn - 1 \subseteq q0 .. rn - 1
          /\ q0 .. rn - 1 \subseteq (q0 + 1 .. rn - 1) \cup {q0}
      BY <2>4
    <3> QED BY <1>6, <2>4, <2>5, <3>1 DEF Live
  <2>7. /\ InfoSize' = InfoSize /\ \A q : InfoIdx(q)' = InfoIdx(q)
        /\ \A q : RowOf(q)' = info'[InfoIdx(q)]
        /\ \A q : RowOf(q) = info[InfoIdx(q)]
        /\ Width' = Width /\ RobSize' = RobSize
    BY <1>1, SameIdx, SameMachine
  <2>8. /\ InfoIdx(q0) \in 0 .. InfoSize - 1
        /\ info'[InfoIdx(q0)] = BlankRow
        /\ \A i \in 0 .. InfoSize - 1 : i /= InfoIdx(q0) => info'[i] = info[i]
        /\ info \in [0 .. InfoSize - 1 -> RowType]
    <3>1. InfoIdx(q0) \in 0 .. InfoSize - 1 /\ info \in [0 .. InfoSize - 1 -> RowType]
      BY <1>3, <2>1 DEF OwnRows, InfoTypeOK
    <3> QED BY <2>2, <3>1
  <2>9. \A q \in Live' : RowKept(q)
    <3> TAKE q \in Live'
    <3>1. q \in Live /\ q /= q0
      BY <2>6
    <3>2. InfoIdx(q) /= InfoIdx(q0) /\ InfoIdx(q) \in 0 .. InfoSize - 1
      BY <1>3, <2>1, <3>1 DEF OwnRows
    <3>3. RowOf(q)' = RowOf(q)
      BY <2>7, <2>8, <3>2
    <3> QED BY <1>1, <3>3 DEF RowKept
  <2>10. TimeGoesOn
    BY <1>1, <1>2, <1>3, <1>4, <2>2, StagesIs DEF TimeGoesOn
  <2>11. ReadySeqs' \subseteq ReadySeqs
    BY <2>3 DEF ReadySeqs
  <2>12. RowsFollow'
    <3>1. ASSUME NEW n \in 2 .. 8, NEW q \in InStage(n)'
          PROVE  Entered(q, n)'
      <4>1. n \in {2, 3, 4, 5, 6, 7, 8}
        OBVIOUS
      <4>2. q \in InStage(n)
        BY <1>6, <1>7, <3>1, <4>1, InStageIs
      <4>3. q \in Live'
        BY <1>3, <3>1 DEF OwnRows
      <4> QED BY <1>3, <2>9, <2>10, <4>2, <4>3, EnteredKept DEF Advances
    <3>2. ASSUME NEW q \in ReadySeqs'
          PROVE  Begun(q, 8)' /\ (When' <= 2 => RowOf(q)'.bc.WB < cycle')
      <4>1. q \in Live' /\ NowDone(q)
        BY <1>3, <2>11, <3>2 DEF OwnRows, NowDone
      <4> QED BY <1>3, <2>9, <2>10, <4>1, ReadyKept
    <3> QED BY <3>1, <3>2 DEF RowsFollow
  <2>13. CyclesLeft'
    <3>1. Clock' = Clock
      BY <1>2, <2>2 DEF Clock
    <3>2. ExecSeqs \cup WbSeqs \subseteq Live'
      <4>1. InStage(7)' \subseteq Live' /\ InStage(8)' \subseteq Live'
        BY <1>3 DEF OwnRows
      <4> QED BY <1>7, <4>1, InStageIs
    <3> QED BY <1>1, <1>3, <2>9, <3>1, <3>2, UnitsStay
  <2>14. InfoTypeOK'
    <3>1. BlankRow \in RowType
      BY DEF BlankRow, Blank, RowType
    <3>2. info' \in [0 .. InfoSize - 1 -> RowType]
      BY <2>2, <2>8, <3>1
    <3> QED BY <1>3, <2>2, <2>7, <3>2 DEF InfoTypeOK
  <2>15. OthersBlank'
    <3>1. ASSUME NEW i \in 0 .. InfoSize - 1, \A q \in Live' : InfoIdx(q) /= i
          PROVE  info'[i] = BlankRow
      <4>1. CASE i = InfoIdx(q0)
        BY <2>8, <4>1
      <4>2. CASE i /= InfoIdx(q0)
        <5>1. \A q \in Live : InfoIdx(q) /= i
          BY <2>6, <3>1, <4>2
        <5>2. info[i] = BlankRow
          BY <1>3, <5>1 DEF OthersBlank
        <5> QED BY <2>8, <4>2, <5>2
      <4> QED BY <4>1, <4>2
    <3> QED BY <2>7, <3>1 DEF OthersBlank
  <2>16. TotalsKept'
    <3> SUFFICES ASSUME 2 * Width <= RobSize, done_flag'
                 PROVE  /\ loop' = "drain" /\ stage' \notin {"Read", "UpdInfo", "End"}
                        /\ last_seq' = Len(prog) /\ last_cycle' = cycle + 1
      BY <1>1, <2>2, <2>7 DEF TotalsKept
    <3>1. loop' = "drain" /\ rn = Len(prog') /\ Tags'.size = 0
      BY <2>7 DEF Own
    <3>2. last_cycle' = cycle + 1 /\ last_seq' = info[InfoIdx(q0)].seq + 1
      BY <2>2
    <3>3. info[InfoIdx(q0)].seq = q0
      BY <2>1, <2>7 DEF Begun, FilledRow
    <3>4. q0 + 1 = rn
      <4>1. Tags.size - 1 = 0
        BY <2>3, <3>1
      <4>2. Tags.size = 1
        BY <2>1, <4>1
      <4>3. q0 = rn - 1
        BY <2>0, <4>2, Zenon
      <4>4. rn \in Nat
        BY <2>4
      <4> QED BY <4>3, <4>4
    <3> QED BY <1>1, <1>4, <3>1, <3>2, <3>3, <3>4
  <2> QED BY <1>8, <2>12, <2>13, <2>14, <2>15, <2>16 DEF TimedInv
<1> QED BY <1>9, <1>10

(***************************************************************************)
(* The invariant, from the start and through every step.                   *)
(***************************************************************************)
(* The table starts blank, with no instruction under way.                  *)
LEMMA InitTimed == TimedInit => TimedInv
<1> SUFFICES ASSUME TimedInit
             PROVE  TimedInv
  OBVIOUS
<1>1. /\ Init /\ cycle = 0 /\ info = [i \in 0 .. InfoSize - 1 |-> BlankRow]
  BY DEF TimedInit
<1>2. CpuTypeOK /\ params \in Params
  BY <1>1, InitTypes DEF Init
<1>3. /\ Tag = 0 .. RobSize - 1 /\ RobSize \in Nat \ {0} /\ Unit = 0 .. 5 * Width - 1
      /\ Slot = 0 .. Width - 1 /\ Width \in Nat \ {0} /\ None \notin Nat
      /\ Entry = 0 .. IqSize - 1
  BY <1>2, Sizes
<1>4. /\ De = NoBundle /\ Rn = NoBundle /\ Rr = NoBundle /\ Di = NoBundle
      /\ stage = "Read" /\ ~done_flag /\ Rob = EmptyRob(0) /\ Iq = EmptyIq
      /\ Exc = IdleUnits
      /\ Wb = [u \in Unit |-> [v |-> FALSE, seq |-> 0, Rob_tag |-> 0]]
  BY <1>1 DEF Init
<1>5. ValidIq = {} /\ BusyUnits = {} /\ WbSeqs = {}
  <2>1. ValidIq = {}
    BY <1>4 DEF ValidIq, EmptyIq, InvEntry
  <2>2. BusyUnits = {}
    BY <1>4 DEF BusyUnits, IdleUnits
  <2>3. WbSeqs = {}
    BY <1>4 DEF WbSeqs
  <2> QED BY <2>1, <2>2, <2>3
<1>6. IqSeqs = {} /\ ExecSeqs = {}
  BY <1>5 DEF IqSeqs, ExecSeqs
<1>7. \A k \in Slot : /\ De[k].seq = None /\ Rn[k].seq = None
                      /\ Rr[k].seq = None /\ Di[k].seq = None
  BY <1>4 DEF NoBundle, Bubble
<1>8. DiFrom = 0 /\ RrTo = Width /\ RnFrom = 0 /\ DeFrom = 0
  BY <1>4 DEF DiFrom, RrTo, RnFrom, DeFrom, DeMoves
<1>9. InStage(2) = {} /\ InStage(3) = {} /\ InStage(4) = {} /\ InStage(5) = {}
  <2>1. Moving(De, 0, Width) = {} /\ Moving(Rn, 0, Width) = {}
    BY <1>3, <1>7 DEF Moving
  <2>2. Moving(Rr, 0, Width) = {} /\ Moving(Di, 0, Width) = {}
    BY <1>3, <1>7 DEF Moving
  <2> QED BY <1>8, <2>1, <2>2, InStageIs, Zenon
<1>10. ReadySeqs = {}
  <2>1. \A t \in Tag : ~Rob.cqueue[t].rdy
    BY <1>4 DEF EmptyRob
  <2>2. \A t \in Tags.held : t \in Tag
    BY <1>2, TagsIs
  <2>3. Tags.held \cap Tags.ready = {}
    BY <1>2, <2>1, <2>2, TagsIs
  <2> QED BY <2>3 DEF ReadySeqs
<1>11. RowsFollow
  <2>1. \A n \in 2 .. 8 : n \in {2, 3, 4, 5, 6, 7, 8}
    OBVIOUS
  <2>2. \A n \in {2, 3, 4, 5, 6, 7, 8} : InStage(n) = {}
    BY <1>5, <1>6, <1>9, InStageIs
  <2> QED BY <1>10, <2>1, <2>2 DEF RowsFollow
<1>12. InfoTypeOK
  <2>1. BlankRow \in RowType
    BY DEF BlankRow, Blank, RowType
  <2> QED BY <1>1, <2>1 DEF InfoTypeOK
<1>13. CyclesLeft
  BY <1>5 DEF CyclesLeft
<1>14. OthersBlank
  BY <1>1 DEF OthersBlank
<1>15. OpsKept
  BY <1>5, <1>7 DEF OpsKept, OpsOf
<1>16. TotalsKept
  BY <1>4 DEF TotalsKept
<1> QED BY <1>11, <1>12, <1>13, <1>14, <1>15, <1>16 DEF TimedInv

(* The simulation has ended, or takes no step.                             *)
LEMMA StutterTimed ==
  ASSUME TimedInv, UNCHANGED <<vars, reportVars>>
  PROVE  TimedInv'
<1>1. /\ UNCHANGED <<params, prog, stage, slot, De, Rn, Rr, Di, Rob, Iq, Exc, Wb,
                     DE, RN, RR, DI, done_flag, loop>>
      /\ UNCHANGED <<cycle, info, last_cycle, last_seq>>
  BY DEF vars, reportVars
<1>2. /\ Width' = Width /\ Slot' = Slot /\ RobSize' = RobSize /\ InfoSize' = InfoSize
      /\ \A q : InfoIdx(q)' = InfoIdx(q) /\ RowOf(q)' = RowOf(q) /\ Lat(q)' = Lat(q)
  BY <1>1, SameMachine, SameIdx
<1>3. /\ DeFrom' = DeFrom /\ RnFrom' = RnFrom /\ RrTo' = RrTo /\ DiFrom' = DiFrom
  BY <1>1, <1>2 DEF DeFrom, DeMoves, RnFrom, RrTo, DiFrom
<1>4. /\ InStage(2)' = InStage(2) /\ InStage(3)' = InStage(3)
      /\ Seqs(De)' = Seqs(De) /\ Seqs(Rn)' = Seqs(Rn)
  BY <1>1, <1>3, FrontStays
<1>5. InStage(4)' = InStage(4) /\ InStage(5)' = InStage(5)
  <2>1. Moving(Rr, 0, RrTo)' = Moving(Rr, 0, RrTo)
    BY <1>1, <1>3 DEF Moving
  <2>2. Moving(Di, DiFrom, Width)' = Moving(Di, DiFrom, Width)
    BY <1>1, <1>2, <1>3 DEF Moving
  <2> QED BY <2>1, <2>2, InStageIs
<1>6. /\ ReadySeqs' = ReadySeqs /\ RobSeqs' = RobSeqs
      /\ IqSeqs' = IqSeqs /\ ExecSeqs' = ExecSeqs /\ WbSeqs' = WbSeqs
      /\ BusyUnits' = BusyUnits
  BY <1>1, RobStays, QueuesStay
<1>7. When' = When
  BY <1>1 DEF When
<1>8. \A n \in 2 .. 8 : InStage(n)' = InStage(n)
  <2>1. \A n \in 2 .. 8 : n \in {2, 3, 4, 5, 6, 7, 8}
    OBVIOUS
  <2> QED BY <1>4, <1>5, <1>6, <2>1, InStageIs
<1>9. \A q : \A n : Begun(q, n)' = Begun(q, n) /\ Moved(n)' = Moved(n)
  BY <1>1, <1>2, <1>7 DEF Begun, Moved
<1>10. RowsFollow'
  <2>1. RowsFollow
    BY DEF TimedInv
  <2>2. \A n \in 2 .. 8 : \A q \in InStage(n)' : Entered(q, n)'
    BY <1>8, <1>9, <2>1 DEF RowsFollow, Entered
  <2>3. \A q \in ReadySeqs' : Begun(q, 8)' /\ (When' <= 2 => RowOf(q)'.bc.WB < cycle')
    BY <1>1, <1>2, <1>6, <1>7, <1>9, <2>1 DEF RowsFollow
  <2> QED BY <2>2, <2>3 DEF RowsFollow
<1>11. CyclesLeft'
  <2>1. Clock' = Clock
    BY <1>1, <1>7 DEF Clock
  <2>2. \A q \in ExecSeqs \cup WbSeqs : RowKept(q)
    BY <1>1, <1>2 DEF RowKept
  <2> QED BY <1>1, <2>1, <2>2, UnitsStay DEF TimedInv
<1>12. InfoTypeOK' /\ OthersBlank'
  <2>1. Live' = Live
    BY <1>4, <1>6 DEF Live
  <2> QED BY <1>1, <1>2, <2>1 DEF TimedInv, InfoTypeOK, OthersBlank
<1>13. OpsKept'
  BY <1>1, OpsStay DEF TimedInv
<1>14. TotalsKept'
  BY <1>1, <1>2 DEF TimedInv, TotalsKept
<1> QED BY <1>10, <1>11, <1>12, <1>13, <1>14 DEF TimedInv

(* Every step keeps the invariant.                                         *)
LEMMA StepTimed ==
  ASSUME CoreInv, \A n : CoreFor(n)' => Own(n)', TimedInv, [TimedNext]_timedVars
  PROVE  TimedInv'
<1>1. PICK rd, rn, de, fe \in 0 .. Len(prog) : CoreAt(rd, rn, de, fe)
  BY DEF CoreInv
<1>2. Own(rn) /\ OwnRows
  <2>1. CoreFor(rn)
    BY <1>1 DEF CoreFor
  <2> QED BY <2>1, OwnIs DEF Own
<1>3. CASE BeginCycle /\ UpdInfo
  BY <1>1, <1>2, <1>3, UpdInfoKeeps
<1>4. CASE Retire /\ PrintInfo
  <2>1. Own(rn)'
    BY <1>1, <1>4, RetireKeeps
  <2> QED BY <1>1, <1>2, <1>4, <2>1, RetireTimed
<1>5. CASE Fetch /\ UpdPrintFetch
  <2>1. Own(rn)'
    BY <1>1, <1>5, FetchKeeps
  <2> QED BY <1>1, <1>2, <1>5, <2>1, FetchTimed
<1>6. CASE Advance_Cycle /\ NextCycle
  BY <1>1, <1>2, <1>6, AdvanceTimed
<1>7. CASE Read /\ UNCHANGED reportVars
  BY <1>1, <1>2, <1>7, ReadTimed
<1>8. CASE Writeback /\ UNCHANGED reportVars
  <2>1. Own(rn)'
    BY <1>1, <1>8, WritebackKeeps
  <2> QED BY <1>1, <1>2, <1>8, <2>1, WritebackTimed
<1>9. CASE Execute /\ UNCHANGED reportVars
  BY <1>1, <1>2, <1>9, ExecuteTimed
<1>10. CASE Issue /\ UNCHANGED reportVars
  BY <1>1, <1>2, <1>10, IssueTimed
<1>11. CASE Dispatch /\ UNCHANGED reportVars
  BY <1>1, <1>2, <1>11, DispatchTimed
<1>12. CASE Enqueue /\ UNCHANGED reportVars
  BY <1>1, <1>2, <1>12, EnqueueTimed
<1>13. CASE RegRead /\ UNCHANGED reportVars
  BY <1>1, <1>2, <1>13, RegReadTimed
<1>14. CASE Rename /\ UNCHANGED reportVars
  BY <1>1, <1>2, <1>14, RenameTimed
<1>15. CASE RenameInst /\ UNCHANGED reportVars
  <2>1. PICK rn2 : CoreFor(rn2)' /\ rn2 - Tags'.size = rn - Tags.size
    BY <1>1, <1>15, RenameInstKeeps
  <2>2. Own(rn2)'
    BY <2>1
  <2> QED BY <1>1, <1>2, <1>15, <2>1, <2>2, RenameInstTimed
<1>16. CASE Decode /\ UNCHANGED reportVars
  BY <1>1, <1>2, <1>16, DecodeTimed
<1>17. CASE UNCHANGED <<vars, reportVars>>
  BY <1>17, StutterTimed
<1>18. End /\ UNCHANGED reportVars => UNCHANGED <<vars, reportVars>>
  BY DEF End
<1>19. UNCHANGED timedVars => UNCHANGED <<vars, reportVars>>
  BY DEF timedVars
<1> QED BY <1>3, <1>4, <1>5, <1>6, <1>7, <1>8, <1>9, <1>10, <1>11, <1>12, <1>13,
           <1>14, <1>15, <1>16, <1>17, <1>18, <1>19 DEF TimedNext

(* The simulator with its report is the simulator: the report's variables  *)
(* are only written.                                                       *)
LEMMA TimedIsCore == TimedSpec => Spec
<1>1. TimedInit => Init
  BY DEF TimedInit
<1>2. [TimedNext]_timedVars => [Next]_vars
  <2>1. TimedNext => Next
    BY DEF TimedNext, Next, BackEnd, FrontEnd
  <2>2. UNCHANGED timedVars => UNCHANGED vars
    BY DEF timedVars
  <2> QED BY <2>1, <2>2
<1> QED BY <1>1, <1>2, PTL DEF TimedSpec, Spec

(* The row of every instruction follows it through the stages, the rows of *)
(* the table are those of the instructions under way and otherwise blank,  *)
(* and a unit has as many cycles left as its row says (UpdInfo, cpu.cc).   *)
THEOREM TimedInductive == TimedSpec => []TimedInv
<1>1. TimedSpec => []CoreInv
  BY TimedIsCore, CoreInductive, PTL
<1>2. TimedInit => TimedInv
  BY InitTimed
<1>3. CoreInv /\ (\A n : CoreFor(n) => Own(n))' /\ TimedInv /\ [TimedNext]_timedVars
        => TimedInv'
  <2> SUFFICES ASSUME CoreInv, (\A n : CoreFor(n) => Own(n))', TimedInv,
                      [TimedNext]_timedVars
               PROVE  TimedInv'
    OBVIOUS
  <2>1. \A n : CoreFor(n)' => Own(n)'
    OBVIOUS
  <2> QED BY <2>1, StepTimed
<1>4. \A n : CoreFor(n) => Own(n)
  BY OwnIs
<1> QED BY <1>1, <1>2, <1>3, <1>4, PTL DEF TimedSpec

(* What print_info completes in the row it prints.                         *)
Closes(row, out) == out = [row EXCEPT !.dur.RT = cycle + 1 - row.bc.RT]

(* A row with every cycle of its instruction accounted for.                *)
CompleteRow(out, q, latency) ==
  /\ out.seq = q
  /\ \A s \in Column : out.bc[s] /= None /\ out.dur[s] /= None
  /\ \A s \in Column : out.dur[s] >= 1
  /\ \A j \in 1 .. 8 : out.bc[Order[j]] + out.dur[Order[j]] = out.bc[Order[j + 1]]
  /\ out.bc.RT + out.dur.RT = cycle + 1
  /\ out.dur.EX = latency

(* The row that Retire prints, from the one in the table.                  *)
LEMMA PrintedRow ==
  ASSUME NEW row \in RowType, NEW q, NEW latency, FilledRow(row, q, 8, latency),
         cycle \in Nat, row.bc.WB < cycle, None \notin Nat,
         NEW out, Closes(row, out)
  PROVE  CompleteRow(out, q, latency)
<1>1. /\ row.seq = q
      /\ \A j \in 1 .. 8 : row.bc[Order[j]] \in Nat
      /\ \A j \in 1 .. 7 : /\ row.dur[Order[j]] \in Nat \ {0}
                           /\ row.bc[Order[j]] + row.dur[Order[j]] = row.bc[Order[j + 1]]
      /\ row.dur["WB"] = 1 /\ row.bc["RT"] = row.bc["WB"] + 1 /\ row.dur["EX"] = latency
  <2>1. 8 - 1 = 7
    OBVIOUS
  <2> QED BY <2>1, Zenon DEF FilledRow
<1>2. row.dur \in [Column -> Nat \cup {None}]
  BY DEF RowType
<1>3. /\ out.seq = row.seq /\ out.bc = row.bc
      /\ out.dur = [row.dur EXCEPT !["RT"] = cycle + 1 - row.bc["RT"]]
  BY DEF RowType, Closes
<1>4. "RT" \in Column /\ "EX" \in Column /\ "WB" \in Column
  BY DEF Column
<1>5. /\ out.dur["RT"] = cycle + 1 - row.bc["RT"]
      /\ \A s \in Column : s /= "RT" => out.dur[s] = row.dur[s]
  BY <1>2, <1>3, <1>4
<1>6. /\ Order[7] = "EX" /\ Order[8] = "WB" /\ Order[9] = "RT"
      /\ \A s \in Column : \E j \in 1 .. 9 : s = Order[j]
      /\ \A j \in 1 .. 8 : Order[j] \in Column /\ Order[j] /= "RT"
  <2>1. /\ Order[7] = "EX" /\ Order[8] = "WB" /\ Order[9] = "RT"
        /\ Column = {Order[j] : j \in 1 .. 9}
        /\ \A j, k \in 1 .. 9 : Order[j] = Order[k] => j = k
        /\ \A j \in 1 .. 9 : Order[j] \in Column
    BY Columns
  <2>2. \A s \in Column : \E j \in 1 .. 9 : s = Order[j]
    BY <2>1
  <2>3. \A j \in 1 .. 8 : j \in 1 .. 9 /\ j /= 9 /\ 9 \in 1 .. 9
    OBVIOUS
  <2> QED BY <2>1, <2>2, <2>3
<1>7. row.bc["WB"] \in Nat
  <2>1. 8 \in 1 .. 8
    OBVIOUS
  <2> QED BY <1>1, <1>6, <2>1
<1>8. PICK wb \in Nat, rt \in Nat : /\ wb = row.bc["WB"] /\ rt = row.bc["RT"]
                                    /\ rt = wb + 1 /\ wb < cycle
  <2>1. PICK wb \in Nat : wb = row.bc["WB"] /\ wb < cycle
    BY <1>7
  <2>2. wb + 1 \in Nat /\ row.bc["RT"] = wb + 1
    BY <1>1, <2>1
  <2> QED BY <2>1, <2>2
<1>9. PICK last_dur \in Nat : /\ last_dur = out.dur["RT"] /\ last_dur >= 1
                              /\ rt + last_dur = cycle + 1
  <2>1. cycle + 1 - rt \in Nat /\ cycle + 1 - rt >= 1 /\ rt + (cycle + 1 - rt) = cycle + 1
    BY <1>8
  <2>2. out.dur["RT"] = cycle + 1 - rt
    BY <1>5, <1>8, Zenon
  <2> QED BY <2>1, <2>2
<1>10. \A j \in 1 .. 8 : /\ out.bc[Order[j]] \in Nat /\ out.dur[Order[j]] \in Nat \ {0}
                         /\ out.bc[Order[j]] + out.dur[Order[j]] = out.bc[Order[j + 1]]
  <2> TAKE j \in 1 .. 8
  <2>1. out.bc[Order[j]] = row.bc[Order[j]] /\ out.dur[Order[j]] = row.dur[Order[j]]
        /\ out.bc[Order[j + 1]] = row.bc[Order[j + 1]]
    BY <1>3, <1>5, <1>6
  <2>2. CASE j \in 1 .. 7
    BY <1>1, <2>1, <2>2
  <2>3. CASE j = 8
    <3>1. Order[j] = "WB" /\ Order[j + 1] = "RT"
      <4>1. 8 + 1 = 9
        OBVIOUS
      <4> QED BY <1>6, <2>3, <4>1
    <3>2. row.dur["WB"] = 1 /\ row.bc["RT"] = row.bc["WB"] + 1 /\ row.bc["WB"] \in Nat
      BY <1>1, <1>7
    <3>3. 1 \in Nat \ {0}
      OBVIOUS
    <3> QED BY <2>1, <3>1, <3>2, <3>3
  <2>4. j \in 1 .. 7 \/ j = 8
    OBVIOUS
  <2> QED BY <2>2, <2>3, <2>4
<1>11. \A j \in 1 .. 9 : /\ out.bc[Order[j]] \in Nat /\ out.dur[Order[j]] \in Nat
                         /\ out.dur[Order[j]] >= 1
  <2> TAKE j \in 1 .. 9
  <2>1. CASE j \in 1 .. 8
    BY <1>10, <2>1
  <2>2. CASE j = 9
    <3>1. Order[j] = "RT"
      BY <1>6, <2>2
    <3>2. out.bc["RT"] \in Nat /\ out.dur["RT"] \in Nat /\ out.dur["RT"] >= 1
      BY <1>3, <1>8, <1>9
    <3> QED BY <3>1, <3>2, Zenon
  <2>3. j \in 1 .. 8 \/ j = 9
    OBVIOUS
  <2> QED BY <2>1, <2>2, <2>3
<1>12. /\ \A s \in Column : out.bc[s] /= None /\ out.dur[s] /= None
       /\ \A s \in Column : out.dur[s] >= 1
  BY <1>6, <1>11
<1>13. out.bc["RT"] + out.dur["RT"] = cycle + 1
  BY <1>3, <1>8, <1>9, Zenon
<1>14. out.dur["EX"] = latency
  <2>1. "EX" /= "RT"
    OBVIOUS
  <2> QED BY <1>1, <1>4, <1>5, <2>1
<1> QED BY <1>1, <1>3, <1>10, <1>12, <1>13, <1>14 DEF CompleteRow

(* The row that is printed for an instruction that retires is its own and  *)
(* accounts for every cycle from its fetch on: the table is large enough   *)
(* for all instructions under way, UpdInfo finds each of them in the stage *)
(* it is in, and the units count its latency down (CPU_OOO::UpdInfo and    *)
(* print_info, cpu.cc).                                                    *)
THEOREM RowsComplete == TimedSpec => []RowComplete
<1>1. CoreInv /\ TimedInv => RowComplete
  <2> SUFFICES ASSUME CoreInv, TimedInv, stage = "Retire", Retiring
               PROVE  RowComplete
    BY DEF RowComplete
  <2>1. PICK rd, rn, de, fe \in 0 .. Len(prog) : CoreAt(rd, rn, de, fe)
    BY DEF CoreInv
  <2>2. Own(rn)
    BY <2>1, OwnIs DEF CoreFor
  <2>3. PICK q : q = rn - Tags.size
    OBVIOUS
  <2>4. /\ CurrentRob(Rob).seq = q /\ q \in Live
        /\ Begun(q, 8) /\ RowOf(q).bc.WB < cycle
    <3>1. /\ CurrentRob(Rob).seq = rn - Tags.size /\ rn - Tags.size \in Live
          /\ Begun(rn - Tags.size, 8) /\ RowOf(rn - Tags.size).bc.WB < cycle
      BY <2>1, <2>2, OldestRow
    <3> QED BY <2>3, <3>1, Zenon
  <2>5. /\ cycle \in Nat /\ None \notin Nat /\ InfoTypeOK /\ OwnRows
    BY <2>1, <2>2, AtStage DEF Own
  <2>6. info[InfoIdx(q)] \in RowType
    BY <2>4, <2>5 DEF InfoTypeOK, OwnRows
  <2>7. FilledRow(info[InfoIdx(q)], q, 8, Latency(prog[q + 1].op))
    BY <2>4 DEF Begun, RowOf, Lat
  <2>8. info[InfoIdx(q)].bc.WB < cycle
    BY <2>4 DEF RowOf
  <2>9. PICK row : row = Printed(InfoIdx(q))
    OBVIOUS
  <2>10. /\ row.seq = q
         /\ \A s \in Column : row.bc[s] /= None /\ row.dur[s] /= None
         /\ \A s \in Column : row.dur[s] >= 1
         /\ \A j \in 1 .. 8 : row.bc[Order[j]] + row.dur[Order[j]] = row.bc[Order[j + 1]]
         /\ row.bc.RT + row.dur.RT = cycle + 1
         /\ row.dur.EX = Latency(prog[q + 1].op)
    <3>1. row = [info[InfoIdx(q)] EXCEPT !.dur.RT = cycle + 1 - info[InfoIdx(q)].bc.RT]
      BY <2>9 DEF Printed
    <3>2. PICK r \in RowType : r = info[InfoIdx(q)]
      BY <2>6
    <3>3. PICK lat : lat = Latency(prog[q + 1].op)
      OBVIOUS
    <3>4. /\ FilledRow(r, q, 8, lat) /\ r.bc.WB < cycle
          /\ Closes(r, row)
      BY <2>7, <2>8, <3>1, <3>2, <3>3, Zenon DEF Closes
    <3>5. cycle \in Nat /\ None \notin Nat
      BY <2>5
    <3>6. CompleteRow(row, q, lat)
      BY <3>2, <3>4, <3>5, PrintedRow, Zenon
    <3> QED BY <3>3, <3>6, Zenon DEF CompleteRow
  <2> HIDE DEF Printed
  <2> QED BY <2>4, <2>9, <2>10, Zenon DEF RowComplete
<1>2. TimedSpec => []CoreInv
  BY TimedIsCore, CoreInductive, PTL
<1> QED BY <1>1, <1>2, TimedInductive, PTL

(* The totals printed at the end are those of the whole trace, on every    *)
(* machine whose reorder buffer has room for two bundles (last_cycle and   *)
(* last_seq, CPU_OOO::Retire).                                             *)
THEOREM TotalsAreExact == TimedSpec => []TotalsExact
<1>1. CoreInv /\ TimedInv => TotalsExact
  <2> SUFFICES ASSUME CoreInv, TimedInv, stage = "End", RobSize >= 2 * Width
               PROVE  last_seq = Len(prog) /\ last_cycle = cycle
    BY DEF TotalsExact
  <2>1. PICK rd, rn, de, fe \in 0 .. Len(prog) : CoreAt(rd, rn, de, fe)
    BY DEF CoreInv
  <2>2. done_flag
    BY <2>1 DEF CoreAt, TraceOrder, RobRunsEmpty
  <2>3. 2 * Width <= RobSize
    <3>1. RobSize \in Nat /\ Width \in Nat
      BY <2>1, Types, Sizes DEF CoreAt
    <3> QED BY <3>1
  <2> QED BY <2>2, <2>3 DEF TimedInv, TotalsKept
<1>2. TimedSpec => []CoreInv
  BY TimedIsCore, CoreInductive, PTL
<1> QED BY <1>1, <1>2, TimedInductive, PTL
=============================================================================
