--------------------------- MODULE OutOfOrderCpu ---------------------------
(***************************************************************************)
(* The dynamic-scheduling simulator of Project03 (CPU_OOO in sim_proc.h    *)
(* and cpu.cc, the main loop in sim_proc.cc): a trace is fetched, renamed  *)
(* into a reorder buffer, dispatched to an issue queue, executed out of    *)
(* order and retired in order.                                             *)
(*                                                                         *)
(* One simulated cycle calls the stages from the last to the first, so     *)
(* that each finds the latch in front of it free or stalls.  A stage is an *)
(* action; a stage whose loop over the latch reads what an earlier turn    *)
(* wrote takes one action per turn, `slot' being the loop's index.         *)
(* `stage' is the call the program is at.                                  *)
(***************************************************************************)
EXTENDS Naturals, Sequences, FiniteSets

CONSTANTS Params,    \* the machines: records [rob_size, iq_size, width]
          NReg,      \* architectural registers (67)
          Instr,     \* the instructions a trace is made of
          MaxTrace,  \* bound: no longer trace is read
          None       \* -1

(* Not a machine: without an entry the reorder buffer divides by zero, and *)
(* with width 0 main never sees the end of the trace.                      *)
ASSUME CpuAssumption ==
  /\ Params \subseteq [rob_size : Nat \ {0}, iq_size : Nat, width : Nat \ {0}]
  /\ NReg \in Nat \ {0} /\ MaxTrace \in Nat \ {0}
  /\ None \notin Nat

VARIABLE params  \* CPU_OOO::params, set once

RobSize == params.rob_size
IqSize  == params.iq_size
Width   == params.width

INSTANCE ReorderBuffer
INSTANCE IssueQueue
INSTANCE ExecuteList

Reg  == 0 .. NReg - 1
Slot == 0 .. Width - 1
Seq0 == 0 .. MaxTrace - 1   \* sequence numbers

InstrType == [op : Op, src1 : Reg \cup {None}, src2 : Reg \cup {None},
              dst : Reg \cup {None}]

ASSUME InstrAssumption == Instr \subseteq InstrType

VARIABLES
  prog,        \* the instructions read, the one with number seq at seq + 1
  last,        \* the end of the trace was seen
  loop,        \* which of main's two loops runs: "trace" or "drain"
  inst_input,  \* what Fetch is given
  stage, slot, \* where in the cycle the program is
  De, Rn, Rr, Di,  \* the latches before Decode, Rename, RegRead, Dispatch
  Rmt,         \* rename map table: a tag, or None for an invalid entry
  Rob, Iq, Exc, Wb,
  FE, DE, RN, RR, DI, IS,  \* Avail: the stage can take a bundle
  empty,       \* Retire's local: the reorder buffer was emptied
  done_flag

mainVars  == <<params, prog, last, loop, inst_input>>
frontVars == <<De, Rn, FE, DE>>
vars == <<params, prog, last, loop, inst_input, stage, slot, De, Rn, Rr, Di,
          Rmt, Rob, Iq, Exc, Wb, FE, DE, RN, RR, DI, IS, empty, done_flag>>

(* A latch entry.  src1 and src2 are registers, or tags where rob1 and     *)
(* rob2 are set: then the value is still awaited; dst is a register up to  *)
(* Rename and a tag from there on.  seq = None is an empty entry.          *)
PipeReg == [seq : Seq0 \cup {None}, op : Op,
            src1 : Reg \cup Tag \cup {None}, src2 : Reg \cup Tag \cup {None},
            dst : Reg \cup Tag \cup {None}, rob1 : BOOLEAN, rob2 : BOOLEAN]

Bubble == [seq |-> None, op |-> 0, src1 |-> None, src2 |-> None,
           dst |-> None, rob1 |-> FALSE, rob2 |-> FALSE]

NoBundle == [k \in Slot |-> Bubble]
IsBubbles(latch) == \A k \in Slot : latch[k].seq = None

WbReg == [v : BOOLEAN, seq : Seq0, Rob_tag : Tag]

Stages == {"Read", "UpdInfo", "Retire", "Writeback", "Execute", "Issue",
           "Dispatch", "Enqueue", "RegRead", "Rename", "RenameInst",
           "Decode", "Fetch", "Advance_Cycle", "End"}

Init ==
  /\ params \in Params
  /\ prog = <<>> /\ last = FALSE /\ loop = "trace"
  /\ inst_input = NoBundle
  /\ stage = "Read" /\ slot = 0
  /\ De = NoBundle /\ Rn = NoBundle /\ Rr = NoBundle /\ Di = NoBundle
  /\ Rmt = [r \in Reg |-> None]
  /\ Rob = EmptyRob(0)
  /\ Iq = EmptyIq
  /\ Exc = IdleUnits
  /\ Wb = [u \in Unit |-> [v |-> FALSE, seq |-> 0, Rob_tag |-> 0]]
  /\ FE = TRUE /\ DE = FALSE /\ RN = FALSE
  /\ RR = FALSE /\ DI = FALSE /\ IS = FALSE
  /\ empty = FALSE /\ done_flag = FALSE

GoTo(s) == stage' = s /\ slot' = 0

(* One turn of a stage's loop over the latch; then the stage s follows.    *)
TurnThen(s) ==
  IF slot < Width - 1 THEN stage' = stage /\ slot' = slot + 1 ELSE GoTo(s)

(***************************************************************************)
(* main: read a bundle; at the end of the trace it is filled up with empty *)
(* entries.  The trace may be empty.                                       *)
(***************************************************************************)
Fetched(instr, seq) ==
  [seq |-> seq, op |-> instr.op, src1 |-> instr.src1, src2 |-> instr.src2,
   dst |-> instr.dst, rob1 |-> FALSE, rob2 |-> FALSE]

ReadTrace(n, bundle) ==
  /\ stage = "Read" /\ loop = "trace"
  /\ Len(prog) + n <= MaxTrace
  /\ prog' = prog \o bundle
  /\ inst_input' = [k \in Slot |-> IF k < n
                                   THEN Fetched(bundle[k + 1], Len(prog) + k)
                                   ELSE Bubble]
  /\ last' = (n < Width)
  /\ GoTo("UpdInfo")
  /\ UNCHANGED <<params, loop, De, Rn, Rr, Di, Rmt, Rob, Iq, Exc, Wb,
                 FE, DE, RN, RR, DI, IS, empty, done_flag>>

ReadNothing ==
  /\ stage = "Read" /\ loop = "drain"
  /\ inst_input' = NoBundle
  /\ GoTo("UpdInfo")
  /\ UNCHANGED <<params, prog, last, loop, De, Rn, Rr, Di, Rmt, Rob, Iq, Exc,
                 Wb, FE, DE, RN, RR, DI, IS, empty, done_flag>>

(* UpdInfo only keeps statistics (OutOfOrderTiming): here it marks the     *)
(* start of a cycle.  Retire's local variable is set up on the way.        *)
BeginCycle ==
  /\ stage = "UpdInfo"
  /\ empty' = FALSE
  /\ GoTo("Retire")
  /\ UNCHANGED <<mainVars, frontVars, Rr, Di, Rmt, Rob, Iq, Exc, Wb,
                 RN, RR, DI, IS, done_flag>>

(***************************************************************************)
(* Retire: up to Width ready instructions leave the reorder buffer, oldest *)
(* first.  The mapping of an instruction's destination is cleared if the   *)
(* instruction is still the one it names.  Whether the buffer is empty is  *)
(* not asked on entry, only after each removal.                            *)
(***************************************************************************)
Retiring == ~empty /\ CurrentRob(Rob).rdy

(* Mutant: cleared although a younger writer took the mapping over.        *)
UnmappedAlways(dst) == IF dst /= None THEN [Rmt EXCEPT ![dst] = None] ELSE Rmt

Unmapped(dst) ==
  IF dst /= None /\ Rmt[dst] = Rob.Head THEN [Rmt EXCEPT ![dst] = None] ELSE Rmt

Retire ==
  /\ stage = "Retire"
  /\ IF Retiring
     THEN /\ Rmt' = Unmapped(CurrentRob(Rob).dst)
          /\ Rob' = RemoveHead(Rob)
          /\ empty' = EmptiedBy(Rob)
          /\ done_flag' = empty'
     ELSE UNCHANGED <<Rmt, Rob, empty, done_flag>>
  /\ TurnThen("Writeback")
  /\ UNCHANGED <<mainVars, frontVars, Rr, Di, Iq, Exc, Wb, RN, RR, DI, IS>>

(***************************************************************************)
(* Writeback and Execute.  What finishes in a cycle wakes the issue queue  *)
(* at once and stands in Wb until the next Execute.                        *)
(***************************************************************************)
WbTags == {Wb[u].Rob_tag : u \in {w \in Unit : Wb[w].v}}
FindWb(tag) == tag \in WbTags

Writeback ==
  /\ stage = "Writeback"
  /\ Rob' = SetRdy(Rob, WbTags)
  /\ GoTo("Execute")
  /\ UNCHANGED <<mainVars, frontVars, Rr, Di, Rmt, Iq, Exc, Wb,
                 RN, RR, DI, IS, empty, done_flag>>

Execute ==
  /\ stage = "Execute"
  /\ Exc' = DecCnt(Exc)
  /\ Wb' = [u \in Unit |->
              IF u \in Done(Exc')
              THEN [v |-> TRUE, seq |-> Exc'[u].seq, Rob_tag |-> Exc'[u].dst_tag]
              ELSE [v |-> FALSE, seq |-> 0, Rob_tag |-> 0]]
  /\ Iq' = Update(Iq, {Exc'[u].dst_tag : u \in Done(Exc')})
  /\ GoTo("Issue")
  /\ UNCHANGED <<mainVars, frontVars, Rr, Di, Rmt, Rob,
                 RN, RR, DI, IS, empty, done_flag>>

(***************************************************************************)
(* Issue: Width times the oldest ready instruction, if there is one and a  *)
(* unit for it.  After the last turn Dispatch is told whether a whole      *)
(* bundle fits.                                                            *)
(***************************************************************************)
IssueTo(i, u) ==
  /\ IsOldestRdy(Iq, i) /\ IsFirstEmpty(Exc, u)
  /\ Exc' = Load(Exc, u, Iq.queue[i].seq, Iq.queue[i].op, Iq.queue[i].dst_tag)
  /\ Iq' = Invalidation(Iq, i)

NothingToIssue ==
  /\ Candidates(Iq) = {} \/ \A u \in Unit : ~Available(Exc, u)
  /\ UNCHANGED <<Exc, Iq>>

Issue ==
  /\ stage = "Issue"
  /\ NothingToIssue \/ \E i \in Entry, u \in Unit : IssueTo(i, u)
  /\ IS' = IF slot = Width - 1 THEN ~IqIsFull(Iq') ELSE IS
  /\ TurnThen("Dispatch")
  /\ UNCHANGED <<mainVars, frontVars, Rr, Di, Rmt, Rob, Wb,
                 RN, RR, DI, empty, done_flag>>

(***************************************************************************)
(* Dispatch: the waiting sources are checked against Wb and the reorder    *)
(* buffer, then the whole latch enters the issue queue or stays.  (Enqueue *)
(* is the second loop of CPU_OOO::Dispatch.  Without a free entry there    *)
(* the program exits with an error.)                                       *)
(***************************************************************************)
Awaited(src) == ~FindWb(src) /\ ~GetRdy(Rob, src)

(* Mutant: what finished in this cycle is not looked up. *)
CheckedWithoutWb(reg) ==
  [reg EXCEPT !.rob1 = @ /\ ~GetRdy(Rob, reg.src1),
              !.rob2 = @ /\ ~GetRdy(Rob, reg.src2)]

Checked(reg) == [reg EXCEPT !.rob1 = @ /\ Awaited(reg.src1),
                            !.rob2 = @ /\ Awaited(reg.src2)]

Dispatch ==
  /\ stage = "Dispatch"
  /\ Di' = [k \in Slot |-> IF Di[k].seq = None THEN Di[k] ELSE Checked(Di[k])]
  /\ IF IS THEN DI' = TRUE /\ GoTo("Enqueue")
           ELSE DI' = IsBubbles(Di) /\ GoTo("RegRead")
  /\ UNCHANGED <<mainVars, frontVars, Rr, Rmt, Rob, Iq, Exc, Wb,
                 RN, RR, IS, empty, done_flag>>

(* Mutant: one source is enough.                                           *)
IqEntryEither(reg) ==
  [v |-> IF reg.rob1 /\ reg.rob2 THEN "NRDY" ELSE "RDY", seq |-> reg.seq,
   op |-> reg.op, dst_tag |-> reg.dst,
   rs1_rdy |-> ~reg.rob1, rs1_tag |-> reg.src1,
   rs2_rdy |-> ~reg.rob2, rs2_tag |-> reg.src2]

IqEntry(reg) ==
  [v |-> IF reg.rob1 \/ reg.rob2 THEN "NRDY" ELSE "RDY", seq |-> reg.seq,
   op |-> reg.op, dst_tag |-> reg.dst,
   rs1_rdy |-> ~reg.rob1, rs1_tag |-> reg.src1,
   rs2_rdy |-> ~reg.rob2, rs2_tag |-> reg.src2]

Enqueue ==
  /\ stage = "Enqueue"
  /\ IF Di[slot].seq = None THEN UNCHANGED Iq
     ELSE \E i \in Entry : IsFirstInv(Iq, i) /\ Iq' = Insert(Iq, i, IqEntry(Di[slot]))
  /\ TurnThen("RegRead")
  /\ UNCHANGED <<mainVars, frontVars, Rr, Di, Rmt, Rob, Exc, Wb,
                 RN, RR, DI, IS, empty, done_flag>>

(***************************************************************************)
(* RegRead: the sources are checked in the same way, stalled or not.       *)
(***************************************************************************)
RegRead ==
  /\ stage = "RegRead"
  /\ Rr' = [k \in Slot |-> Checked(Rr[k])]
  /\ IF DI THEN Di' = Rr' /\ RR' = TRUE
           ELSE UNCHANGED Di /\ RR' = IsBubbles(Rr)
  /\ GoTo("Rename")
  /\ UNCHANGED <<mainVars, frontVars, Rmt, Rob, Iq, Exc, Wb,
                 RN, DI, IS, empty, done_flag>>

(***************************************************************************)
(* Rename: all of the bundle or none of it.  If RegRead stalls, its latch  *)
(* keeps what it has; if only the reorder buffer is full, the latch is     *)
(* emptied.                                                                *)
(***************************************************************************)
(* Mutant: a full reorder buffer leaves the bundle in the latch.           *)
RenameKeepLatch ==
  /\ stage = "Rename"
  /\ RN' = (RR /\ ~RobIsFull(Rob))
  /\ IF RN' THEN GoTo("RenameInst") ELSE GoTo("Decode")
  /\ UNCHANGED <<mainVars, frontVars, Rr, Di, Rmt, Rob, Iq, Exc, Wb,
                 RR, DI, IS, empty, done_flag>>

Rename ==
  /\ stage = "Rename"
  /\ RN' = (RR /\ ~RobIsFull(Rob))
  /\ IF RN' THEN GoTo("RenameInst") ELSE GoTo("Decode")
  /\ Rr' = IF RR /\ RobIsFull(Rob) THEN NoBundle ELSE Rr
  /\ UNCHANGED <<mainVars, frontVars, Di, Rmt, Rob, Iq, Exc, Wb,
                 RR, DI, IS, empty, done_flag>>

IsMapped(src) == src /= None /\ Rmt[src] /= None

(* The sources are looked up before the destination is mapped.             *)
Renamed(reg) ==
  [reg EXCEPT !.src1 = IF IsMapped(@) THEN Rmt[@] ELSE @, !.rob1 = IsMapped(reg.src1),
              !.src2 = IF IsMapped(@) THEN Rmt[@] ELSE @, !.rob2 = IsMapped(reg.src2),
              !.dst = Rob.Tail]

RenameInst ==
  /\ stage = "RenameInst"
  /\ LET reg == Rn[slot] IN
     IF reg.seq = None
     THEN Rr' = [Rr EXCEPT ![slot] = reg] /\ UNCHANGED <<Rn, Rmt, Rob>>
     ELSE /\ Rn' = [Rn EXCEPT ![slot] = Renamed(reg)]
          /\ Rr' = [Rr EXCEPT ![slot] = Renamed(reg)]
          /\ Rmt' = IF reg.dst = None THEN Rmt
                    ELSE [Rmt EXCEPT ![reg.dst] = Rob.Tail]
          /\ Rob' = Allocate(Rob, reg.seq, reg.dst)
  /\ TurnThen("Decode")
  /\ UNCHANGED <<mainVars, De, FE, DE, Di, Iq, Exc, Wb,
                 RN, RR, DI, IS, empty, done_flag>>

(***************************************************************************)
(* Decode and Fetch pass the latches on unless the next stage stalls.      *)
(***************************************************************************)
Decode ==
  /\ stage = "Decode"
  /\ DE' = RN
  /\ Rn' = IF RN THEN De ELSE Rn
  /\ GoTo("Fetch")
  /\ UNCHANGED <<mainVars, De, FE, Rr, Di, Rmt, Rob, Iq, Exc, Wb,
                 RN, RR, DI, IS, empty, done_flag>>

(* UpdPrintFetch, which follows, only keeps statistics as well.            *)
Fetch ==
  /\ stage = "Fetch"
  /\ FE' = DE
  /\ De' = IF DE THEN inst_input ELSE De
  /\ GoTo("Advance_Cycle")
  /\ UNCHANGED <<mainVars, Rn, DE, Rr, Di, Rmt, Rob, Iq, Exc, Wb,
                 RN, RR, DI, IS, empty, done_flag>>

(***************************************************************************)
(* The end of a cycle.  While the trace is read, a bundle Fetch could not  *)
(* take is offered again; main's second loop then feeds empty bundles      *)
(* until the reorder buffer was last seen to become empty.                 *)
(***************************************************************************)
Advance_Cycle ==
  /\ stage = "Advance_Cycle"
  /\ IF loop = "trace"
     THEN /\ loop' = IF FE /\ last THEN "drain" ELSE loop
          /\ IF FE THEN GoTo("Read") ELSE GoTo("UpdInfo")
     ELSE /\ UNCHANGED loop
          /\ IF done_flag THEN GoTo("End") ELSE GoTo("Read")
  /\ UNCHANGED <<params, prog, last, inst_input, frontVars, Rr, Di, Rmt, Rob,
                 Iq, Exc, Wb, RN, RR, DI, IS, empty, done_flag>>

End == stage = "End" /\ UNCHANGED vars

Read ==
  \/ ReadNothing
  \/ \E n \in 0 .. Width : \E bundle \in [1 .. n -> Instr] : ReadTrace(n, bundle)

BackEnd == Retire \/ Writeback \/ Execute \/ Issue \/ Dispatch \/ Enqueue

FrontEnd == RegRead \/ Rename \/ RenameInst \/ Decode \/ Fetch

Next == Read \/ BeginCycle \/ BackEnd \/ FrontEnd \/ Advance_Cycle \/ End

Spec == Init /\ [][Next]_vars

(* A single thread runs the loop: it takes every step it can.              *)
FairSpec == Spec /\ WF_vars(Next)
=============================================================================
