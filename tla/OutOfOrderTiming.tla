-------------------------- MODULE OutOfOrderTiming --------------------------
(***************************************************************************)
(* What the simulator of Project03 reports: for each instruction the cycle *)
(* in which it entered each stage and how long it stayed, kept in a table  *)
(* that is indexed by the sequence number modulo its size and used again   *)
(* for later instructions; and the totals.  The core never reads any of    *)
(* it: these are actions conjoined to those of OutOfOrderCpu.              *)
(***************************************************************************)
EXTENDS OutOfOrderProps, Integers

VARIABLES cycle,       \* CPU_OOO::cycle
          info,        \* the table
          last_cycle, last_seq

reportVars == <<cycle, info, last_cycle, last_seq>>
timedVars  == <<vars, reportVars>>

InfoSizeOneBundle == Width + RobSize   \* mutant: one latch is forgotten

InfoSize == 2 * Width + RobSize
InfoIdx(seq) == seq % InfoSize

(* bc[s] is the cycle the instruction entered s, dur[s] how long it stayed *)
(* there: None (-1) before that is known.                                  *)
Column == {"FE", "DE", "RN", "RR", "DI", "IS", "EX", "WB", "RT"}
Blank  == [s \in Column |-> None]
BlankRow == [seq |-> None, bc |-> Blank, dur |-> Blank]

TimedInit ==
  /\ Init
  /\ cycle = 0 /\ last_cycle = 0 /\ last_seq = 0
  /\ info = [i \in 0 .. InfoSize - 1 |-> BlankRow]

(***************************************************************************)
(* UpdInfo: at the start of a cycle, whoever is found in a stage for the   *)
(* first time has begun it and is done with the stage before.  Write-back  *)
(* takes one cycle, and retirement begins in the next.                     *)
(***************************************************************************)
FoundIn == [DE |-> Seqs(De), RN |-> Seqs(Rn), RR |-> Seqs(Rr), DI |-> Seqs(Di),
            IS |-> {Iq.queue[i].seq : i \in ValidIq}, EX |-> ExecSeqs,
            WB |-> {Wb[u].seq : u \in {w \in Unit : Wb[w].v}}]

StageAfter == [FE |-> "DE", DE |-> "RN", RN |-> "RR", RR |-> "DI",
               DI |-> "IS", IS |-> "EX", EX |-> "WB"]

Enters(i, s) ==
  s /= "FE" /\ info[i].bc[s] = None /\ \E q \in FoundIn[s] : InfoIdx(q) = i

Begin(i, s) ==
  CASE s = "RT" -> IF Enters(i, "WB") THEN cycle + 1 ELSE info[i].bc[s]
    [] OTHER    -> IF Enters(i, s) THEN cycle ELSE info[i].bc[s]

Since(c) == IF c = None THEN cycle + 1 ELSE cycle - c

Duration(i, s) ==
  CASE s = "RT" -> info[i].dur[s]
    [] s = "WB" -> IF Enters(i, s) THEN 1 ELSE info[i].dur[s]
    [] OTHER    -> IF Enters(i, StageAfter[s]) THEN Since(Begin(i, s))
                   ELSE info[i].dur[s]

UpdInfo ==
  /\ info' = [i \in DOMAIN info |->
                [info[i] EXCEPT !.bc  = [s \in Column |-> Begin(i, s)],
                                !.dur = [s \in Column |-> Duration(i, s)]]]
  /\ UNCHANGED <<cycle, last_cycle, last_seq>>

(* UpdPrintFetch: the rows of a bundle that Fetch has just taken.          *)
UpdPrintFetch ==
  /\ info' = [i \in DOMAIN info |->
                IF FE' /\ info[i].bc.FE = None /\ \E q \in Seqs(De') : InfoIdx(q) = i
                THEN [info[i] EXCEPT !.seq = CHOOSE q \in Seqs(De') : InfoIdx(q) = i,
                                     !.bc.FE = cycle]
                ELSE info[i]]
  /\ UNCHANGED <<cycle, last_cycle, last_seq>>

(* Retire completes and prints the row of each instruction it removes, and *)
(* blanks it.                                                              *)
Printed(i) == [info[i] EXCEPT !.dur.RT = cycle + 1 - info[i].bc.RT]

PrintInfo ==
  LET i == InfoIdx(CurrentRob(Rob).seq) IN
  IF ~Retiring THEN UNCHANGED reportVars
  ELSE /\ info' = [info EXCEPT ![i] = BlankRow]
       /\ IF EmptiedBy(Rob)
          THEN last_cycle' = cycle + 1 /\ last_seq' = info[i].seq + 1
          ELSE UNCHANGED <<last_cycle, last_seq>>
       /\ UNCHANGED cycle

NextCycle == cycle' = cycle + 1 /\ UNCHANGED <<info, last_cycle, last_seq>>

(* An empty trace is left out: its cycles go on forever (StarvedForever). *)
TimedNext ==
  \/ BeginCycle /\ UpdInfo
  \/ Retire /\ PrintInfo
  \/ Fetch /\ UpdPrintFetch
  \/ Advance_Cycle /\ NextCycle
  \/ Read /\ prog' /= <<>> /\ UNCHANGED reportVars
  \/ /\ Writeback \/ Execute \/ Issue \/ Dispatch \/ Enqueue
        \/ RegRead \/ Rename \/ RenameInst \/ Decode \/ End
     /\ UNCHANGED reportVars

TimedSpec == TimedInit /\ [][TimedNext]_timedVars

(***************************************************************************)
(* What the report must say.                                               *)
(***************************************************************************)
Order == <<"FE", "DE", "RN", "RR", "DI", "IS", "EX", "WB", "RT">>

(* The row printed for a retiring instruction is its own, not that of      *)
(* another one with the same index, and accounts for every cycle from its  *)
(* fetch to its retirement: each stage, of at least a cycle, begins where  *)
(* the one before ends, the last ends now, and execution takes the latency *)
(* of the operation.                                                       *)
RowComplete ==
  stage = "Retire" /\ Retiring =>
    LET q   == CurrentRob(Rob).seq
        row == Printed(InfoIdx(q))
    IN  /\ row.seq = q
        /\ \A s \in Column : row.bc[s] /= None /\ row.dur[s] /= None
        /\ \A s \in Column : row.dur[s] >= 1
        /\ \A j \in 1 .. 8 :
             row.bc[Order[j]] + row.dur[Order[j]] = row.bc[Order[j + 1]]
        /\ row.bc.RT + row.dur.RT = cycle + 1
        /\ row.dur.EX = Latency(prog[q + 1].op)

(* The totals count every instruction of the trace and the cycle in which  *)
(* the last one left (a reorder buffer of at least two bundles: see        *)
(* DrainedAtEnd).                                                          *)
TotalsExact ==
  stage = "End" /\ RobSize >= 2 * Width =>
    last_seq = Len(prog) /\ last_cycle = cycle

(* "Dynamic Instruction Count" (cpu.cc:413) is the number of instructions  *)
(* the trace has, on every machine.                                        *)
InstructionCountExact == stage = "End" => last_seq = Len(prog)
=============================================================================
