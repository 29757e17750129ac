---------------------------- MODULE DataflowCore ----------------------------
(***************************************************************************)
(* What dynamic scheduling promises: instructions execute in any order     *)
(* that respects their data dependences, and leave in program order.       *)
(* There are no tags, latches, queues or cycles here.                      *)
(***************************************************************************)
EXTENDS Naturals, Sequences

CONSTANTS Instr, None

VARIABLES prog,       \* the instructions read, number q at place q + 1
          retired,    \* how many have left
          executing,  \* the numbers of those being executed
          done        \* executed, not retired

dfVars == <<prog, retired, executing, done>>

InFlight == retired .. Len(prog) - 1

Init == prog = <<>> /\ retired = 0 /\ executing = {} /\ done = {}

(* The program only grows at its end. *)
ReadProgram ==
  /\ prog' \in Seq(Instr)
  /\ Len(prog') >= Len(prog) /\ SubSeq(prog', 1, Len(prog)) = prog
  /\ UNCHANGED <<retired, executing, done>>

(* p is the instruction whose result q reads in r.                         *)
Produces(p, q, r) ==
  /\ prog[p + 1].dst = r
  /\ \A m \in p + 1 .. q - 1 : prog[m + 1].dst /= r

OperandsKnown(q) ==
  \A r \in {prog[q + 1].src1, prog[q + 1].src2} \ {None} :
    \A p \in retired .. q - 1 : Produces(p, q, r) => p \in done

Start(q) ==
  /\ q \notin executing \cup done
  /\ OperandsKnown(q)
  /\ executing' = executing \cup {q}
  /\ UNCHANGED <<prog, retired, done>>

(* Any number at a time. *)
Finish ==
  /\ executing' \subseteq executing
  /\ done' = done \cup (executing \ executing')
  /\ UNCHANGED <<prog, retired>>

Retire ==
  /\ retired \in done
  /\ retired' = retired + 1
  /\ done' = done \ {retired}
  /\ UNCHANGED <<prog, executing>>

Next ==
  \/ ReadProgram
  \/ \E q \in InFlight : Start(q)
  \/ Finish
  \/ Retire

Spec == Init /\ [][Next]_dfVars
=============================================================================
