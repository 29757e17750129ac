---------------------------- MODULE TraceReader ----------------------------
(***************************************************************************)
(* How the three simulators read their trace: sim_cache.cc and sim_bp.cc   *)
(* one request or branch per turn of a loop, sim_proc.cc a bundle of       *)
(* instructions.  Each calls fscanf, into variables that live outside the  *)
(* loop, until it returns EOF; how many fields were converted is not       *)
(* looked at.  fscanf skips white space, line ends included: to it a file  *)
(* is a sequence of tokens.                                                *)
(*                                                                         *)
(* A token is a number or the letter of an operation (r, w, t, n).  What a *)
(* field holds is the place of its token in the file, 0 if it was never    *)
(* written.                                                                *)
(***************************************************************************)
EXTENDS Naturals, Sequences, FiniteSetsExt, SequencesExt

CONSTANTS Width,      \* instructions in a bundle of sim_proc
          MaxTokens,  \* bound: no longer file is read
          MaxGiven,   \* bound: turns are counted so far only
          None        \* -1

ASSUME ReaderAssumption ==
  /\ Width \in Nat \ {0} /\ MaxTokens \in Nat /\ MaxGiven \in Nat
  /\ None \notin Nat

Token == {"num", "op"}

(* %lx and %d want a number; %s takes any token, which is of *)
(* one character here: str holds no more.                                  *)
Format == [sim_cache |-> <<"word", "num">>,
           sim_bp    |-> <<"num", "word">>,
           sim_proc  |-> <<"num", "num", "num", "num", "num">>]

VARIABLES
  sim, file,  \* which simulator reads which file
  pos,        \* the next token
  field,      \* the variables fscanf writes
  given,      \* what was handed on: the fields of each request, branch or
              \* instruction
  at,         \* "fscanf", "cycles" (sim_proc runs a bundle) or "end"
  bundle, k, last  \* sim_proc: inst_input's numbers, the loop's index, EOF

readerVars == <<sim, file, pos, field, given, at, bundle, k, last>>

Slot   == 0 .. Width - 1
Fields == DOMAIN Format[sim]
NField == Len(Format[sim])

Init ==
  /\ sim \in DOMAIN Format
  /\ file \in BoundedSeq(Token, MaxTokens)
  /\ pos = 1 /\ given = <<>> /\ at = "fscanf"
  /\ field = [f \in Fields |-> 0]
  /\ bundle = [s \in Slot |-> None] /\ k = 0 /\ last = FALSE

(***************************************************************************)
(* fscanf: converts as many fields as fit, leaves the first token that     *)
(* does not, and leaves the variables of what it did not convert.  It      *)
(* returns EOF only where the file ends before the first field.            *)
(***************************************************************************)
FitsAnyToken(f, p) == p \in DOMAIN file  \* mutant: every field is read as %s

Fits(f, p) == p \in DOMAIN file /\ (Format[sim][f] = "word" \/ file[p] = "num")

ConvertedWhole ==  \* mutant: a line is converted as a whole or not at all
  IF \A f \in Fields : Fits(f, pos + f - 1) THEN NField ELSE 0

Converted == Max({n \in 0 .. NField : \A f \in 1 .. n : Fits(f, pos + f - 1)})

EndOfFile == pos > Len(file)

ScanFresh ==  \* mutant: the variables are declared inside the loop
  /\ pos' = pos + Converted
  /\ field' = [f \in Fields |-> IF f <= Converted THEN pos + f - 1 ELSE 0]

Scan ==
  /\ pos' = pos + Converted
  /\ field' = [f \in Fields |-> IF f <= Converted THEN pos + f - 1 ELSE field[f]]

(***************************************************************************)
(* sim_cache, sim_bp: a turn hands on what it read if the word is one of   *)
(* the two letters, and does nothing otherwise.  A word that was never     *)
(* written may be either.                                                  *)
(***************************************************************************)
IsOperation(p) == IF p = 0 THEN BOOLEAN ELSE {file[p] = "op"}

Letter == CHOOSE f \in Fields : Format[sim][f] = "word"

ReadLine ==
  /\ sim /= "sim_proc" /\ at = "fscanf" /\ Len(given) < MaxGiven
  /\ IF EndOfFile
     THEN at' = "end" /\ UNCHANGED <<pos, field, given>>
     ELSE /\ Scan
          /\ \E known \in IsOperation(field'[Letter]) :
               given' = IF known THEN Append(given, field') ELSE given
          /\ UNCHANGED at
  /\ UNCHANGED <<sim, file, bundle, k, last>>

(***************************************************************************)
(* sim_proc: a turn of the inner loop fills one slot of the bundle, with   *)
(* an instruction or, at the end of the file, with an empty entry.  Then   *)
(* the stages run until Fetch has taken the bundle (OutOfOrderCpu), and    *)
(* the outer loop ends if the last slot's fscanf returned EOF.             *)
(***************************************************************************)
FilledIfRead == IF EndOfFile THEN bundle[k] ELSE Len(given)  \* mutant: no empty entries

Filled == IF EndOfFile THEN None ELSE Len(given)

ReadSlot ==
  /\ sim = "sim_proc" /\ at = "fscanf" /\ Len(given) < MaxGiven
  /\ last' = EndOfFile
  /\ bundle' = [bundle EXCEPT ![k] = Filled]
  /\ IF EndOfFile
     THEN UNCHANGED <<pos, field, given>>
     ELSE Scan /\ given' = Append(given, field')
  /\ k' = (k + 1) % Width
  /\ at' = IF k = Width - 1 THEN "cycles" ELSE at
  /\ UNCHANGED <<sim, file>>

RunCycles ==
  /\ at = "cycles"
  /\ at' = IF last THEN "end" ELSE "fscanf"
  /\ UNCHANGED <<sim, file, pos, field, given, bundle, k, last>>

Next == ReadLine \/ ReadSlot \/ RunCycles

(* A single thread runs the loop: it takes every step it can.              *)
Spec == Init /\ [][Next]_readerVars /\ WF_readerVars(Next)

(***************************************************************************)
(* Properties.                                                             *)
(***************************************************************************)
(* The file starts with n lines as the simulator expects them.             *)
Lines(n) ==
  /\ n * NField <= Len(file)
  /\ \A p \in 1 .. n * NField :
       (file[p] = "op") = (Format[sim][((p - 1) % NField) + 1] = "word")

Own(n) == [f \in Fields |-> (n - 1) * NField + f]

(* r more fields follow, the start of a line that is cut short.            *)
CutShort(n, r) ==
  /\ Len(file) = n * NField + r
  /\ \A f \in 1 .. r : (file[n * NField + f] = "op") = (Format[sim][f] = "word")

(* Whatever follows them, leading lines are handed on in order, each with  *)
(* all fields its own, and a file of nothing else ends with them.  A last  *)
(* line that is cut short is handed on as well, completed by the fields of *)
(* the line before (the loops test for EOF only).                          *)
LinesExact ==
  \A n \in 1 .. Len(file) : Lines(n) =>
    /\ Len(given) >= n => given[n] = Own(n)
    /\ at = "end" => Len(given) >= n
    /\ at = "end" /\ CutShort(n, 0) => Len(given) = n
    /\ \A r \in 1 .. NField - 1 : at = "end" /\ CutShort(n, r) =>
         /\ Len(given) = n + 1
         /\ given[n + 1] = [f \in Fields |-> IF f <= r THEN Own(n + 1)[f] ELSE Own(n)[f]]

(* sim_cache never loses its place, whatever the file holds: each letter   *)
(* makes one request, in order, and has its own address if one follows.    *)
EveryRequestServed ==
  sim = "sim_cache" /\ at = "end" =>
    /\ {given[n][1] : n \in DOMAIN given} = {p \in DOMAIN file : file[p] = "op"}
    /\ \A n \in 2 .. Len(given) : given[n - 1][1] < given[n][1]
    /\ \A n \in DOMAIN given :
         LET p == given[n][1] + 1 IN
         p \in DOMAIN file /\ file[p] = "num" => given[n][2] = p

(* A bundle is what OutOfOrderCpu!ReadTrace takes it for: the instructions *)
(* that follow, numbered on, then empty entries; and the trace is over if  *)
(* there are any.                                                          *)
BundlesExact ==
  at = "cycles" =>
    \E n \in 0 .. Width :
      /\ \A s \in Slot : bundle[s] = IF s < n THEN Len(given) - n + s ELSE None
      /\ last = (n < Width)

(* A letter where the first field wants a number is never taken out of the *)
(* file: the turn repeats, with the old fields.  sim_proc falls into this  *)
(* at any letter, sim_bp at one in the place of an address.                *)
Readable ==
  \A p \in DOMAIN file : file[p] = "op" =>
    \/ sim = "sim_cache"
    \/ sim = "sim_bp" /\ p % 2 = 0

(* The loop ends for a readable file, and for no other.                    *)
EndsOnlyIfReadable == at = "end" => Readable
EndsIfReadable == (Readable => <>(at = "end")) /\ []EndsOnlyIfReadable
=============================================================================
