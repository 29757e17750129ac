---------------------------- MODULE PreciseCore ----------------------------
(***************************************************************************)
(* What register renaming promises: a machine with one register per name,  *)
(* a queue of instructions in program order, and precise recovery.  There  *)
(* are no physical registers, maps, free lists or checkpoints.             *)
(***************************************************************************)
EXTENDS Naturals, Sequences

CONSTANTS Reg, Val, None

VARIABLES arch,    \* the committed value of each register
          flight   \* instructions in flight, oldest first: [dst, val]

TypeOK ==
  /\ arch \in [Reg -> Val]
  /\ flight \in Seq([dst : Reg \cup {None}, val : Val \cup {None}])

Init == arch \in [Reg -> Val] /\ flight = <<>>

Enter(dst) ==
  /\ flight' = Append(flight, [dst |-> dst, val |-> None])
  /\ UNCHANGED arch

(* Results come in any order, once each. *)
Produce(k, v) ==
  /\ flight[k].dst /= None /\ flight[k].val = None
  /\ flight' = [flight EXCEPT ![k].val = v]
  /\ UNCHANGED arch

(* What the oldest instruction leaves in the registers, its result being v *)
(* if it is not known yet.                                                 *)
AfterOldest(v) ==
  LET i == flight[1]
  IN  IF i.dst = None THEN arch
      ELSE [arch EXCEPT ![i.dst] = IF i.val = None THEN v ELSE i.val]

(* Only the oldest instruction changes a committed value, with its result. *)
Commit ==
  /\ flight /= <<>>
  /\ flight[1].dst = None \/ flight[1].val /= None
  /\ arch' = AfterOldest(None)
  /\ flight' = Tail(flight)

(* A misprediction discards everything behind instruction k, no more.      *)
Mispredict(k) ==
  /\ flight' = SubSeq(flight, 1, k)
  /\ UNCHANGED arch

(* An exception discards the oldest instruction as well; a serialising or  *)
(* deferred one takes effect first.                                        *)
Flush == flight' = <<>> /\ UNCHANGED arch

CommitAndFlush(v) ==
  /\ flight /= <<>>
  /\ arch' = AfterOldest(v)
  /\ flight' = <<>>

Next ==
  \/ \E dst \in Reg \cup {None} : Enter(dst)
  \/ \E k \in 1 .. Len(flight), v \in Val : Produce(k, v)
  \/ Commit
  \/ \E k \in 1 .. Len(flight) : Mispredict(k)
  \/ Flush
  \/ \E v \in Val : CommitAndFlush(v)

Spec == Init /\ [][Next]_<<arch, flight>>
=============================================================================
