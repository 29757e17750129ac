---------------------------- MODULE MCPredictor ----------------------------
(***************************************************************************)
(* Predictor on small tables: with and without a history, a history        *)
(* shorter than the index, and branches that share entries.                *)
(***************************************************************************)
EXTENDS Predictor

Small(name, k, m1, n, m2) ==
  [bp_name |-> name, K |-> k, M1 |-> m1, N |-> n, M2 |-> m2]

SmallParams ==
  {Small("bimodal", 0, 0, 0, m2) : m2 \in {0, 1}}
  \cup {Small("gshare", 0, 2, n, 0) : n \in {0, 1, 2}}
  \cup {Small("hybrid", 0, 1, 1, 0), Small("hybrid", 1, 2, 1, 1)}
=============================================================================
