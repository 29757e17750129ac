------------------------------ MODULE Predictor ------------------------------
(***************************************************************************)
(* The branch predictors of Project02 (pred.h, pred.cc): bimodal, gshare   *)
(* and the hybrid of both, one action for each next_pc_outcome.  A word    *)
(* (an address, an index, the history) is the set of the positions of its  *)
(* one bits, and a table a function from indices to two-bit counters.      *)
(***************************************************************************)
EXTENDS Integers, Sequences, FiniteSets

CONSTANTS Addr,     \* the addresses of the branches in the trace
          Params,   \* the bp_params to be tried
          MaxTrace  \* the length of the trace

(* "max n == m", pred.h:17.                                                *)
ASSUME PredictorAssumption ==
  /\ Addr \subseteq SUBSET Nat /\ MaxTrace \in Nat
  /\ \A p \in Params : /\ p.bp_name \in {"bimodal", "gshare", "hybrid"}
                       /\ {p.K, p.M1, p.N, p.M2} \subseteq Nat
                       /\ p.N <= p.M1

VARIABLES params,       \* the command line, chosen once
          bio, gsh, ct, \* the tables: bimodal, gshare, chooser
          gbh,          \* global branch history
          cnt_pred, cnt_mispred,
          trace         \* the branches so far, with what was predicted (history)

vars == <<params, bio, gsh, ct, gbh, cnt_pred, cnt_mispred, trace>>

(* Words: `w >> n', `w << n', `w & (2^m - 1)', `v ^ w'.                    *)
Right(w, n) == {b - n : b \in {x \in w : x >= n}}
Left(w, n)  == {b + n : b \in w}
Low(w, m)   == {b \in w : b < m}
Xor(v, w)   == (v \ w) \cup (w \ v)

Counter == 0 .. 3
Index(m) == SUBSET (0 .. m - 1)
Table(m, cnt) == [i \in Index(m) |-> cnt]

(* The constructors.  A predictor without a table has it too, with the     *)
(* parameters it does not use 0, and never touches it.                     *)
NewCounts   == cnt_pred = 0 /\ cnt_mispred = 0
NewBimodal  == bio = Table(params.M2, 2)
NewGshare   == gsh = Table(params.M1, 2) /\ gbh = {}
NewHybrid   == NewBimodal /\ NewGshare /\ ct = Table(params.K, 1)

Init == params \in Params /\ NewCounts /\ NewHybrid /\ trace = <<>>

(***************************************************************************)
(* The tables.                                                             *)
(***************************************************************************)
predict_pt(pt, idx) == pt[idx] >= 2
update_ptOneBit(pt, idx, taken) ==             \* mutant: forgets at once
  [pt EXCEPT ![idx] = IF taken THEN 3 ELSE 0]
update_ptNoEnds(pt, idx, taken) ==             \* mutant: does not saturate
  [pt EXCEPT ![idx] = IF taken THEN @ + 1 ELSE @ - 1]
update_pt(pt, idx, taken) ==
  [pt EXCEPT ![idx] = IF taken THEN (IF @ < 3 THEN @ + 1 ELSE 3)
                               ELSE (IF @ > 0 THEN @ - 1 ELSE 0)]

(* gen_idx of the bimodal table and of the chooser: bits of the address    *)
(* above the lowest two.                                                   *)
gen_idx(addr, m) == Low(Right(addr, 2), m)

get_gbh == Low(gbh, params.N)

(* gen_idx of gshare: the history lines up with the highest bits.          *)
gen_idx_gsh(addr) ==
  Xor(Left(get_gbh, params.M1 - params.N), gen_idx(addr, params.M1))

(* The history after an outcome, the newest bit on top.  Without a history *)
(* (N = 0) the shift by N - 1 is undefined: any word may come out, and two *)
(* will do, for the mask removes them.                                     *)
update_gbhTooHigh(outcome) ==                  \* mutant: shifts by N
  {Right(gbh, 1) \cup IF outcome THEN {params.N} ELSE {}}
update_gbh(outcome) ==
  IF params.N = 0 THEN {{}, {0}}
  ELSE {Right(gbh, 1) \cup IF outcome THEN {params.N - 1} ELSE {}}

(***************************************************************************)
(* The three predictors, told of a branch and its outcome.                 *)
(***************************************************************************)
Mispredicted(pred, outcome) == IF pred /= outcome THEN 1 ELSE 0

Count(pred, outcome) ==
  /\ cnt_pred' = cnt_pred + 1
  /\ cnt_mispred' = cnt_mispred + Mispredicted(pred, outcome)

predict_bio(addr) == predict_pt(bio, gen_idx(addr, params.M2))
predict_gsh(addr) == predict_pt(gsh, gen_idx_gsh(addr))
choose_gsh(addr)  == predict_pt(ct, gen_idx(addr, params.K))

Bimodal(addr, outcome) ==
  /\ params.bp_name = "bimodal"
  /\ bio' = update_pt(bio, gen_idx(addr, params.M2), outcome)
  /\ Count(predict_bio(addr), outcome)
  /\ UNCHANGED <<gsh, ct, gbh>>

Gshare(addr, outcome) ==
  /\ params.bp_name = "gshare"
  /\ gsh' = update_pt(gsh, gen_idx_gsh(addr), outcome)
  /\ Count(predict_gsh(addr), outcome)
  /\ gbh' \in update_gbh(outcome)
  /\ UNCHANGED <<bio, ct>>

(* Only the predictor that was chosen is trained; the chooser learns from  *)
(* both predictions, and only when exactly one was right.                  *)
TrainedOther(addr, outcome) ==                 \* mutant: the other one is
  IF choose_gsh(addr)
  THEN bio' = update_pt(bio, gen_idx(addr, params.M2), outcome) /\ gsh' = gsh
  ELSE gsh' = update_pt(gsh, gen_idx_gsh(addr), outcome) /\ bio' = bio
Trained(addr, outcome) ==
  IF choose_gsh(addr)
  THEN gsh' = update_pt(gsh, gen_idx_gsh(addr), outcome) /\ bio' = bio
  ELSE bio' = update_pt(bio, gen_idx(addr, params.M2), outcome) /\ gsh' = gsh

ChosenAlways(addr, outcome) ==                 \* mutant: agreement counts too
  ct' = update_pt(ct, gen_idx(addr, params.K), predict_gsh(addr) = outcome)
Chosen(addr, outcome) ==
  ct' = IF predict_gsh(addr) = predict_bio(addr) THEN ct
        ELSE update_pt(ct, gen_idx(addr, params.K), predict_gsh(addr) = outcome)

Hybrid(addr, outcome) ==
  /\ params.bp_name = "hybrid"
  /\ Count(IF choose_gsh(addr) THEN predict_gsh(addr) ELSE predict_bio(addr), outcome)
  /\ Trained(addr, outcome)
  /\ gbh' \in update_gbh(outcome)
  /\ Chosen(addr, outcome)

(* Who answered: the one whose table is told of the outcome.               *)
Used(addr) ==
  CASE params.bp_name = "bimodal" -> "bio"
    [] params.bp_name = "gshare"  -> "gsh"
    [] OTHER -> IF choose_gsh(addr) THEN "gsh" ELSE "bio"

Recorded(addr, outcome) ==
  trace' = Append(trace, [addr |-> addr, outcome |-> outcome, used |-> Used(addr),
                          bio |-> predict_bio(addr), gsh |-> predict_gsh(addr),
                          idx_gsh |-> gen_idx_gsh(addr)])

Next ==
  \E addr \in Addr, outcome \in BOOLEAN :
    /\ Len(trace) < MaxTrace
    /\ Bimodal(addr, outcome) \/ Gshare(addr, outcome) \/ Hybrid(addr, outcome)
    /\ Recorded(addr, outcome)
    /\ UNCHANGED params

Spec == Init /\ [][Next]_vars

(***************************************************************************)
(* Properties.                                                             *)
(***************************************************************************)

(* The counters stay two bits wide: update_pt exits the program otherwise. *)
PredTypeOK ==
  /\ params \in Params
  /\ bio \in [Index(params.M2) -> Counter]
  /\ gsh \in [Index(params.M1) -> Counter]
  /\ ct \in [Index(params.K) -> Counter]
  /\ gbh \subseteq Nat /\ {cnt_pred, cnt_mispred} \subseteq Nat
  /\ Len(trace) <= MaxTrace

(* The gshare index stays in the table, and its bit b is that of the       *)
(* address, flipped by the outcome of the branch M1 - b ago if the history *)
(* goes back so far and so many branches have been: newest on top.         *)
IndexExact ==
  \A k \in DOMAIN trace :
    LET e == trace[k]
    IN  /\ e.idx_gsh \in Index(params.M1)
        /\ params.bp_name /= "bimodal" =>
             \A b \in 0 .. params.M1 - 1 :
               LET ago == params.M1 - b
               IN  (b \in e.idx_gsh) =
                     ((b + 2 \in e.addr) /=
                       (ago <= params.N /\ ago < k /\ trace[k - ago].outcome))

(* The branches that told an entry of a table their outcome, and the       *)
(* contests an entry of the chooser has seen: did gshare win?              *)
Entry(k) == IF trace[k].used = "bio"
            THEN <<"bio", gen_idx(trace[k].addr, params.M2)>>
            ELSE <<"gsh", trace[k].idx_gsh>>
Told(entry) == {k \in DOMAIN trace : Entry(k) = entry}
Outcome     == [k \in DOMAIN trace |-> trace[k].outcome]

Contests(i) == {k \in DOMAIN trace : /\ trace[k].bio /= trace[k].gsh
                                     /\ gen_idx(trace[k].addr, params.K) = i}
GshareWon   == [k \in DOMAIN trace |-> trace[k].gsh = trace[k].outcome]

After(s, k) == {j \in s : j > k}

(* An entry answers what it was told last if it was told so twice, keeps   *)
(* to its answer against one exception after it was told so three times,   *)
(* and answers `first' if it was told nothing.                             *)
Learns(answer, told, what, first) ==
  /\ told = {} => answer = first
  /\ \A a \in told : \A b \in After(told, a) :
       After(told, a) = {b} /\ what[a] = what[b] => answer = what[b]
  /\ \A a \in told : \A b, c, d \in After(told, a) :
       /\ b < c /\ c < d /\ After(told, a) = {b, c, d}
       /\ what[a] = what[b] /\ what[b] = what[c]
       => answer = what[c]

(* Both tables learn and tolerate one exception, each entry from its own   *)
(* branches only, although the hybrid trains only one table at a time and  *)
(* gshare's index moves with the history.                                  *)
CountersLearn ==
  /\ \A i \in DOMAIN bio : Learns(predict_pt(bio, i), Told(<<"bio", i>>), Outcome, TRUE)
  /\ \A i \in DOMAIN gsh : Learns(predict_pt(gsh, i), Told(<<"gsh", i>>), Outcome, TRUE)

(* The chooser learns which predictor to trust from the contests between   *)
(* them, from nothing else, and starts with bimodal.                       *)
ChooserLearns ==
  params.bp_name = "hybrid" =>
    \A i \in DOMAIN ct : Learns(predict_pt(ct, i), Contests(i), GshareWon, FALSE)

(* Branches that are the first to tell their entry anything, and those     *)
(* that tell it something else than the one before.                        *)
Earlier(k) == {j \in Told(Entry(k)) : j < k}
Firsts  == {k \in DOMAIN trace : Earlier(k) = {}}
Changes == {k \in DOMAIN trace : \E j \in Earlier(k) :
              After(Earlier(k), j) = {} /\ Outcome[j] /= Outcome[k]}

(* Every branch is counted, and whatever the trace, the mispredictions     *)
(* reported are no more than two-bit counters that start at 2 may make,    *)
(* each of the outcomes it was told: two for every change, and one for the *)
(* first.  Whoever answers is the one that is trained.                     *)
MistakesBounded ==
  /\ cnt_pred = Len(trace)
  /\ cnt_mispred <= Cardinality(Firsts) + 2 * Cardinality(Changes)
=============================================================================
