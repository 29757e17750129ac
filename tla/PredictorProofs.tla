-------------------------- MODULE PredictorProofs --------------------------
(***************************************************************************)
(* What Predictor says of the three branch predictors, for tables and      *)
(* histories of every size and traces of every length.                     *)
(***************************************************************************)
EXTENDS Predictor, FiniteSetTheorems, WellFoundedInduction, TLAPS

(***************************************************************************)
(* The inductive invariant.                                                *)
(***************************************************************************)
Event == [addr : Addr, outcome : BOOLEAN, used : {"bio", "gsh"},
          bio : BOOLEAN, gsh : BOOLEAN, idx_gsh : SUBSET Nat]

(* The history register holds the last outcomes, the newest on top.  It    *)
(* has no bit above: one would come down at the next shift.                *)
HistoryExact ==
  params.bp_name /= "bimodal" /\ params.N > 0 =>
    gbh = {b \in 0 .. params.N - 1 :
             /\ params.N - b <= Len(trace)
             /\ trace[Len(trace) + 1 - (params.N - b)].outcome}

(* What a counter that started at `first' has come to by the last outcomes *)
(* it was told; After(told, k) = {} says that k is the last.               *)
Knows(cnt, told, what, first) ==
  /\ told = {} => cnt = first
  /\ \A d \in told :
       /\ After(told, d) = {} => IF what[d] THEN cnt >= 1 ELSE cnt <= 2
       /\ told = {d} => (cnt >= 2) = what[d]
  /\ \A c \in told : \A d \in After(told, c) :
       After(told, c) = {d} /\ what[c] = what[d] =>
         IF what[d] THEN cnt >= 2 ELSE cnt <= 1
  /\ \A b \in told : \A c, d \in After(told, b) :
       /\ c < d /\ After(told, b) = {c, d}
       /\ what[b] = what[c] /\ what[c] = what[d]
       => IF what[d] THEN cnt = 3 ELSE cnt = 0
  /\ \A a \in told : \A b, c, d \in After(told, a) :
       /\ b < c /\ c < d /\ After(told, a) = {b, c, d}
       /\ what[a] = what[b] /\ what[b] = what[c]
       => (cnt >= 2) = what[c]

CountersKnow ==
  /\ \A i \in Index(params.M2) : Knows(bio[i], Told(<<"bio", i>>), Outcome, 2)
  /\ \A i \in Index(params.M1) : Knows(gsh[i], Told(<<"gsh", i>>), Outcome, 2)

ChooserKnows ==
  \A i \in Index(params.K) :
    params.bp_name = "hybrid" => Knows(ct[i], Contests(i), GshareWon, 1)

(* A mistake is the first thing an entry is told, or a change, or comes    *)
(* right after a change.                                                   *)
Answer(e) == IF e.used = "bio" THEN e.bio ELSE e.gsh
Mistaken  == {k \in DOMAIN trace : Answer(trace[k]) /= trace[k].outcome}
Seconds   == {k \in DOMAIN trace : \E j \in Earlier(k) :
                After(Earlier(k), j) = {} /\ j \in Changes}

MistakesPlaced ==
  /\ cnt_pred = Len(trace) /\ cnt_mispred = Cardinality(Mistaken)
  /\ Mistaken \subseteq Firsts \cup Changes \cup Seconds

PredInv ==
  /\ PredTypeOK /\ trace \in Seq(Event)
  /\ HistoryExact /\ IndexExact
  /\ CountersKnow /\ ChooserKnows /\ MistakesPlaced

(***************************************************************************)
(* Counters.                                                               *)
(***************************************************************************)
(* The latest of a set of branches.                                        *)
LEMMA LatestOf ==
  ASSUME NEW n \in Nat, NEW S, S \subseteq 1 .. n, S /= {}
  PROVE  \E d \in S : After(S, d) = {}
<1> DEFINE R == {p \in Nat \X Nat : p[1] < p[2]}
           T == {n - x : x \in S}
<1>1. OpToRel(<, Nat) = R
  BY DEF OpToRel
<1>2. IsWellFoundedOn(R, Nat)
  BY <1>1, NatLessThanWellFounded
<1>3. \A x, y \in Nat : <<y, x>> \in R <=> y < x
  OBVIOUS
<1>4. T \subseteq Nat /\ T /= {}
  <2>1. \A x \in S : x \in Nat /\ x <= n /\ n - x \in Nat
    OBVIOUS
  <2>2. PICK x \in S : TRUE
    OBVIOUS
  <2>3. n - x \in T
    OBVIOUS
  <2> QED BY <2>1, <2>3
<1>5. \E x \in T : \A y \in T : ~ (<<y, x>> \in R)
  <2> HIDE DEF R, T
  <2> QED BY <1>2, <1>4, WFMin
<1>6. \E x \in T : \A y \in T : ~(y < x)
  <2>1. PICK x \in T : \A y \in T : ~ (<<y, x>> \in R)
    BY <1>5
  <2> HIDE DEF R, T
  <2> QED BY <2>1, <1>3, <1>4
<1>7. PICK d \in S : \A y \in T : ~(y < n - d)
  BY <1>6
<1>8. \A k \in S : ~(k > d)
  <2> SUFFICES ASSUME NEW k \in S, k > d PROVE FALSE
    OBVIOUS
  <2>1. n - k \in T /\ n - k < n - d
    OBVIOUS
  <2> QED BY <2>1, <1>7
<1> QED BY <1>7, <1>8 DEF After

(* What update_pt makes of a counter.                                      *)
Counted(cnt, taken) ==
  IF taken THEN (IF cnt < 3 THEN cnt + 1 ELSE 3)
           ELSE (IF cnt > 0 THEN cnt - 1 ELSE 0)

(* A counter that knows what its entry was told knows it with one more     *)
(* outcome.                                                                *)
LEMMA KnowsMore ==
  ASSUME NEW n \in Nat, NEW S \in SUBSET (1 .. n), NEW first \in {1, 2},
         NEW what \in [1 .. n -> BOOLEAN], NEW what2 \in [1 .. n + 1 -> BOOLEAN],
         \A k \in 1 .. n : what2[k] = what[k],
         NEW cnt \in Counter, Knows(cnt, S, what, first)
  PROVE  Knows(Counted(cnt, what2[n + 1]), S \cup {n + 1}, what2, first)
<1> DEFINE S2 == S \cup {n + 1}
           cnt2 == Counted(cnt, what2[n + 1])
<1>1. /\ \A a \in S : After(S2, a) = After(S, a) \cup {n + 1} /\ n + 1 \notin After(S, a)
      /\ After(S2, n + 1) = {}
      /\ \A a \in S2 : a \in S \/ a = n + 1
      /\ \A a \in S : After(S, a) \subseteq S
  <2>1. \A a \in S : a \in Nat /\ a < n + 1 /\ ~(a > n + 1) /\ n + 1 > a
    OBVIOUS
  <2>2. n + 1 \notin S /\ ~(n + 1 > n + 1)
    OBVIOUS
  <2> QED BY <2>1, <2>2 DEF After
<1>2. /\ cnt2 \in Counter
      /\ what2[n + 1] => cnt2 >= 1 /\ (cnt >= 1 => cnt2 >= 2) /\ (cnt >= 2 => cnt2 = 3)
      /\ ~what2[n + 1] => cnt2 <= 2 /\ (cnt <= 2 => cnt2 <= 1) /\ (cnt <= 1 => cnt2 = 0)
      /\ cnt = 3 => cnt2 >= 2
      /\ cnt = 0 => cnt2 <= 1
      /\ cnt = first => (cnt2 >= 2) = what2[n + 1]
  BY DEF Counted, Counter
<1> HIDE DEF cnt2
<1>3. /\ S2 = {} => cnt2 = first
      /\ \A d \in S2 :
           /\ After(S2, d) = {} => IF what2[d] THEN cnt2 >= 1 ELSE cnt2 <= 2
           /\ S2 = {d} => (cnt2 >= 2) = what2[d]
  <2>1. S = {} => cnt = first
    BY DEF Knows
  <2>2. \A d \in S2 : d \in S \/ d = n + 1
    OBVIOUS
  <2>3. \A d \in S : After(S2, d) /= {} /\ S2 /= {d}
    BY <1>1
  <2>4. S2 = {n + 1} => S = {}
    OBVIOUS
  <2> QED BY <1>2, <2>1, <2>2, <2>3, <2>4
<1>4. ASSUME NEW c \in S2, NEW d \in After(S2, c), After(S2, c) = {d}, what2[c] = what2[d]
      PROVE  IF what2[d] THEN cnt2 >= 2 ELSE cnt2 <= 1
  <2>1. c \in S /\ After(S, c) \cup {n + 1} = {d} /\ n + 1 \notin After(S, c)
    BY <1>1, <1>4
  <2>3. d = n + 1 /\ After(S, c) = {}
    BY <2>1
  <2>2. IF what[c] THEN cnt >= 1 ELSE cnt <= 2
    BY <2>1, <2>3 DEF Knows
  <2> QED BY <2>1, <2>2, <2>3, <1>2, <1>4
<1>5. ASSUME NEW b \in S2, NEW c \in After(S2, b), NEW d \in After(S2, b),
             c < d, After(S2, b) = {c, d}, what2[b] = what2[c], what2[c] = what2[d]
      PROVE  IF what2[d] THEN cnt2 = 3 ELSE cnt2 = 0
  <2>1. b \in S /\ After(S, b) \cup {n + 1} = {c, d} /\ n + 1 \notin After(S, b)
    BY <1>1, <1>5
  <2>2. d = n + 1 /\ c \in S
    <3>1. c \in S \cup {n + 1} /\ d \in S \cup {n + 1}
      BY <2>1, <1>1
    <3>2. \A x \in S : x <= n /\ x \in Nat
      OBVIOUS
    <3> QED BY <2>1, <3>1, <3>2, <1>5
  <2>3. After(S, b) = {c}
    BY <1>5, <2>1, <2>2
  <2>4. IF what[c] THEN cnt >= 2 ELSE cnt <= 1
    <3>1. c \in After(S, b) /\ what[b] = what[c]
      BY <2>1, <2>2, <2>3, <1>5
    <3> QED BY <3>1, <2>1, <2>3 DEF Knows
  <2> QED BY <2>2, <2>4, <1>2, <1>5
<1>6. ASSUME NEW a \in S2, NEW b \in After(S2, a), NEW c \in After(S2, a), NEW d \in After(S2, a),
             b < c, c < d, After(S2, a) = {b, c, d}, what2[a] = what2[b], what2[b] = what2[c]
      PROVE  (cnt2 >= 2) = what2[c]
  <2>1. a \in S /\ After(S, a) \cup {n + 1} = {b, c, d} /\ n + 1 \notin After(S, a)
    BY <1>1, <1>6
  <2>2. d = n + 1 /\ b \in S /\ c \in S
    <3>1. b \in S \cup {n + 1} /\ c \in S \cup {n + 1} /\ d \in S \cup {n + 1}
      BY <2>1, <1>1
    <3>2. \A x \in S : x <= n /\ x \in Nat
      OBVIOUS
    <3> QED BY <2>1, <3>1, <3>2, <1>6
  <2>3. After(S, a) = {b, c}
    BY <1>6, <2>1, <2>2
  <2>4. IF what[c] THEN cnt = 3 ELSE cnt = 0
    <3>1. b \in After(S, a) /\ c \in After(S, a) /\ what[a] = what[b] /\ what[b] = what[c]
      BY <2>1, <2>2, <2>3, <1>6
    <3> QED BY <3>1, <2>1, <2>3, <1>6 DEF Knows
  <2>5. what2[c] = what[c] /\ what2[c] \in BOOLEAN
    <3>1. c \in 1 .. n /\ c \in 1 .. n + 1
      BY <2>2
    <3> QED BY <3>1
  <2>6. (what2[c] => cnt2 >= 2) /\ (~what2[c] => ~(cnt2 >= 2))
    BY <2>4, <2>5, <1>2 DEF Counter
  <2> QED BY <2>5, <2>6
<1> HIDE DEF S2
<1>7. Knows(cnt2, S2, what2, first)
  BY <1>3, <1>4, <1>5, <1>6 DEF Knows
<1> QED BY <1>7 DEF cnt2, S2

(* A counter that knows answers as it should.                              *)
LEMMA KnowsLearns ==
  ASSUME NEW cnt, NEW told, NEW what, NEW first, Knows(cnt, told, what, first),
         \A k \in told : what[k] \in BOOLEAN, first \in {1, 2}, cnt \in Counter
  PROVE  Learns(cnt >= 2, told, what, first = 2)
<1>1. told = {} => (cnt >= 2) = (first = 2)
  BY DEF Knows
<1>2. \A a \in told : After(told, a) \subseteq told
  BY DEF After
<1>3. ASSUME NEW a \in told, NEW b \in After(told, a), After(told, a) = {b}, what[a] = what[b]
      PROVE  (cnt >= 2) = what[b]
  <2>1. IF what[b] THEN cnt >= 2 ELSE cnt <= 1
    BY <1>3 DEF Knows
  <2>2. what[b] \in BOOLEAN
    BY <1>2
  <2> QED BY <2>1, <2>2 DEF Counter
<1>4. ASSUME NEW a \in told, NEW b \in After(told, a), NEW c \in After(told, a),
             NEW d \in After(told, a), b < c, c < d, After(told, a) = {b, c, d},
             what[a] = what[b], what[b] = what[c]
      PROVE  (cnt >= 2) = what[c]
  BY <1>4 DEF Knows
<1> QED BY <1>1, <1>3, <1>4 DEF Learns

(***************************************************************************)
(* Words.                                                                  *)
(***************************************************************************)
(* An index that is cut out of an address stays in its table.              *)
LEMMA IndexIs ==
  ASSUME NEW addr \in SUBSET Nat, NEW m \in Nat
  PROVE  /\ gen_idx(addr, m) \in Index(m)
         /\ \A b \in 0 .. m - 1 : b \in gen_idx(addr, m) <=> b + 2 \in addr
<1>1. \A b \in Nat : b \in Right(addr, 2) <=> b + 2 \in addr
  <2> SUFFICES ASSUME NEW b \in Nat PROVE b \in Right(addr, 2) <=> b + 2 \in addr
    OBVIOUS
  <2>1. b + 2 \in addr => b \in Right(addr, 2)
    <3>1. (b + 2) - 2 = b /\ b + 2 >= 2
      OBVIOUS
    <3> QED BY <3>1 DEF Right
  <2>2. b \in Right(addr, 2) => b + 2 \in addr
    <3> SUFFICES ASSUME b \in Right(addr, 2) PROVE b + 2 \in addr
      OBVIOUS
    <3>1. PICK x \in addr : x >= 2 /\ b = x - 2
      BY DEF Right
    <3> QED BY <3>1
  <2> QED BY <2>1, <2>2
<1>2. Right(addr, 2) \subseteq Nat
  BY DEF Right
<1> QED BY <1>1, <1>2 DEF gen_idx, Low, Index

(* The history after n outcomes, and after one more.                       *)
LastOutcomes(N, n, what) ==
  {b \in 0 .. N - 1 : N - b <= n /\ what[n + 1 - (N - b)]}
Shifted(h, N, outcome) == Right(h, 1) \cup IF outcome THEN {N - 1} ELSE {}

(* update_gbh: the last outcomes move down, and the new one comes in on    *)
(* top.                                                                    *)
LEMMA HistoryMoves ==
  ASSUME NEW N \in Nat \ {0}, NEW n \in Nat,
         NEW what \in [1 .. n -> BOOLEAN], NEW what2 \in [1 .. n + 1 -> BOOLEAN],
         \A k \in 1 .. n : what2[k] = what[k]
  PROVE  Shifted(LastOutcomes(N, n, what), N, what2[n + 1]) = LastOutcomes(N, n + 1, what2)
<1> DEFINE h == LastOutcomes(N, n, what)
           h2 == Right(h, 1) \cup (IF what2[n + 1] THEN {N - 1} ELSE {})
<1>0. h = {b \in 0 .. N - 1 : N - b <= n /\ what[n + 1 - (N - b)]} /\ h \subseteq Nat
  BY DEF LastOutcomes
<1> HIDE DEF h
<1>1. \A b \in Nat : b \in Right(h, 1) <=> b + 1 \in h
  <2> SUFFICES ASSUME NEW b \in Nat PROVE b \in Right(h, 1) <=> b + 1 \in h
    OBVIOUS
  <2>1. b + 1 \in h => b \in Right(h, 1)
    <3>1. (b + 1) - 1 = b /\ b + 1 >= 1
      OBVIOUS
    <3> QED BY <3>1 DEF Right
  <2>2. b \in Right(h, 1) => b + 1 \in h
    <3> SUFFICES ASSUME b \in Right(h, 1) PROVE b + 1 \in h
      OBVIOUS
    <3>1. PICK x \in h : x >= 1 /\ b = x - 1
      BY DEF Right
    <3> QED BY <3>1, <1>0
  <2> QED BY <2>1, <2>2
<1>2. Right(h, 1) \subseteq Nat
  BY <1>0 DEF Right
<1>3. ASSUME NEW b \in Nat
      PROVE  b \in h2 <=> b \in 0 .. N - 1 /\ N - b <= n + 1 /\ what2[n + 2 - (N - b)]
  <2>1. CASE b >= N
    <3>1. b + 1 \notin h /\ b /= N - 1
      BY <2>1, <1>0
    <3> QED BY <3>1, <2>1, <1>1
  <2>2. CASE b = N - 1
    <3>1. b + 1 \notin h /\ N - b = 1 /\ n + 2 - (N - b) = n + 1
      BY <2>2, <1>0
    <3>2. what2[n + 1] \in BOOLEAN
      OBVIOUS
    <3>3. b \in h2 <=> what2[n + 1]
      BY <3>1, <3>2, <2>2, <1>1
    <3>4. b \in 0 .. N - 1 /\ N - b <= n + 1
      BY <2>2
    <3> QED BY <3>1, <3>3, <3>4
  <2>3. CASE b < N - 1
    <3>1. b + 1 \in h <=> N - (b + 1) <= n /\ what[n + 1 - (N - (b + 1))]
      <4>1. b + 1 \in 0 .. N - 1
        BY <2>3
      <4> QED BY <4>1, <1>0
    <3>2. /\ N - (b + 1) <= n <=> N - b <= n + 1
          /\ n + 1 - (N - (b + 1)) = n + 2 - (N - b)
      OBVIOUS
    <3>3. N - b <= n + 1 => n + 2 - (N - b) \in 1 .. n
      BY <2>3
    <3>4. b /= N - 1 /\ b \in 0 .. N - 1
      BY <2>3
    <3> QED BY <3>1, <3>2, <3>3, <3>4, <1>1
  <2> QED BY <2>1, <2>2, <2>3
<1>4. h2 \subseteq Nat
  BY <1>2
<1> HIDE DEF h2
<1>5. h2 = {b \in 0 .. N - 1 : N - b <= n + 1 /\ what2[n + 2 - (N - b)]}
  <2>1. ASSUME NEW b \in h2
        PROVE  b \in 0 .. N - 1 /\ N - b <= n + 1 /\ what2[n + 2 - (N - b)]
    BY <1>3, <1>4
  <2>2. ASSUME NEW b \in 0 .. N - 1, N - b <= n + 1, what2[n + 2 - (N - b)]
        PROVE  b \in h2
    BY <2>2, <1>3
  <2> QED BY <2>1, <2>2
<1>6. LastOutcomes(N, n + 1, what2) = {b \in 0 .. N - 1 : N - b <= n + 1 /\ what2[n + 2 - (N - b)]}
  <2>1. \A b \in 0 .. N - 1 : (n + 1) + 1 - (N - b) = n + 2 - (N - b)
    OBVIOUS
  <2> QED BY <2>1 DEF LastOutcomes
<1> QED BY <1>5, <1>6 DEF h2, h, Shifted

(* The index of gshare, bit by bit.                                        *)
LEMMA GshareIndexIs ==
  ASSUME NEW addr \in SUBSET Nat, gbh \in SUBSET Nat,
         params.N \in Nat, params.M1 \in Nat, params.N <= params.M1
  PROVE  /\ gen_idx_gsh(addr) \in Index(params.M1)
         /\ \A b \in 0 .. params.M1 - 1 :
              LET ago == params.M1 - b
              IN  (b \in gen_idx_gsh(addr)) =
                    ((b + 2 \in addr) /= (ago <= params.N /\ params.N - ago \in gbh))
<1> DEFINE M == params.M1
           N == params.N
           h == Left(get_gbh, M - N)
<1>1. \A b \in Nat : b \in h <=> M - b <= N /\ b < M /\ N - (M - b) \in gbh
  <2> SUFFICES ASSUME NEW b \in Nat
               PROVE  b \in h <=> M - b <= N /\ b < M /\ N - (M - b) \in gbh
    OBVIOUS
  <2>1. b \in h => M - b <= N /\ b < M /\ N - (M - b) \in gbh
    <3> SUFFICES ASSUME b \in h PROVE M - b <= N /\ b < M /\ N - (M - b) \in gbh
      OBVIOUS
    <3>1. PICK x \in gbh : x < N /\ b = x + (M - N)
      BY DEF Left, get_gbh, Low
    <3>2. x \in Nat /\ N - (M - b) = x
      BY <3>1
    <3> QED BY <3>1, <3>2
  <2>2. M - b <= N /\ b < M /\ N - (M - b) \in gbh => b \in h
    <3> SUFFICES ASSUME M - b <= N, b < M, N - (M - b) \in gbh PROVE b \in h
      OBVIOUS
    <3>1. N - (M - b) < N /\ b = (N - (M - b)) + (M - N)
      OBVIOUS
    <3> QED BY <3>1 DEF Left, get_gbh, Low
  <2> QED BY <2>1, <2>2
<1>2. h \subseteq Nat
  <2> SUFFICES ASSUME NEW b \in h PROVE b \in Nat
    OBVIOUS
  <2>1. PICK x \in gbh : x < N /\ b = x + (M - N)
    BY DEF Left, get_gbh, Low
  <2> QED BY <2>1
<1> HIDE DEF h
<1>3. gen_idx_gsh(addr) = (h \ gen_idx(addr, M)) \cup (gen_idx(addr, M) \ h)
  BY DEF gen_idx_gsh, Xor, h
<1>4. gen_idx_gsh(addr) \in Index(M)
  <2>1. \A b \in h : b \in 0 .. M - 1
    BY <1>1, <1>2
  <2> QED BY <2>1, <1>3, IndexIs DEF Index
<1>5. ASSUME NEW b \in 0 .. M - 1
      PROVE  (b \in gen_idx_gsh(addr)) =
               ((b + 2 \in addr) /= (M - b <= N /\ N - (M - b) \in gbh))
  <2>1. b \in gen_idx_gsh(addr) <=> ~(b \in h <=> b \in gen_idx(addr, M))
    BY <1>3
  <2>2. b \in gen_idx(addr, M) <=> b + 2 \in addr
    BY IndexIs
  <2>3. b \in h <=> M - b <= N /\ N - (M - b) \in gbh
    BY <1>1
  <2> QED BY <2>1, <2>2, <2>3
<1> QED BY <1>4, <1>5

(***************************************************************************)
(* One more branch in the trace.                                           *)
(***************************************************************************)
(* The trace grows by e.                                                   *)
Grows(n, e) ==
  /\ Len(trace) = n /\ trace' = Append(trace, e) /\ params' = params
  /\ trace \in Seq(Event) /\ e \in Event

(* The trace is one branch longer; the branches before stay, and so do     *)
(* their entries.                                                          *)
LEMMA TraceGrows ==
  ASSUME NEW n \in Nat, NEW e, Grows(n, e)
  PROVE  /\ Len(trace') = n + 1 /\ trace' \in Seq(Event) /\ trace'[n + 1] = e
         /\ DOMAIN trace = 1 .. n /\ DOMAIN trace' = 1 .. n + 1
         /\ \A k \in 1 .. n : trace'[k] = trace[k] /\ trace[k] \in Event
         /\ \A k \in 1 .. n : Entry(k)' = Entry(k)
<1>1. /\ Len(trace') = n + 1 /\ trace' \in Seq(Event) /\ trace'[n + 1] = e
      /\ DOMAIN trace = 1 .. n /\ DOMAIN trace' = 1 .. n + 1
  BY DEF Grows
<1>2. \A k \in 1 .. n : trace'[k] = trace[k]
  BY DEF Grows
<1>3. \A k \in 1 .. n : trace[k] \in Event
  BY DEF Grows
<1>4. \A k \in 1 .. n : Entry(k)' = Entry(k)
  BY <1>2 DEF Grows, Entry, gen_idx
<1> QED BY <1>1, <1>2, <1>3, <1>4

(* So are the histories of outcomes and of contests.                       *)
LEMMA HistoriesGrow ==
  ASSUME NEW n \in Nat, NEW e, Grows(n, e)
  PROVE  /\ Outcome \in [1 .. n -> BOOLEAN] /\ Outcome' \in [1 .. n + 1 -> BOOLEAN]
         /\ GshareWon \in [1 .. n -> BOOLEAN] /\ GshareWon' \in [1 .. n + 1 -> BOOLEAN]
         /\ \A k \in 1 .. n : Outcome'[k] = Outcome[k] /\ GshareWon'[k] = GshareWon[k]
         /\ Outcome'[n + 1] = e.outcome /\ GshareWon'[n + 1] = (e.gsh = e.outcome)
<1>1. \A k \in 1 .. n : trace[k] \in Event /\ trace[k].outcome \in BOOLEAN
  BY TraceGrows DEF Event
<1>2. \A k \in 1 .. n + 1 : trace'[k] \in Event /\ trace'[k].outcome \in BOOLEAN
  <2>1. trace' \in Seq(Event) /\ Len(trace') = n + 1
    BY TraceGrows
  <2>2. \A k \in 1 .. n + 1 : trace'[k] \in Event
    BY <2>1
  <2> QED BY <2>2 DEF Event
<1>3. DOMAIN trace = 1 .. n /\ DOMAIN trace' = 1 .. n + 1
  BY TraceGrows
<1>4. Outcome = [k \in 1 .. n |-> trace[k].outcome]
      /\ GshareWon = [k \in 1 .. n |-> trace[k].gsh = trace[k].outcome]
  BY <1>3 DEF Outcome, GshareWon
<1>5. Outcome' = [k \in 1 .. n + 1 |-> trace'[k].outcome]
      /\ GshareWon' = [k \in 1 .. n + 1 |-> trace'[k].gsh = trace'[k].outcome]
  BY <1>3 DEF Outcome, GshareWon
<1>6. Outcome \in [1 .. n -> BOOLEAN] /\ GshareWon \in [1 .. n -> BOOLEAN]
  BY <1>1, <1>4
<1>7. Outcome' \in [1 .. n + 1 -> BOOLEAN] /\ GshareWon' \in [1 .. n + 1 -> BOOLEAN]
  BY <1>2, <1>5
<1>8. n + 1 \in 1 .. n + 1 /\ \A k \in 1 .. n : k \in 1 .. n + 1 /\ trace'[k] = trace[k]
  BY TraceGrows
<1>9. trace'[n + 1] = e
  BY TraceGrows
<1> QED BY <1>4, <1>5, <1>6, <1>7, <1>8, <1>9

(* The new branch tells its own entry, and no other.                       *)
LEMMA ToldGrows ==
  ASSUME NEW n \in Nat, NEW e, Grows(n, e), NEW entry
  PROVE  /\ Told(entry) \in SUBSET (1 .. n)
         /\ Entry(n + 1)' = entry  => Told(entry)' = Told(entry) \cup {n + 1}
         /\ Entry(n + 1)' /= entry => Told(entry)' = Told(entry)
<1>1. Told(entry)' = {k \in 1 .. n + 1 : Entry(k)' = entry}
  BY TraceGrows DEF Told
<1>2. Told(entry) = {k \in 1 .. n : Entry(k) = entry}
  BY TraceGrows DEF Told
<1> QED BY <1>1, <1>2, TraceGrows

(* The new branch is a contest of its own entry of the chooser, if of any. *)
LEMMA ContestsGrow ==
  ASSUME NEW n \in Nat, NEW e, Grows(n, e), NEW i
  PROVE  /\ Contests(i) \in SUBSET (1 .. n)
         /\ Contests(i)' = Contests(i) \cup
              IF e.bio /= e.gsh /\ gen_idx(e.addr, params.K) = i THEN {n + 1} ELSE {}
<1>1. Contests(i)' = {k \in 1 .. n + 1 : /\ trace'[k].bio /= trace'[k].gsh
                                          /\ gen_idx(trace'[k].addr, params.K) = i}
  BY TraceGrows DEF Contests, Grows, gen_idx
<1>2. Contests(i) = {k \in 1 .. n : /\ trace[k].bio /= trace[k].gsh
                                     /\ gen_idx(trace[k].addr, params.K) = i}
  BY TraceGrows DEF Contests
<1> QED BY <1>1, <1>2, TraceGrows

(***************************************************************************)
(* What a branch does, whatever the predictor: e is what is remembered.    *)
(***************************************************************************)
Happens(e) ==
  /\ Grows(Len(trace), e) /\ Len(trace) < MaxTrace
  /\ e.idx_gsh = gen_idx_gsh(e.addr)
  /\ e.bio = (bio[gen_idx(e.addr, params.M2)] >= 2) /\ e.gsh = (gsh[e.idx_gsh] >= 2)
  /\ bio' = IF e.used = "bio" THEN update_pt(bio, gen_idx(e.addr, params.M2), e.outcome)
                              ELSE bio
  /\ gsh' = IF e.used = "gsh" THEN update_pt(gsh, e.idx_gsh, e.outcome) ELSE gsh
  /\ ct' = IF params.bp_name = "hybrid" /\ e.bio /= e.gsh
            THEN update_pt(ct, gen_idx(e.addr, params.K), e.gsh = e.outcome) ELSE ct
  /\ gbh' \in IF params.bp_name = "bimodal" THEN {gbh} ELSE update_gbh(e.outcome)
  /\ cnt_pred' = cnt_pred + 1
  /\ cnt_mispred' = cnt_mispred + Mispredicted(Answer(e), e.outcome)

(* The widths on the command line.                                         *)
LEMMA ParamsAre ==
  ASSUME PredTypeOK
  PROVE  /\ params.bp_name \in {"bimodal", "gshare", "hybrid"}
         /\ params.K \in Nat /\ params.M1 \in Nat /\ params.N \in Nat
         /\ params.M2 \in Nat /\ params.N <= params.M1
  BY PredictorAssumption DEF PredTypeOK

(* Every index of an address of the trace is in its table.                 *)
LEMMA IndicesAre ==
  ASSUME PredTypeOK, NEW addr \in Addr
  PROVE  /\ gen_idx(addr, params.M2) \in Index(params.M2)
         /\ gen_idx(addr, params.K) \in Index(params.K)
         /\ gen_idx_gsh(addr) \in Index(params.M1)
<1>1. addr \in SUBSET Nat /\ gbh \in SUBSET Nat
  BY PredictorAssumption DEF PredTypeOK
<1> QED BY <1>1, ParamsAre, IndexIs, GshareIndexIs

(* A step of any of the three predictors is a branch that happens.         *)
LEMMA SomethingHappens ==
  ASSUME PredTypeOK, trace \in Seq(Event), NEW addr \in Addr, NEW outcome \in BOOLEAN,
         Len(trace) < MaxTrace,
         Bimodal(addr, outcome) \/ Gshare(addr, outcome) \/ Hybrid(addr, outcome),
         Recorded(addr, outcome), UNCHANGED params
  PROVE  \E e : Happens(e)
<1> DEFINE new == [addr |-> addr, outcome |-> outcome, used |-> Used(addr),
                   bio |-> predict_bio(addr), gsh |-> predict_gsh(addr),
                   idx_gsh |-> gen_idx_gsh(addr)]
<1>1. PICK e : e = new
  OBVIOUS
<1>2. /\ e.addr = addr /\ e.outcome = outcome /\ e.used = Used(addr)
      /\ e.bio = predict_bio(addr) /\ e.gsh = predict_gsh(addr)
      /\ e.idx_gsh = gen_idx_gsh(addr)
  BY <1>1
<1>3. e.bio \in BOOLEAN /\ e.gsh \in BOOLEAN /\ e.used \in {"bio", "gsh"}
  BY <1>2 DEF predict_bio, predict_gsh, predict_pt, Used
<1>4. Grows(Len(trace), e)
  <2>1. gen_idx_gsh(addr) \in SUBSET Nat
    BY IndicesAre, ParamsAre DEF Index
  <2>2. e \in Event
    BY <1>1, <1>2, <1>3, <2>1 DEF Event
  <2>3. trace' = Append(trace, e)
    BY <1>1 DEF Recorded
  <2> QED BY <2>2, <2>3 DEF Grows
<1>5. /\ e.bio = (bio[gen_idx(e.addr, params.M2)] >= 2)
      /\ e.gsh = (gsh[e.idx_gsh] >= 2)
  BY <1>2 DEF predict_bio, predict_gsh, predict_pt
<1>6. /\ bio' = IF e.used = "bio" THEN update_pt(bio, gen_idx(e.addr, params.M2), e.outcome)
                                  ELSE bio
      /\ gsh' = IF e.used = "gsh" THEN update_pt(gsh, e.idx_gsh, e.outcome) ELSE gsh
      /\ ct' = IF params.bp_name = "hybrid" /\ e.bio /= e.gsh
                THEN update_pt(ct, gen_idx(e.addr, params.K), e.gsh = e.outcome) ELSE ct
      /\ gbh' \in IF params.bp_name = "bimodal" THEN {gbh} ELSE update_gbh(e.outcome)
      /\ cnt_pred' = cnt_pred + 1
      /\ cnt_mispred' = cnt_mispred + Mispredicted(Answer(e), e.outcome)
  <2>1. CASE Bimodal(addr, outcome)
    <3>1. e.used = "bio" /\ params.bp_name = "bimodal"
      BY <2>1, <1>2 DEF Bimodal, Used
    <3> QED BY <3>1, <2>1, <1>2 DEF Bimodal, Count, Answer
  <2>2. CASE Gshare(addr, outcome)
    <3>1. e.used = "gsh" /\ params.bp_name = "gshare"
      BY <2>2, <1>2 DEF Gshare, Used
    <3> QED BY <3>1, <2>2, <1>2 DEF Gshare, Count, Answer
  <2>3. CASE Hybrid(addr, outcome)
    <3>1. e.used = (IF choose_gsh(addr) THEN "gsh" ELSE "bio") /\ params.bp_name = "hybrid"
      BY <2>3, <1>2 DEF Hybrid, Used
    <3> QED BY <3>1, <2>3, <1>2 DEF Hybrid, Count, Answer, Trained, Chosen
  <2> QED BY <2>1, <2>2, <2>3
<1>7. Happens(e)
  BY <1>2, <1>4, <1>5, <1>6 DEF Happens
<1> QED BY <1>7

(***************************************************************************)
(* Each part of the invariant is kept.                                     *)
(***************************************************************************)
(* One entry of a table counts.                                            *)
LEMMA Updated ==
  ASSUME NEW I, NEW pt \in [I -> Counter], NEW idx \in I, NEW taken
  PROVE  /\ update_pt(pt, idx, taken) \in [I -> Counter]
         /\ \A i \in I : update_pt(pt, idx, taken)[i] =
              IF i = idx THEN Counted(pt[i], taken) ELSE pt[i]
  BY DEF update_pt, Counted, Counter

(* The counters stay two bits wide, the trace gets one branch longer.      *)
LEMMA TypesKept ==
  ASSUME PredTypeOK, NEW e, Happens(e)
  PROVE  PredTypeOK' /\ trace' \in Seq(Event)
<1>1. e \in Event /\ e.addr \in Addr /\ params' = params
  BY DEF Happens, Grows, Event
<1>2. /\ gen_idx(e.addr, params.M2) \in Index(params.M2)
      /\ gen_idx(e.addr, params.K) \in Index(params.K)
      /\ e.idx_gsh \in Index(params.M1)
  BY <1>1, IndicesAre DEF Happens
<1>3. /\ bio' \in [Index(params.M2) -> Counter] /\ gsh' \in [Index(params.M1) -> Counter]
      /\ ct' \in [Index(params.K) -> Counter]
  <2>1. bio' \in [Index(params.M2) -> Counter]
    BY <1>2, Updated DEF Happens, PredTypeOK
  <2>2. gsh' \in [Index(params.M1) -> Counter]
    BY <1>2, Updated DEF Happens, PredTypeOK
  <2>3. ct' \in [Index(params.K) -> Counter]
    BY <1>2, Updated DEF Happens, PredTypeOK
  <2> QED BY <2>1, <2>2, <2>3
<1>4. gbh' \subseteq Nat
  <2>1. gbh \subseteq Nat
    BY DEF PredTypeOK
  <2>2. Right(gbh, 1) \subseteq Nat
    <3> SUFFICES ASSUME NEW b \in Right(gbh, 1) PROVE b \in Nat
      OBVIOUS
    <3>1. PICK x \in gbh : x >= 1 /\ b = x - 1
      BY DEF Right
    <3> QED BY <3>1, <2>1
  <2>3. params.N \in Nat
    BY ParamsAre
  <2>4. params.N /= 0 => params.N - 1 \in Nat
    BY <2>3
  <2>5. update_gbh(e.outcome) \subseteq SUBSET Nat
    BY <2>2, <2>4 DEF update_gbh
  <2> QED BY <2>1, <2>5 DEF Happens
<1>5. cnt_pred' \in Nat /\ cnt_mispred' \in Nat
  BY DEF Happens, PredTypeOK, Mispredicted
<1>6. Len(trace') <= MaxTrace /\ trace' \in Seq(Event)
  <2>1. Len(trace) \in Nat
    BY DEF Happens, Grows
  <2>2. Len(trace') = Len(trace) + 1 /\ trace' \in Seq(Event)
    BY <2>1, TraceGrows DEF Happens
  <2> QED BY <2>1, <2>2, PredictorAssumption DEF Happens
<1> QED BY <1>1, <1>3, <1>4, <1>5, <1>6 DEF PredTypeOK, Index

(* The history register holds one outcome more.                            *)
LEMMA HistoryKept ==
  ASSUME PredTypeOK, HistoryExact, NEW e, Happens(e)
  PROVE  HistoryExact'
<1> SUFFICES ASSUME params.bp_name /= "bimodal", params.N > 0
             PROVE  gbh' = {b \in 0 .. params.N - 1 :
                      /\ params.N - b <= Len(trace')
                      /\ trace'[Len(trace') + 1 - (params.N - b)].outcome}
  BY DEF HistoryExact, Happens, Grows
<1> DEFINE n == Len(trace)
           N == params.N
<1>1. n \in Nat /\ N \in Nat \ {0} /\ gbh \in SUBSET Nat /\ e.outcome \in BOOLEAN
  BY ParamsAre DEF Happens, Grows, PredTypeOK, Event
<1>2. Grows(n, e) /\ Len(trace') = n + 1
  BY <1>1, TraceGrows DEF Happens
<1>3. gbh = {b \in 0 .. N - 1 : N - b <= n /\ Outcome[n + 1 - (N - b)]}
  <2>1. \A b \in 0 .. N - 1 : N - b <= n =>
          Outcome[n + 1 - (N - b)] = trace[n + 1 - (N - b)].outcome
    <3> SUFFICES ASSUME NEW b \in 0 .. N - 1, N - b <= n
                 PROVE  Outcome[n + 1 - (N - b)] = trace[n + 1 - (N - b)].outcome
      OBVIOUS
    <3>1. n + 1 - (N - b) \in 1 .. n
      BY <1>1
    <3> QED BY <3>1, <1>1, <1>2, TraceGrows DEF Outcome
  <2> QED BY <2>1 DEF HistoryExact
<1>4. gbh' = Shifted(gbh, N, Outcome'[n + 1])
  BY <1>1, <1>2, HistoriesGrow DEF Happens, update_gbh, Shifted
<1>5. gbh' = {b \in 0 .. N - 1 : N - b <= n + 1 /\ Outcome'[n + 2 - (N - b)]}
  <2>1. PICK what : what = Outcome
    OBVIOUS
  <2>2. PICK what2 : what2 = Outcome'
    OBVIOUS
  <2>3. /\ what \in [1 .. n -> BOOLEAN] /\ what2 \in [1 .. n + 1 -> BOOLEAN]
        /\ \A k \in 1 .. n : what2[k] = what[k]
    BY <2>1, <2>2, <1>1, <1>2, HistoriesGrow
  <2>4. gbh = LastOutcomes(N, n, what)
    BY <2>1, <1>3 DEF LastOutcomes
  <2>5. Shifted(LastOutcomes(N, n, what), N, what2[n + 1]) = LastOutcomes(N, n + 1, what2)
    BY <2>3, <1>1, HistoryMoves
  <2>6. gbh' = LastOutcomes(N, n + 1, what2)
    BY <2>2, <2>4, <2>5, <1>4
  <2>7. \A b \in 0 .. N - 1 : (n + 1) + 1 - (N - b) = n + 2 - (N - b)
    BY <1>1
  <2> HIDE DEF n, N
  <2>8. gbh' = {b \in 0 .. N - 1 : N - b <= n + 1 /\ what2[n + 2 - (N - b)]}
    BY <2>6, <2>7 DEF LastOutcomes
  <2> QED BY <2>2, <2>8
<1>6. \A b \in 0 .. N - 1 : N - b <= n + 1 =>
        Outcome'[n + 2 - (N - b)] = trace'[Len(trace') + 1 - (N - b)].outcome
  <2> SUFFICES ASSUME NEW b \in 0 .. N - 1, N - b <= n + 1
               PROVE  Outcome'[n + 2 - (N - b)] = trace'[Len(trace') + 1 - (N - b)].outcome
    OBVIOUS
  <2>1. n + 2 - (N - b) \in 1 .. n + 1 /\ Len(trace') + 1 - (N - b) = n + 2 - (N - b)
    BY <1>1, <1>2
  <2> QED BY <2>1, <1>1, <1>2, TraceGrows DEF Outcome
<1>7. Len(trace') = n + 1
  BY <1>2
<1> HIDE DEF n
<1>8. ASSUME NEW b \in 0 .. N - 1
      PROVE  /\ N - b <= n + 1 <=> N - b <= Len(trace')
             /\ N - b <= n + 1 => Outcome'[n + 2 - (N - b)] =
                                    trace'[Len(trace') + 1 - (N - b)].outcome
  BY <1>6, <1>7
<1>9. {b \in 0 .. N - 1 : N - b <= n + 1 /\ Outcome'[n + 2 - (N - b)]} =
      {b \in 0 .. N - 1 : N - b <= Len(trace') /\ trace'[Len(trace') + 1 - (N - b)].outcome}
  BY <1>8
<1> QED BY <1>5, <1>9

(* The index of the new branch is made of the outcomes before it.          *)
LEMMA IndexKept ==
  ASSUME PredTypeOK, HistoryExact, IndexExact, NEW e, Happens(e)
  PROVE  IndexExact'
<1> DEFINE n == Len(trace)
           M == params.M1
           N == params.N
<1>1. /\ n \in Nat /\ N \in Nat /\ M \in Nat /\ N <= M
      /\ gbh \in SUBSET Nat /\ e.addr \in SUBSET Nat /\ params' = params
  <2>1. n \in Nat /\ params' = params /\ e.addr \in Addr
    BY DEF Happens, Grows, Event
  <2>2. e.addr \in SUBSET Nat
    BY <2>1, PredictorAssumption
  <2>3. gbh \in SUBSET Nat
    BY DEF PredTypeOK
  <2> QED BY <2>1, <2>2, <2>3, ParamsAre
<1>2. Grows(n, e)
  BY DEF Happens
<1>3. /\ DOMAIN trace = 1 .. n /\ DOMAIN trace' = 1 .. n + 1 /\ trace'[n + 1] = e
      /\ \A k \in 1 .. n : trace'[k] = trace[k]
  BY <1>1, <1>2, TraceGrows
<1>4. ASSUME NEW k \in 1 .. n + 1
      PROVE  /\ trace'[k].idx_gsh \in Index(M)
             /\ params.bp_name /= "bimodal" =>
                  \A b \in 0 .. M - 1 :
                    LET ago == M - b
                    IN  (b \in trace'[k].idx_gsh) =
                          ((b + 2 \in trace'[k].addr) /=
                             (ago <= N /\ ago < k /\ trace'[k - ago].outcome))
  <2>1. CASE k \in 1 .. n
    <3>1. trace[k].idx_gsh \in Index(M)
      BY <2>1, <1>3 DEF IndexExact
    <3>2. ASSUME params.bp_name /= "bimodal", NEW b \in 0 .. M - 1
          PROVE  (b \in trace[k].idx_gsh) =
                   ((b + 2 \in trace[k].addr) /=
                      (M - b <= N /\ M - b < k /\ trace[k - (M - b)].outcome))
      BY <2>1, <3>2, <1>3 DEF IndexExact
    <3>3. ASSUME NEW b \in 0 .. M - 1, M - b < k
          PROVE  trace'[k - (M - b)] = trace[k - (M - b)]
      <4>1. k - (M - b) \in 1 .. n
        BY <1>1, <2>1, <3>3
      <4> QED BY <4>1, <1>3
    <3> QED BY <2>1, <3>1, <3>2, <3>3, <1>3
  <2>2. CASE k = n + 1
    <3>1. trace'[k] = e /\ e.idx_gsh = gen_idx_gsh(e.addr)
      BY <2>2, <1>3 DEF Happens
    <3>2. gen_idx_gsh(e.addr) \in Index(M)
      BY <1>1, GshareIndexIs
    <3>3. ASSUME params.bp_name /= "bimodal", NEW b \in 0 .. M - 1
          PROVE  (b \in gen_idx_gsh(e.addr)) =
                   ((b + 2 \in e.addr) /=
                      (M - b <= N /\ M - b < k /\ trace'[k - (M - b)].outcome))
      <4>1. (b \in gen_idx_gsh(e.addr)) =
              ((b + 2 \in e.addr) /= (M - b <= N /\ N - (M - b) \in gbh))
        BY <1>1, GshareIndexIs
      <4>2. CASE M - b <= N
        <5>1. /\ N > 0 /\ N - (M - b) \in 0 .. N - 1
              /\ N - (N - (M - b)) = M - b /\ n + 1 - (M - b) = k - (M - b)
          <6>1. M - b \in Nat /\ M - b > 0 /\ M - b <= N
            BY <4>2, <1>1
          <6>2. PICK ago : ago = M - b
            OBVIOUS
          <6>3. N - ago \in 0 .. N - 1 /\ N - (N - ago) = ago /\ N > 0
            BY <6>1, <6>2, <1>1
          <6> QED BY <6>2, <6>3, <2>2
        <5>2. N - (M - b) \in gbh <=> M - b <= n /\ trace[k - (M - b)].outcome
          BY <5>1, <3>3, <1>1 DEF HistoryExact
        <5>3. M - b < k <=> M - b <= n
          BY <1>1, <2>2
        <5>4. M - b <= n => trace'[k - (M - b)] = trace[k - (M - b)]
          <6> SUFFICES ASSUME M - b <= n PROVE trace'[k - (M - b)] = trace[k - (M - b)]
            OBVIOUS
          <6>1. k - (M - b) \in 1 .. n
            BY <1>1, <2>2
          <6> QED BY <6>1, <1>3
        <5>5. N - (M - b) \in gbh <=> M - b < k /\ trace'[k - (M - b)].outcome
          BY <5>2, <5>3, <5>4
        <5> HIDE DEF M, N
        <5> QED BY <4>1, <4>2, <5>5
      <4>3. CASE ~(M - b <= N)
        BY <4>1, <4>3
      <4> QED BY <4>2, <4>3
    <3> QED BY <3>1, <3>2, <3>3
  <2>3. k \in 1 .. n \/ k = n + 1
    BY <1>1
  <2> QED BY <2>1, <2>2, <2>3, Zenon
<1>5. params' = params /\ DOMAIN trace' = 1 .. n + 1
  BY <1>1, <1>3
<1> HIDE DEF n
<1> SUFFICES ASSUME NEW k \in 1 .. n + 1
             PROVE  /\ trace'[k].idx_gsh \in Index(params.M1)
                    /\ params.bp_name /= "bimodal" =>
                         \A b \in 0 .. params.M1 - 1 :
                           LET ago == params.M1 - b
                           IN  (b \in trace'[k].idx_gsh) =
                                 ((b + 2 \in trace'[k].addr) /=
                                    (ago <= params.N /\ ago < k /\ trace'[k - ago].outcome))
  BY <1>5, Zenon DEF IndexExact
<1> QED BY <1>4, Zenon

(* The entry that answered is told the outcome; the others stay as they    *)
(* are.                                                                    *)
LEMMA CountersKept ==
  ASSUME PredTypeOK, CountersKnow, NEW e, Happens(e)
  PROVE  CountersKnow'
<1>0. PICK n : n = Len(trace)
  OBVIOUS
<1>1. n \in Nat /\ Grows(n, e) /\ params' = params /\ e \in Event
  BY <1>0 DEF Happens, Grows
<1>2. PICK what : what = Outcome
  OBVIOUS
<1>3. PICK what2 : what2 = Outcome'
  OBVIOUS
<1>4. /\ what \in [1 .. n -> BOOLEAN] /\ what2 \in [1 .. n + 1 -> BOOLEAN]
      /\ \A k \in 1 .. n : what2[k] = what[k]
      /\ what2[n + 1] = e.outcome
  BY <1>1, <1>2, <1>3, HistoriesGrow
<1>5. Entry(n + 1)' = IF e.used = "bio" THEN <<"bio", gen_idx(e.addr, params.M2)>>
                                        ELSE <<"gsh", e.idx_gsh>>
  <2>1. trace'[n + 1] = e
    BY <1>1, TraceGrows
  <2>2. Entry(n + 1)' = IF trace'[n + 1].used = "bio"
                        THEN <<"bio", gen_idx(trace'[n + 1].addr, params'.M2)>>
                        ELSE <<"gsh", trace'[n + 1].idx_gsh>>
    BY DEF Entry, gen_idx
  <2> QED BY <2>1, <2>2, <1>1
<1>6. e.used \in {"bio", "gsh"} /\ e.addr \in Addr
  BY <1>1 DEF Event
(* An entry that is told the outcome, and one that is told nothing.        *)
<1>7. ASSUME NEW x, NEW told, told = Told(x), NEW told2, told2 = Told(x)',
             NEW cnt \in Counter, Knows(cnt, told, what, 2)
      PROVE  /\ Entry(n + 1)' = x => Knows(Counted(cnt, e.outcome), told2, what2, 2)
             /\ Entry(n + 1)' /= x => Knows(cnt, told2, what2, 2)
  <2>1. /\ told \in SUBSET (1 .. n)
        /\ Entry(n + 1)' = x  => told2 = told \cup {n + 1}
        /\ Entry(n + 1)' /= x => told2 = told
    BY <1>1, <1>7, ToldGrows
  <2>2. CASE Entry(n + 1)' = x
    <3>1. told2 = told \cup {n + 1}
      BY <2>1, <2>2
    <3>2. Knows(Counted(cnt, what2[n + 1]), told \cup {n + 1}, what2, 2)
      BY <1>1, <1>4, <1>7, <2>1, KnowsMore
    <3> QED BY <2>2, <3>1, <3>2, <1>4
  <2>3. CASE Entry(n + 1)' /= x
    <3>1. told2 = told
      BY <2>1, <2>3
    <3>2. \A k \in told : what2[k] = what[k]
      BY <2>1, <1>4
    <3>3. \A a \in told : After(told, a) \subseteq told
      BY DEF After
    <3> QED BY <2>3, <3>1, <3>2, <3>3, <1>7 DEF Knows
  <2> QED BY <2>2, <2>3
<1>8. ASSUME NEW i \in Index(params.M2)
      PROVE  Knows(bio'[i], Told(<<"bio", i>>)', what2, 2)
  <2>1. bio[i] \in Counter /\ Knows(bio[i], Told(<<"bio", i>>), what, 2)
    BY <1>2 DEF CountersKnow, PredTypeOK
  <2>2. bio'[i] = IF Entry(n + 1)' = <<"bio", i>> THEN Counted(bio[i], e.outcome) ELSE bio[i]
    BY <1>5, <1>6, Updated, IndicesAre DEF Happens, PredTypeOK
  <2>3. PICK told : told = Told(<<"bio", i>>)
    OBVIOUS
  <2>4. PICK told2 : told2 = Told(<<"bio", i>>)'
    OBVIOUS
  <2>5. PICK cnt : cnt = bio[i]
    OBVIOUS
  <2>6. PICK x : x = <<"bio", i>>
    OBVIOUS
  <2>7. /\ Entry(n + 1)' = x => Knows(Counted(cnt, e.outcome), told2, what2, 2)
        /\ Entry(n + 1)' /= x => Knows(cnt, told2, what2, 2)
    BY <2>1, <2>3, <2>4, <2>5, <2>6, <1>7
  <2> QED BY <2>2, <2>4, <2>5, <2>6, <2>7
<1>9. ASSUME NEW i \in Index(params.M1)
      PROVE  Knows(gsh'[i], Told(<<"gsh", i>>)', what2, 2)
  <2>1. gsh[i] \in Counter /\ Knows(gsh[i], Told(<<"gsh", i>>), what, 2)
    BY <1>2 DEF CountersKnow, PredTypeOK
  <2>2. gsh'[i] = IF Entry(n + 1)' = <<"gsh", i>> THEN Counted(gsh[i], e.outcome) ELSE gsh[i]
    BY <1>5, <1>6, Updated, IndicesAre DEF Happens, PredTypeOK
  <2>3. PICK told : told = Told(<<"gsh", i>>)
    OBVIOUS
  <2>4. PICK told2 : told2 = Told(<<"gsh", i>>)'
    OBVIOUS
  <2>5. PICK cnt : cnt = gsh[i]
    OBVIOUS
  <2>6. PICK x : x = <<"gsh", i>>
    OBVIOUS
  <2>7. /\ Entry(n + 1)' = x => Knows(Counted(cnt, e.outcome), told2, what2, 2)
        /\ Entry(n + 1)' /= x => Knows(cnt, told2, what2, 2)
    BY <2>1, <2>3, <2>4, <2>5, <2>6, <1>7
  <2> QED BY <2>2, <2>4, <2>5, <2>6, <2>7
<1> QED BY <1>1, <1>3, <1>8, <1>9 DEF CountersKnow, Index

(* The entry of the chooser is told who won, if the predictors disagreed.  *)
LEMMA ChooserKept ==
  ASSUME PredTypeOK, ChooserKnows, NEW e, Happens(e)
  PROVE  ChooserKnows'
<1>0. PICK n : n = Len(trace)
  OBVIOUS
<1>1. n \in Nat /\ Grows(n, e) /\ params' = params /\ e \in Event
  BY <1>0 DEF Happens, Grows
<1>2. PICK what : what = GshareWon
  OBVIOUS
<1>3. PICK what2 : what2 = GshareWon'
  OBVIOUS
<1>4. /\ what \in [1 .. n -> BOOLEAN] /\ what2 \in [1 .. n + 1 -> BOOLEAN]
      /\ \A k \in 1 .. n : what2[k] = what[k]
      /\ what2[n + 1] = (e.gsh = e.outcome)
  BY <1>1, <1>2, <1>3, HistoriesGrow
<1>5. gen_idx(e.addr, params.K) \in Index(params.K)
  BY <1>1, IndicesAre DEF Event
<1>6. ASSUME NEW i \in Index(params.K), params.bp_name = "hybrid"
      PROVE  Knows(ct'[i], Contests(i)', what2, 1)
  <2>1. PICK cnt : cnt = ct[i]
    OBVIOUS
  <2>2. PICK S : S = Contests(i)
    OBVIOUS
  <2>3. cnt \in Counter /\ Knows(cnt, S, what, 1)
    BY <1>2, <1>6, <2>1, <2>2 DEF ChooserKnows, PredTypeOK
  <2>4. /\ S \in SUBSET (1 .. n)
        /\ Contests(i)' = S \cup IF e.bio /= e.gsh /\ gen_idx(e.addr, params.K) = i
                                  THEN {n + 1} ELSE {}
    BY <1>1, <2>2, ContestsGrow
  <2>5. CASE e.bio /= e.gsh /\ gen_idx(e.addr, params.K) = i
    <3>1. ct' = update_pt(ct, i, e.gsh = e.outcome)
      BY <2>5, <1>6 DEF Happens
    <3>2. ct'[i] = Counted(cnt, e.gsh = e.outcome)
      <4> DEFINE won == e.gsh = e.outcome
      <4> HIDE DEF won
      <4>1. ct' = update_pt(ct, i, won)
        BY <3>1 DEF won
      <4>2. ct'[i] = Counted(cnt, won)
        BY <4>1, <2>1, Updated DEF PredTypeOK
      <4> QED BY <4>2 DEF won
    <3>3. ct'[i] = Counted(cnt, what2[n + 1])
      BY <3>2, <1>4
    <3>4. Knows(Counted(cnt, what2[n + 1]), S \cup {n + 1}, what2, 1)
      BY <1>1, <1>4, <2>3, <2>4, KnowsMore
    <3> QED BY <2>4, <2>5, <3>3, <3>4
  <2>6. CASE ~(e.bio /= e.gsh /\ gen_idx(e.addr, params.K) = i)
    <3>1. ct'[i] = cnt
      <4> DEFINE won == e.gsh = e.outcome
      <4>1. CASE e.bio /= e.gsh
        <5>1. ct' = update_pt(ct, gen_idx(e.addr, params.K), won)
          BY <4>1, <1>6 DEF Happens
        <5> HIDE DEF won
        <5> QED BY <5>1, <4>1, <2>6, <2>1, <1>5, Updated DEF PredTypeOK
      <4>2. CASE e.bio = e.gsh
        BY <4>2, <2>1 DEF Happens
      <4> QED BY <4>1, <4>2
    <3>2. Contests(i)' = S
      BY <2>4, <2>6
    <3>3. \A k \in S : what2[k] = what[k]
      BY <2>4, <1>4
    <3>4. \A a \in S : After(S, a) \subseteq S
      BY DEF After
    <3>5. Knows(cnt, S, what2, 1)
      BY <3>3, <3>4, <2>3 DEF Knows
    <3> QED BY <3>1, <3>2, <3>5
  <2> QED BY <2>5, <2>6
<1> QED BY <1>1, <1>3, <1>6 DEF ChooserKnows, Index

(***************************************************************************)
(* Mistakes.                                                               *)
(***************************************************************************)
(* The last outcome of S was another, or itself a change.                  *)
Excuses(S, what, outcome) ==
  \E d \in S : /\ After(S, d) = {}
              /\ \/ what[d] /= outcome
                 \/ \E c \in S : /\ c < d /\ what[c] /= what[d]
                                /\ After({j \in S : j < d}, c) = {}

(* A counter that knows is wrong only if its last outcome was another, or  *)
(* was itself a change.                                                    *)
LEMMA LastTwo ==
  ASSUME NEW n \in Nat, NEW S \in SUBSET (1 .. n), S /= {},
         NEW what \in [1 .. n -> BOOLEAN], NEW outcome \in BOOLEAN,
         NEW cnt \in Counter, Knows(cnt, S, what, 2), (cnt >= 2) /= outcome
  PROVE  Excuses(S, what, outcome)
<1>1. PICK d \in S : After(S, d) = {}
  BY LatestOf
<1> SUFFICES ASSUME what[d] = outcome
             PROVE  \E c \in S : /\ c < d /\ what[c] /= what[d]
                                /\ After({j \in S : j < d}, c) = {}
  BY <1>1 DEF Excuses
<1>2. what[d] \in BOOLEAN
  OBVIOUS
<1>3. S /= {d}
  BY <1>1, <1>2 DEF Knows
<1>4. \A j \in S : j \in Nat /\ ~(j > d) /\ d \in Nat
  BY <1>1 DEF After
<1>5. PICK T : T = {j \in S : j < d}
  OBVIOUS
<1>6. T /= {} /\ T \in SUBSET (1 .. n)
  <2>1. PICK j \in S : j /= d
    BY <1>3
  <2>2. j < d
    BY <2>1, <1>4
  <2> QED BY <2>2, <1>5
<1>7. PICK c \in T : After(T, c) = {}
  BY <1>6, LatestOf
<1>8. c \in S /\ c < d /\ d \in After(S, c)
  BY <1>4, <1>5, <1>7 DEF After
<1>9. After(S, c) = {d}
  <2>1. ASSUME NEW j \in After(S, c) PROVE j = d
    <3>1. j \in S /\ j > c
      BY <2>1 DEF After
    <3>2. j \notin T
      BY <3>1, <1>7 DEF After
    <3> QED BY <3>1, <3>2, <1>4, <1>5
  <2> QED BY <2>1, <1>8
<1>10. what[c] /= what[d]
  <2> SUFFICES ASSUME what[c] = what[d] PROVE FALSE
    OBVIOUS
  <2>1. IF what[d] THEN cnt >= 2 ELSE cnt <= 1
    BY <1>8, <1>9 DEF Knows
  <2> QED BY <2>1, <1>2 DEF Counter
<1> QED BY <1>5, <1>7, <1>8, <1>10

(* What is earlier than a branch stays so.                                 *)
LEMMA EarlierGrows ==
  ASSUME NEW n \in Nat, NEW e, Grows(n, e)
  PROVE  /\ \A k \in 1 .. n : Earlier(k)' = Earlier(k) /\ Earlier(k) \in SUBSET (1 .. n)
         /\ Earlier(n + 1)' = {j \in 1 .. n : Entry(j) = Entry(n + 1)'}
<1>1. \A k \in 1 .. n : Earlier(k) = {j \in 1 .. n : Entry(j) = Entry(k) /\ j < k}
  BY TraceGrows DEF Earlier, Told
<1>2. \A k \in 1 .. n + 1 : Earlier(k)' = {j \in 1 .. n + 1 : Entry(j)' = Entry(k)' /\ j < k}
  <2>1. DOMAIN trace' = 1 .. n + 1
    BY TraceGrows
  <2> QED BY <2>1 DEF Earlier, Told
<1>3. ASSUME NEW k \in 1 .. n
      PROVE  Earlier(k)' = Earlier(k) /\ Earlier(k) \in SUBSET (1 .. n)
  <2>1. Earlier(k)' = {j \in 1 .. n + 1 : Entry(j)' = Entry(k)' /\ j < k}
    BY <1>2
  <2>2. Earlier(k) = {j \in 1 .. n : Entry(j) = Entry(k) /\ j < k}
    BY <1>1
  <2>3. \A j \in 1 .. n + 1 : j < k => j \in 1 .. n
    OBVIOUS
  <2>4. \A j \in 1 .. n : Entry(j)' = Entry(j) /\ j \in 1 .. n + 1
    BY TraceGrows
  <2>5. Entry(k)' = Entry(k)
    BY TraceGrows
  <2> QED BY <2>1, <2>2, <2>3, <2>4, <2>5
<1>4. Earlier(n + 1)' = {j \in 1 .. n : Entry(j) = Entry(n + 1)'}
  <2>1. Earlier(n + 1)' = {j \in 1 .. n + 1 : Entry(j)' = Entry(n + 1)' /\ j < n + 1}
    BY <1>2
  <2>2. \A j \in 1 .. n + 1 : j < n + 1 <=> j \in 1 .. n
    OBVIOUS
  <2>3. \A j \in 1 .. n : Entry(j)' = Entry(j) /\ j \in 1 .. n + 1
    BY TraceGrows
  <2> QED BY <2>1, <2>2, <2>3
<1> QED BY <1>3, <1>4

(* So does what a branch was, and here is what makes it so.                *)
LEMMA PlacesGrow ==
  ASSUME NEW n \in Nat, NEW e, Grows(n, e)
  PROVE  /\ \A k \in 1 .. n : /\ k \in Firsts => k \in Firsts'
                              /\ k \in Changes => k \in Changes'
                              /\ k \in Seconds => k \in Seconds'
         /\ Earlier(n + 1)' = {} => n + 1 \in Firsts'
         /\ \A j \in Earlier(n + 1)' : After(Earlier(n + 1)', j) = {} =>
              /\ Outcome[j] /= e.outcome => n + 1 \in Changes'
              /\ j \in Changes => n + 1 \in Seconds'
         /\ Firsts \cup Changes \cup Seconds \subseteq 1 .. n
<1>1. DOMAIN trace = 1 .. n /\ DOMAIN trace' = 1 .. n + 1 /\ n + 1 \in 1 .. n + 1
  BY TraceGrows
<1>2. \A k \in 1 .. n : k \in 1 .. n + 1
  OBVIOUS
<1>3. \A k \in 1 .. n : Earlier(k)' = Earlier(k) /\ Earlier(k) \in SUBSET (1 .. n)
  BY EarlierGrows
<1>4. \A k \in 1 .. n : Outcome'[k] = Outcome[k]
  BY HistoriesGrow
<1>5. \A k \in 1 .. n + 1 :
        k \in Changes' <=> \E j \in Earlier(k)' :
                             After(Earlier(k)', j) = {} /\ Outcome'[j] /= Outcome'[k]
  BY <1>1 DEF Changes, After
<1>6. \A k \in 1 .. n : k \in Changes => k \in Changes'
  <2> SUFFICES ASSUME NEW k \in 1 .. n, k \in Changes PROVE k \in Changes'
    OBVIOUS
  <2>1. PICK j \in Earlier(k) : After(Earlier(k), j) = {} /\ Outcome[j] /= Outcome[k]
    BY DEF Changes
  <2>2. j \in Earlier(k)' /\ After(Earlier(k)', j) = {} /\ Outcome'[j] /= Outcome'[k]
    BY <2>1, <1>3, <1>4 DEF After
  <2> QED BY <2>2, <1>2, <1>5
<1>7. \A k \in 1 .. n + 1 :
        k \in Seconds' <=> \E j \in Earlier(k)' : After(Earlier(k)', j) = {} /\ j \in Changes'
  BY <1>1 DEF Seconds, After
<1>8. \A k \in 1 .. n : k \in Seconds => k \in Seconds'
  <2> SUFFICES ASSUME NEW k \in 1 .. n, k \in Seconds PROVE k \in Seconds'
    OBVIOUS
  <2>1. PICK j \in Earlier(k) : After(Earlier(k), j) = {} /\ j \in Changes
    BY DEF Seconds
  <2>2. j \in 1 .. n /\ j \in Earlier(k)' /\ After(Earlier(k)', j) = {}
    BY <2>1, <1>3 DEF After
  <2> QED BY <2>1, <2>2, <1>2, <1>6, <1>7
<1>9. \A k \in 1 .. n + 1 : k \in Firsts' <=> Earlier(k)' = {}
  BY <1>1 DEF Firsts
<1>10. \A k \in 1 .. n : k \in Firsts => k \in Firsts'
  <2> SUFFICES ASSUME NEW k \in 1 .. n, k \in Firsts PROVE k \in Firsts'
    OBVIOUS
  <2>1. Earlier(k) = {}
    BY DEF Firsts
  <2> QED BY <2>1, <1>2, <1>3, <1>9
<1>11. Earlier(n + 1)' = {} => n + 1 \in Firsts'
  BY <1>1, <1>9
<1>12. ASSUME NEW j \in Earlier(n + 1)', After(Earlier(n + 1)', j) = {}
       PROVE  /\ Outcome[j] /= e.outcome => n + 1 \in Changes'
              /\ j \in Changes => n + 1 \in Seconds'
  <2>1. j \in 1 .. n
    BY <1>12, EarlierGrows
  <2>2. Outcome'[j] = Outcome[j] /\ Outcome'[n + 1] = e.outcome
    BY <2>1, HistoriesGrow
  <2>3. Outcome[j] /= e.outcome => n + 1 \in Changes'
    BY <2>2, <1>1, <1>5, <1>12
  <2>4. j \in Changes => n + 1 \in Seconds'
    BY <2>1, <1>1, <1>6, <1>7, <1>12
  <2> QED BY <2>3, <2>4
<1>13. Firsts \cup Changes \cup Seconds \subseteq 1 .. n
  BY <1>1 DEF Firsts, Changes, Seconds
<1> QED BY <1>6, <1>8, <1>10, <1>11, <1>12, <1>13

(* The counter that answered a mistaken branch knew, so the mistake is     *)
(* placed.                                                                 *)
LEMMA MistakePlaced ==
  ASSUME PredTypeOK, CountersKnow, NEW n \in Nat, n = Len(trace),
         NEW e, Happens(e), Answer(e) /= e.outcome
  PROVE  n + 1 \in Firsts' \cup Changes' \cup Seconds'
<1>1. Grows(n, e) /\ params' = params /\ e \in Event
  BY DEF Happens, Grows
<1>2. PICK what : what = Outcome
  OBVIOUS
<1>3. what \in [1 .. n -> BOOLEAN]
  BY <1>1, <1>2, HistoriesGrow
<1>4. PICK x : x = Entry(n + 1)'
  OBVIOUS
<1>5. PICK S : S = Earlier(n + 1)'
  OBVIOUS
<1>6. S = {j \in 1 .. n : Entry(j) = x} /\ S = Told(x)
  BY <1>1, <1>4, <1>5, EarlierGrows, TraceGrows DEF Told
<1>7. x = IF e.used = "bio" THEN <<"bio", gen_idx(e.addr, params.M2)>>
                            ELSE <<"gsh", e.idx_gsh>>
  <2>1. trace'[n + 1] = e
    BY <1>1, TraceGrows
  <2>2. Entry(n + 1)' = IF trace'[n + 1].used = "bio"
                        THEN <<"bio", gen_idx(trace'[n + 1].addr, params'.M2)>>
                        ELSE <<"gsh", trace'[n + 1].idx_gsh>>
    BY DEF Entry, gen_idx
  <2> QED BY <2>1, <2>2, <1>1, <1>4
<1>8. PICK cnt \in Counter : Knows(cnt, S, what, 2) /\ (cnt >= 2) = Answer(e)
  <2>1. e.used \in {"bio", "gsh"} /\ e.addr \in Addr
    BY <1>1 DEF Event
  <2>2. CASE e.used = "bio"
    <3>1. PICK i : i = gen_idx(e.addr, params.M2)
      OBVIOUS
    <3>2. i \in Index(params.M2)
      BY <2>1, <3>1, IndicesAre
    <3>3. bio[i] \in Counter /\ Knows(bio[i], Told(<<"bio", i>>), what, 2)
      BY <3>2, <1>2 DEF CountersKnow, PredTypeOK
    <3>4. (bio[i] >= 2) = Answer(e)
      BY <2>2, <3>1 DEF Happens, Answer
    <3> QED BY <2>2, <3>1, <3>3, <3>4, <1>6, <1>7
  <2>3. CASE e.used = "gsh"
    <3>1. PICK i : i = e.idx_gsh
      OBVIOUS
    <3>2. i \in Index(params.M1)
      BY <2>1, <3>1, IndicesAre DEF Happens
    <3>3. gsh[i] \in Counter /\ Knows(gsh[i], Told(<<"gsh", i>>), what, 2)
      BY <3>2, <1>2 DEF CountersKnow, PredTypeOK
    <3>4. (gsh[i] >= 2) = Answer(e)
      BY <2>3, <3>1 DEF Happens, Answer
    <3> QED BY <2>3, <3>1, <3>3, <3>4, <1>6, <1>7
  <2> QED BY <2>1, <2>2, <2>3
<1>9. CASE S = {}
  BY <1>1, <1>5, <1>9, PlacesGrow
<1>10. CASE S /= {}
  <2>1. S \in SUBSET (1 .. n) /\ e.outcome \in BOOLEAN
    BY <1>1, <1>6 DEF Event
  <2>2. PICK d \in S : /\ After(S, d) = {}
                      /\ \/ what[d] /= e.outcome
                         \/ \E c \in S : /\ c < d /\ what[c] /= what[d]
                                        /\ After({j \in S : j < d}, c) = {}
    <3>1. PICK out : out = e.outcome
      OBVIOUS
    <3>2. out \in BOOLEAN /\ (cnt >= 2) /= out
      BY <2>1, <3>1, <1>8
    <3>3. Excuses(S, what, out)
      BY <1>3, <1>8, <1>10, <2>1, <3>2, LastTwo
    <3> QED BY <3>1, <3>3 DEF Excuses
  <2>3. After(Earlier(n + 1)', d) = {} /\ d \in Earlier(n + 1)'
    BY <2>2, <1>5
  <2>4. CASE what[d] /= e.outcome
    BY <2>3, <2>4, <1>1, <1>2, PlacesGrow
  <2>5. CASE \E c \in S : /\ c < d /\ what[c] /= what[d]
                         /\ After({j \in S : j < d}, c) = {}
    <3>1. PICK c \in S : /\ c < d /\ what[c] /= what[d]
                        /\ After({j \in S : j < d}, c) = {}
      BY <2>5
    <3>2. Entry(d) = x /\ d \in 1 .. n
      BY <1>6
    <3>3. Earlier(d) = {j \in S : j < d}
      BY <3>2, <1>6 DEF Earlier
    <3>4. d \in Changes
      BY <3>1, <3>2, <3>3, <1>1, <1>2, TraceGrows DEF Changes
    <3> QED BY <2>3, <3>4, <1>1, PlacesGrow
  <2> QED BY <2>2, <2>4, <2>5
<1> QED BY <1>9, <1>10

(* The mistakes are counted, and placed.                                   *)
LEMMA MistakesKept ==
  ASSUME PredTypeOK, CountersKnow, MistakesPlaced, NEW e, Happens(e)
  PROVE  MistakesPlaced'
<1>0. PICK n : n = Len(trace)
  OBVIOUS
<1>1. n \in Nat /\ Grows(n, e) /\ params' = params /\ e \in Event
  BY <1>0 DEF Happens, Grows
<1>2. cnt_pred' = Len(trace')
  <2>1. Len(trace') = n + 1
    BY <1>1, TraceGrows
  <2> QED BY <2>1, <1>0 DEF MistakesPlaced, Happens
<1>3. PICK M : M = Mistaken
  OBVIOUS
<1>4. M = {k \in 1 .. n : Answer(trace[k]) /= trace[k].outcome}
  BY <1>1, <1>3, TraceGrows DEF Mistaken
<1>5. Mistaken' = {k \in 1 .. n + 1 : Answer(trace'[k]) /= trace'[k].outcome}
  <2>1. DOMAIN trace' = 1 .. n + 1
    BY <1>1, TraceGrows
  <2> QED BY <2>1 DEF Mistaken, Answer
<1>6. /\ \A k \in 1 .. n : k \in Mistaken' <=> k \in M
      /\ n + 1 \in Mistaken' <=> Answer(e) /= e.outcome
      /\ Mistaken' \subseteq 1 .. n + 1 /\ M \subseteq 1 .. n
  <2>1. trace'[n + 1] = e /\ \A k \in 1 .. n : trace'[k] = trace[k]
    BY <1>1, TraceGrows
  <2>2. n + 1 \in 1 .. n + 1 /\ \A k \in 1 .. n : k \in 1 .. n + 1
    BY <1>1
  <2> QED BY <2>1, <2>2, <1>4, <1>5
<1>7. \A k \in 1 .. n + 1 : k \in 1 .. n \/ k = n + 1
  BY <1>1
<1>8. IsFiniteSet(M) /\ Cardinality(M) \in Nat /\ n + 1 \notin M
  <2>1. IsFiniteSet(1 .. n)
    BY <1>1, FS_Interval
  <2>2. IsFiniteSet(M)
    BY <2>1, <1>6, FS_Subset
  <2>3. n + 1 \notin 1 .. n
    BY <1>1
  <2> QED BY <2>2, <2>3, <1>6, FS_CardinalityType
<1>9. cnt_mispred = Cardinality(M)
  BY <1>3 DEF MistakesPlaced
<1>10. CASE Answer(e) = e.outcome
  <2>1. Mistaken' = M
    BY <1>6, <1>7, <1>10
  <2>2. cnt_mispred' = cnt_mispred
    BY <1>8, <1>9, <1>10 DEF Happens, Mispredicted
  <2>3. cnt_mispred' = Cardinality(Mistaken')
    BY <2>1, <2>2, <1>9
  <2>4. Mistaken' \subseteq Firsts' \cup Changes' \cup Seconds'
    <3>1. M \subseteq Firsts \cup Changes \cup Seconds
      BY <1>3 DEF MistakesPlaced
    <3> QED BY <2>1, <3>1, <1>1, <1>6, PlacesGrow
  <2> QED BY <1>2, <2>3, <2>4 DEF MistakesPlaced
<1>11. CASE Answer(e) /= e.outcome
  <2>1. Mistaken' = M \cup {n + 1}
    BY <1>6, <1>7, <1>11
  <2>2. cnt_mispred' = cnt_mispred + 1
    BY <1>11 DEF Happens, Mispredicted
  <2>3. Cardinality(M \cup {n + 1}) = Cardinality(M) + 1
    BY <1>8, FS_AddElement
  <2>4. cnt_mispred' = Cardinality(Mistaken')
    BY <2>1, <2>2, <2>3, <1>9
  <2>5. n + 1 \in Firsts' \cup Changes' \cup Seconds'
    BY <1>0, <1>1, <1>11, MistakePlaced
  <2>6. Mistaken' \subseteq Firsts' \cup Changes' \cup Seconds'
    <3>1. M \subseteq Firsts \cup Changes \cup Seconds
      BY <1>3 DEF MistakesPlaced
    <3>2. M \subseteq Firsts' \cup Changes' \cup Seconds'
      BY <3>1, <1>1, <1>6, PlacesGrow
    <3> QED BY <2>1, <2>5, <3>2
  <2> QED BY <1>2, <2>4, <2>6 DEF MistakesPlaced
<1> QED BY <1>10, <1>11

(* No two branches come second after the same change.                      *)
LEMMA SecondsAreFew ==
  ASSUME NEW n \in Nat, n = Len(trace), trace \in Seq(Event)
  PROVE  /\ IsFiniteSet(Firsts) /\ IsFiniteSet(Changes) /\ IsFiniteSet(Seconds)
         /\ Cardinality(Seconds) <= Cardinality(Changes)
<1>1. DOMAIN trace = 1 .. n
  OBVIOUS
<1>2. Firsts \subseteq 1 .. n /\ Changes \subseteq 1 .. n /\ Seconds \subseteq 1 .. n
  BY <1>1 DEF Firsts, Changes, Seconds
<1>3. IsFiniteSet(Firsts) /\ IsFiniteSet(Changes) /\ IsFiniteSet(Seconds)
  <2>1. IsFiniteSet(1 .. n)
    BY FS_Interval
  <2> QED BY <2>1, <1>2, FS_Subset
<1> DEFINE Just(k, j) == j \in Earlier(k) /\ After(Earlier(k), j) = {} /\ j \in Changes
           last == [k \in Seconds |-> CHOOSE j \in Changes : Just(k, j)]
<1>4. \A k \in Seconds : \E j \in Changes : Just(k, j)
  BY DEF Seconds
<1>5. ASSUME NEW k \in Seconds PROVE last[k] \in Changes /\ Just(k, last[k])
  <2> HIDE DEF Just
  <2> QED BY <1>4
<1>6. ASSUME NEW k \in 1 .. n, NEW l \in 1 .. n, NEW j, Just(k, j), Just(l, j), k < l
      PROVE  FALSE
  <2>1. Entry(j) = Entry(k) /\ Entry(j) = Entry(l) /\ j < k /\ j \in 1 .. n
    BY <1>1, <1>6 DEF Earlier, Told
  <2>2. k \in Earlier(l)
    BY <1>1, <1>6, <2>1 DEF Earlier, Told
  <2>3. k \in After(Earlier(l), j)
    BY <2>1, <2>2 DEF After
  <2> QED BY <2>3, <1>6
<1> HIDE DEF Just
<1>7. \A k, l \in Seconds : last[k] = last[l] => k = l
  <2> SUFFICES ASSUME NEW k \in Seconds, NEW l \in Seconds, last[k] = last[l], k /= l
               PROVE FALSE
    OBVIOUS
  <2>1. Just(k, last[k]) /\ Just(l, last[k])
    BY <1>5
  <2>2. k \in 1 .. n /\ l \in 1 .. n /\ (k < l \/ l < k)
    BY <1>2
  <2> QED BY <2>1, <2>2, <1>6
<1>8. last \in Injection(Seconds, Changes)
  <2>1. last \in [Seconds -> Changes]
    BY <1>5
  <2> HIDE DEF last
  <2> QED BY <1>7, <2>1 DEF Injection, IsInjective
<1> QED BY <1>3, <1>8, FS_Injection

(* The mistakes are among three sets of branches, two of them no larger    *)
(* than Changes.                                                           *)
LEMMA MistakesAreBounded ==
  ASSUME PredInv
  PROVE  MistakesBounded
<1>1. PICK n : n = Len(trace)
  OBVIOUS
<1>2. n \in Nat /\ trace \in Seq(Event)
  BY <1>1 DEF PredInv
<1>3. /\ IsFiniteSet(Firsts) /\ IsFiniteSet(Changes) /\ IsFiniteSet(Seconds)
      /\ Cardinality(Seconds) <= Cardinality(Changes)
  BY <1>1, <1>2, SecondsAreFew
<1>4. /\ Cardinality(Firsts) \in Nat /\ Cardinality(Changes) \in Nat
      /\ Cardinality(Seconds) \in Nat
  BY <1>3, FS_CardinalityType
<1>5. /\ IsFiniteSet(Firsts \cup Changes)
      /\ Cardinality(Firsts \cup Changes) <= Cardinality(Firsts) + Cardinality(Changes)
  <2>1. IsFiniteSet(Firsts \cup Changes) /\ IsFiniteSet(Firsts \cap Changes)
    BY <1>3, FS_Union, FS_Subset
  <2>2. Cardinality(Firsts \cap Changes) \in Nat
    BY <2>1, FS_CardinalityType
  <2>3. Cardinality(Firsts \cup Changes) =
          Cardinality(Firsts) + Cardinality(Changes) - Cardinality(Firsts \cap Changes)
    BY <1>3, FS_Union
  <2> QED BY <1>4, <2>1, <2>2, <2>3
<1>6. PICK A : A = Firsts \cup Changes
  OBVIOUS
<1>7. /\ IsFiniteSet(A \cup Seconds)
      /\ Cardinality(A \cup Seconds) <= Cardinality(A) + Cardinality(Seconds)
  <2>1. IsFiniteSet(A \cup Seconds) /\ IsFiniteSet(A \cap Seconds)
    BY <1>3, <1>5, <1>6, FS_Union, FS_Subset
  <2>2. Cardinality(A \cap Seconds) \in Nat /\ Cardinality(A) \in Nat
    BY <2>1, <1>5, <1>6, FS_CardinalityType
  <2>3. Cardinality(A \cup Seconds) =
          Cardinality(A) + Cardinality(Seconds) - Cardinality(A \cap Seconds)
    BY <1>3, <1>5, <1>6, FS_Union
  <2> QED BY <1>4, <2>1, <2>2, <2>3
<1>8. Mistaken \in SUBSET (A \cup Seconds)
  BY <1>6 DEF PredInv, MistakesPlaced
<1>9. Cardinality(Mistaken) <= Cardinality(A \cup Seconds) /\ IsFiniteSet(Mistaken)
  BY <1>7, <1>8, FS_Subset
<1>10. Cardinality(Mistaken) \in Nat /\ Cardinality(A \cup Seconds) \in Nat
       /\ Cardinality(A) \in Nat
  BY <1>5, <1>6, <1>7, <1>9, FS_CardinalityType
<1>11. Cardinality(Mistaken) <= Cardinality(Firsts) + 2 * Cardinality(Changes)
  BY <1>3, <1>4, <1>5, <1>6, <1>7, <1>9, <1>10
<1> QED BY <1>11 DEF PredInv, MistakesPlaced, MistakesBounded

(***************************************************************************)
(* The invariant.                                                          *)
(***************************************************************************)
LEMMA PredInvInit ==
  ASSUME Init
  PROVE  PredInv
<1>1. trace = <<>> /\ DOMAIN trace = {} /\ Len(trace) = 0 /\ trace \in Seq(Event)
  BY DEF Init
<1>2. params \in Params
  BY DEF Init
<1>3. PredTypeOK
  BY <1>1, <1>2, PredictorAssumption
  DEF Init, NewCounts, NewBimodal, NewGshare, NewHybrid, PredTypeOK, Table, Counter
<1>4. HistoryExact
  <2> SUFFICES ASSUME params.N > 0
               PROVE  gbh = {b \in 0 .. params.N - 1 :
                        /\ params.N - b <= Len(trace)
                        /\ trace[Len(trace) + 1 - (params.N - b)].outcome}
    BY DEF HistoryExact
  <2>1. \A b \in 0 .. params.N - 1 : ~(params.N - b <= 0)
    BY <1>3, ParamsAre
  <2>2. gbh = {}
    BY DEF Init, NewHybrid, NewGshare
  <2> QED BY <2>1, <2>2, <1>1
<1>5. IndexExact
  BY <1>1 DEF IndexExact
<1>6. \A x, i : Told(x) = {} /\ Contests(i) = {}
  BY <1>1 DEF Told, Contests
<1>7. CountersKnow /\ ChooserKnows
  BY <1>6 DEF CountersKnow, ChooserKnows, Knows, Init, NewBimodal, NewGshare,
              NewHybrid, Table
<1>8. MistakesPlaced
  <2>1. Mistaken = {}
    BY <1>1 DEF Mistaken
  <2>2. Cardinality({}) = 0
    BY FS_EmptySet
  <2> QED BY <2>1, <2>2, <1>1 DEF MistakesPlaced, Init, NewCounts
<1> QED BY <1>1, <1>3, <1>4, <1>5, <1>7, <1>8 DEF PredInv

(* Every step keeps the invariant.                                         *)
LEMMA PredInvNext ==
  ASSUME PredInv, [Next]_vars
  PROVE  PredInv'
<1>1. CASE Next
  <2>1. PICK addr \in Addr, outcome \in BOOLEAN :
          /\ Len(trace) < MaxTrace
          /\ Bimodal(addr, outcome) \/ Gshare(addr, outcome) \/ Hybrid(addr, outcome)
          /\ Recorded(addr, outcome)
          /\ UNCHANGED params
    BY <1>1 DEF Next
  <2>2. PICK e : Happens(e)
    BY <2>1, SomethingHappens DEF PredInv
  <2> QED BY <2>2, TypesKept, HistoryKept, IndexKept, CountersKept, ChooserKept, MistakesKept
          DEF PredInv
<1>2. CASE UNCHANGED vars
  <2>1. /\ PredTypeOK' /\ (trace \in Seq(Event))'
        /\ HistoryExact' /\ IndexExact'
    BY <1>2 DEF PredInv, vars, PredTypeOK, HistoryExact, IndexExact, Index
  <2>2. CountersKnow' /\ ChooserKnows'
    BY <1>2 DEF PredInv, vars, CountersKnow, ChooserKnows, Index, Told, Entry, gen_idx,
                Contests, Outcome, GshareWon
  <2>3. MistakesPlaced'
    <3>1. params' = params /\ trace' = trace /\ cnt_pred' = cnt_pred
          /\ cnt_mispred' = cnt_mispred
      BY <1>2 DEF vars
    <3>2. Mistaken' = Mistaken /\ Outcome' = Outcome
      BY <3>1 DEF Mistaken, Answer, Outcome
    <3>3. \A k : Entry(k)' = Entry(k)
      BY <3>1 DEF Entry, gen_idx
    <3>4. \A k : Earlier(k)' = Earlier(k)
      BY <3>1, <3>3 DEF Earlier, Told
    <3>5. Firsts' = Firsts
      BY <3>1, <3>4 DEF Firsts
    <3>6. Changes' = Changes
      BY <3>1, <3>2, <3>4 DEF Changes, After
    <3>7. Seconds' = Seconds
      BY <3>1, <3>4, <3>6 DEF Seconds, After
    <3> QED BY <3>1, <3>2, <3>5, <3>6, <3>7 DEF PredInv, MistakesPlaced
  <2> QED BY <2>1, <2>2, <2>3 DEF PredInv
<1> QED BY <1>1, <1>2

(* PredInv holds of every state: whatever the trace, the sizes of the      *)
(* tables and the length of the history.                                   *)
THEOREM PredictorInductive == Spec => []PredInv
<1> QED BY PredInvInit, PredInvNext, PTL DEF Spec

(* The counters stay two bits wide, so that update_pt never exits, and the *)
(* tables keep their sizes.                                                *)
THEOREM PredictorTypes == Spec => []PredTypeOK
<1>1. PredInv => PredTypeOK
  BY DEF PredInv
<1> QED BY <1>1, PredictorInductive, PTL

(* gen_idx of gshare stays in the table, and each of its bits is that of   *)
(* the address flipped by the outcome of the right branch before.          *)
THEOREM PredictorIndex == Spec => []IndexExact
<1>1. PredInv => IndexExact
  BY DEF PredInv
<1> QED BY <1>1, PredictorInductive, PTL

(* Each entry of the two prediction tables learns from its own branches.   *)
THEOREM PredictorCounters == Spec => []CountersLearn
<1>1. ASSUME PredInv PROVE CountersLearn
  <2>1. PICK n \in Nat : n = Len(trace) /\ DOMAIN trace = 1 .. n /\ trace \in Seq(Event)
    BY <1>1 DEF PredInv
  <2>2. \A k \in 1 .. n : Outcome[k] \in BOOLEAN
    <3>1. \A k \in 1 .. n : trace[k] \in Event
      BY <2>1
    <3> QED BY <2>1, <3>1 DEF Outcome, Event
  <2>3. \A x : \A k \in Told(x) : Outcome[k] \in BOOLEAN
    BY <2>1, <2>2 DEF Told
  <2>4. DOMAIN bio = Index(params.M2) /\ DOMAIN gsh = Index(params.M1)
    BY <1>1 DEF PredInv, PredTypeOK
  <2>5. ASSUME NEW i \in Index(params.M2)
        PROVE  Learns(predict_pt(bio, i), Told(<<"bio", i>>), Outcome, TRUE)
    <3>1. bio[i] \in Counter /\ Knows(bio[i], Told(<<"bio", i>>), Outcome, 2)
      BY <1>1 DEF PredInv, PredTypeOK, CountersKnow
    <3>2. Learns(bio[i] >= 2, Told(<<"bio", i>>), Outcome, 2 = 2)
      BY <2>3, <3>1, KnowsLearns
    <3> QED BY <3>2 DEF predict_pt
  <2>6. ASSUME NEW i \in Index(params.M1)
        PROVE  Learns(predict_pt(gsh, i), Told(<<"gsh", i>>), Outcome, TRUE)
    <3>1. gsh[i] \in Counter /\ Knows(gsh[i], Told(<<"gsh", i>>), Outcome, 2)
      BY <1>1 DEF PredInv, PredTypeOK, CountersKnow
    <3>2. Learns(gsh[i] >= 2, Told(<<"gsh", i>>), Outcome, 2 = 2)
      BY <2>3, <3>1, KnowsLearns
    <3> QED BY <3>2 DEF predict_pt
  <2> QED BY <2>4, <2>5, <2>6 DEF CountersLearn
<1> QED BY <1>1, PredictorInductive, PTL

(* The chooser learns from the contests between the predictors.            *)
THEOREM PredictorChooser == Spec => []ChooserLearns
<1>1. ASSUME PredInv PROVE ChooserLearns
  <2> SUFFICES ASSUME params.bp_name = "hybrid", NEW i \in DOMAIN ct
               PROVE  Learns(predict_pt(ct, i), Contests(i), GshareWon, FALSE)
    BY DEF ChooserLearns
  <2>1. i \in Index(params.K) /\ ct[i] \in Counter
    BY <1>1 DEF PredInv, PredTypeOK
  <2>2. Knows(ct[i], Contests(i), GshareWon, 1)
    BY <1>1, <2>1 DEF PredInv, ChooserKnows
  <2>3. \A k \in Contests(i) : GshareWon[k] \in BOOLEAN
    BY DEF Contests, GshareWon
  <2>4. Learns(ct[i] >= 2, Contests(i), GshareWon, 1 = 2)
    BY <2>1, <2>2, <2>3, KnowsLearns
  <2>5. (1 = 2) = FALSE
    OBVIOUS
  <2> QED BY <2>4, <2>5 DEF predict_pt
<1> QED BY <1>1, PredictorInductive, PTL

(* The mispredictions reported are no more than two for every change and   *)
(* one for every first outcome of an entry.                                *)
THEOREM PredictorMistakes == Spec => []MistakesBounded
<1> QED BY MistakesAreBounded, PredictorInductive, PTL
=============================================================================
