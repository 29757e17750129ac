------------------------- MODULE TraceReaderProofs -------------------------
(***************************************************************************)
(* What TraceReader says of the three readers, for bundles of every width  *)
(* and files of every length.                                              *)
(***************************************************************************)
EXTENDS TraceReader, TLAPS

(***************************************************************************)
(* The inductive invariant.                                                *)
(***************************************************************************)
ReaderTypeOK ==
  /\ sim \in {"sim_cache", "sim_bp", "sim_proc"}
  /\ file \in Seq(Token) /\ pos \in 1 .. Len(file) + 1
  /\ field \in [Fields -> 0 .. Len(file)] /\ given \in Seq([Fields -> 0 .. Len(file)])
  /\ at \in {"fscanf", "cycles", "end"}
  /\ bundle \in [Slot -> Nat \cup {None}] /\ k \in Slot /\ last \in BOOLEAN

(* The file is at its end where the loop is, and wherever the last slot    *)
(* was an empty one.                                                       *)
EndSeen == at = "end" \/ last => EndOfFile

(* Where the reader is in a file that starts with lines: at the start of   *)
(* the next, with the fields of the one before.                            *)
Between(g) ==
  /\ pos = g * NField + 1
  /\ g > 0 => field = Own(g)

Cut(n, r) == [f \in Fields |-> IF f <= r THEN Own(n + 1)[f] ELSE Own(n)[f]]

InLines ==
  \A n \in 1 .. Len(file) : Lines(n) =>
    /\ \A j \in 1 .. Len(given) : j <= n => given[j] = Own(j)
    /\ Len(given) < n => Between(Len(given))
    /\ \A r \in 0 .. NField - 1 : CutShort(n, r) =>
         /\ Len(given) = n => Between(n)
         /\ Len(given) > n =>
              r > 0 /\ Len(given) = n + 1 /\ EndOfFile /\ given[n + 1] = Cut(n, r)

(* sim_cache: the letters below pos are served, and no others.             *)
Served ==
  sim = "sim_cache" =>
    /\ {given[n][1] : n \in DOMAIN given} = {p \in DOMAIN file : file[p] = "op" /\ p < pos}
    /\ \A n \in 2 .. Len(given) : given[n - 1][1] < given[n][1]
    /\ \A n \in DOMAIN given :
         LET p == given[n][1] + 1 IN
         p \in DOMAIN file /\ file[p] = "num" => given[n][2] = p

(* sim_proc: the slots below k hold the last instructions, then nothing.   *)
Filling(n) ==
  /\ n <= Len(given)
  /\ \A s \in 0 .. k - 1 : bundle[s] = IF s < n THEN Len(given) - n + s ELSE None
  /\ k > 0 => last = (n < k)
  /\ n < k => EndOfFile

BundleFilled ==
  /\ at = "fscanf" => \E n \in 0 .. k : Filling(n)
  /\ at /= "fscanf" \/ sim /= "sim_proc" => k = 0
  /\ at = "cycles" => sim = "sim_proc"

(* Below pos every token is in a place where it can be read.               *)
ReadSoFar ==
  /\ \A p \in DOMAIN file : p < pos /\ file[p] = "op" =>
       sim = "sim_cache" \/ (sim = "sim_bp" /\ p % 2 = 0)
  /\ sim = "sim_bp" => EndOfFile \/ pos % 2 = 1

ReaderInv ==
  /\ ReaderTypeOK /\ EndSeen /\ InLines /\ Served
  /\ BundleFilled /\ BundlesExact /\ ReadSoFar

(***************************************************************************)
(* fscanf.                                                                 *)
(***************************************************************************)
(* The three formats.                                                      *)
LEMMA FormatIs ==
  /\ DOMAIN Format = {"sim_cache", "sim_bp", "sim_proc"}
  /\ sim = "sim_cache" => /\ Fields = 1 .. 2 /\ NField = 2 /\ Letter = 1
                          /\ Format[sim][1] = "word" /\ Format[sim][2] = "num"
  /\ sim = "sim_bp" => /\ Fields = 1 .. 2 /\ NField = 2 /\ Letter = 2
                       /\ Format[sim][1] = "num" /\ Format[sim][2] = "word"
  /\ sim = "sim_proc" => /\ Fields = 1 .. 5 /\ NField = 5
                         /\ \A f \in 1 .. 5 : Format[sim][f] = "num"
<1>1. DOMAIN Format = {"sim_cache", "sim_bp", "sim_proc"}
  BY DEF Format
<1>2. ASSUME sim = "sim_cache"
      PROVE  /\ Fields = 1 .. 2 /\ NField = 2 /\ Letter = 1
             /\ Format[sim][1] = "word" /\ Format[sim][2] = "num"
  <2>1. Format[sim] = <<"word", "num">>
    BY <1>2 DEF Format
  <2>2. Fields = 1 .. 2 /\ NField = 2
    BY <2>1 DEF Fields, NField
  <2>3. \A f \in Fields : Format[sim][f] = "word" <=> f = 1
    BY <2>1, <2>2
  <2>4. Letter = 1
    BY <2>2, <2>3 DEF Letter
  <2> QED BY <2>1, <2>2, <2>4
<1>3. ASSUME sim = "sim_bp"
      PROVE  /\ Fields = 1 .. 2 /\ NField = 2 /\ Letter = 2
             /\ Format[sim][1] = "num" /\ Format[sim][2] = "word"
  <2>1. Format[sim] = <<"num", "word">>
    BY <1>3 DEF Format
  <2>2. Fields = 1 .. 2 /\ NField = 2
    BY <2>1 DEF Fields, NField
  <2>3. \A f \in Fields : Format[sim][f] = "word" <=> f = 2
    BY <2>1, <2>2
  <2>4. Letter = 2
    BY <2>2, <2>3 DEF Letter
  <2> QED BY <2>1, <2>2, <2>4
<1>4. ASSUME sim = "sim_proc"
      PROVE  Fields = 1 .. 5 /\ NField = 5 /\ \A f \in 1 .. 5 : Format[sim][f] = "num"
  <2>1. Format[sim] = <<"num", "num", "num", "num", "num">>
    BY <1>4 DEF Format
  <2> QED BY <2>1 DEF Fields, NField
<1> QED BY <1>1, <1>2, <1>3, <1>4

(* A format has two or five fields; the position is in the file or right   *)
(* behind it.                                                              *)
LEMMA SizesAre ==
  ASSUME ReaderTypeOK
  PROVE  /\ NField \in {2, 5} /\ Fields = 1 .. NField
         /\ Len(file) \in Nat /\ DOMAIN file = 1 .. Len(file)
         /\ pos \in Nat /\ pos \in 1 .. Len(file) + 1
         /\ EndOfFile <=> pos = Len(file) + 1
<1>1. NField \in {2, 5} /\ Fields = 1 .. NField
  BY FormatIs DEF ReaderTypeOK
<1>2. Len(file) \in Nat /\ DOMAIN file = 1 .. Len(file) /\ pos \in 1 .. Len(file) + 1
  BY DEF ReaderTypeOK
<1> QED BY <1>1, <1>2 DEF EndOfFile

(* fscanf converts what fits, and stops at the first field that does not.  *)
ConvertsTo(n) ==
  /\ n \in 0 .. NField
  /\ \A f \in 1 .. n : Fits(f, pos + f - 1)
  /\ n < NField => ~Fits(n + 1, pos + n)

(* The number of fields fscanf converts.                                   *)
LEMMA ConvertedIs ==
  ASSUME ReaderTypeOK
  PROVE  ConvertsTo(Converted)
<1>1. PICK N : N = NField
  OBVIOUS
<1>2. N \in {2, 5} /\ pos \in Nat
  BY <1>1, FormatIs DEF ReaderTypeOK
<1>3. PICK S : S = {n \in 0 .. N : \A f \in 1 .. n : Fits(f, pos + f - 1)}
  OBVIOUS
<1>4. 0 \in S /\ S \subseteq 0 .. N
  BY <1>2, <1>3
<1>5. \E m \in S : \A n \in S : m >= n
  <2>1. S \subseteq {0, 1, 2, 3, 4, 5}
    BY <1>2, <1>4
  <2>2. \A m, n \in {0, 1, 2, 3, 4, 5} : m >= n \/ n >= m
    OBVIOUS
  <2>3. CASE 5 \in S
    BY <2>1, <2>3
  <2>4. CASE 5 \notin S /\ 4 \in S
    BY <2>1, <2>4
  <2>5. CASE {4, 5} \cap S = {} /\ 3 \in S
    BY <2>1, <2>5
  <2>6. CASE {3, 4, 5} \cap S = {} /\ 2 \in S
    BY <2>1, <2>6
  <2>7. CASE {2, 3, 4, 5} \cap S = {} /\ 1 \in S
    BY <2>1, <2>7
  <2>8. CASE {1, 2, 3, 4, 5} \cap S = {}
    BY <2>1, <2>8, <1>4
  <2> QED BY <2>3, <2>4, <2>5, <2>6, <2>7, <2>8
<1>6. Converted = Max(S)
  BY <1>1, <1>3 DEF Converted
<1>7. Converted \in S /\ \A n \in S : Converted >= n
  BY <1>5, <1>6 DEF Max
<1>8. ASSUME Converted < N, Fits(Converted + 1, pos + Converted) PROVE FALSE
  <2>1. PICK n : n = Converted
    OBVIOUS
  <2>2. n \in 0 .. N /\ n + 1 \in 0 .. N
    BY <2>1, <1>2, <1>4, <1>7, <1>8
  <2>3. \A f \in 1 .. n : Fits(f, pos + f - 1)
    BY <2>1, <1>3, <1>7
  <2>4. \A f \in 1 .. n + 1 : Fits(f, pos + f - 1)
    <3> SUFFICES ASSUME NEW f \in 1 .. n + 1 PROVE Fits(f, pos + f - 1)
      OBVIOUS
    <3>1. CASE f \in 1 .. n
      BY <3>1, <2>3
    <3>2. CASE f = n + 1
      <4>1. pos + f - 1 = pos + n
        BY <3>2, <2>2, <1>2
      <4> QED BY <4>1, <3>2, <2>1, <1>8
    <3> QED BY <3>1, <3>2, <2>2
  <2>5. n + 1 \in S
    BY <2>2, <2>4, <1>3
  <2> QED BY <2>1, <2>2, <2>5, <1>7
<1> QED BY <1>1, <1>3, <1>7, <1>8 DEF ConvertsTo

(***************************************************************************)
(* A turn that finds something to read.                                    *)
(***************************************************************************)
(* Whether the turn hands on what it read.                                 *)
Hands(known) ==
  /\ given' = IF known THEN Append(given, field') ELSE given
  /\ sim = "sim_proc" => known
  /\ sim /= "sim_proc" => known \in IsOperation(field'[Letter])

Turn ==
  /\ ~EndOfFile /\ Scan /\ sim' = sim /\ file' = file
  /\ \E known \in BOOLEAN : Hands(known)

(* Where the turn leaves the position and the fields.                      *)
LEMMA TurnMoves ==
  ASSUME ReaderTypeOK, Turn
  PROVE  \E c \in 0 .. NField :
           /\ ConvertsTo(c) /\ pos' = pos + c
           /\ pos' \in 1 .. Len(file) + 1 /\ field' \in [Fields -> 0 .. Len(file)]
           /\ \A f \in Fields : field'[f] = IF f <= c THEN pos + f - 1 ELSE field[f]
<1>1. PICK c : c = Converted
  OBVIOUS
<1>2. ConvertsTo(c) /\ c \in 0 .. NField
  BY <1>1, ConvertedIs DEF ConvertsTo
<1>3. pos' = pos + c /\ field' = [f \in Fields |-> IF f <= c THEN pos + f - 1 ELSE field[f]]
  BY <1>1 DEF Turn, Scan
<1>4. pos \in 1 .. Len(file) + 1 /\ Len(file) \in Nat /\ DOMAIN file = 1 .. Len(file)
  BY DEF ReaderTypeOK
<1>5. NField \in {2, 5} /\ Fields = 1 .. NField
  BY SizesAre
<1>6. \A f \in 1 .. c : pos + f - 1 \in 1 .. Len(file)
  BY <1>2, <1>4 DEF ConvertsTo, Fits
<1>7. pos' \in 1 .. Len(file) + 1
  <2>1. CASE c = 0
    BY <2>1, <1>3, <1>4
  <2>2. CASE c > 0
    <3>1. pos + c - 1 \in 1 .. Len(file)
      BY <2>2, <1>2, <1>5, <1>6
    <3> QED BY <3>1, <1>2, <1>3, <1>4, <1>5
  <2> QED BY <2>1, <2>2, <1>2, <1>5
<1>8. field' \in [Fields -> 0 .. Len(file)]
  <2>1. \A f \in Fields : field[f] \in 0 .. Len(file)
    BY DEF ReaderTypeOK
  <2>2. \A f \in Fields : f <= c => pos + f - 1 \in 0 .. Len(file)
    <3> SUFFICES ASSUME NEW f \in Fields, f <= c PROVE pos + f - 1 \in 0 .. Len(file)
      OBVIOUS
    <3>1. f \in 1 .. c
      BY <1>2, <1>5
    <3> QED BY <3>1, <1>4, <1>6
  <2> QED BY <2>1, <2>2, <1>3
<1> QED BY <1>2, <1>3, <1>7, <1>8

(* A turn stays in the file, and hands on what was read from it.           *)
LEMMA TurnTypes ==
  ASSUME ReaderTypeOK, Turn
  PROVE  /\ pos' \in 1 .. Len(file) + 1 /\ field' \in [Fields -> 0 .. Len(file)]
         /\ given' \in Seq([Fields -> 0 .. Len(file)])
<1>1. pos' \in 1 .. Len(file) + 1 /\ field' \in [Fields -> 0 .. Len(file)]
  BY TurnMoves
<1>2. PICK known \in BOOLEAN : given' = IF known THEN Append(given, field') ELSE given
  BY DEF Turn, Hands
<1>3. given \in Seq([Fields -> 0 .. Len(file)])
  BY DEF ReaderTypeOK
<1>4. CASE known
  <2>1. Append(given, field') \in Seq([Fields -> 0 .. Len(file)])
    BY <1>1, <1>3
  <2> QED BY <1>1, <1>2, <1>4, <2>1
<1>5. CASE ~known
  BY <1>1, <1>2, <1>3, <1>5
<1> QED BY <1>4, <1>5

(***************************************************************************)
(* Lines.                                                                  *)
(***************************************************************************)
LEMMA LineFields ==
  ASSUME ReaderTypeOK, NEW n \in Nat, NEW g \in Nat, g < n, Lines(n), NEW f \in Fields
  PROVE  /\ g * NField + f \in DOMAIN file
         /\ (file[g * NField + f] = "op") = (Format[sim][f] = "word")
<1>1. PICK N : N = NField
  OBVIOUS
<1>2. N \in {2, 5} /\ Fields = 1 .. N /\ DOMAIN file = 1 .. Len(file) /\ Len(file) \in Nat
  BY <1>1, SizesAre
<1>3. PICK p : p = g * N + f
  OBVIOUS
<1>4. p \in 1 .. n * N /\ ((p - 1) % N) + 1 = f
  <2>1. CASE N = 2
    BY <2>1, <1>2, <1>3
  <2>2. CASE N = 5
    BY <2>2, <1>2, <1>3
  <2> QED BY <1>2, <2>1, <2>2
<1>5. n * N <= Len(file) /\ (file[p] = "op") = (Format[sim][f] = "word")
  BY <1>1, <1>4 DEF Lines
<1>6. p \in 1 .. Len(file)
  <2>1. CASE N = 2
    BY <2>1, <1>2, <1>4, <1>5
  <2>2. CASE N = 5
    BY <2>2, <1>2, <1>4, <1>5
  <2> QED BY <1>2, <2>1, <2>2
<1> QED BY <1>1, <1>2, <1>3, <1>5, <1>6

(* A whole line is read as one, and handed on.                             *)
LEMMA LineRead ==
  ASSUME ReaderTypeOK, Turn, NEW n \in Nat, NEW g \in Nat, g < n, Lines(n), Between(g)
  PROVE  /\ pos' = (g + 1) * NField + 1 /\ field' = Own(g + 1)
         /\ given' = Append(given, Own(g + 1))
<1>1. PICK N : N = NField
  OBVIOUS
<1>2. N \in {2, 5} /\ Fields = 1 .. N
  BY <1>1, SizesAre
<1>3. PICK c \in 0 .. N :
           /\ ConvertsTo(c) /\ pos' = pos + c
           /\ field' \in [Fields -> 0 .. Len(file)]
           /\ \A f \in Fields : field'[f] = IF f <= c THEN pos + f - 1 ELSE field[f]
  BY <1>1, TurnMoves
<1>4. pos = g * N + 1 /\ pos \in Nat
  BY <1>1 DEF Between, ReaderTypeOK
<1>5. PICK base : base = g * N
  OBVIOUS
<1>6. base \in Nat /\ pos = base + 1 /\ (g + 1) * N = base + N
  <2>1. CASE N = 2
    BY <2>1, <1>4, <1>5
  <2>2. CASE N = 5
    BY <2>2, <1>4, <1>5
  <2> QED BY <1>2, <2>1, <2>2
<1>7. \A f \in Fields : base + f \in DOMAIN file
                      /\ (file[base + f] = "op") = (Format[sim][f] = "word")
  BY <1>1, <1>5, LineFields
<1>8. ASSUME NEW f \in Fields PROVE Fits(f, base + f)
  <2>1. base + f \in DOMAIN file /\ file[base + f] \in Token
    BY <1>7 DEF ReaderTypeOK
  <2> QED BY <2>1, <1>7 DEF Fits, Token
<1>9. c = N
  <2> SUFFICES ASSUME c < N PROVE FALSE
    BY <1>2
  <2>1. c + 1 \in Fields /\ base + (c + 1) = pos + c
    BY <1>2, <1>6
  <2>2. Fits(c + 1, pos + c)
    BY <2>1, <1>8
  <2> QED BY <2>2, <1>1, <1>3 DEF ConvertsTo
<1>10. \A f \in Fields : field'[f] = base + f
  BY <1>2, <1>3, <1>6, <1>9
<1>11. Own(g + 1) = [f \in Fields |-> base + f]
  <2>1. (g + 1) - 1 = g
    OBVIOUS
  <2> QED BY <2>1, <1>1, <1>5 DEF Own
<1>12. field' = Own(g + 1)
  BY <1>3, <1>10, <1>11
<1>13. pos' = (g + 1) * NField + 1
  BY <1>1, <1>2, <1>3, <1>6, <1>9
<1>14. PICK known \in BOOLEAN : Hands(known)
  BY DEF Turn
<1>15. known
  <2>1. CASE sim = "sim_proc"
    BY <2>1, <1>14 DEF Hands
  <2>2. CASE sim /= "sim_proc"
    <3>1. Letter \in Fields /\ Format[sim][Letter] = "word"
      BY <2>2, FormatIs DEF ReaderTypeOK
    <3>2. PICK p : p = field'[Letter]
      OBVIOUS
    <3>3. p /= 0 /\ file[p] = "op"
      BY <3>1, <3>2, <1>2, <1>6, <1>7, <1>10
    <3>4. known \in IsOperation(p)
      BY <2>2, <3>2, <1>14 DEF Hands
    <3> QED BY <3>3, <3>4 DEF IsOperation
  <2> QED BY <2>1, <2>2
<1> QED BY <1>12, <1>13, <1>14, <1>15 DEF Hands

(* A line cut short is completed by the fields of the line before.         *)
LEMMA CutRead ==
  ASSUME ReaderTypeOK, Turn, NEW n \in Nat \ {0}, Lines(n), Between(n),
         NEW r \in 0 .. NField - 1, CutShort(n, r)
  PROVE  r > 0 /\ pos' = Len(file) + 1 /\ given' = Append(given, Cut(n, r))
<1>1. PICK N : N = NField
  OBVIOUS
<1>2. N \in {2, 5} /\ Fields = 1 .. N /\ r \in 0 .. N - 1
      /\ DOMAIN file = 1 .. Len(file) /\ Len(file) \in Nat
  BY <1>1, SizesAre
<1>3. PICK c \in 0 .. N :
           /\ ConvertsTo(c) /\ pos' = pos + c
           /\ field' \in [Fields -> 0 .. Len(file)]
           /\ \A f \in Fields : field'[f] = IF f <= c THEN pos + f - 1 ELSE field[f]
  BY <1>1, TurnMoves
<1>4. pos = n * N + 1 /\ pos \in Nat /\ field = Own(n)
  BY <1>1 DEF Between, ReaderTypeOK
<1>5. PICK base : base = n * N
  OBVIOUS
<1>6. base \in Nat /\ pos = base + 1 /\ (n + 1) - 1 = n
  <2>1. CASE N = 2
    BY <2>1, <1>4, <1>5
  <2>2. CASE N = 5
    BY <2>2, <1>4, <1>5
  <2> QED BY <1>2, <2>1, <2>2
<1>7. Len(file) = base + r
      /\ \A f \in 1 .. r : (file[base + f] = "op") = (Format[sim][f] = "word")
  BY <1>1, <1>5 DEF CutShort
<1>8. r > 0
  <2> SUFFICES ASSUME r = 0 PROVE FALSE
    BY <1>2
  <2> QED BY <1>2, <1>6, <1>7 DEF Turn, EndOfFile
<1>9. ASSUME NEW f \in 1 .. r PROVE Fits(f, base + f)
  <2>1. base + f \in DOMAIN file
    BY <1>2, <1>6, <1>7
  <2>2. file[base + f] \in Token
    BY <2>1 DEF ReaderTypeOK
  <2> QED BY <2>1, <2>2, <1>7 DEF Fits, Token
<1>10. c = r
  <2>1. ~(c < r)
    <3> SUFFICES ASSUME c < r PROVE FALSE
      OBVIOUS
    <3>1. c + 1 \in 1 .. r /\ base + (c + 1) = pos + c /\ c < N
      BY <1>2, <1>6
    <3>2. Fits(c + 1, pos + c)
      BY <3>1, <1>9
    <3> QED BY <3>1, <3>2, <1>1, <1>3 DEF ConvertsTo
  <2>2. ~(c > r)
    <3> SUFFICES ASSUME c > r PROVE FALSE
      OBVIOUS
    <3>1. r + 1 \in 1 .. c /\ pos + (r + 1) - 1 = Len(file) + 1
      BY <1>2, <1>6, <1>7
    <3>2. Fits(r + 1, pos + (r + 1) - 1)
      BY <3>1, <1>3 DEF ConvertsTo
    <3> QED BY <3>1, <3>2, <1>2 DEF Fits
  <2> QED BY <2>1, <2>2, <1>2
<1>11. field' = Cut(n, r)
  <2>1. \A f \in Fields : f <= r => Own(n + 1)[f] = base + f
    BY <1>1, <1>5, <1>6 DEF Own
  <2>2. \A f \in Fields : field'[f] = IF f <= r THEN Own(n + 1)[f] ELSE Own(n)[f]
    <3> SUFFICES ASSUME NEW f \in Fields
                 PROVE  field'[f] = IF f <= r THEN Own(n + 1)[f] ELSE Own(n)[f]
      OBVIOUS
    <3>1. field'[f] = IF f <= r THEN pos + f - 1 ELSE field[f]
      BY <1>3, <1>10
    <3>2. pos + f - 1 = base + f
      BY <1>2, <1>6
    <3> QED BY <3>1, <3>2, <2>1, <1>4
  <2> QED BY <2>2, <1>3 DEF Cut
<1>12. pos' = Len(file) + 1
  BY <1>2, <1>3, <1>6, <1>7, <1>10
<1>13. PICK known \in BOOLEAN : Hands(known)
  BY DEF Turn
<1>14. known
  <2>1. CASE sim = "sim_proc"
    BY <2>1, <1>13 DEF Hands
  <2>2. CASE sim /= "sim_proc"
    <3>1. Letter \in Fields /\ Format[sim][Letter] = "word"
      BY <2>2, FormatIs DEF ReaderTypeOK
    <3>2. PICK p : p = field'[Letter]
      OBVIOUS
    <3>3. p /= 0 /\ file[p] = "op"
      <4>1. CASE Letter <= r
        <5>1. p = base + Letter
          BY <4>1, <3>1, <3>2, <1>2, <1>3, <1>6, <1>10
        <5>2. Letter \in 1 .. r
          BY <4>1, <3>1, <1>2
        <5> QED BY <5>1, <5>2, <3>1, <1>6, <1>7
      <4>2. CASE ~(Letter <= r)
        <5>1. p = (n - 1) * NField + Letter
          BY <4>2, <3>1, <3>2, <1>3, <1>4, <1>10 DEF Own
        <5>2. n - 1 \in Nat /\ n - 1 < n
          OBVIOUS
        <5>3. p \in DOMAIN file /\ (file[p] = "op") = (Format[sim][Letter] = "word")
          BY <5>1, <5>2, <3>1, LineFields
        <5> QED BY <5>3, <3>1, <1>2
      <4> QED BY <4>1, <4>2
    <3>4. known \in IsOperation(p)
      BY <2>2, <3>2, <1>13 DEF Hands
    <3> QED BY <3>3, <3>4 DEF IsOperation
  <2> QED BY <2>1, <2>2
<1> QED BY <1>8, <1>11, <1>12, <1>13, <1>14 DEF Hands

(***************************************************************************)
(* A turn keeps each part of the invariant.                                *)
(***************************************************************************)
(* Nothing that is said of the file alone changes.                         *)
LEMMA SameFile ==
  ASSUME sim' = sim, file' = file
  PROVE  /\ NField' = NField /\ Fields' = Fields
         /\ \A n : Lines(n)' = Lines(n) /\ Own(n)' = Own(n)
         /\ \A n, r : CutShort(n, r)' = CutShort(n, r) /\ Cut(n, r)' = Cut(n, r)
<1>1. NField' = NField /\ Fields' = Fields
  BY DEF NField, Fields
<1>2. \A n : Lines(n)' = Lines(n)
  BY <1>1 DEF Lines
<1>3. \A n : Own(n)' = Own(n)
  BY <1>1 DEF Own
<1>4. \A n, r : CutShort(n, r)' = CutShort(n, r)
  BY <1>1 DEF CutShort
<1>5. \A n, r : Cut(n, r)' = Cut(n, r)
  BY <1>1, <1>3 DEF Cut
<1> QED BY <1>1, <1>2, <1>3, <1>4, <1>5

(* In a file that starts with lines, a turn reads the next one.            *)
LEMMA TurnLines ==
  ASSUME ReaderTypeOK, InLines, Turn
  PROVE  InLines'
<1>1. sim' = sim /\ file' = file /\ ~EndOfFile
  BY DEF Turn
<1>2. PICK g : g = Len(given)
  OBVIOUS
<1>3. g \in Nat /\ given \in Seq([Fields -> 0 .. Len(file)])
  BY <1>2 DEF ReaderTypeOK
<1>4. PICK known \in BOOLEAN : given' = IF known THEN Append(given, field') ELSE given
  BY DEF Turn, Hands
<1>5. /\ Len(given') \in {g, g + 1} /\ Len(given') \in Nat
      /\ \A j \in 1 .. g : given'[j] = given[j]
  BY <1>2, <1>3, <1>4
<1>6. \A x : given' = Append(given, x) => Len(given') = g + 1 /\ given'[g + 1] = x
  BY <1>2, <1>3
<1>7. Len(file') = Len(file) /\ Len(file) \in Nat
  BY <1>1, SizesAre
<1>0. PICK g2 : g2 = Len(given')
  OBVIOUS
<1> SUFFICES ASSUME NEW n \in 1 .. Len(file), Lines(n)
             PROVE  /\ \A j \in 1 .. Len(given') : j <= n => given'[j] = Own(j)
                    /\ Len(given') < n => Between(g2)'
                    /\ \A r \in 0 .. NField - 1 : CutShort(n, r) =>
                         /\ Len(given') = n => Between(n)'
                         /\ Len(given') > n =>
                              /\ r > 0 /\ Len(given') = n + 1 /\ EndOfFile'
                              /\ given'[n + 1] = Cut(n, r)
  <2>1. \A n \in 1 .. Len(file') : Lines(n)' = Lines(n)
    BY <1>1, SameFile
  <2>2. \A j : Own(j)' = Own(j)
    BY <1>1, SameFile
  <2>3. NField' = NField /\ \A n, r : CutShort(n, r)' = CutShort(n, r)
                                  /\ Cut(n, r)' = Cut(n, r)
    BY <1>1, SameFile
  <2>4. Between(Len(given))' <=> Between(g2)'
    BY <1>0 DEF Between
  <2>5. \A n \in 1 .. Len(file') : Lines(n)' =>
          /\ \A j \in 1 .. Len(given') : j <= n => given'[j] = Own(j)'
          /\ Len(given') < n => Between(Len(given))'
          /\ \A r \in 0 .. NField' - 1 : CutShort(n, r)' =>
               /\ Len(given') = n => Between(n)'
               /\ Len(given') > n =>
                    r > 0 /\ Len(given') = n + 1 /\ EndOfFile' /\ given'[n + 1] = Cut(n, r)'
    BY <2>1, <2>2, <2>3, <2>4, <1>7
  <2> QED BY <2>5 DEF InLines
<1>8. n \in Nat \ {0}
  BY <1>7
<1>9. CASE g < n
  <2>1. Between(g)
    BY <1>2, <1>9 DEF InLines
  <2>2. /\ pos' = (g + 1) * NField + 1 /\ field' = Own(g + 1)
        /\ given' = Append(given, Own(g + 1))
    BY <2>1, <1>3, <1>8, <1>9, LineRead
  <2>3. Len(given') = g + 1 /\ given'[g + 1] = Own(g + 1)
    BY <2>2, <1>6
  <2>4. ASSUME NEW j \in 1 .. Len(given'), j <= n PROVE given'[j] = Own(j)
    <3>1. CASE j <= g
      <4>1. j \in 1 .. g
        BY <3>1, <2>3, <1>3
      <4>2. \A i \in 1 .. Len(given) : i <= n => given[i] = Own(i)
        BY DEF InLines
      <4> QED BY <4>1, <4>2, <2>4, <1>2, <1>5
    <3>2. CASE j = g + 1
      BY <3>2, <2>3
    <3> QED BY <3>1, <3>2, <2>3, <1>3
  <2>5. Between(g + 1)'
    <3>1. NField' = NField /\ Own(g + 1)' = Own(g + 1)
      BY <1>1, SameFile
    <3> QED BY <3>1, <2>2 DEF Between
  <2>6. ~(g + 1 > n)
    BY <1>3, <1>8, <1>9
  <2>7. Between(g2)'
    BY <2>3, <2>5, <1>0
  <2>8. ~(Len(given') = n /\ g + 1 > n) /\ (Len(given') = n => Between(n)')
    BY <2>3, <2>5, <2>6
  <2> QED BY <2>3, <2>4, <2>6, <2>7, <2>8
<1>10. CASE ~(g < n)
  <2>1. ASSUME NEW j \in 1 .. Len(given'), j <= n PROVE given'[j] = Own(j)
    <3>1. j \in 1 .. g
      BY <2>1, <1>3, <1>8, <1>10
    <3> QED BY <3>1, <2>1, <1>2, <1>5 DEF InLines
  <2>2. ~(Len(given') < n)
    BY <1>3, <1>5, <1>8, <1>10
  <2>3. ASSUME NEW r \in 0 .. NField - 1, CutShort(n, r)
        PROVE  /\ Len(given') = n => Between(n)'
               /\ Len(given') > n =>
                    /\ r > 0 /\ Len(given') = n + 1 /\ EndOfFile'
                    /\ given'[n + 1] = Cut(n, r)
    <3>1. g = n /\ Between(n)
      BY <2>3, <1>1, <1>2, <1>3, <1>8, <1>10 DEF InLines
    <3>2. r > 0 /\ pos' = Len(file) + 1 /\ given' = Append(given, Cut(n, r))
      BY <2>3, <3>1, <1>8, CutRead
    <3>3. Len(given') = n + 1 /\ given'[n + 1] = Cut(n, r)
      BY <3>1, <3>2, <1>6
    <3>4. EndOfFile'
      BY <3>2, <1>7 DEF EndOfFile
    <3> QED BY <3>2, <3>3, <3>4, <1>8
  <2> QED BY <2>1, <2>2, <2>3
<1> QED BY <1>9, <1>10

(* sim_cache: a turn serves the letter it reads, and skips none.           *)
LEMMA TurnServed ==
  ASSUME ReaderTypeOK, Served, Turn
  PROVE  Served'
<1>1. sim' = sim /\ file' = file /\ ~EndOfFile
  BY DEF Turn
<1> SUFFICES ASSUME sim = "sim_cache"
             PROVE  /\ {given'[n][1] : n \in DOMAIN given'} =
                          {p \in DOMAIN file : file[p] = "op" /\ p < pos'}
                    /\ \A n \in 2 .. Len(given') : given'[n - 1][1] < given'[n][1]
                    /\ \A n \in DOMAIN given' :
                         LET p == given'[n][1] + 1 IN
                         p \in DOMAIN file /\ file[p] = "num" => given'[n][2] = p
  BY <1>1 DEF Served
<1>2. /\ Fields = 1 .. 2 /\ NField = 2 /\ Letter = 1
      /\ Format[sim][1] = "word" /\ Format[sim][2] = "num"
  BY FormatIs
<1>3. pos \in DOMAIN file /\ pos \in Nat /\ DOMAIN file = 1 .. Len(file) /\ Len(file) \in Nat
  BY <1>1, SizesAre DEF EndOfFile
<1>4. PICK c \in 0 .. 2 :
           /\ ConvertsTo(c) /\ pos' = pos + c
           /\ field' \in [Fields -> 0 .. Len(file)]
           /\ \A f \in Fields : field'[f] = IF f <= c THEN pos + f - 1 ELSE field[f]
  BY <1>2, TurnMoves
<1>5. c >= 1
  <2> SUFFICES ASSUME c = 0 PROVE FALSE
    OBVIOUS
  <2>1. Fits(c + 1, pos + c)
    <3>1. c + 1 = 1 /\ pos + c = pos
      BY <1>3
    <3> QED BY <3>1, <1>2, <1>3 DEF Fits
  <2> QED BY <2>1, <1>2, <1>4 DEF ConvertsTo
<1>6. field'[1] = pos /\ (c = 2 => field'[2] = pos + 1)
  <2>1. pos + 1 - 1 = pos /\ pos + 2 - 1 = pos + 1
    BY <1>3
  <2> QED BY <2>1, <1>2, <1>4, <1>5
<1>7. c = 2 <=> pos + 1 \in DOMAIN file /\ file[pos + 1] = "num"
  <2>1. CASE c = 2
    <3>1. Fits(2, pos + 2 - 1) /\ pos + 2 - 1 = pos + 1
      BY <2>1, <1>3, <1>4 DEF ConvertsTo
    <3> QED BY <3>1, <2>1, <1>2 DEF Fits
  <2>2. CASE c = 1
    <3>1. ~Fits(1 + 1, pos + 1)
      BY <2>2, <1>2, <1>4 DEF ConvertsTo
    <3>2. 1 + 1 = 2
      OBVIOUS
    <3> QED BY <3>1, <3>2, <2>2, <1>2 DEF Fits
  <2> QED BY <2>1, <2>2, <1>4, <1>5
<1>8. \A p \in DOMAIN file : p < pos' /\ file[p] = "op" <=>
                            (p < pos /\ file[p] = "op") \/ (p = pos /\ file[p] = "op")
  <2> SUFFICES ASSUME NEW p \in DOMAIN file
               PROVE  p < pos' /\ file[p] = "op" <=>
                        (p < pos /\ file[p] = "op") \/ (p = pos /\ file[p] = "op")
    OBVIOUS
  <2>1. CASE c = 1
    BY <2>1, <1>3, <1>4
  <2>2. CASE c = 2
    <3>1. file[pos + 1] = "num"
      BY <2>2, <1>7
    <3>2. p < pos' <=> p < pos \/ p = pos \/ p = pos + 1
      BY <2>2, <1>3, <1>4
    <3>3. p < pos => p < pos'
      BY <2>2, <1>3, <1>4
    <3> QED BY <3>1, <3>2
  <2> QED BY <2>1, <2>2, <1>4, <1>5
<1>9. PICK known \in BOOLEAN : Hands(known)
  BY DEF Turn
<1>10. known <=> file[pos] = "op"
  <2>1. known \in IsOperation(field'[Letter])
    BY <1>9 DEF Hands
  <2>2. PICK p : p = field'[Letter]
    OBVIOUS
  <2>3. p = pos /\ p /= 0
    BY <2>2, <1>2, <1>3, <1>6
  <2> QED BY <2>1, <2>2, <2>3 DEF IsOperation
<1>11. CASE known
  <2>1. given' = Append(given, field')
    BY <1>9, <1>11 DEF Hands
  <2>2. PICK g : g = Len(given)
    OBVIOUS
  <2>3. given \in Seq([Fields -> 0 .. Len(file)]) /\ g \in Nat /\ DOMAIN given = 1 .. g
    BY <2>2 DEF ReaderTypeOK
  <2>4. /\ Len(given') = g + 1 /\ DOMAIN given' = 1 .. g + 1 /\ given'[g + 1] = field'
        /\ \A n \in 1 .. g : given'[n] = given[n]
    BY <2>1, <2>2, <2>3
  <2>5. \A n \in 1 .. g + 1 : n \in 1 .. g \/ n = g + 1
    BY <2>3
  <2>6. \A n \in 1 .. g : given[n][1] < pos /\ given[n][1] \in Nat
    <3> SUFFICES ASSUME NEW n \in 1 .. g PROVE given[n][1] < pos /\ given[n][1] \in Nat
      OBVIOUS
    <3>1. given[n][1] \in {p \in DOMAIN file : file[p] = "op" /\ p < pos}
      BY <2>3 DEF Served
    <3> QED BY <3>1, <1>3
  <2>7. {given'[n][1] : n \in DOMAIN given'} = {p \in DOMAIN file : file[p] = "op" /\ p < pos'}
    <3>1. {given'[n][1] : n \in DOMAIN given'} = {given[n][1] : n \in DOMAIN given} \cup {pos}
      <4>1. g + 1 \in 1 .. g + 1 /\ 1 .. g \subseteq 1 .. g + 1
        BY <2>3
      <4>2. \A n \in 1 .. g : given'[n][1] = given[n][1]
        BY <2>4
      <4>3. given'[g + 1][1] = pos
        BY <1>6, <2>4
      <4>4. DOMAIN given = 1 .. g /\ DOMAIN given' = 1 .. g + 1
        BY <2>3, <2>4
      <4> QED BY <2>5, <4>1, <4>2, <4>3, <4>4
    <3>2. {given[n][1] : n \in DOMAIN given} = {p \in DOMAIN file : file[p] = "op" /\ p < pos}
      BY DEF Served
    <3>3. {p \in DOMAIN file : file[p] = "op" /\ p < pos} \cup {pos} =
          {p \in DOMAIN file : file[p] = "op" /\ p < pos'}
      BY <1>3, <1>8, <1>10, <1>11
    <3> QED BY <3>1, <3>2, <3>3
  <2>8. ASSUME NEW n \in 2 .. Len(given') PROVE given'[n - 1][1] < given'[n][1]
    <3>1. CASE n \in 2 .. g
      <4>1. n - 1 \in 1 .. g /\ n \in 1 .. g
        BY <3>1, <2>3
      <4>2. given[n - 1][1] < given[n][1]
        BY <3>1, <2>2 DEF Served
      <4> QED BY <4>1, <4>2, <2>4
    <3>2. CASE n = g + 1
      <4>1. n - 1 = g /\ g \in 1 .. g
        BY <3>2, <2>3, <2>8
      <4> QED BY <4>1, <3>2, <2>4, <2>6, <1>6
    <3> QED BY <3>1, <3>2, <2>3, <2>4
  <2>9. ASSUME NEW n \in DOMAIN given', given'[n][1] + 1 \in DOMAIN file,
               file[given'[n][1] + 1] = "num"
        PROVE  given'[n][2] = given'[n][1] + 1
    <3>1. CASE n \in 1 .. g
      BY <3>1, <2>3, <2>4, <2>9 DEF Served
    <3>2. CASE n = g + 1
      BY <3>2, <2>4, <2>9, <1>6, <1>7
    <3> QED BY <3>1, <3>2, <2>4, <2>5
  <2> QED BY <2>7, <2>8, <2>9
<1>12. CASE ~known
  <2>1. given' = given
    BY <1>9, <1>12 DEF Hands
  <2>2. {p \in DOMAIN file : file[p] = "op" /\ p < pos} =
        {p \in DOMAIN file : file[p] = "op" /\ p < pos'}
    BY <1>8, <1>10, <1>12
  <2> QED BY <2>1, <2>2 DEF Served
<1> QED BY <1>11, <1>12

(* A turn leaves no letter behind that is not in a place for one.          *)
LEMMA TurnReads ==
  ASSUME ReaderTypeOK, ReadSoFar, Turn
  PROVE  ReadSoFar'
<1>1. sim' = sim /\ file' = file /\ ~EndOfFile
  BY DEF Turn
<1>2. PICK c \in 0 .. NField : ConvertsTo(c) /\ pos' = pos + c
  BY TurnMoves
<1>3. pos \in Nat /\ pos \in 1 .. Len(file) /\ DOMAIN file = 1 .. Len(file)
      /\ Len(file) \in Nat /\ NField \in {2, 5}
  BY <1>1, SizesAre
<1>4. ASSUME NEW p \in DOMAIN file, p < pos', file[p] = "op", ~(p < pos)
      PROVE  sim = "sim_cache" \/ (sim = "sim_bp" /\ p % 2 = 0)
  <2>1. PICK f : f = p - pos + 1
    OBVIOUS
  <2>2. f \in 1 .. c /\ pos + f - 1 = p
    <3>1. p \in Nat /\ c \in Nat
      BY <1>2, <1>3
    <3> QED BY <3>1, <2>1, <1>2, <1>3, <1>4
  <2>3. Fits(f, p)
    BY <2>2, <1>2 DEF ConvertsTo
  <2>4. Format[sim][f] = "word"
    BY <2>3, <1>4 DEF Fits
  <2>5. CASE sim = "sim_cache"
    BY <2>5
  <2>6. CASE sim = "sim_bp"
    <3>1. f = 2 /\ pos % 2 = 1
      <4>1. f \in 1 .. 2
        BY <2>2, <2>6, <1>2, FormatIs
      <4>2. f /= 1
        BY <2>4, <2>6, FormatIs
      <4> QED BY <4>1, <4>2, <2>6, <1>1 DEF ReadSoFar
    <3>2. p = pos + 1
      BY <3>1, <2>2, <1>3
    <3>3. p % 2 = 0
      BY <3>1, <3>2, <1>3
    <3> QED BY <3>3, <2>6
  <2>7. CASE sim = "sim_proc"
    <3>1. f \in 1 .. 5 /\ Format[sim][f] = "num"
      BY <2>2, <2>7, <1>2, FormatIs
    <3> QED BY <3>1, <2>4
  <2> QED BY <2>5, <2>6, <2>7 DEF ReaderTypeOK
<1>5. sim = "sim_bp" => EndOfFile' \/ pos' % 2 = 1
  <2> SUFFICES ASSUME sim = "sim_bp" PROVE pos' > Len(file) \/ pos' % 2 = 1
    BY <1>1 DEF EndOfFile
  <2>1. pos % 2 = 1 /\ c \in 0 .. 2
    BY <1>1, <1>2, FormatIs DEF ReadSoFar
  <2>2. CASE c = 1
    <3>1. ~Fits(1 + 1, pos + 1) /\ 1 + 1 = 2
      BY <2>2, <1>2, FormatIs DEF ConvertsTo
    <3>2. pos + 1 \notin DOMAIN file
      BY <3>1, FormatIs DEF Fits
    <3> QED BY <3>2, <2>2, <1>2, <1>3
  <2>3. CASE c = 0 \/ c = 2
    BY <2>1, <2>3, <1>2, <1>3
  <2> QED BY <2>1, <2>2, <2>3
<1> QED BY <1>1, <1>4, <1>5 DEF ReadSoFar

(***************************************************************************)
(* The steps.                                                              *)
(***************************************************************************)
LEMMA ReaderInvInit ==
  ASSUME Init
  PROVE  ReaderInv
<1>1. /\ sim \in {"sim_cache", "sim_bp", "sim_proc"} /\ pos = 1 /\ given = <<>>
      /\ at = "fscanf" /\ k = 0 /\ last = FALSE
      /\ field = [f \in Fields |-> 0] /\ bundle = [s \in Slot |-> None]
  BY FormatIs DEF Init
<1>2. file \in Seq(Token) /\ Len(file) \in Nat /\ DOMAIN file = 1 .. Len(file)
  <2>1. PICK m \in 0 .. MaxTokens : file \in [1 .. m -> Token]
    BY ReaderAssumption DEF Init, BoundedSeq, SeqOf
  <2> QED BY <2>1, ReaderAssumption
<1>3. ReaderTypeOK
  <2>1. k \in Slot
    BY <1>1, ReaderAssumption DEF Slot
  <2>2. pos \in 1 .. Len(file) + 1 /\ 0 \in 0 .. Len(file)
    BY <1>1, <1>2
  <2>3. field \in [Fields -> 0 .. Len(file)] /\ given \in Seq([Fields -> 0 .. Len(file)])
    BY <2>2, <1>1
  <2>4. bundle \in [Slot -> Nat \cup {None}]
    BY <1>1
  <2> QED BY <2>1, <2>2, <2>3, <2>4, <1>1, <1>2 DEF ReaderTypeOK
<1>4. EndSeen
  BY <1>1 DEF EndSeen
<1>5. InLines
  <2> SUFFICES ASSUME NEW n \in 1 .. Len(file)
               PROVE  /\ \A j \in 1 .. Len(given) : j <= n => given[j] = Own(j)
                      /\ Len(given) < n => Between(Len(given))
                      /\ Len(given) /= n /\ ~(Len(given) > n)
    BY DEF InLines
  <2>1. Len(given) = 0 /\ n \in Nat \ {0}
    BY <1>1, <1>2
  <2>2. Between(0)
    <3>1. NField \in Nat
      BY <1>3, SizesAre
    <3>2. 0 * NField + 1 = 1
      BY <3>1
    <3> QED BY <3>2, <1>1 DEF Between
  <2> QED BY <2>1, <2>2
<1>6. Served
  <2>1. \A p \in DOMAIN file : ~(p < pos)
    BY <1>1, <1>2
  <2> QED BY <2>1, <1>1 DEF Served
<1>7. BundleFilled
  <2>1. Filling(0)
    BY <1>1 DEF Filling
  <2> QED BY <2>1, <1>1 DEF BundleFilled
<1>8. BundlesExact
  BY <1>1 DEF BundlesExact
<1>9. ReadSoFar
  <2>1. \A p \in DOMAIN file : ~(p < pos)
    BY <1>1, <1>2
  <2> QED BY <2>1, <1>1 DEF ReadSoFar
<1> QED BY <1>3, <1>4, <1>5, <1>6, <1>7, <1>8, <1>9 DEF ReaderInv

(* What is said of the reading alone, where nothing is read.               *)
LEMMA NothingRead ==
  ASSUME ReaderInv, UNCHANGED <<sim, file, pos, field, given>>
  PROVE  InLines' /\ Served' /\ ReadSoFar' /\ EndOfFile' = EndOfFile
         /\ Fields' = Fields
<1>1. /\ sim' = sim /\ file' = file /\ pos' = pos /\ field' = field /\ given' = given
  OBVIOUS
<1>2. /\ NField' = NField /\ Fields' = Fields
      /\ \A n : Lines(n)' = Lines(n) /\ Own(n)' = Own(n)
      /\ \A n, r : CutShort(n, r)' = CutShort(n, r) /\ Cut(n, r)' = Cut(n, r)
  BY <1>1, SameFile
<1>3. EndOfFile' = EndOfFile
  BY <1>1 DEF EndOfFile
<1>4. \A g : Between(g)' = Between(g)
  BY <1>1, <1>2 DEF Between
<1>5. Between(Len(given))' = Between(Len(given))
  BY <1>1, <1>2 DEF Between
<1>6. InLines'
  BY <1>1, <1>2, <1>3, <1>4, <1>5 DEF ReaderInv, InLines
<1>7. Served'
  BY <1>1 DEF ReaderInv, Served
<1>8. ReadSoFar'
  BY <1>1, <1>3 DEF ReaderInv, ReadSoFar
<1> QED BY <1>2, <1>3, <1>6, <1>7, <1>8

(* A turn of the loops of sim_cache and sim_bp.                            *)
LEMMA LineKeeps ==
  ASSUME ReaderInv, ReadLine
  PROVE  ReaderInv'
<1>1. /\ sim /= "sim_proc" /\ at = "fscanf" /\ k = 0
      /\ sim' = sim /\ file' = file /\ bundle' = bundle /\ k' = k /\ last' = last
  BY DEF ReadLine, ReaderInv, BundleFilled
<1>2. ReaderTypeOK
  BY DEF ReaderInv
<1>3. CASE EndOfFile
  <2>1. at' = "end" /\ pos' = pos /\ field' = field /\ given' = given
    BY <1>3 DEF ReadLine
  <2>2. InLines' /\ Served' /\ ReadSoFar' /\ EndOfFile' /\ Fields' = Fields
    BY <2>1, <1>1, <1>3, NothingRead
  <2>3. ReaderTypeOK'
    BY <2>1, <2>2, <1>1, <1>2 DEF ReaderTypeOK, Slot
  <2>4. EndSeen' /\ BundlesExact' /\ BundleFilled'
    BY <2>1, <2>2, <1>1 DEF EndSeen, BundlesExact, BundleFilled
  <2> QED BY <2>2, <2>3, <2>4 DEF ReaderInv
<1>4. CASE ~EndOfFile
  <2>1. Scan /\ at' = at
    BY <1>4 DEF ReadLine
  <2>2. PICK known \in IsOperation(field'[Letter]) :
           given' = IF known THEN Append(given, field') ELSE given
    BY <1>4 DEF ReadLine
  <2>3. known \in BOOLEAN
    BY <2>2 DEF IsOperation
  <2>4. Turn
    BY <2>1, <2>2, <2>3, <1>1, <1>4 DEF Turn, Hands
  <2>5. InLines' /\ Served' /\ ReadSoFar'
    BY <2>4, <1>2, TurnLines, TurnServed, TurnReads DEF ReaderInv
  <2>6. ReaderTypeOK'
    <3>1. /\ pos' \in 1 .. Len(file) + 1 /\ field' \in [Fields -> 0 .. Len(file)]
          /\ given' \in Seq([Fields -> 0 .. Len(file)]) /\ Fields' = Fields
      BY <2>4, <1>1, <1>2, TurnTypes, SameFile
    <3> QED BY <2>1, <3>1, <1>1, <1>2 DEF ReaderTypeOK, Slot
  <2>7. last = FALSE
    BY <1>4 DEF ReaderInv, EndSeen, ReaderTypeOK
  <2>8. EndSeen' /\ BundlesExact'
    BY <2>1, <2>7, <1>1 DEF EndSeen, BundlesExact
  <2>9. BundleFilled'
    <3>1. Len(given') \in Nat
      BY <2>6 DEF ReaderTypeOK
    <3>2. Filling(0)'
      BY <3>1, <1>1 DEF Filling
    <3> QED BY <3>2, <2>1, <1>1 DEF BundleFilled
  <2> QED BY <2>5, <2>6, <2>8, <2>9 DEF ReaderInv
<1> QED BY <1>3, <1>4

(* One more slot is filled: m of the slots so far hold an instruction.     *)
LEMMA SlotFilled ==
  ASSUME ReaderTypeOK, at = "fscanf", NEW m \in 0 .. k + 1,
         Len(given') \in Nat, m <= Len(given'), last' = (m < k + 1),
         \A s \in 0 .. k : bundle'[s] = IF s < m THEN Len(given') - m + s ELSE None,
         m < k + 1 => EndOfFile', k' = (k + 1) % Width,
         at' = IF k = Width - 1 THEN "cycles" ELSE at,
         sim' = "sim_proc"
  PROVE  BundleFilled' /\ BundlesExact'
<1>1. Width \in Nat \ {0} /\ k \in 0 .. Width - 1 /\ k \in Nat
  BY ReaderAssumption DEF ReaderTypeOK, Slot
<1>2. CASE k = Width - 1
  <2>1. at' = "cycles" /\ k' = 0
    <3>1. k + 1 = Width
      BY <1>1, <1>2
    <3> QED BY <3>1, <1>1, <1>2
  <2>2. m \in 0 .. Width /\ k + 1 = Width /\ Slot = 0 .. k
    BY <1>1, <1>2 DEF Slot
  <2>3. BundlesExact'
    BY <2>2 DEF BundlesExact, Slot
  <2> QED BY <2>1, <2>3 DEF BundleFilled
<1>3. CASE k /= Width - 1
  <2>1. k' = k + 1 /\ at' = "fscanf"
    <3>1. k + 1 < Width
      BY <1>1, <1>3
    <3> QED BY <3>1, <1>1, <1>3
  <2>2. Filling(m)'
    <3>1. 0 .. k' - 1 = 0 .. k
      BY <2>1, <1>1
    <3> QED BY <2>1, <3>1 DEF Filling
  <2>3. m \in 0 .. k'
    BY <2>1
  <2> QED BY <2>1, <2>2, <2>3 DEF BundleFilled, BundlesExact
<1> QED BY <1>2, <1>3

(* A turn of the inner loop of sim_proc.                                   *)
LEMMA SlotKeeps ==
  ASSUME ReaderInv, ReadSlot
  PROVE  ReaderInv'
<1>1. /\ sim = "sim_proc" /\ at = "fscanf" /\ sim' = sim /\ file' = file
      /\ last' = EndOfFile /\ bundle' = [bundle EXCEPT ![k] = Filled]
      /\ k' = (k + 1) % Width /\ at' = IF k = Width - 1 THEN "cycles" ELSE at
  BY DEF ReadSlot
<1>2. ReaderTypeOK
  BY DEF ReaderInv
<1>3. Width \in Nat \ {0} /\ k \in 0 .. Width - 1 /\ k \in Nat /\ Len(given) \in Nat
      /\ bundle \in [0 .. Width - 1 -> Nat \cup {None}]
  BY <1>2, ReaderAssumption DEF ReaderTypeOK, Slot
<1>0. last' \in BOOLEAN /\ (last' <=> EndOfFile)
  <2>1. EndOfFile \in BOOLEAN
    BY DEF EndOfFile
  <2> QED BY <2>1, <1>1
<1>4. k' \in Slot /\ at' \in {"fscanf", "cycles", "end"} /\ at' /= "end"
  <2>1. (k + 1) % Width \in 0 .. Width - 1
    BY <1>3
  <2> QED BY <2>1, <1>1 DEF Slot
<1>5. bundle' \in [Slot -> Nat \cup {None}] /\ bundle'[k] = Filled
      /\ \A s \in 0 .. k - 1 : bundle'[s] = bundle[s]
  BY <1>1, <1>3 DEF Filled, Slot
<1>6. PICK n \in 0 .. k : Filling(n)
  BY <1>1 DEF ReaderInv, BundleFilled
<1>7. CASE EndOfFile
  <2>1. pos' = pos /\ field' = field /\ given' = given
    BY <1>7 DEF ReadSlot
  <2>2. InLines' /\ Served' /\ ReadSoFar' /\ EndOfFile' /\ Fields' = Fields
    BY <2>1, <1>1, <1>7, NothingRead
  <2>3. ReaderTypeOK'
    BY <2>1, <2>2, <1>0, <1>1, <1>2, <1>4, <1>5 DEF ReaderTypeOK, Slot
  <2>4. EndSeen'
    BY <2>2 DEF EndSeen
  <2>5. last' = (n < k + 1) /\ n \in 0 .. k + 1
    <3>1. n < k + 1
      BY <1>3
    <3>2. last' = TRUE
      BY <1>0, <1>7
    <3> QED BY <3>1, <3>2, <1>3
  <2>6. \A s \in 0 .. k : bundle'[s] = IF s < n THEN Len(given') - n + s ELSE None
    <3> SUFFICES ASSUME NEW s \in 0 .. k
                 PROVE  bundle'[s] = IF s < n THEN Len(given') - n + s ELSE None
      OBVIOUS
    <3>1. CASE s \in 0 .. k - 1
      BY <3>1, <2>1, <1>5, <1>6 DEF Filling
    <3>2. CASE s = k
      BY <3>2, <1>3, <1>5, <1>7 DEF Filled
    <3> QED BY <3>1, <3>2, <1>3
  <2>7. BundleFilled' /\ BundlesExact'
    <3>1. n <= Len(given') /\ Len(given') \in Nat
      BY <2>1, <1>3, <1>6 DEF Filling
    <3> QED BY <3>1, <2>2, <2>5, <2>6, <1>1, <1>2, SlotFilled
  <2> QED BY <2>2, <2>3, <2>4, <2>7 DEF ReaderInv
<1>8. CASE ~EndOfFile
  <2>1. Scan /\ given' = Append(given, field')
    BY <1>8 DEF ReadSlot
  <2>2. Turn
    BY <2>1, <1>1, <1>8 DEF Turn, Hands
  <2>3. InLines' /\ Served' /\ ReadSoFar'
    BY <2>2, <1>2, TurnLines, TurnServed, TurnReads DEF ReaderInv
  <2>4. ReaderTypeOK'
    <3>1. /\ pos' \in 1 .. Len(file) + 1 /\ field' \in [Fields -> 0 .. Len(file)]
          /\ given' \in Seq([Fields -> 0 .. Len(file)]) /\ Fields' = Fields
      BY <2>2, <1>1, <1>2, TurnTypes, SameFile
    <3> QED BY <3>1, <1>0, <1>1, <1>2, <1>4, <1>5 DEF ReaderTypeOK, Slot
  <2>5. EndSeen'
    BY <1>1, <1>4, <1>8 DEF EndSeen
  <2>6. n = k
    BY <1>3, <1>6, <1>8 DEF Filling
  <2>7. Len(given') = Len(given) + 1
    BY <2>1, <1>2 DEF ReaderTypeOK
  <2>8. \A s \in 0 .. k : bundle'[s] = IF s < k + 1 THEN Len(given') - (k + 1) + s ELSE None
    <3> SUFFICES ASSUME NEW s \in 0 .. k
                 PROVE  bundle'[s] = Len(given') - (k + 1) + s
      BY <1>3
    <3>1. CASE s \in 0 .. k - 1
      <4>1. bundle[s] = Len(given) - k + s
        BY <3>1, <2>6, <1>3, <1>6 DEF Filling
      <4>2. Len(given) - k + s = Len(given') - (k + 1) + s
        BY <2>7, <1>3
      <4> QED BY <3>1, <4>1, <4>2, <1>5
    <3>2. CASE s = k
      <4>1. Len(given') - (k + 1) + k = Len(given)
        BY <2>7, <1>3
      <4> QED BY <3>2, <4>1, <1>5, <1>8 DEF Filled
    <3> QED BY <3>1, <3>2, <1>3
  <2>9. BundleFilled' /\ BundlesExact'
    <3>1. k + 1 \in 0 .. k + 1 /\ k + 1 <= Len(given') /\ Len(given') \in Nat
      BY <2>6, <2>7, <1>3, <1>6 DEF Filling
    <3>2. last' = (k + 1 < k + 1) /\ ~(k + 1 < k + 1)
      <4>1. last' = FALSE
        BY <1>0, <1>8
      <4> QED BY <4>1, <1>3
    <3> QED BY <3>1, <3>2, <2>8, <1>1, <1>2, SlotFilled
  <2> QED BY <2>3, <2>4, <2>5, <2>9 DEF ReaderInv
<1> QED BY <1>7, <1>8

(* The stages run, and the loop of sim_proc ends or starts over.           *)
LEMMA CyclesKeep ==
  ASSUME ReaderInv, RunCycles
  PROVE  ReaderInv'
<1>1. /\ at = "cycles" /\ at' = IF last THEN "end" ELSE "fscanf"
      /\ sim' = sim /\ file' = file /\ pos' = pos /\ field' = field /\ given' = given
      /\ bundle' = bundle /\ k' = k /\ last' = last
  BY DEF RunCycles
<1>2. InLines' /\ Served' /\ ReadSoFar' /\ EndOfFile' = EndOfFile /\ Fields' = Fields
  BY <1>1, NothingRead
<1>3. ReaderTypeOK'
  BY <1>1, <1>2 DEF ReaderInv, ReaderTypeOK, Slot
<1>4. EndSeen'
  BY <1>1, <1>2 DEF ReaderInv, EndSeen
<1>5. BundlesExact'
  BY <1>1 DEF BundlesExact
<1>6. k = 0 /\ sim = "sim_proc"
  BY <1>1 DEF ReaderInv, BundleFilled
<1>7. BundleFilled'
  <2>1. Len(given') \in Nat
    BY <1>3 DEF ReaderTypeOK
  <2>2. Filling(0)'
    BY <2>1, <1>1, <1>6 DEF Filling
  <2> QED BY <2>2, <1>1, <1>6 DEF BundleFilled
<1> QED BY <1>2, <1>3, <1>4, <1>5, <1>7 DEF ReaderInv

(* ReaderInv holds of every state, whatever the file holds, however long   *)
(* it is and however wide the bundles are.                                 *)
THEOREM ReaderInductive == Spec => []ReaderInv
<1>1. Init => ReaderInv
  BY ReaderInvInit
<1>2. ASSUME ReaderInv, [Next]_readerVars PROVE ReaderInv'
  <2>1. CASE ReadLine
    BY <1>2, <2>1, LineKeeps
  <2>2. CASE ReadSlot
    BY <1>2, <2>2, SlotKeeps
  <2>3. CASE RunCycles
    BY <1>2, <2>3, CyclesKeep
  <2>4. CASE UNCHANGED readerVars
    <3>1. /\ at' = at /\ sim' = sim /\ file' = file /\ pos' = pos /\ field' = field
          /\ given' = given /\ bundle' = bundle /\ k' = k /\ last' = last
      BY <2>4 DEF readerVars
    <3>2. InLines' /\ Served' /\ ReadSoFar' /\ EndOfFile' = EndOfFile /\ Fields' = Fields
      BY <3>1, <1>2, NothingRead
    <3>3. ReaderTypeOK'
      BY <3>1, <3>2, <1>2 DEF ReaderInv, ReaderTypeOK, Slot
    <3>4. EndSeen' /\ BundlesExact'
      BY <3>1, <3>2, <1>2 DEF ReaderInv, EndSeen, BundlesExact, Slot
    <3>5. BundleFilled'
      <4>1. \A n : Filling(n)' = Filling(n)
        BY <3>1, <3>2 DEF Filling
      <4> QED BY <3>1, <4>1, <1>2 DEF ReaderInv, BundleFilled
    <3> QED BY <3>2, <3>3, <3>4, <3>5 DEF ReaderInv
  <2> QED BY <2>1, <2>2, <2>3, <2>4, <1>2 DEF Next
<1> QED BY <1>1, <1>2, PTL DEF Spec

(* Lines as the simulator expects them are handed on in order, each with   *)
(* its own fields; a last one that is cut short is completed by the fields *)
(* of the line before.                                                     *)
THEOREM ReaderLines == Spec => []LinesExact
<1>1. ASSUME ReaderInv PROVE LinesExact
  <2>1. ReaderTypeOK /\ InLines /\ EndSeen
    BY <1>1 DEF ReaderInv
  <2>2. Len(given) \in Nat /\ Len(file) \in Nat
    BY <2>1 DEF ReaderTypeOK
  <2> SUFFICES ASSUME NEW n \in 1 .. Len(file), Lines(n)
               PROVE  /\ Len(given) >= n => given[n] = Own(n)
                      /\ at = "end" => Len(given) >= n
                      /\ at = "end" /\ CutShort(n, 0) => Len(given) = n
                      /\ \A r \in 1 .. NField - 1 : at = "end" /\ CutShort(n, r) =>
                           /\ Len(given) = n + 1
                           /\ given[n + 1] = Cut(n, r)
    BY DEF LinesExact, Cut
  <2>3. n \in Nat \ {0} /\ NField \in {2, 5}
    BY <2>1, <2>2, SizesAre
  <2>4. Len(given) >= n => given[n] = Own(n)
    BY <2>1, <2>2, <2>3 DEF InLines
  <2>5. ASSUME at = "end" PROVE Len(given) >= n
    <3> SUFFICES ASSUME Len(given) < n PROVE FALSE
      BY <2>2, <2>3
    <3>1. PICK g : g = Len(given)
      OBVIOUS
    <3>2. pos = g * NField + 1 /\ g \in Nat /\ g < n
      BY <3>1, <2>1, <2>2 DEF InLines, Between
    <3>3. g * NField + 1 \in DOMAIN file
      <4>1. 1 \in Fields
        BY <2>1, <2>3, SizesAre
      <4> QED BY <4>1, <3>2, <2>1, <2>3, LineFields
    <3> QED BY <3>2, <3>3, <2>1, <2>2, <2>5, SizesAre DEF EndSeen
  <2>6. ASSUME at = "end", NEW r \in 0 .. NField - 1, CutShort(n, r)
        PROVE  IF r = 0 THEN Len(given) = n
               ELSE Len(given) = n + 1 /\ given[n + 1] = Cut(n, r)
    <3>1. Len(given) >= n
      BY <2>5, <2>6
    <3>2. CASE Len(given) = n
      <4>1. r = 0
        <5>1. PICK base : base = n * NField
          OBVIOUS
        <5>2. pos = base + 1 /\ Len(file) = base + r
          BY <5>1, <3>2, <2>1, <2>6 DEF InLines, Between, CutShort
        <5>3. pos > Len(file)
          BY <2>1, <2>6 DEF EndSeen, EndOfFile
        <5>4. base \in Nat /\ r \in Nat
          <6>1. CASE NField = 2
            BY <6>1, <5>1, <2>3
          <6>2. CASE NField = 5
            BY <6>2, <5>1, <2>3
          <6> QED BY <6>1, <6>2, <2>3
        <5> QED BY <5>2, <5>3, <5>4
      <4> QED BY <4>1, <3>2
    <3>3. CASE Len(given) > n
      <4>1. r > 0 /\ Len(given) = n + 1 /\ given[n + 1] = Cut(n, r)
        BY <3>3, <2>1, <2>6 DEF InLines
      <4>2. r /= 0
        BY <4>1
      <4> QED BY <4>1, <4>2
    <3> QED BY <3>1, <3>2, <3>3, <2>2, <2>3
  <2>7. at = "end" /\ CutShort(n, 0) => Len(given) = n
    BY <2>3, <2>6
  <2>8. \A r \in 1 .. NField - 1 : at = "end" /\ CutShort(n, r) =>
           Len(given) = n + 1 /\ given[n + 1] = Cut(n, r)
    <3> SUFFICES ASSUME NEW r \in 1 .. NField - 1, at = "end", CutShort(n, r)
                 PROVE  Len(given) = n + 1 /\ given[n + 1] = Cut(n, r)
      OBVIOUS
    <3>1. r \in 0 .. NField - 1 /\ r /= 0
      BY <2>3
    <3> QED BY <3>1, <2>6
  <2> QED BY <2>4, <2>5, <2>7, <2>8
<1> QED BY <1>1, ReaderInductive, PTL

(* sim_cache serves every letter in the file once, in order, whatever the  *)
(* file holds.                                                             *)
THEOREM ReaderServes == Spec => []EveryRequestServed
<1>1. ASSUME ReaderInv PROVE EveryRequestServed
  <2> SUFFICES ASSUME sim = "sim_cache", at = "end" PROVE EveryRequestServed
    BY DEF EveryRequestServed
  <2>1. ReaderTypeOK /\ EndSeen /\ Served
    BY <1>1 DEF ReaderInv
  <2>2. \A p \in DOMAIN file : p < pos
    BY <2>1, SizesAre DEF EndSeen
  <2>3. {p \in DOMAIN file : file[p] = "op" /\ p < pos} = {p \in DOMAIN file : file[p] = "op"}
    BY <2>2
  <2> QED BY <2>1, <2>3 DEF Served, EveryRequestServed
<1> QED BY <1>1, ReaderInductive, PTL

(* A bundle of any width holds the instructions that follow, then empty    *)
(* entries, and the loop ends after the first that holds any.              *)
THEOREM ReaderBundles == Spec => []BundlesExact
<1>1. ReaderInv => BundlesExact
  BY DEF ReaderInv
<1> QED BY <1>1, ReaderInductive, PTL

(* The loop ends for no file but a readable one (that it does end for      *)
(* those is a liveness property, and checked only).                        *)
THEOREM ReaderEnds == Spec => []EndsOnlyIfReadable
<1>1. ASSUME ReaderInv PROVE EndsOnlyIfReadable
  <2> SUFFICES ASSUME at = "end", NEW p \in DOMAIN file, file[p] = "op"
               PROVE  sim = "sim_cache" \/ (sim = "sim_bp" /\ p % 2 = 0)
    BY DEF EndsOnlyIfReadable, Readable
  <2>1. p < pos
    BY <1>1, SizesAre DEF ReaderInv, EndSeen
  <2> QED BY <2>1, <1>1 DEF ReaderInv, ReadSoFar
<1> QED BY <1>1, ReaderInductive, PTL
=============================================================================
