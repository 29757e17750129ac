---------------------------- MODULE CacheProofs ----------------------------
(***************************************************************************)
(* CacheInductive's invariant holds in every state of the cache system,    *)
(* for every geometry and every set of blocks; what CacheSystem states of  *)
(* the lists, of the newest versions, of replacement and of the report     *)
(* follows.  First one cache (what request and swap_request do to it, as   *)
(* sets of blocks), then L1 with the victim cache, then where the newest   *)
(* versions are, and last the steps of the whole system.                   *)
(***************************************************************************)
EXTENDS CacheInductive, FiniteSetTheorems, WellFoundedInduction, TLAPS

(* Min of a set of numbers that is not empty is its least element.         *)
LEMMA LeastOf ==
  ASSUME NEW S, S \subseteq Nat, S /= {}
  PROVE  Min(S) \in S /\ \A x \in S : Min(S) <= x
<1> DEFINE R == {p \in Nat \X Nat : p[1] < p[2]}
<1>1. OpToRel(<, Nat) = R
  BY DEF OpToRel
<1>2. \E x \in S : \A y \in S : ~ (<<y, x>> \in R)
  <2>1. IsWellFoundedOn(R, Nat)
    BY <1>1, NatLessThanWellFounded
  <2> HIDE DEF R
  <2> QED BY <2>1, WFMin
<1>3. \A x, y \in Nat : <<y, x>> \in R <=> y < x
  OBVIOUS
<1> HIDE DEF R
<1>4. \E x \in S : \A y \in S : x <= y
  <2>1. PICK x \in S : \A y \in S : ~ (<<y, x>> \in R)
    BY <1>2
  <2>2. ASSUME NEW y \in S PROVE x <= y
    <3>1. x \in Nat /\ y \in Nat
      OBVIOUS
    <3>2. ~(y < x)
      BY <3>1, <2>1, <1>3
    <3> QED BY <3>1, <3>2
  <2> QED BY <2>2
<1> QED BY <1>4 DEF Min

(* Arithmetic of addresses: quotient and remainder of a block number.      *)
LEMMA Division ==
  ASSUME NEW n \in Nat \ {0}, NEW a \in Nat
  PROVE  /\ a \div n \in Nat /\ a % n \in 0 .. n - 1
         /\ a = (a \div n) * n + (a % n)
  OBVIOUS

(* A product is no smaller than its factor.                                *)
LEMMA Grows ==
  ASSUME NEW n \in Nat, NEW d \in Nat, d >= 1
  PROVE  d * n >= n
  OBVIOUS

(* Products distribute over sums.                                          *)
LEMMA Distrib ==
  ASSUME NEW n \in Nat, NEW d \in Nat, NEW q \in Nat
  PROVE  (d + q) * n = d * n + q * n
  OBVIOUS

(* A number has one quotient and one remainder only, so index and tag name *)
(* the block.                                                              *)
LEMMA OneQuotient ==
  ASSUME NEW n \in Nat \ {0}, NEW q \in Nat, NEW p \in Nat, NEW r \in 0 .. n - 1,
         NEW s \in 0 .. n - 1, q * n + r = p * n + s
  PROVE  q = p /\ r = s
<1>1. \A x, y \in Nat : x < y => x * n + n <= y * n
  <2> SUFFICES ASSUME NEW x \in Nat, NEW y \in Nat, x < y PROVE x * n + n <= y * n
    OBVIOUS
  <2> DEFINE d == y - x
  <2>1. d \in Nat /\ d >= 1 /\ y = d + x
    OBVIOUS
  <2> HIDE DEF d
  <2>2. d * n >= n BY <2>1, Grows
  <2>3. (d + x) * n = d * n + x * n BY <2>1, Distrib
  <2>4. d * n \in Nat /\ x * n \in Nat BY <2>1
  <2> QED BY <2>1, <2>2, <2>3, <2>4
<1>2. q * n \in Nat /\ p * n \in Nat
  OBVIOUS
<1>3. ~(q < p)
  BY <1>1, <1>2
<1>4. ~(p < q)
  BY <1>1, <1>2
<1> QED BY <1>3, <1>4, <1>2

(* The block of an index and a tag has this index and this tag.            *)
LEMMA AddressIs ==
  ASSUME NEW n \in Nat \ {0}, NEW q \in Nat, NEW r \in 0 .. n - 1
  PROVE  (q * n + r) \div n = q /\ (q * n + r) % n = r /\ q * n + r \in Nat
<1> DEFINE a == q * n + r
<1>1. a \in Nat
  <2>1. q * n \in Nat OBVIOUS
  <2> QED BY <2>1
<1> HIDE DEF a
<1>2. a \div n \in Nat /\ a % n \in 0 .. n - 1 /\ a = (a \div n) * n + (a % n)
  BY <1>1, Division
<1> DEFINE p == a \div n
           s == a % n
<1> HIDE DEF p, s
<1>3. p * n + s = q * n + r
  BY <1>2 DEF p, s, a
<1>4. p = q /\ s = r
  BY <1>2, <1>3, OneQuotient DEF p, s
<1> QED BY <1>1, <1>4 DEF p, s, a

Sorted(s) ==
  \A w, x \in DOMAIN s : w < x /\ s[x].v => s[w].v /\ s[w].tag /= s[x].tag

Has(s, t)      == \E w \in DOMAIN s : s[w].v /\ s[w].tag = t
HasDirty(s, t) == \E w \in DOMAIN s : s[w].v /\ s[w].d /\ s[w].tag = t
IsAt(s, p, t)  == s[p].v /\ s[p].tag = t

(* The elements of two lists put together.                                 *)
LEMMA ConcatIs ==
  ASSUME NEW S, NEW a \in Seq(S), NEW b \in Seq(S)
  PROVE  /\ a \o b \in Seq(S) /\ Len(a \o b) = Len(a) + Len(b)
         /\ \A j \in 1 .. Len(a) + Len(b) :
              (a \o b)[j] = IF j <= Len(a) THEN a[j] ELSE b[j - Len(a)]
  OBVIOUS

(* Renew puts the new block in front and moves those before its old place  *)
(* one back.                                                               *)
LEMMA RenewIs ==
  ASSUME NEW s \in Seq(Block), NEW p \in 1 .. Len(s), NEW b \in Block
  PROVE  /\ Renew(s, p, b) \in Seq(Block)
         /\ Len(Renew(s, p, b)) = Len(s)
         /\ DOMAIN Renew(s, p, b) = DOMAIN s
         /\ Renew(s, p, b)[1] = b
         /\ \A j \in 2 .. Len(s) :
              Renew(s, p, b)[j] = IF j <= p THEN s[j - 1] ELSE s[j]
<1> DEFINE r1 == SubSeq(s, 1, p - 1)
           r2 == SubSeq(s, p + 1, Len(s))
           n  == Len(s)
<1>1. /\ n \in Nat /\ p \in 1 .. n /\ DOMAIN s = 1 .. n
  OBVIOUS
<1>2. /\ r1 \in Seq(Block) /\ Len(r1) = p - 1
      /\ \A j \in 1 .. p - 1 : r1[j] = s[j]
  OBVIOUS
<1>3. /\ r2 \in Seq(Block) /\ Len(r2) = n - p
      /\ \A j \in 1 .. n - p : r2[j] = s[p + j]
  OBVIOUS
<1> HIDE DEF r1, r2, n
<1>4. /\ r1 \o r2 \in Seq(Block) /\ Len(r1 \o r2) = n - 1
      /\ \A j \in 1 .. n - 1 : (r1 \o r2)[j] = IF j < p THEN s[j] ELSE s[j + 1]
  <2>1. /\ r1 \o r2 \in Seq(Block) /\ Len(r1 \o r2) = (p - 1) + (n - p)
        /\ \A j \in 1 .. (p - 1) + (n - p) :
             (r1 \o r2)[j] = IF j <= p - 1 THEN r1[j] ELSE r2[j - (p - 1)]
    <3>1. /\ r1 \o r2 \in Seq(Block) /\ Len(r1 \o r2) = Len(r1) + Len(r2)
          /\ \A j \in 1 .. Len(r1) + Len(r2) :
               (r1 \o r2)[j] = IF j <= Len(r1) THEN r1[j] ELSE r2[j - Len(r1)]
      BY <1>2, <1>3, ConcatIs
    <3>2. Len(r1) = p - 1 /\ Len(r2) = n - p
      BY <1>2, <1>3
    <3> QED BY <3>1, <3>2, <1>2, <1>3, Zenon
  <2>2. (p - 1) + (n - p) = n - 1
    BY <1>1
  <2>3. ASSUME NEW j \in 1 .. n - 1
        PROVE  (r1 \o r2)[j] = IF j < p THEN s[j] ELSE s[j + 1]
    <3>1. CASE j < p
      BY <3>1, <2>1, <2>2, <1>1, <1>2
    <3>2. CASE ~(j < p)
      <4> DEFINE i == j - (p - 1)
      <4>1. i \in 1 .. n - p /\ p + i = j + 1 /\ ~(j <= p - 1)
        BY <3>2, <1>1
      <4>2. (r1 \o r2)[j] = r2[i]
        BY <2>1, <2>2, <4>1
      <4> HIDE DEF i
      <4>3. r2[i] = s[j + 1]
        BY <1>3, <4>1
      <4> QED BY <3>2, <4>2, <4>3
    <3> QED BY <3>1, <3>2
  <2> QED BY <2>1, <2>2, <2>3
<1> DEFINE q == r1 \o r2
<1> HIDE DEF q
<1>5. /\ q \in Seq(Block) /\ Len(q) = n - 1
      /\ \A j \in 1 .. n - 1 : q[j] = IF j < p THEN s[j] ELSE s[j + 1]
  BY <1>4 DEF q
<1>6. /\ <<b>> \o q \in Seq(Block) /\ Len(<<b>> \o q) = n
      /\ (<<b>> \o q)[1] = b
      /\ \A j \in 2 .. n : (<<b>> \o q)[j] = q[j - 1]
  BY <1>1, <1>5
<1>7. ASSUME NEW j \in 2 .. n
      PROVE  (<<b>> \o q)[j] = IF j <= p THEN s[j - 1] ELSE s[j]
  <2> DEFINE i == j - 1
  <2>1. i \in 1 .. n - 1 /\ (i < p <=> j <= p) /\ i + 1 = j
    BY <1>1
  <2>2. (<<b>> \o q)[j] = q[i]
    BY <1>6
  <2>3. q[i] = IF i < p THEN s[i] ELSE s[i + 1]
    BY <2>1, <1>5
  <2> QED BY <2>1, <2>2, <2>3
<1>8. Renew(s, p, b) = <<b>> \o q
  BY DEF Renew, RemoveAt, q, r1, r2
<1>9. n = Len(s) /\ DOMAIN s = 1 .. n
  BY <1>1 DEF n
<1>10. DOMAIN (<<b>> \o q) = 1 .. n
  BY <1>6
<1> QED BY <1>6, <1>7, <1>8, <1>9, <1>10

(* A list that is sound stays so when a block is renewed, and holds the    *)
(* new block and all but the one at the old place.                         *)
LEMMA RenewLists ==
  ASSUME NEW s \in Seq(Block), NEW p \in 1 .. Len(s), NEW b \in Block,
         Sorted(s), b.v, \A w \in 1 .. Len(s) : s[w].v /\ s[w].tag = b.tag => w = p
  PROVE  /\ Sorted(Renew(s, p, b))
         /\ \A t : Has(Renew(s, p, b), t) <=> t = b.tag \/ (Has(s, t) /\ ~IsAt(s, p, t))
         /\ \A t : HasDirty(Renew(s, p, b), t) <=>
                     IF t = b.tag THEN b.d ELSE HasDirty(s, t) /\ ~IsAt(s, p, t)
<1> DEFINE r == Renew(s, p, b)
           n == Len(s)
<1>1. /\ r \in Seq(Block) /\ Len(r) = n /\ DOMAIN r = 1 .. n /\ r[1] = b
      /\ \A j \in 2 .. n : r[j] = IF j <= p THEN s[j - 1] ELSE s[j]
      /\ n \in Nat /\ p \in 1 .. n /\ DOMAIN s = 1 .. n
  BY RenewIs
<1> DEFINE Old(j) == IF j <= p THEN j - 1 ELSE j
           New(w) == IF w < p THEN w + 1 ELSE w
<1> HIDE DEF r, n
<1>2. \A j \in 2 .. n : Old(j) \in 1 .. n /\ Old(j) /= p /\ r[j] = s[Old(j)]
  BY <1>1
<1>3. \A w \in 1 .. n : w /= p => New(w) \in 2 .. n /\ r[New(w)] = s[w]
  BY <1>1
<1>4. \A j, l \in 2 .. n : j < l => Old(j) < Old(l)
  BY <1>1
<1>5. \A w, x \in 1 .. n : w < x /\ s[x].v => s[w].v /\ s[w].tag /= s[x].tag
  BY <1>1 DEF Sorted
<1>6. \A w \in 1 .. n : s[w].v /\ s[w].tag = b.tag => w = p
  BY DEF n
<1> HIDE DEF Old, New
<1>7. ASSUME NEW w \in 1 .. n, NEW x \in 1 .. n, w < x, r[x].v
      PROVE  r[w].v /\ r[w].tag /= r[x].tag
  <2>1. x \in 2 .. n
    BY <1>7
  <2>2. CASE w = 1
    BY <2>1, <2>2, <1>1, <1>2, <1>6, <1>7
  <2>3. CASE w /= 1
    <3>1. w \in 2 .. n
      BY <2>3
    <3> QED BY <2>1, <3>1, <1>2, <1>4, <1>5, <1>7
  <2> QED BY <2>2, <2>3
<1>8. Sorted(r)
  BY <1>1, <1>7 DEF Sorted
<1>9. ASSUME NEW t
      PROVE  Has(r, t) <=> t = b.tag \/ (Has(s, t) /\ ~IsAt(s, p, t))
  <2>1. ASSUME NEW j \in 1 .. n, r[j].v, r[j].tag = t
        PROVE  t = b.tag \/ (Has(s, t) /\ ~IsAt(s, p, t))
    <3>1. CASE j = 1
      BY <2>1, <3>1, <1>1
    <3>2. CASE j /= 1
      <4>1. j \in 2 .. n
        BY <3>2
      <4>2. PICK w \in 1 .. n : w /= p /\ s[w].v /\ s[w].tag = t
        BY <4>1, <2>1, <1>2
      <4>3. ~IsAt(s, p, t)
        BY <4>2, <1>1, <1>5 DEF IsAt
      <4> QED BY <4>2, <4>3, <1>1 DEF Has
    <3> QED BY <3>1, <3>2
  <2>2. ASSUME t = b.tag
        PROVE  Has(r, t)
    BY <2>2, <1>1 DEF Has
  <2>3. ASSUME NEW w \in 1 .. n, s[w].v, s[w].tag = t, ~IsAt(s, p, t)
        PROVE  Has(r, t)
    <3>1. w /= p
      BY <2>3 DEF IsAt
    <3>2. New(w) \in DOMAIN r /\ r[New(w)] = s[w]
      BY <3>1, <1>1, <1>3
    <3> QED BY <3>2, <2>3 DEF Has
  <2> QED BY <2>1, <2>2, <2>3, <1>1 DEF Has
<1>10. ASSUME NEW t
       PROVE  HasDirty(r, t) <=>
                IF t = b.tag THEN b.d ELSE HasDirty(s, t) /\ ~IsAt(s, p, t)
  <2>1. CASE t = b.tag
    <3>1. ASSUME NEW j \in 1 .. n, r[j].v, r[j].tag = t
          PROVE  j = 1
      <4>1. CASE j \in 2 .. n
        BY <4>1, <3>1, <2>1, <1>2, <1>6
      <4> QED BY <4>1, <1>1
    <3> QED BY <3>1, <2>1, <1>1 DEF HasDirty
  <2>2. CASE t /= b.tag
    <3>1. ASSUME NEW j \in 1 .. n, r[j].v, r[j].d, r[j].tag = t
          PROVE  HasDirty(s, t) /\ ~IsAt(s, p, t)
      <4>1. j \in 2 .. n
        BY <3>1, <2>2, <1>1
      <4>2. PICK w \in 1 .. n : w /= p /\ s[w].v /\ s[w].d /\ s[w].tag = t
        BY <4>1, <3>1, <1>2
      <4>3. ~IsAt(s, p, t)
        BY <4>2, <1>1, <1>5 DEF IsAt
      <4> QED BY <4>2, <4>3, <1>1 DEF HasDirty
    <3>2. ASSUME NEW w \in 1 .. n, s[w].v, s[w].d, s[w].tag = t, ~IsAt(s, p, t)
          PROVE  HasDirty(r, t)
      <4>1. w /= p
        BY <3>2 DEF IsAt
      <4>2. New(w) \in DOMAIN r /\ r[New(w)] = s[w]
        BY <4>1, <1>1, <1>3
      <4> QED BY <4>2, <3>2 DEF HasDirty
    <3> QED BY <3>1, <3>2, <2>2, <1>1 DEF HasDirty
  <2> QED BY <2>1, <2>2
<1> QED BY <1>8, <1>9, <1>10 DEF r

(***************************************************************************)
(* One cache.                                                              *)
(***************************************************************************)
Sound(c, n, k) ==
  n \in Nat \ {0} /\ k \in Nat \ {0} /\ CacheOK(c, n, k) /\ ListOK(c)

(* What a sound cache is made of.                                          *)
LEMMA SoundIs ==
  ASSUME NEW c, NEW n, NEW k, Sound(c, n, k)
  PROVE  /\ c.SET_NUM = n /\ n \in Nat \ {0} /\ k \in Nat \ {0}
         /\ DOMAIN c.sets = 0 .. n - 1
         /\ \A i \in 0 .. n - 1 :
              /\ c.sets[i] \in Seq(Block) /\ Len(c.sets[i]) = k
              /\ DOMAIN c.sets[i] = 1 .. k /\ Sorted(c.sets[i])
<1>1. /\ n \in Nat \ {0} /\ k \in Nat \ {0}
      /\ c.SET_NUM = n /\ c.sets \in [0 .. n - 1 -> Seq(Block)]
      /\ \A i \in 0 .. n - 1 : Len(c.sets[i]) = k
  BY DEF Sound, CacheOK
<1>2. ASSUME NEW i \in 0 .. n - 1
      PROVE  /\ c.sets[i] \in Seq(Block) /\ Len(c.sets[i]) = k
             /\ DOMAIN c.sets[i] = 1 .. k /\ Sorted(c.sets[i])
  <2>1. c.sets[i] \in Seq(Block) /\ Len(c.sets[i]) = k
    BY <1>1
  <2>2. DOMAIN c.sets[i] = 1 .. k
    BY <2>1
  <2>3. Sorted(c.sets[i])
    BY <1>1 DEF Sound, ListOK, Sorted
  <2> QED BY <2>1, <2>2, <2>3
<1> QED BY <1>1, <1>2

(* Index and tag of an address, and back.                                  *)
LEMMA SplitIs ==
  ASSUME NEW c, NEW n \in Nat \ {0}, c.SET_NUM = n
  PROVE  /\ \A a \in Nat : /\ IndexOf(c, a) \in 0 .. n - 1 /\ TagOf(c, a) \in Nat
                           /\ AddrOf(c, IndexOf(c, a), TagOf(c, a)) = a
         /\ \A i \in 0 .. n - 1 : \A t \in Nat :
              /\ AddrOf(c, i, t) \in Nat
              /\ IndexOf(c, AddrOf(c, i, t)) = i /\ TagOf(c, AddrOf(c, i, t)) = t
<1>1. \A a \in Nat : /\ IndexOf(c, a) \in 0 .. n - 1 /\ TagOf(c, a) \in Nat
                     /\ AddrOf(c, IndexOf(c, a), TagOf(c, a)) = a
  BY Division DEF IndexOf, TagOf, AddrOf
<1>2. \A i \in 0 .. n - 1 : \A t \in Nat :
        /\ AddrOf(c, i, t) \in Nat
        /\ IndexOf(c, AddrOf(c, i, t)) = i /\ TagOf(c, AddrOf(c, i, t)) = t
  BY AddressIs DEF IndexOf, TagOf, AddrOf
<1> QED BY <1>1, <1>2

(* The same for one index and one tag.                                     *)
LEMMA AddrIs ==
  ASSUME NEW c, NEW n \in Nat \ {0}, c.SET_NUM = n, NEW i \in 0 .. n - 1, NEW t \in Nat
  PROVE  /\ AddrOf(c, i, t) \in Nat
         /\ IndexOf(c, AddrOf(c, i, t)) = i /\ TagOf(c, AddrOf(c, i, t)) = t
  BY AddressIs DEF IndexOf, TagOf, AddrOf

(* A cache holds a block if its set does; a dirty block is held.           *)
LEMMA HoldsIs ==
  ASSUME NEW c, NEW a
  PROVE  /\ Holds(c, a) <=> Has(c.sets[IndexOf(c, a)], TagOf(c, a))
         /\ IsDirty(c, a) <=> HasDirty(c.sets[IndexOf(c, a)], TagOf(c, a))
         /\ IsDirty(c, a) => Holds(c, a)
  BY DEF Holds, IsDirty, Has, HasDirty

(* The scan finds the block if it is there, else the first invalid block,  *)
(* else the last one.                                                      *)
LEMMA PlaceIs ==
  ASSUME NEW c, NEW n, NEW k, Sound(c, n, k), NEW a \in Nat
  PROVE  LET s == c.sets[IndexOf(c, a)]
             t == TagOf(c, a)
             p == PlaceOf(c, a)
         IN  /\ p \in 1 .. k /\ FoundAt(c, a) = s[p] /\ s[p] \in Block
             /\ \A w \in 1 .. k : s[w].v /\ s[w].tag = t => w = p
             /\ Has(s, t) <=> IsAt(s, p, t)
             /\ Returned(c, a) = "HIT" <=> Has(s, t)
             /\ Evicts(Returned(c, a)) <=> ~Has(s, t) /\ \A w \in 1 .. k : s[w].v
             /\ Evicts(Returned(c, a)) => p = k
             /\ ~Has(s, t) /\ ~Evicts(Returned(c, a)) => ~s[p].v
             /\ Returned(c, a) = "EVICT_DIRTY" => s[p].d
             /\ Returned(c, a) = "EVICT_CLEAN" => ~s[p].d
             /\ Returned(c, a) \in {"HIT", "MISS", "EVICT_DIRTY", "EVICT_CLEAN"}
<1> DEFINE s == c.sets[IndexOf(c, a)]
           t == TagOf(c, a)
           p == PlaceOf(c, a)
           S == {w \in DOMAIN s : ~s[w].v \/ s[w].tag = t}
<1>1. /\ s \in Seq(Block) /\ Len(s) = k /\ DOMAIN s = 1 .. k /\ Sorted(s)
      /\ k \in Nat \ {0}
  BY SoundIs, SplitIs
<1>2. /\ StopAt(c, a) = S /\ p = IF S = {} THEN Len(s) ELSE Min(S)
      /\ FoundAt(c, a) = s[p]
      /\ Returned(c, a) = IF S = {} THEN IF s[p].d THEN "EVICT_DIRTY" ELSE "EVICT_CLEAN"
                          ELSE IF s[p].v THEN "HIT" ELSE "MISS"
  BY DEF StopAt, PlaceOf, FoundAt, Returned
<1> HIDE DEF s, t, p
<1>3. S \subseteq Nat /\ \A w \in 1 .. k : w \in S <=> ~s[w].v \/ s[w].tag = t
  BY <1>1
<1>4. S \subseteq 1 .. k
  BY <1>1
<1> HIDE DEF S
<1>5. \A w, x \in 1 .. k : w < x /\ s[x].v => s[w].v /\ s[w].tag /= s[x].tag
  BY <1>1 DEF Sorted
<1>6. CASE S = {}
  <2>1. p = k /\ p \in 1 .. k /\ s[p] \in Block
    BY <1>1, <1>2, <1>6
  <2>2. \A w \in 1 .. k : s[w].v /\ s[w].tag /= t
    BY <1>3, <1>6
  <2>3. ~Has(s, t) /\ ~IsAt(s, p, t)
    BY <2>1, <2>2, <1>1 DEF Has, IsAt
  <2>4. /\ Returned(c, a) \in {"EVICT_DIRTY", "EVICT_CLEAN"} /\ Evicts(Returned(c, a))
        /\ Returned(c, a) = "EVICT_DIRTY" => s[p].d
        /\ Returned(c, a) = "EVICT_CLEAN" => ~s[p].d
    BY <1>2, <1>6 DEF Evicts
  <2> QED BY <2>1, <2>2, <2>3, <2>4, <1>2 DEF s, t, p
<1>7. CASE S /= {}
  <2>1. p \in S /\ \A x \in S : p <= x
    BY <1>2, <1>3, <1>7, LeastOf
  <2>2. p \in 1 .. k /\ s[p] \in Block
    BY <2>1, <1>1, <1>4
  <2>3. \A w \in 1 .. k : s[w].v /\ s[w].tag = t => w = p
    <3> SUFFICES ASSUME NEW w \in 1 .. k, s[w].v, s[w].tag = t, w /= p
                 PROVE  FALSE
      OBVIOUS
    <3>1. w \in S /\ p <= w
      BY <2>1, <1>3
    <3>2. p < w
      BY <3>1, <2>2
    <3>3. s[p].v /\ s[p].tag /= t
      BY <3>2, <2>2, <1>5
    <3> QED BY <3>3, <2>1, <2>2, <1>3
  <2>4. Has(s, t) <=> IsAt(s, p, t)
    BY <2>2, <2>3, <1>1 DEF Has, IsAt
  <2>5. s[p].v <=> Has(s, t)
    BY <2>1, <2>2, <2>4, <1>3 DEF IsAt
  <2>6. /\ Returned(c, a) = (IF s[p].v THEN "HIT" ELSE "MISS")
        /\ ~Evicts(Returned(c, a))
    BY <1>2, <1>7 DEF Evicts
  <2> QED BY <2>2, <2>3, <2>4, <2>5, <2>6, <1>2 DEF s, t, p
<1> QED BY <1>6, <1>7

(* The block that request puts in front, and the one it may evict.         *)
NewBlock(c, rw, a) ==
  [tag |-> TagOf(c, a), v |-> TRUE,
   d |-> rw = "WRITE" \/ (Returned(c, a) = "HIT" /\ FoundAt(c, a).d)]

Victim(c, a) == AddrOf(c, IndexOf(c, a), FoundAt(c, a).tag)

(* What the report adds up.                                                *)
CountsAfter(r, c, rw, rtn) ==
  /\ r.rmiss + r.wmiss = c.rmiss + c.wmiss + (IF rtn = "HIT" THEN 0 ELSE 1)
  /\ r.writebacks = c.writebacks + (IF rtn = "EVICT_DIRTY" THEN 1 ELSE 0)
  /\ r.reads = c.reads + (IF rw = "READ" THEN 1 ELSE 0)
  /\ r.writes = c.writes + (IF rw = "WRITE" THEN 1 ELSE 0)
  /\ r.swaps = c.swaps

AfterRequest(r, c, n, k, rw, a) ==
  /\ r.SET_NUM = n /\ CacheOK(r, n, k)
  /\ r.sets = [c.sets EXCEPT ![IndexOf(c, a)] =
                 Renew(c.sets[IndexOf(c, a)], PlaceOf(c, a), NewBlock(c, rw, a))]
  /\ Evicts(Returned(c, a)) => /\ r.blk_v = FoundAt(c, a)
                               /\ r.addr_evict = Victim(c, a)
  /\ rw = "READ" \/ rw = "WRITE" => CountsAfter(r, c, rw, Returned(c, a))

(* The fields of a cache after request.                                    *)
LEMMA RequestedFields ==
  ASSUME NEW c, NEW n, NEW k, Sound(c, n, k), NEW a \in Nat, NEW rw
  PROVE  AfterRequest(Requested(c, rw, a), c, n, k, rw, a)
<1> DEFINE r == Requested(c, rw, a)
           i == IndexOf(c, a)
           s == c.sets[i]
           p == PlaceOf(c, a)
           b == NewBlock(c, rw, a)
           new == Renew(s, p, b)
<1>1. /\ c \in [SET_NUM : {n}, sets : [0 .. n - 1 -> Seq(Block)],
                blk_v : Block \cup {None}, addr_evict : Nat \cup {None},
                reads : Nat, rmiss : Nat, writes : Nat, wmiss : Nat,
                writebacks : Nat, swaps : Nat, access : Nat]
      /\ \A j \in 0 .. n - 1 : Len(c.sets[j]) = k
  BY DEF Sound, CacheOK
<1>2. /\ i \in 0 .. n - 1 /\ TagOf(c, a) \in Nat /\ n \in Nat \ {0}
      /\ s \in Seq(Block) /\ Len(s) = k
  BY SoundIs, SplitIs
<1>3. p \in 1 .. k /\ FoundAt(c, a) = s[p] /\ s[p] \in Block
  BY PlaceIs
<1>4. b \in Block
  BY <1>2, <1>3 DEF NewBlock, Block
<1>5. new \in Seq(Block) /\ Len(new) = k
  <2>1. s \in Seq(Block) /\ p \in 1 .. Len(s) /\ b \in Block /\ Len(s) = k
    BY <1>2, <1>3, <1>4
  <2> HIDE DEF s, p, b
  <2>2. Renew(s, p, b) \in Seq(Block) /\ Len(Renew(s, p, b)) = Len(s)
    BY <2>1, RenewIs
  <2> QED BY <2>1, <2>2
<1>6. Victim(c, a) \in Nat
  <2>1. FoundAt(c, a).tag \in Nat /\ c.SET_NUM = n
    BY <1>1, <1>3 DEF Block
  <2> QED BY <2>1, <1>2, SplitIs DEF Victim
<1>7. r = [c EXCEPT
             !.sets[i]    = new,
             !.blk_v      = IF Evicts(Returned(c, a)) THEN FoundAt(c, a) ELSE @,
             !.addr_evict = IF Evicts(Returned(c, a)) THEN Victim(c, a) ELSE @,
             !.reads      = @ + One(rw = "READ"),
             !.writes     = @ + One(rw = "WRITE"),
             !.rmiss      = @ + One(rw = "READ" /\ Returned(c, a) /= "HIT"),
             !.wmiss      = @ + One(rw = "WRITE" /\ Returned(c, a) /= "HIT"),
             !.writebacks = @ + One(Returned(c, a) = "EVICT_DIRTY"),
             !.access     = @ + 1]
  BY DEF Requested, NewBlock, Victim
<1> HIDE DEF r, new, i
<1>8. /\ r.SET_NUM = n /\ r.sets = [c.sets EXCEPT ![i] = new]
      /\ r.blk_v = IF Evicts(Returned(c, a)) THEN FoundAt(c, a) ELSE c.blk_v
      /\ r.addr_evict = IF Evicts(Returned(c, a)) THEN Victim(c, a) ELSE c.addr_evict
      /\ r.reads  = c.reads + One(rw = "READ")
      /\ r.writes = c.writes + One(rw = "WRITE")
      /\ r.rmiss  = c.rmiss + One(rw = "READ" /\ Returned(c, a) /= "HIT")
      /\ r.wmiss  = c.wmiss + One(rw = "WRITE" /\ Returned(c, a) /= "HIT")
      /\ r.writebacks = c.writebacks + One(Returned(c, a) = "EVICT_DIRTY")
      /\ r.swaps = c.swaps /\ r.access = c.access + 1
  BY <1>1, <1>7
<1>9. CacheOK(r, n, k)
  <2>2. r \in [SET_NUM : {n}, sets : [0 .. n - 1 -> Seq(Block)],
               blk_v : Block \cup {None}, addr_evict : Nat \cup {None},
               reads : Nat, rmiss : Nat, writes : Nat, wmiss : Nat,
               writebacks : Nat, swaps : Nat, access : Nat]
    <3>1. /\ r.SET_NUM \in {n} /\ r.sets \in [0 .. n - 1 -> Seq(Block)]
          /\ r.blk_v \in Block \cup {None} /\ r.addr_evict \in Nat \cup {None}
      <4>1. r.SET_NUM \in {n}
        BY <1>8
      <4>2. r.sets \in [0 .. n - 1 -> Seq(Block)]
        <5>1. c.sets \in [0 .. n - 1 -> Seq(Block)]
          BY <1>1
        <5> QED BY <5>1, <1>2, <1>5, <1>8
      <4>3. r.blk_v \in Block \cup {None}
        BY <1>1, <1>3, <1>8
      <4>4. r.addr_evict \in Nat \cup {None}
        BY <1>1, <1>6, <1>8
      <4> QED BY <4>1, <4>2, <4>3, <4>4
    <3>2. /\ r.reads \in Nat /\ r.rmiss \in Nat /\ r.writes \in Nat /\ r.wmiss \in Nat
          /\ r.writebacks \in Nat /\ r.swaps \in Nat /\ r.access \in Nat
      <4>1. /\ c.reads \in Nat /\ c.rmiss \in Nat /\ c.writes \in Nat /\ c.wmiss \in Nat
            /\ c.writebacks \in Nat /\ c.swaps \in Nat /\ c.access \in Nat
        BY <1>1
      <4>2. /\ One(rw = "READ") \in Nat /\ One(rw = "WRITE") \in Nat
            /\ One(rw = "READ" /\ Returned(c, a) /= "HIT") \in Nat
            /\ One(rw = "WRITE" /\ Returned(c, a) /= "HIT") \in Nat
            /\ One(Returned(c, a) = "EVICT_DIRTY") \in Nat
        BY DEF One
      <4> QED BY <4>1, <4>2, <1>8
    <3>3. r = [SET_NUM |-> r.SET_NUM, sets |-> r.sets, blk_v |-> r.blk_v,
               addr_evict |-> r.addr_evict, reads |-> r.reads, rmiss |-> r.rmiss,
               writes |-> r.writes, wmiss |-> r.wmiss, writebacks |-> r.writebacks,
               swaps |-> r.swaps, access |-> r.access]
      BY <1>1, <1>7
    <3> QED BY <3>1, <3>2, <3>3
  <2>3. \A j \in 0 .. n - 1 : Len(r.sets[j]) = k
    BY <1>1, <1>2, <1>5, <1>8
  <2> QED BY <2>2, <2>3 DEF CacheOK
<1>10. rw = "READ" \/ rw = "WRITE" => CountsAfter(r, c, rw, Returned(c, a))
  <2> SUFFICES ASSUME rw = "READ" \/ rw = "WRITE"
               PROVE  CountsAfter(r, c, rw, Returned(c, a))
    OBVIOUS
  <2>1. /\ c.reads \in Nat /\ c.rmiss \in Nat /\ c.writes \in Nat /\ c.wmiss \in Nat
        /\ c.writebacks \in Nat /\ c.swaps \in Nat
    BY <1>1
  <2>2. r.writebacks = c.writebacks + (IF Returned(c, a) = "EVICT_DIRTY" THEN 1 ELSE 0)
    BY <1>8 DEF One
  <2>3. /\ r.reads = c.reads + (IF rw = "READ" THEN 1 ELSE 0)
        /\ r.writes = c.writes + (IF rw = "WRITE" THEN 1 ELSE 0)
    BY <1>8 DEF One
  <2>4. r.rmiss + r.wmiss = c.rmiss + c.wmiss + (IF Returned(c, a) = "HIT" THEN 0 ELSE 1)
    <3>1. CASE rw = "READ"
      <4>1. r.rmiss = c.rmiss + (IF Returned(c, a) = "HIT" THEN 0 ELSE 1)
        BY <3>1, <1>8 DEF One
      <4>2. r.wmiss = c.wmiss + 0
        BY <3>1, <1>8 DEF One
      <4> QED BY <4>1, <4>2, <2>1
    <3>2. CASE rw = "WRITE"
      <4>1. r.wmiss = c.wmiss + (IF Returned(c, a) = "HIT" THEN 0 ELSE 1)
        BY <3>2, <1>8 DEF One
      <4>2. r.rmiss = c.rmiss + 0
        BY <3>2, <1>8 DEF One
      <4> QED BY <4>1, <4>2, <2>1
    <3> QED BY <3>1, <3>2
  <2> QED BY <2>2, <2>3, <2>4, <1>8 DEF CountsAfter
<1> QED BY <1>8, <1>9, <1>10 DEF r, new, i, s, p, b, AfterRequest

(* What request does to what a cache holds.                                *)
LEMMA RequestedIs ==
  ASSUME NEW c, NEW n, NEW k, Sound(c, n, k), NEW a \in Nat, NEW rw
  PROVE  LET r == Requested(c, rw, a)
             v == Victim(c, a)
         IN  /\ Sound(r, n, k)
             /\ \A b \in Nat : Holds(r, b) <=>
                  \/ b = a
                  \/ Holds(c, b) /\ ~(Evicts(Returned(c, a)) /\ b = v)
             /\ \A b \in Nat : IsDirty(r, b) <=>
                  IF b = a THEN rw = "WRITE" \/ IsDirty(c, a)
                  ELSE IsDirty(c, b) /\ ~(Evicts(Returned(c, a)) /\ b = v)
             /\ \A i \in 0 .. n - 1 : IsFull(c, i) => IsFull(r, i)
<1> DEFINE r == Requested(c, rw, a)
           v == Victim(c, a)
           i == IndexOf(c, a)
           t == TagOf(c, a)
           s == c.sets[i]
           p == PlaceOf(c, a)
           new == NewBlock(c, rw, a)
           z == Renew(s, p, new)
           E == Evicts(Returned(c, a))
<1>1. /\ n \in Nat \ {0} /\ k \in Nat \ {0} /\ c.SET_NUM = n
      /\ DOMAIN c.sets = 0 .. n - 1
      /\ \A j \in 0 .. n - 1 :
              /\ c.sets[j] \in Seq(Block) /\ Len(c.sets[j]) = k
              /\ DOMAIN c.sets[j] = 1 .. k /\ Sorted(c.sets[j])
  BY SoundIs
<1>2. i \in 0 .. n - 1 /\ t \in Nat
  BY <1>1, SplitIs
<1>3. /\ s \in Seq(Block) /\ Len(s) = k /\ DOMAIN s = 1 .. k /\ Sorted(s)
  BY <1>1, <1>2
<1>4. /\ p \in 1 .. k /\ FoundAt(c, a) = s[p] /\ s[p] \in Block
      /\ \A w \in 1 .. k : s[w].v /\ s[w].tag = t => w = p
      /\ Has(s, t) <=> IsAt(s, p, t)
      /\ Returned(c, a) = "HIT" <=> Has(s, t)
      /\ E <=> ~Has(s, t) /\ \A w \in 1 .. k : s[w].v
      /\ ~Has(s, t) /\ ~E => ~s[p].v
  BY PlaceIs
<1>5. new \in Block /\ new.v /\ new.tag = t
      /\ (new.d <=> rw = "WRITE" \/ (Returned(c, a) = "HIT" /\ s[p].d))
  BY <1>2, <1>4 DEF NewBlock, Block
<1>6. /\ CacheOK(r, n, k) /\ r.SET_NUM = n /\ r.sets = [c.sets EXCEPT ![i] = z]
  <2>1. AfterRequest(r, c, n, k, rw, a)
    BY RequestedFields
  <2> QED BY <2>1 DEF AfterRequest
<1> HIDE DEF r, new, i, t, p, s, v, E
<1>7. \A w \in 1 .. Len(s) : s[w].v /\ s[w].tag = new.tag => w = p
  BY <1>3, <1>4, <1>5
<1>8. /\ Sorted(z)
      /\ \A x : Has(z, x) <=> x = new.tag \/ (Has(s, x) /\ ~IsAt(s, p, x))
      /\ \A x : HasDirty(z, x) <=>
                     IF x = new.tag THEN new.d ELSE HasDirty(s, x) /\ ~IsAt(s, p, x)
  BY <1>3, <1>4, <1>5, <1>7, RenewLists
<1>9. /\ DOMAIN z = 1 .. k /\ Len(z) = k
      /\ \A w \in 1 .. k : s[w].v => z[w].v
  <2>1. /\ DOMAIN z = DOMAIN s /\ z[1] = new /\ Len(z) = k
        /\ \A j \in 2 .. k : z[j] = IF j <= p THEN s[j - 1] ELSE s[j]
    <3>1. /\ DOMAIN z = DOMAIN s /\ z[1] = new /\ Len(z) = Len(s)
          /\ \A j \in 2 .. Len(s) : z[j] = IF j <= p THEN s[j - 1] ELSE s[j]
      <4>1. s \in Seq(Block) /\ p \in 1 .. Len(s) /\ new \in Block
        BY <1>3, <1>4, <1>5
      <4> QED BY <4>1, RenewIs
    <3> QED BY <3>1, <1>3
  <2> HIDE DEF z
  <2>2. ASSUME NEW w \in 1 .. k, s[w].v
        PROVE  z[w].v
    <3>1. CASE w = 1
      BY <3>1, <2>1, <1>5
    <3>2. CASE w \in 2 .. k /\ w <= p
      <4>1. w - 1 \in 1 .. k /\ w - 1 < w
        BY <3>2, <1>1
      <4>2. s[w - 1].v
        BY <4>1, <2>2, <1>3 DEF Sorted
      <4> QED BY <3>2, <4>2, <2>1
    <3>3. CASE w \in 2 .. k /\ ~(w <= p)
      BY <3>3, <2>1, <2>2
    <3> QED BY <3>1, <3>2, <3>3, <1>1
  <2> QED BY <2>1, <2>2, <1>3
<1> HIDE DEF z
<1>10. \A j \in 0 .. n - 1 : r.sets[j] = IF j = i THEN z ELSE c.sets[j]
  BY <1>1, <1>2, <1>6
<1>11. Sound(r, n, k)
  <2>1. \A j \in 0 .. n - 1 : DOMAIN r.sets[j] = 1 .. k /\ Sorted(r.sets[j])
    BY <1>1, <1>2, <1>8, <1>9, <1>10
  <2>2. ListOK(r)
    BY <2>1, <1>6 DEF ListOK, Sorted
  <2> QED BY <2>2, <1>1, <1>6 DEF Sound
<1>12. \A b : IndexOf(r, b) = IndexOf(c, b) /\ TagOf(r, b) = TagOf(c, b)
  BY <1>1, <1>6 DEF IndexOf, TagOf
<1>13. \A j \in 0 .. n - 1 : IsFull(c, j) => IsFull(r, j)
  BY <1>1, <1>2, <1>3, <1>9, <1>10 DEF IsFull, s
<1>14. E => s[p].v /\ s[p].tag \in Nat /\ ~Has(s, t)
  BY <1>4 DEF Block
<1>15. ASSUME NEW b \in Nat
       PROVE  /\ IndexOf(c, b) \in 0 .. n - 1 /\ TagOf(c, b) \in Nat
              /\ b = a <=> IndexOf(c, b) = i /\ TagOf(c, b) = t
              /\ E => (b = v <=> IndexOf(c, b) = i /\ TagOf(c, b) = s[p].tag)
  <2>1. /\ IndexOf(c, b) \in 0 .. n - 1 /\ TagOf(c, b) \in Nat
        /\ AddrOf(c, IndexOf(c, b), TagOf(c, b)) = b
        /\ AddrOf(c, i, t) = a
    BY <1>1, SplitIs DEF i, t
  <2>2. v = AddrOf(c, i, s[p].tag)
    BY <1>4 DEF v, Victim, i
  <2>3. E => IndexOf(c, v) = i /\ TagOf(c, v) = s[p].tag
    <3>1. ASSUME E PROVE IndexOf(c, v) = i /\ TagOf(c, v) = s[p].tag
      <4>1. s[p].tag \in Nat /\ c.SET_NUM = n /\ n \in Nat \ {0} /\ i \in 0 .. n - 1
        BY <3>1, <1>1, <1>2, <1>14
      <4> HIDE DEF s, p, i, v
      <4> QED BY ONLY <4>1, <2>2, AddrIs
    <3> QED BY <3>1
  <2> QED BY <2>1, <2>2, <2>3 DEF i, t
<1>16. ASSUME NEW b \in Nat
       PROVE  /\ Holds(r, b) <=> b = a \/ (Holds(c, b) /\ ~(E /\ b = v))
              /\ IsDirty(r, b) <=> IF b = a THEN rw = "WRITE" \/ IsDirty(c, a)
                                   ELSE IsDirty(c, b) /\ ~(E /\ b = v)
  <2> DEFINE x == TagOf(c, b)
             j == IndexOf(c, b)
  <2>1. /\ Holds(r, b) <=> Has(r.sets[j], x)
        /\ IsDirty(r, b) <=> HasDirty(r.sets[j], x)
        /\ Holds(c, b) <=> Has(c.sets[j], x)
        /\ IsDirty(c, b) <=> HasDirty(c.sets[j], x)
    BY <1>12, HoldsIs
  <2>2. /\ j \in 0 .. n - 1 /\ x \in Nat
        /\ b = a <=> j = i /\ x = t
        /\ E => (b = v <=> j = i /\ x = s[p].tag)
    BY <1>15
  <2>3. IsDirty(c, a) <=> HasDirty(s, t)
    BY HoldsIs DEF s, i, t
  <2>4. s = c.sets[i]
    BY DEF s
  <2> HIDE DEF x, j
  <2>5. CASE j /= i
    BY <2>1, <2>2, <2>5, <1>10
  <2>6. CASE j = i /\ x = t
    <3>1. HasDirty(s, t) <=> Has(s, t) /\ s[p].d
      BY <1>3, <1>4 DEF Has, HasDirty, IsAt
    <3>2. r.sets[j] = z /\ b = a
      BY <2>2, <2>6, <1>10
    <3>3. Has(z, x) /\ (HasDirty(z, x) <=> new.d)
      BY <2>6, <1>5, <1>8
    <3>4. new.d <=> rw = "WRITE" \/ HasDirty(s, t)
      BY <3>1, <1>4, <1>5
    <3> QED BY <2>1, <2>3, <3>2, <3>3, <3>4
  <2>7. CASE j = i /\ x /= t
    <3>1. r.sets[j] = z /\ b /= a /\ c.sets[j] = s
      BY <2>2, <2>4, <2>7, <1>10
    <3>2. /\ Has(z, x) <=> Has(s, x) /\ ~IsAt(s, p, x)
          /\ HasDirty(z, x) <=> HasDirty(s, x) /\ ~IsAt(s, p, x)
      BY <2>7, <1>5, <1>8
    <3>3. Has(s, x) => (IsAt(s, p, x) <=> E /\ b = v)
      <4>1. CASE E
        BY <4>1, <2>2, <2>7, <1>14 DEF IsAt
      <4>2. CASE ~E
        <5>1. CASE Has(s, t)
          BY <5>1, <4>2, <2>7, <1>4 DEF IsAt
        <5>2. CASE ~Has(s, t)
          BY <5>2, <4>2, <1>4 DEF IsAt
        <5> QED BY <5>1, <5>2
      <4> QED BY <4>1, <4>2
    <3>4. HasDirty(s, x) => Has(s, x)
      BY DEF Has, HasDirty
    <3>5. Has(s, x) /\ ~IsAt(s, p, x) <=> Has(s, x) /\ ~(E /\ b = v)
      BY <3>3
    <3>6. HasDirty(s, x) /\ ~IsAt(s, p, x) <=> HasDirty(s, x) /\ ~(E /\ b = v)
      BY <3>3, <3>4
    <3> QED BY <2>1, <3>1, <3>2, <3>5, <3>6
  <2> QED BY <2>5, <2>6, <2>7
<1> QED BY <1>11, <1>13, <1>16 DEF r, v, E

(* What request returns, and the block it evicts.                          *)
LEMMA VictimIs ==
  ASSUME NEW c, NEW n, NEW k, Sound(c, n, k), NEW a \in Nat
  PROVE  /\ Returned(c, a) \in {"HIT", "MISS", "EVICT_DIRTY", "EVICT_CLEAN"}
         /\ Returned(c, a) = "HIT" <=> Holds(c, a)
         /\ Evicts(Returned(c, a)) <=> ~Holds(c, a) /\ IsFull(c, IndexOf(c, a))
         /\ Evicts(Returned(c, a)) =>
              /\ Victim(c, a) \in Nat /\ Victim(c, a) /= a
              /\ Holds(c, Victim(c, a)) /\ IndexOf(c, Victim(c, a)) = IndexOf(c, a)
              /\ FoundAt(c, a) \in Block
              /\ FoundAt(c, a).d <=> IsDirty(c, Victim(c, a))
              /\ Returned(c, a) = "EVICT_DIRTY" <=> IsDirty(c, Victim(c, a))
<1> DEFINE i == IndexOf(c, a)
           t == TagOf(c, a)
           s == c.sets[i]
           p == PlaceOf(c, a)
           v == Victim(c, a)
           E == Evicts(Returned(c, a))
<1>1. /\ n \in Nat \ {0} /\ k \in Nat \ {0} /\ c.SET_NUM = n
      /\ i \in 0 .. n - 1 /\ t \in Nat /\ AddrOf(c, i, t) = a
      /\ DOMAIN s = 1 .. k /\ Sorted(s)
  BY SoundIs, SplitIs
<1>2. /\ p \in 1 .. k /\ FoundAt(c, a) = s[p] /\ s[p] \in Block
      /\ Returned(c, a) = "HIT" <=> Has(s, t)
      /\ E <=> ~Has(s, t) /\ \A w \in 1 .. k : s[w].v
      /\ Returned(c, a) = "EVICT_DIRTY" => s[p].d
      /\ Returned(c, a) = "EVICT_CLEAN" => ~s[p].d
      /\ Returned(c, a) \in {"HIT", "MISS", "EVICT_DIRTY", "EVICT_CLEAN"}
  BY PlaceIs
<1>3. Holds(c, a) <=> Has(s, t)
  BY HoldsIs
<1>4. IsFull(c, i) <=> \A w \in 1 .. k : s[w].v
  BY <1>1 DEF IsFull
<1>5. v = AddrOf(c, i, s[p].tag)
  BY <1>2 DEF Victim
<1> HIDE DEF s, p, i, t, v
<1>6. ASSUME E
      PROVE  /\ v \in Nat /\ v /= a /\ Holds(c, v) /\ IndexOf(c, v) = i
             /\ s[p].d <=> IsDirty(c, v)
  <2>1. s[p].v /\ s[p].tag \in Nat /\ s[p].tag /= t
    BY <1>1, <1>2, <1>6 DEF Has, Block
  <2>2. v \in Nat /\ IndexOf(c, v) = i /\ TagOf(c, v) = s[p].tag
    <3>1. s[p].tag \in Nat /\ c.SET_NUM = n /\ n \in Nat \ {0} /\ i \in 0 .. n - 1
      BY <2>1, <1>1
    <3> QED BY ONLY <3>1, <1>5, AddrIs
  <2>3. v /= a
    BY <2>1, <2>2 DEF i, t
  <2>4. Holds(c, v) /\ (IsDirty(c, v) <=> HasDirty(s, s[p].tag))
    BY <2>1, <2>2, <1>1, <1>2, HoldsIs DEF Has, s
  <2>5. \A w \in 1 .. k : s[w].v /\ s[w].tag = s[p].tag => w = p
    BY <2>1, <1>1, <1>2 DEF Sorted
  <2>6. HasDirty(s, s[p].tag) <=> s[p].d
    BY <2>1, <2>5, <1>1, <1>2 DEF HasDirty
  <2> QED BY <2>2, <2>3, <2>4, <2>6
<1>7. E => (Returned(c, a) = "EVICT_DIRTY" <=> s[p].d)
  BY <1>2 DEF Evicts
<1>8. E => FoundAt(c, a) \in Block /\ FoundAt(c, a) = s[p]
  BY <1>2
<1> QED BY <1>2, <1>3, <1>4, <1>6, <1>7, <1>8 DEF i, v

(***************************************************************************)
(* The victim cache, which has one set.                                    *)
(***************************************************************************)
Gone(vc, x, b) ==
  IF Holds(vc, x) THEN b = x
  ELSE Last(vc.sets[0]).v /\ b = Last(vc.sets[0]).tag

SwapPlace(vc, x) ==
  IF SwapReturned(vc, x) = "HIT" THEN Min(SwapAt(vc, x)) ELSE Len(vc.sets[0])

(* The victim cache has one set, and its tags are addresses.               *)
LEMMA OneSet ==
  ASSUME NEW vc, NEW k, Sound(vc, 1, k)
  PROVE  /\ vc.sets[0] \in Seq(Block) /\ Len(vc.sets[0]) = k /\ k \in Nat \ {0}
         /\ DOMAIN vc.sets[0] = 1 .. k /\ Sorted(vc.sets[0])
         /\ vc.SET_NUM = 1 /\ Last(vc.sets[0]) \in Block
         /\ \A b \in Nat : /\ IndexOf(vc, b) = 0 /\ TagOf(vc, b) = b
                           /\ Holds(vc, b) <=> Has(vc.sets[0], b)
                           /\ IsDirty(vc, b) <=> HasDirty(vc.sets[0], b)
<1>1. /\ vc.sets[0] \in Seq(Block) /\ Len(vc.sets[0]) = k /\ k \in Nat \ {0}
      /\ DOMAIN vc.sets[0] = 1 .. k /\ Sorted(vc.sets[0]) /\ vc.SET_NUM = 1
  <2>1. 0 \in 0 .. 1 - 1
    OBVIOUS
  <2> QED BY <2>1, SoundIs
<1>2. Last(vc.sets[0]) \in Block
  BY <1>1 DEF Last
<1>3. ASSUME NEW b \in Nat
      PROVE  /\ IndexOf(vc, b) = 0 /\ TagOf(vc, b) = b
             /\ Holds(vc, b) <=> Has(vc.sets[0], b)
             /\ IsDirty(vc, b) <=> HasDirty(vc.sets[0], b)
  <2>1. IndexOf(vc, b) = 0 /\ TagOf(vc, b) = b
    <3>1. b % 1 = 0 /\ b \div 1 = b
      OBVIOUS
    <3> QED BY <3>1, <1>1 DEF IndexOf, TagOf
  <2> QED BY <2>1, HoldsIs
<1> QED BY <1>1, <1>2, <1>3

(* What swap_request returns, and the block it erases.                     *)
LEMMA SwapPlaceIs ==
  ASSUME NEW vc, NEW k, Sound(vc, 1, k), NEW x \in Nat
  PROVE  LET s == vc.sets[0]
             p == SwapPlace(vc, x)
         IN  /\ p \in 1 .. k /\ s[p] \in Block
             /\ SwapReturned(vc, x) \in {"HIT", "EVICT_DIRTY", "EVICT_CLEAN"}
             /\ SwapReturned(vc, x) = "HIT" <=> Holds(vc, x)
             /\ SwapReturned(vc, x) = "EVICT_DIRTY" <=> ~Holds(vc, x) /\ Last(s).d
             /\ ~Holds(vc, x) => s[p] = Last(s)
             /\ Holds(vc, x) => SwapAt(vc, x) /= {} /\ p = Min(SwapAt(vc, x))
             /\ ~Holds(vc, x) => SwapAt(vc, x) = {}
             /\ Holds(vc, x) => (s[p].d <=> IsDirty(vc, x))
             /\ \A b \in Nat : Holds(vc, b) => (IsAt(s, p, b) <=> Gone(vc, x, b))
<1> DEFINE s == vc.sets[0]
           p == SwapPlace(vc, x)
           S == SwapAt(vc, x)
<1>1. /\ s \in Seq(Block) /\ Len(s) = k /\ k \in Nat \ {0}
      /\ DOMAIN s = 1 .. k /\ Sorted(s) /\ Last(s) \in Block
      /\ \A b \in Nat : /\ Holds(vc, b) <=> Has(s, b)
                        /\ IsDirty(vc, b) <=> HasDirty(s, b)
  BY OneSet
<1>2. /\ S = {w \in DOMAIN s : s[w].tag = x /\ s[w].v}
      /\ SwapReturned(vc, x) = IF S /= {} THEN "HIT"
                               ELSE IF Last(s).d THEN "EVICT_DIRTY" ELSE "EVICT_CLEAN"
      /\ p = IF SwapReturned(vc, x) = "HIT" THEN Min(S) ELSE Len(s)
      /\ Last(s) = s[Len(s)]
  BY DEF SwapAt, SwapReturned, SwapPlace, Last
<1>3. S /= {} <=> Holds(vc, x)
  BY <1>1, <1>2 DEF Has
<1>4. S \subseteq Nat
  BY <1>1, <1>2
<1>5. \A w \in 1 .. k : w \in S <=> s[w].tag = x /\ s[w].v
  BY <1>1, <1>2
<1>6. S \subseteq 1 .. k
  BY <1>1, <1>2
<1> HIDE DEF s, p, S
<1>7. /\ SwapReturned(vc, x) \in {"HIT", "EVICT_DIRTY", "EVICT_CLEAN"}
      /\ SwapReturned(vc, x) = "HIT" <=> Holds(vc, x)
      /\ SwapReturned(vc, x) = "EVICT_DIRTY" <=> ~Holds(vc, x) /\ Last(s).d
  BY <1>2, <1>3
<1>8. CASE Holds(vc, x)
  <2>1. p = Min(S) /\ p \in S
    BY <1>2, <1>3, <1>4, <1>7, <1>8, LeastOf
  <2>2. p \in 1 .. k /\ s[p].v /\ s[p].tag = x /\ s[p] \in Block
    BY <2>1, <1>1, <1>5, <1>6
  <2>3. \A w \in 1 .. k : s[w].v /\ s[w].tag = x => w = p
    BY <2>2, <1>1 DEF Sorted
  <2>4. s[p].d <=> IsDirty(vc, x)
    BY <2>2, <2>3, <1>1 DEF HasDirty
  <2>5. \A b \in Nat : IsAt(s, p, b) <=> Gone(vc, x, b)
    BY <2>2, <1>8 DEF IsAt, Gone
  <2> QED BY <2>1, <2>2, <2>4, <2>5, <1>3, <1>7, <1>8 DEF s, p, S
<1>9. CASE ~Holds(vc, x)
  <2>1. p = k /\ s[p] = Last(s) /\ p \in 1 .. k
    BY <1>1, <1>2, <1>7, <1>9
  <2>2. \A b \in Nat : IsAt(s, p, b) <=> Gone(vc, x, b)
    BY <2>1, <1>9 DEF IsAt, Gone, s
  <2> QED BY <2>1, <2>2, <1>1, <1>3, <1>7, <1>9 DEF s, p, S
<1> QED BY <1>8, <1>9

SwapBlock(l1) == [tag |-> l1.addr_evict, v |-> TRUE, d |-> l1.blk_v.d]

HasEvicted(l1) == l1.addr_evict \in Nat /\ l1.blk_v \in Block

AfterSwap(r, vc, k, l1, x) ==
  /\ r.SET_NUM = 1 /\ CacheOK(r, 1, k)
  /\ r.sets = [vc.sets EXCEPT ![0] = Renew(vc.sets[0], SwapPlace(vc, x), SwapBlock(l1))]
  /\ Evicts(SwapReturned(vc, x)) => r.addr_evict = vc.sets[0][SwapPlace(vc, x)].tag
  /\ r.writebacks = vc.writebacks + (IF SwapReturned(vc, x) = "EVICT_DIRTY" THEN 1 ELSE 0)
  /\ r.swaps = vc.swaps + (IF SwapReturned(vc, x) = "HIT" THEN 1 ELSE 0)

(* The fields of the victim cache after swap_request.                      *)
LEMMA SwappedFields ==
  ASSUME NEW vc, NEW k, Sound(vc, 1, k), NEW x \in Nat, NEW l1,
         HasEvicted(l1)
  PROVE  AfterSwap(Swapped(vc, l1, x), vc, k, l1, x)
<1> DEFINE r == Swapped(vc, l1, x)
           s == vc.sets[0]
           p == SwapPlace(vc, x)
           b == SwapBlock(l1)
           new == Renew(s, p, b)
           E == Evicts(SwapReturned(vc, x))
<1>1. /\ vc \in [SET_NUM : {1}, sets : [0 .. 1 - 1 -> Seq(Block)],
                 blk_v : Block \cup {None}, addr_evict : Nat \cup {None},
                 reads : Nat, rmiss : Nat, writes : Nat, wmiss : Nat,
                 writebacks : Nat, swaps : Nat, access : Nat]
      /\ \A j \in 0 .. 1 - 1 : Len(vc.sets[j]) = k
  BY DEF Sound, CacheOK
<1>2. s \in Seq(Block) /\ Len(s) = k
  BY OneSet
<1>3. p \in 1 .. k /\ s[p] \in Block
  BY SwapPlaceIs
<1>4. b \in Block
  BY DEF Block, SwapBlock, HasEvicted
<1>5. new \in Seq(Block) /\ Len(new) = k
  <2>1. s \in Seq(Block) /\ p \in 1 .. Len(s) /\ b \in Block
    BY <1>2, <1>3, <1>4
  <2> HIDE DEF s, p, b
  <2> QED BY <2>1, <1>2, RenewIs
<1>6. r = [vc EXCEPT
             !.sets[0]    = new,
             !.blk_v      = IF E THEN s[p] ELSE @,
             !.addr_evict = IF E THEN s[p].tag ELSE @,
             !.writebacks = @ + One(SwapReturned(vc, x) = "EVICT_DIRTY"),
             !.swaps      = @ + One(SwapReturned(vc, x) = "HIT"),
             !.access     = @ + 1]
  BY DEF Swapped, SwapPlace, SwapBlock
<1> HIDE DEF r, new, s, p, E
<1>7. /\ r.SET_NUM = 1 /\ r.sets = [vc.sets EXCEPT ![0] = new]
      /\ r.blk_v = IF E THEN s[p] ELSE vc.blk_v
      /\ r.addr_evict = IF E THEN s[p].tag ELSE vc.addr_evict
      /\ r.writebacks = vc.writebacks + One(SwapReturned(vc, x) = "EVICT_DIRTY")
      /\ r.swaps = vc.swaps + One(SwapReturned(vc, x) = "HIT")
      /\ r.reads = vc.reads /\ r.rmiss = vc.rmiss /\ r.writes = vc.writes
      /\ r.wmiss = vc.wmiss /\ r.access = vc.access + 1
  BY <1>1, <1>6
<1>8. CacheOK(r, 1, k)
  <2>1. /\ r.SET_NUM \in {1} /\ r.sets \in [0 .. 1 - 1 -> Seq(Block)]
        /\ r.blk_v \in Block \cup {None} /\ r.addr_evict \in Nat \cup {None}
    <3>1. r.SET_NUM \in {1}
      BY <1>7
    <3>2. r.sets \in [0 .. 1 - 1 -> Seq(Block)]
      <4>1. vc.sets \in [0 .. 1 - 1 -> Seq(Block)]
        BY <1>1
      <4> QED BY <4>1, <1>5, <1>7
    <3>3. r.blk_v \in Block \cup {None}
      BY <1>1, <1>3, <1>7
    <3>4. r.addr_evict \in Nat \cup {None}
      <4>1. s[p].tag \in Nat
        BY <1>3 DEF Block
      <4> QED BY <4>1, <1>1, <1>7
    <3> QED BY <3>1, <3>2, <3>3, <3>4
  <2>2. /\ r.reads \in Nat /\ r.rmiss \in Nat /\ r.writes \in Nat /\ r.wmiss \in Nat
        /\ r.writebacks \in Nat /\ r.swaps \in Nat /\ r.access \in Nat
    <3>1. /\ vc.reads \in Nat /\ vc.rmiss \in Nat /\ vc.writes \in Nat /\ vc.wmiss \in Nat
          /\ vc.writebacks \in Nat /\ vc.swaps \in Nat /\ vc.access \in Nat
      BY <1>1
    <3>2. /\ One(SwapReturned(vc, x) = "EVICT_DIRTY") \in Nat
          /\ One(SwapReturned(vc, x) = "HIT") \in Nat
      BY DEF One
    <3> QED BY <3>1, <3>2, <1>7
  <2>3. r = [SET_NUM |-> r.SET_NUM, sets |-> r.sets, blk_v |-> r.blk_v,
             addr_evict |-> r.addr_evict, reads |-> r.reads, rmiss |-> r.rmiss,
             writes |-> r.writes, wmiss |-> r.wmiss, writebacks |-> r.writebacks,
             swaps |-> r.swaps, access |-> r.access]
    BY <1>1, <1>6
  <2>4. r \in [SET_NUM : {1}, sets : [0 .. 1 - 1 -> Seq(Block)],
               blk_v : Block \cup {None}, addr_evict : Nat \cup {None},
               reads : Nat, rmiss : Nat, writes : Nat, wmiss : Nat,
               writebacks : Nat, swaps : Nat, access : Nat]
    BY <2>1, <2>2, <2>3
  <2>5. \A j \in 0 .. 1 - 1 : Len(r.sets[j]) = k
    BY <1>1, <1>5, <1>7
  <2> QED BY <2>4, <2>5 DEF CacheOK
<1>9. /\ r.writebacks =
           vc.writebacks + (IF SwapReturned(vc, x) = "EVICT_DIRTY" THEN 1 ELSE 0)
      /\ r.swaps = vc.swaps + (IF SwapReturned(vc, x) = "HIT" THEN 1 ELSE 0)
  BY <1>7 DEF One
<1> QED BY <1>7, <1>8, <1>9 DEF r, new, s, p, E, AfterSwap

(* What swap_request does to what the victim cache holds: the block L1     *)
(* evicted comes, the one that is asked for goes, or else the last one.    *)
LEMMA SwappedIs ==
  ASSUME NEW vc, NEW k, Sound(vc, 1, k), UnusedClean(vc), NEW x \in Nat, NEW l1,
         HasEvicted(l1), ~Holds(vc, l1.addr_evict)
  PROVE  LET r == Swapped(vc, l1, x)
             e == l1.addr_evict
         IN  /\ Sound(r, 1, k) /\ UnusedClean(r)
             /\ \A b \in Nat : Holds(r, b) <=> b = e \/ (Holds(vc, b) /\ ~Gone(vc, x, b))
             /\ \A b \in Nat : IsDirty(r, b) <=>
                  IF b = e THEN l1.blk_v.d ELSE IsDirty(vc, b) /\ ~Gone(vc, x, b)
             /\ ~Holds(vc, x) => r.addr_evict = Last(vc.sets[0]).tag
<1> DEFINE r == Swapped(vc, l1, x)
           e == l1.addr_evict
           s == vc.sets[0]
           p == SwapPlace(vc, x)
           b == SwapBlock(l1)
           z == Renew(s, p, b)
<1>1. /\ s \in Seq(Block) /\ Len(s) = k /\ k \in Nat \ {0}
      /\ DOMAIN s = 1 .. k /\ Sorted(s)
      /\ \A q \in Nat : /\ Holds(vc, q) <=> Has(s, q)
                        /\ IsDirty(vc, q) <=> HasDirty(s, q)
  BY OneSet
<1>2. /\ p \in 1 .. k /\ s[p] \in Block
      /\ SwapReturned(vc, x) \in {"HIT", "EVICT_DIRTY", "EVICT_CLEAN"}
      /\ SwapReturned(vc, x) = "HIT" <=> Holds(vc, x)
      /\ ~Holds(vc, x) => s[p] = Last(s)
      /\ \A q \in Nat : Holds(vc, q) => (IsAt(s, p, q) <=> Gone(vc, x, q))
  BY SwapPlaceIs
<1>3. b \in Block /\ b.v /\ b.tag = e /\ b.d = l1.blk_v.d
  BY DEF Block, SwapBlock, HasEvicted
<1>4. /\ CacheOK(r, 1, k) /\ r.SET_NUM = 1 /\ r.sets = [vc.sets EXCEPT ![0] = z]
      /\ Evicts(SwapReturned(vc, x)) => r.addr_evict = s[p].tag
  <2>1. AfterSwap(r, vc, k, l1, x)
    BY SwappedFields, Zenon
  <2> QED BY <2>1 DEF AfterSwap
<1> HIDE DEF r, e, p, b
<1>5. r.sets[0] = z
  <2>1. DOMAIN vc.sets = 0 .. 1 - 1
    BY SoundIs
  <2>2. 0 \in DOMAIN vc.sets
    BY <2>1
  <2> QED BY <2>2, <1>4
<1>6. UnusedClean(vc) /\ e \in Nat /\ ~Has(s, e)
  BY <1>1 DEF e, HasEvicted
<1>7. /\ Sorted(z)
      /\ \A q : Has(z, q) <=> q = b.tag \/ (Has(s, q) /\ ~IsAt(s, p, q))
      /\ \A q : HasDirty(z, q) <=>
                     IF q = b.tag THEN b.d ELSE HasDirty(s, q) /\ ~IsAt(s, p, q)
  <2>1. \A w \in 1 .. Len(s) : s[w].v /\ s[w].tag = b.tag => w = p
    BY <1>1, <1>3, <1>6 DEF Has
  <2>2. p \in 1 .. Len(s)
    BY <1>1, <1>2
  <2> HIDE DEF s
  <2> QED BY <2>1, <2>2, <1>1, <1>3, RenewLists
<1>8. DOMAIN z = 1 .. k /\ \A w \in 1 .. k : ~z[w].v => ~z[w].d
  <2>1. /\ DOMAIN z = DOMAIN s /\ z[1] = b
        /\ \A j \in 2 .. Len(s) : z[j] = IF j <= p THEN s[j - 1] ELSE s[j]
    <3>1. s \in Seq(Block) /\ p \in 1 .. Len(s) /\ b \in Block
      BY <1>1, <1>2, <1>3
    <3> HIDE DEF s, p, b
    <3> QED BY <3>1, RenewIs DEF z
  <2>2. \A w \in 1 .. k : ~s[w].v => ~s[w].d
    BY <1>1, <1>6 DEF UnusedClean
  <2> HIDE DEF z, s
  <2>3. ASSUME NEW w \in 1 .. k, ~z[w].v
        PROVE  ~z[w].d
    <3>1. w \in 2 .. k
      BY <2>1, <2>3, <1>3
    <3>2. w - 1 \in 1 .. k
      BY <3>1, <1>1
    <3> QED BY <3>1, <3>2, <2>1, <2>2, <2>3, <1>1
  <2> QED BY <2>1, <2>3, <1>1
<1> HIDE DEF z
<1>9. Sound(r, 1, k)
  <2>1. ListOK(r)
    <3>1. \A i \in 0 .. 1 - 1 : i = 0
      OBVIOUS
    <3> QED BY <3>1, <1>4, <1>5, <1>7 DEF ListOK, Sorted
  <2> QED BY <2>1, <1>1, <1>4 DEF Sound
<1>10. UnusedClean(r)
  BY <1>5, <1>8 DEF UnusedClean
<1>11. ASSUME NEW q \in Nat
       PROVE  /\ Holds(r, q) <=> q = e \/ (Holds(vc, q) /\ ~Gone(vc, x, q))
              /\ IsDirty(r, q) <=>
                   IF q = e THEN l1.blk_v.d ELSE IsDirty(vc, q) /\ ~Gone(vc, x, q)
  <2>1. /\ Holds(r, q) <=> Has(z, q)
        /\ IsDirty(r, q) <=> HasDirty(z, q)
    BY <1>5, <1>9, OneSet
  <2>2. /\ Holds(vc, q) <=> Has(s, q)
        /\ IsDirty(vc, q) <=> HasDirty(s, q)
        /\ IsDirty(vc, q) => Holds(vc, q)
    BY <1>1, HoldsIs
  <2>3. Holds(vc, q) => (IsAt(s, p, q) <=> Gone(vc, x, q))
    BY <1>2
  <2> QED BY <2>1, <2>2, <2>3, <1>3, <1>7
<1>12. ~Holds(vc, x) => r.addr_evict = Last(s).tag
  BY <1>2, <1>4 DEF Evicts
<1> QED BY <1>9, <1>10, <1>11, <1>12 DEF r, e


(***************************************************************************)
(* The order of use.                                                       *)
(***************************************************************************)
RowsAfter(r, c, n, k, rw, a) ==
  /\ \A j \in 0 .. n - 1 : j /= IndexOf(c, a) => r.sets[j] = c.sets[j]
  /\ DOMAIN r.sets[IndexOf(c, a)] = 1 .. k
  /\ r.sets[IndexOf(c, a)][1] = NewBlock(c, rw, a)
  /\ \A j \in 2 .. k : r.sets[IndexOf(c, a)][j] =
       IF j <= PlaceOf(c, a) THEN c.sets[IndexOf(c, a)][j - 1]
       ELSE c.sets[IndexOf(c, a)][j]

(* The set that was asked, block by block.                                 *)
LEMMA RequestedRows ==
  ASSUME NEW c, NEW n, NEW k, Sound(c, n, k), NEW a \in Nat, NEW rw
  PROVE  RowsAfter(Requested(c, rw, a), c, n, k, rw, a)
<1> DEFINE r == Requested(c, rw, a)
           i == IndexOf(c, a)
           s == c.sets[i]
           p == PlaceOf(c, a)
           new == NewBlock(c, rw, a)
           z == Renew(s, p, new)
<1>1. /\ n \in Nat \ {0} /\ k \in Nat \ {0} /\ c.SET_NUM = n
      /\ i \in 0 .. n - 1 /\ TagOf(c, a) \in Nat
      /\ s \in Seq(Block) /\ Len(s) = k /\ DOMAIN c.sets = 0 .. n - 1
  BY SoundIs, SplitIs
<1>2. p \in 1 .. k /\ FoundAt(c, a) = s[p] /\ s[p] \in Block
  BY PlaceIs
<1>3. new \in Block
  BY <1>1, <1>2 DEF NewBlock, Block
<1>4. r.sets = [c.sets EXCEPT ![i] = z]
  <2>1. AfterRequest(r, c, n, k, rw, a)
    BY RequestedFields
  <2> QED BY <2>1 DEF AfterRequest
<1>5. /\ Len(z) = Len(s) /\ DOMAIN z = DOMAIN s /\ z[1] = new
      /\ \A j \in 2 .. Len(s) : z[j] = IF j <= p THEN s[j - 1] ELSE s[j]
  <2>1. s \in Seq(Block) /\ p \in 1 .. Len(s) /\ new \in Block
    BY <1>1, <1>2, <1>3
  <2> HIDE DEF s, p, new
  <2> QED BY <2>1, RenewIs
<1>6. DOMAIN s = 1 .. k
  BY <1>1
<1> HIDE DEF r, i, s, p, new, z
<1>7. r.sets[i] = z /\ \A j \in 0 .. n - 1 : j /= i => r.sets[j] = c.sets[j]
  BY <1>1, <1>4
<1> QED BY <1>1, <1>5, <1>6, <1>7 DEF RowsAfter, r, i, s, p, new

InUse(rec) == {b \in Addr : <<b, b>> \in rec}

LruSet(c, i, rec) ==
  /\ \A w \in DOMAIN c.sets[i] :
       c.sets[i][w].v => AddrOf(c, i, c.sets[i][w].tag) \in InUse(rec)
  /\ \A w, x \in DOMAIN c.sets[i] : w < x /\ c.sets[i][x].v =>
       <<AddrOf(c, i, c.sets[i][w].tag), AddrOf(c, i, c.sets[i][x].tag)>> \in rec
  /\ \A b \in InUse(rec) : IndexOf(c, b) = i /\ ~Holds(c, b) =>
       \A w \in DOMAIN c.sets[i] :
         c.sets[i][w].v /\ <<AddrOf(c, i, c.sets[i][w].tag), b>> \in rec

LruIn(c, rec) == \A i \in 0 .. c.SET_NUM - 1 : LruSet(c, i, rec)

(* LruExact, of any cache and any order of use.                            *)
LEMMA LruIs == LruExact <=> LruIn(L1, recent)
  BY DEF LruExact, LruIn, LruSet, InUse, Used

Now(rec, a) == {p \in rec : p[2] /= a} \cup {<<a, b>> : b \in InUse(rec) \cup {a}}

(* The order of use after a is used.                                       *)
LEMMA NowIs ==
  ASSUME NEW rec, rec \subseteq Addr \X Addr, NEW a \in Addr
  PROVE  /\ Now(rec, a) \subseteq Addr \X Addr
         /\ InUse(Now(rec, a)) = InUse(rec) \cup {a}
         /\ \A b, e : e /= a /\ <<b, e>> \in rec => <<b, e>> \in Now(rec, a)
         /\ \A b \in InUse(rec) \cup {a} : <<a, b>> \in Now(rec, a)
<1>1. \A b, e : e /= a /\ <<b, e>> \in rec => <<b, e>> \in Now(rec, a)
  BY DEF Now
<1>2. \A b \in InUse(rec) \cup {a} : <<a, b>> \in Now(rec, a)
  BY DEF Now
<1>3. Now(rec, a) \subseteq Addr \X Addr
  <2>1. {<<a, b>> : b \in InUse(rec) \cup {a}} \subseteq Addr \X Addr
    <3>1. \A b \in InUse(rec) \cup {a} : <<a, b>> \in Addr \X Addr
      BY DEF InUse
    <3> QED BY <3>1
  <2>2. {p \in rec : p[2] /= a} \subseteq Addr \X Addr
    OBVIOUS
  <2> QED BY <2>1, <2>2 DEF Now
<1>4. \A b : <<b, b>> \in Now(rec, a) => b = a \/ <<b, b>> \in rec
  BY DEF Now
<1>5. InUse(Now(rec, a)) = InUse(rec) \cup {a}
  BY <1>1, <1>2, <1>4 DEF InUse
<1> QED BY <1>1, <1>2, <1>3, <1>5

(* A request keeps each list in the order of use.                          *)
LEMMA LruStep ==
  ASSUME NEW c, NEW n, NEW k, Sound(c, n, k), NEW a \in Addr, a \in Nat, NEW rw,
         NEW rec, rec \subseteq Addr \X Addr, LruIn(c, rec), FromTrace(c)
  PROVE  LruIn(Requested(c, rw, a), Now(rec, a))
<1> DEFINE r == Requested(c, rw, a)
           m == Now(rec, a)
           i == IndexOf(c, a)
           s == c.sets[i]
           z == r.sets[i]
           p == PlaceOf(c, a)
           A(t) == AddrOf(c, i, t)
<1>1. /\ n \in Nat \ {0} /\ k \in Nat \ {0} /\ c.SET_NUM = n
      /\ i \in 0 .. n - 1 /\ TagOf(c, a) \in Nat
      /\ DOMAIN s = 1 .. k /\ Sorted(s) /\ s \in Seq(Block)
      /\ \A w \in 1 .. k : s[w] \in Block
  <2>1. /\ n \in Nat \ {0} /\ k \in Nat \ {0} /\ c.SET_NUM = n
        /\ i \in 0 .. n - 1 /\ TagOf(c, a) \in Nat
    BY SoundIs, SplitIs
  <2>2. DOMAIN s = 1 .. k /\ Sorted(s) /\ s \in Seq(Block) /\ Len(s) = k
    BY <2>1, SoundIs
  <2> HIDE DEF s
  <2>3. \A w \in 1 .. k : s[w] \in Block
    BY <2>2
  <2> QED BY <2>1, <2>2, <2>3
<1>2. Sound(r, n, k)
  BY RequestedIs
<1>16. \A j \in 0 .. n - 1 : c.sets[j] \in Seq(Block)
  BY SoundIs
<1>17. \A j \in 0 .. n - 1 : \A t \in Nat :
         AddrOf(c, j, t) \in Nat /\ IndexOf(c, AddrOf(c, j, t)) = j
  <2>1. n \in Nat \ {0} /\ c.SET_NUM = n
    BY <1>1
  <2> QED BY ONLY <2>1, AddrIs
<1>3. r.SET_NUM = n
  BY <1>2, SoundIs
<1>4. RowsAfter(r, c, n, k, rw, a)
  BY RequestedRows
<1>5. /\ \A b : IndexOf(r, b) = IndexOf(c, b) /\ TagOf(r, b) = TagOf(c, b)
      /\ \A j, t : AddrOf(r, j, t) = AddrOf(c, j, t)
  BY <1>1, <1>3 DEF IndexOf, TagOf, AddrOf
<1>6. /\ InUse(m) = InUse(rec) \cup {a}
      /\ \A b, e : e /= a /\ <<b, e>> \in rec => <<b, e>> \in m
      /\ \A b \in InUse(rec) \cup {a} : <<a, b>> \in m
      /\ InUse(rec) \subseteq Addr
  BY NowIs DEF InUse
<1>7. /\ \A j \in 0 .. n - 1 : j /= i => r.sets[j] = c.sets[j]
      /\ DOMAIN z = 1 .. k /\ z[1] = NewBlock(c, rw, a)
      /\ \A j \in 2 .. k : z[j] = IF j <= p THEN s[j - 1] ELSE s[j]
  BY <1>4 DEF RowsAfter
<1>8. /\ A(TagOf(c, a)) = a
      /\ \A t \in Nat : A(t) = a => t = TagOf(c, a)
  <2>1. A(TagOf(c, a)) = a
    BY <1>1, SplitIs
  <2>2. \A t \in Nat : TagOf(c, A(t)) = t
    BY <1>1, SplitIs
  <2> QED BY <2>1, <2>2
<1>9. /\ p \in 1 .. k
      /\ \A w \in 1 .. k : s[w].v /\ s[w].tag = TagOf(c, a) => w = p
      /\ Evicts(Returned(c, a)) => p = k /\ \A w \in 1 .. k : s[w].v
      /\ Evicts(Returned(c, a)) => Victim(c, a) = A(s[p].tag)
  <2>1. Victim(c, a) = A(FoundAt(c, a).tag)
    BY DEF Victim
  <2> QED BY <2>1, PlaceIs
<1>10. \A b \in Nat : Holds(r, b) <=>
         b = a \/ (Holds(c, b) /\ ~(Evicts(Returned(c, a)) /\ b = Victim(c, a)))
  BY RequestedIs
<1>11. \A j \in 0 .. n - 1 : LruSet(c, j, rec)
  BY <1>1 DEF LruIn
<1>12. \A b \in Nat : Holds(c, b) => b \in Addr
  BY DEF FromTrace
<1>13. Addr \subseteq Nat
  BY CacheAssumption
<1> HIDE DEF r, m, s, z, p, A
<1>14. ASSUME NEW j \in 0 .. n - 1, j /= i
       PROVE  LruSet(r, j, m)
  <2>1. r.sets[j] = c.sets[j] /\ LruSet(c, j, rec)
    BY <1>14, <1>7, <1>11
  <2>2. \A t \in Nat : AddrOf(c, j, t) \in Nat /\ AddrOf(c, j, t) /= a
    BY <1>14, <1>17 DEF i
  <2>3. \A w \in DOMAIN c.sets[j] : c.sets[j][w].tag \in Nat
    <3> DEFINE row == c.sets[j]
    <3>1. row \in Seq(Block)
      BY <1>16
    <3> HIDE DEF row
    <3>2. \A w \in 1 .. Len(row) : row[w].tag \in Nat
      <4>1. \A w \in 1 .. Len(row) : row[w] \in Block
        BY <3>1
      <4> QED BY <4>1 DEF Block
    <3>3. DOMAIN row = 1 .. Len(row)
      BY <3>1
    <3> QED BY <3>2, <3>3 DEF row
  <2>4. ASSUME NEW w \in DOMAIN c.sets[j], c.sets[j][w].v
        PROVE  AddrOf(c, j, c.sets[j][w].tag) \in InUse(m)
    BY <2>1, <2>4, <1>6 DEF LruSet
  <2>5. ASSUME NEW w \in DOMAIN c.sets[j], NEW x \in DOMAIN c.sets[j], w < x, c.sets[j][x].v
        PROVE  <<AddrOf(c, j, c.sets[j][w].tag), AddrOf(c, j, c.sets[j][x].tag)>> \in m
    <3>1. <<AddrOf(c, j, c.sets[j][w].tag), AddrOf(c, j, c.sets[j][x].tag)>> \in rec
      BY <2>1, <2>5 DEF LruSet
    <3>2. AddrOf(c, j, c.sets[j][x].tag) /= a
      BY <2>2, <2>3
    <3> QED BY <3>1, <3>2, <1>6
  <2>6. ASSUME NEW b \in InUse(m), IndexOf(c, b) = j, ~Holds(r, b),
               NEW w \in DOMAIN c.sets[j]
        PROVE  c.sets[j][w].v /\ <<AddrOf(c, j, c.sets[j][w].tag), b>> \in m
    <3>1. b /= a /\ b \in InUse(rec)
      BY <2>6, <1>14, <1>6 DEF i
    <3>2. Holds(r, b) <=> Holds(c, b)
      BY <2>1, <2>6, <1>5 DEF Holds
    <3>3. c.sets[j][w].v /\ <<AddrOf(c, j, c.sets[j][w].tag), b>> \in rec
      BY <2>1, <2>6, <3>1, <3>2 DEF LruSet
    <3> QED BY <3>1, <3>3, <1>6
  <2> QED BY <2>1, <2>4, <2>5, <2>6, <1>5 DEF LruSet
<1>15. LruSet(r, i, m)
  <2> DEFINE Old(j) == IF j <= p THEN j - 1 ELSE j
  <2>1. /\ \A w \in 1 .. k : s[w].v => A(s[w].tag) \in InUse(rec)
        /\ \A w, x \in 1 .. k : w < x /\ s[x].v => <<A(s[w].tag), A(s[x].tag)>> \in rec
        /\ \A b \in InUse(rec) : IndexOf(c, b) = i /\ ~Holds(c, b) =>
             \A w \in 1 .. k : s[w].v /\ <<A(s[w].tag), b>> \in rec
    <3>1. LruSet(c, i, rec) /\ DOMAIN s = 1 .. k
      BY <1>1, <1>11
    <3> QED BY <3>1 DEF LruSet, s, A
  <2>2. \A j \in 2 .. k : Old(j) \in 1 .. k /\ Old(j) /= p /\ z[j] = s[Old(j)]
    BY <1>1, <1>7, <1>9
  <2>3. \A j, l \in 2 .. k : j < l => Old(j) < Old(l)
    BY <1>9
  <2> HIDE DEF Old
  <2>4. z[1].v /\ A(z[1].tag) = a
    BY <1>7, <1>8 DEF NewBlock
  <2>5. \A j \in 2 .. k : z[j].v => A(z[j].tag) \in InUse(rec) /\ A(z[j].tag) /= a
    <3> TAKE j \in 2 .. k
    <3> SUFFICES ASSUME z[j].v PROVE A(z[j].tag) \in InUse(rec) /\ A(z[j].tag) /= a
      OBVIOUS
    <3>1. Old(j) \in 1 .. k /\ Old(j) /= p /\ z[j] = s[Old(j)]
      BY <2>2
    <3>2. s[Old(j)].tag \in Nat
      BY <3>1, <1>1 DEF Block
    <3> QED BY <3>1, <3>2, <2>1, <1>8, <1>9
  <2>6. ASSUME NEW w \in 1 .. k, z[w].v
        PROVE  A(z[w].tag) \in InUse(m)
    <3>1. w = 1 \/ w \in 2 .. k
      OBVIOUS
    <3> QED BY <2>4, <2>5, <2>6, <3>1, <1>6
  <2>7. ASSUME NEW w \in 1 .. k, NEW x \in 1 .. k, w < x, z[x].v
        PROVE  <<A(z[w].tag), A(z[x].tag)>> \in m
    <3>1. x \in 2 .. k /\ A(z[x].tag) \in InUse(rec) /\ A(z[x].tag) /= a
      BY <2>7, <2>5
    <3>2. CASE w = 1
      BY <3>1, <3>2, <2>4, <1>6
    <3>3. CASE w \in 2 .. k
      <4>1. <<A(z[w].tag), A(z[x].tag)>> \in rec
        BY <3>1, <3>3, <2>1, <2>2, <2>3, <2>7
      <4> QED BY <4>1, <3>1, <1>6
    <3> QED BY <3>2, <3>3
  <2>8. ASSUME NEW b \in InUse(m), IndexOf(c, b) = i, ~Holds(r, b), NEW w \in 1 .. k
        PROVE  z[w].v /\ <<A(z[w].tag), b>> \in m
    <3>1. b \in Nat
      BY <1>6, <1>13
    <3>2. b /= a /\ b \in InUse(rec)
      BY <2>8, <3>1, <1>6, <1>10
    <3>3. CASE w = 1
      BY <3>2, <3>3, <2>4, <1>6
    <3>4. CASE w \in 2 .. k
      <4>1. Old(w) \in 1 .. k /\ Old(w) /= p /\ z[w] = s[Old(w)]
        BY <3>4, <2>2
      <4>2. s[Old(w)].v /\ <<A(s[Old(w)].tag), b>> \in rec
        <5>1. CASE ~Holds(c, b)
          BY <5>1, <4>1, <3>2, <2>1, <2>8
        <5>2. CASE Holds(c, b)
          <6>1. Evicts(Returned(c, a)) /\ b = A(s[p].tag)
            BY <5>2, <3>1, <2>8, <1>9, <1>10
          <6>2. p = k /\ s[p].v /\ s[Old(w)].v /\ Old(w) < p
            BY <6>1, <4>1, <1>9
          <6> QED BY <6>1, <6>2, <4>1, <2>1, <1>9
        <5> QED BY <5>1, <5>2
      <4> QED BY <4>1, <4>2, <3>2, <1>6
    <3> QED BY <3>3, <3>4
  <2> QED BY <2>6, <2>7, <2>8, <1>5, <1>7 DEF LruSet, z, A
<1> QED BY <1>3, <1>14, <1>15 DEF LruIn, r, m


(***************************************************************************)
(* L1 after a swap: only a dirty bit changes.                              *)
(***************************************************************************)
SameRows(r, c) ==
  /\ r.SET_NUM = c.SET_NUM
  /\ \A i \in 0 .. c.SET_NUM - 1 :
       /\ DOMAIN r.sets[i] = DOMAIN c.sets[i]
       /\ \A w \in DOMAIN c.sets[i] : /\ r.sets[i][w].tag = c.sets[i][w].tag
                                      /\ r.sets[i][w].v = c.sets[i][w].v

SameCounts(r, c) ==
  /\ r.rmiss = c.rmiss /\ r.wmiss = c.wmiss /\ r.writebacks = c.writebacks
  /\ r.reads = c.reads /\ r.writes = c.writes

(* Two caches with the same tags and valid bits hold the same blocks.      *)
LEMMA SameRowsKeep ==
  ASSUME NEW c, NEW n, NEW k, Sound(c, n, k), NEW r, SameRows(r, c)
  PROVE  /\ ListOK(r)
         /\ \A b : IndexOf(r, b) = IndexOf(c, b) /\ TagOf(r, b) = TagOf(c, b)
         /\ \A b \in Nat : Holds(r, b) <=> Holds(c, b)
         /\ \A i \in 0 .. n - 1 : IsFull(r, i) <=> IsFull(c, i)
         /\ \A rec : LruIn(c, rec) /\ InUse(rec) \subseteq Nat => LruIn(r, rec)
<1>1. /\ c.SET_NUM = n /\ r.SET_NUM = n
      /\ \A i \in 0 .. n - 1 :
           /\ DOMAIN r.sets[i] = DOMAIN c.sets[i]
           /\ \A w \in DOMAIN c.sets[i] : /\ r.sets[i][w].tag = c.sets[i][w].tag
                                          /\ r.sets[i][w].v = c.sets[i][w].v
  BY SoundIs DEF SameRows
<1>2. ListOK(r)
  BY <1>1 DEF Sound, ListOK
<1>3. /\ \A b : IndexOf(r, b) = IndexOf(c, b) /\ TagOf(r, b) = TagOf(c, b)
      /\ \A i, t : AddrOf(r, i, t) = AddrOf(c, i, t)
  BY <1>1 DEF IndexOf, TagOf, AddrOf
<1>4. \A b \in Nat : IndexOf(c, b) \in 0 .. n - 1
  BY SoundIs, SplitIs
<1>5. \A b \in Nat : Holds(r, b) <=> Holds(c, b)
  BY <1>1, <1>3, <1>4 DEF Holds
<1>6. \A i \in 0 .. n - 1 : IsFull(r, i) <=> IsFull(c, i)
  BY <1>1 DEF IsFull
<1>7. ASSUME NEW rec, LruIn(c, rec), InUse(rec) \subseteq Nat
      PROVE  LruIn(r, rec)
  <2> SUFFICES ASSUME NEW i \in 0 .. n - 1 PROVE LruSet(r, i, rec)
    BY <1>1 DEF LruIn
  <2>1. LruSet(c, i, rec)
    BY <1>1, <1>7 DEF LruIn
  <2>2. \A b \in InUse(rec) : /\ Holds(r, b) <=> Holds(c, b)
                              /\ IndexOf(r, b) = IndexOf(c, b)
    BY <1>3, <1>5, <1>7
  <2>3. /\ \A w \in DOMAIN c.sets[i] :
             /\ r.sets[i][w].v = c.sets[i][w].v
             /\ AddrOf(r, i, r.sets[i][w].tag) = AddrOf(c, i, c.sets[i][w].tag)
        /\ DOMAIN r.sets[i] = DOMAIN c.sets[i]
    BY <1>1, <1>3
  <2> QED BY <2>1, <2>2, <2>3 DEF LruSet
<1> QED BY <1>2, <1>3, <1>5, <1>6, <1>7

AfterSwapL1(r, l1, n, k, vc, x) ==
  /\ Sound(r, n, k) /\ SameRows(r, l1) /\ SameCounts(r, l1)
  /\ \A b \in Nat : IsDirty(r, b) <=> IsDirty(l1, b) \/ (b = x /\ IsDirty(vc, x))

(* L1 after a swap has the same blocks; the one asked for is also dirty if *)
(* its copy was.                                                           *)
LEMMA SwappedL1Is ==
  ASSUME NEW l1, NEW n, NEW k, Sound(l1, n, k), NEW x \in Nat,
         IsAt(l1.sets[IndexOf(l1, x)], 1, TagOf(l1, x)),
         NEW vc, NEW m, Sound(vc, 1, m)
  PROVE  AfterSwapL1(SwappedL1(l1, vc, x), l1, n, k, vc, x)
<1> DEFINE r == SwappedL1(l1, vc, x)
           i == IndexOf(l1, x)
           s == l1.sets[i]
           D == vc.sets[0][Min(SwapAt(vc, x))].d
           b1 == [s[1] EXCEPT !.d = @ \/ D]
           z == [s EXCEPT ![1] = b1]
<1>1. CASE SwapAt(vc, x) = {}
  <2>1. ~Holds(vc, x)
    BY <1>1, SwapPlaceIs
  <2>2. ~IsDirty(vc, x)
    BY <2>1, HoldsIs
  <2>3. r = l1
    BY <1>1 DEF SwappedL1
  <2> QED BY <2>2, <2>3 DEF AfterSwapL1, SameRows, SameCounts
<1>2. CASE SwapAt(vc, x) /= {}
  <2>1. Holds(vc, x) /\ (D <=> IsDirty(vc, x)) /\ D \in BOOLEAN
    <3>1. Holds(vc, x)
      BY <1>2, SwapPlaceIs
    <3>2. SwapPlace(vc, x) = Min(SwapAt(vc, x))
      BY <3>1, SwapPlaceIs
    <3>3. vc.sets[0][SwapPlace(vc, x)] \in Block
      BY SwapPlaceIs
    <3>4. vc.sets[0][SwapPlace(vc, x)].d <=> IsDirty(vc, x)
      BY <3>1, SwapPlaceIs
    <3> QED BY <3>1, <3>2, <3>3, <3>4 DEF Block
  <2>2. r = [l1 EXCEPT !.sets[i] = z]
    BY <1>2 DEF SwappedL1
  <2>3. /\ n \in Nat \ {0} /\ k \in Nat \ {0} /\ l1.SET_NUM = n
        /\ i \in 0 .. n - 1 /\ TagOf(l1, x) \in Nat
        /\ s \in Seq(Block) /\ Len(s) = k /\ DOMAIN s = 1 .. k
        /\ DOMAIN l1.sets = 0 .. n - 1 /\ Sorted(s)
    <3>1. /\ n \in Nat \ {0} /\ k \in Nat \ {0} /\ l1.SET_NUM = n
          /\ DOMAIN l1.sets = 0 .. n - 1
      BY SoundIs
    <3>2. i \in 0 .. n - 1 /\ TagOf(l1, x) \in Nat
      BY <3>1, SplitIs
    <3> HIDE DEF i
    <3>3. s \in Seq(Block) /\ Len(s) = k /\ DOMAIN s = 1 .. k /\ Sorted(s)
      BY <3>2, SoundIs
    <3> QED BY <3>1, <3>2, <3>3
  <2>4. CacheOK(l1, n, k) /\ ListOK(l1)
    BY DEF Sound
  <2>5. s[1].v /\ s[1].tag = TagOf(l1, x)
    BY DEF IsAt
  <2> HIDE DEF r, D, s, i
  <2>6. s[1] \in Block
    BY <2>3
  <2>7. /\ b1 \in Block /\ b1.tag = s[1].tag /\ b1.v = s[1].v
        /\ b1.d <=> s[1].d \/ IsDirty(vc, x)
    BY <2>1, <2>6 DEF Block
  <2> HIDE DEF b1
  <2>8. /\ z \in Seq(Block) /\ Len(z) = k /\ DOMAIN z = 1 .. k /\ z[1] = b1
        /\ \A w \in 1 .. k : w /= 1 => z[w] = s[w]
    BY <2>3, <2>7
  <2> HIDE DEF z
  <2>9. l1 \in [SET_NUM : {n}, sets : [0 .. n - 1 -> Seq(Block)],
                blk_v : Block \cup {None}, addr_evict : Nat \cup {None},
                reads : Nat, rmiss : Nat, writes : Nat, wmiss : Nat,
                writebacks : Nat, swaps : Nat, access : Nat]
    BY <2>4 DEF CacheOK
  <2>10. /\ r.SET_NUM = n /\ r.sets = [l1.sets EXCEPT ![i] = z]
         /\ SameCounts(r, l1)
    BY <2>2, <2>9 DEF SameCounts
  <2>11. /\ r.sets[i] = z /\ \A j \in 0 .. n - 1 : j /= i => r.sets[j] = l1.sets[j]
    BY <2>3, <2>10
  <2>12. CacheOK(r, n, k)
    <3>1. [l1.sets EXCEPT ![i] = z] \in [0 .. n - 1 -> Seq(Block)]
      <4>1. l1.sets \in [0 .. n - 1 -> Seq(Block)]
        BY <2>9
      <4> QED BY <4>1, <2>8
    <3>2. r \in [SET_NUM : {n}, sets : [0 .. n - 1 -> Seq(Block)],
                 blk_v : Block \cup {None}, addr_evict : Nat \cup {None},
                 reads : Nat, rmiss : Nat, writes : Nat, wmiss : Nat,
                 writebacks : Nat, swaps : Nat, access : Nat]
      BY <3>1, <2>2, <2>9
    <3>3. \A j \in 0 .. n - 1 : Len(r.sets[j]) = k
      BY <2>4, <2>8, <2>11 DEF CacheOK
    <3> QED BY <3>2, <3>3 DEF CacheOK
  <2>13. SameRows(r, l1)
    <3>1. \A w \in 1 .. k : z[w].tag = s[w].tag /\ z[w].v = s[w].v
      BY <2>7, <2>8
    <3> QED BY <3>1, <2>3, <2>8, <2>10, <2>11 DEF SameRows, s
  <2>14. Sound(r, n, k)
    BY <2>3, <2>12, <2>13, SameRowsKeep DEF Sound
  <2>15. ASSUME NEW b \in Nat
         PROVE  IsDirty(r, b) <=> IsDirty(l1, b) \/ (b = x /\ IsDirty(vc, x))
    <3>1. /\ IndexOf(r, b) = IndexOf(l1, b) /\ TagOf(r, b) = TagOf(l1, b)
          /\ IndexOf(l1, b) \in 0 .. n - 1
      <4>1. IndexOf(r, b) = IndexOf(l1, b) /\ TagOf(r, b) = TagOf(l1, b)
        BY <2>13, SameRowsKeep
      <4>2. IndexOf(l1, b) \in 0 .. n - 1
        BY <2>3, SplitIs
      <4> QED BY <4>1, <4>2
    <3>2. /\ IsDirty(r, b) <=> HasDirty(r.sets[IndexOf(l1, b)], TagOf(l1, b))
          /\ IsDirty(l1, b) <=> HasDirty(l1.sets[IndexOf(l1, b)], TagOf(l1, b))
      BY <3>1, HoldsIs
    <3>3. CASE IndexOf(l1, b) /= i
      BY <3>1, <3>2, <3>3, <2>11 DEF i
    <3>4. CASE IndexOf(l1, b) = i
      <4>1. TagOf(l1, b) = TagOf(l1, x) => b = x
        <5>1. /\ AddrOf(l1, IndexOf(l1, b), TagOf(l1, b)) = b
              /\ AddrOf(l1, IndexOf(l1, x), TagOf(l1, x)) = x
          BY <2>3, SplitIs
        <5> QED BY <5>1, <3>4 DEF i
      <4> DEFINE t == TagOf(l1, b)
      <4>2. HasDirty(z, t) <=> HasDirty(s, t) \/ (t = s[1].tag /\ IsDirty(vc, x))
        <5> HIDE DEF t
        <5>1. \A w \in 1 .. k : w = 1 \/ z[w] = s[w]
          BY <2>8
        <5>2. ASSUME NEW w \in 1 .. k, z[w].v, z[w].d, z[w].tag = t
              PROVE  HasDirty(s, t) \/ (t = s[1].tag /\ IsDirty(vc, x))
          <6>1. CASE w = 1
            BY <5>2, <6>1, <2>3, <2>5, <2>7, <2>8 DEF HasDirty
          <6>2. CASE z[w] = s[w]
            BY <5>2, <6>2, <2>3 DEF HasDirty
          <6> QED BY <6>1, <6>2, <5>1
        <5>3. ASSUME NEW w \in 1 .. k, s[w].v, s[w].d, s[w].tag = t
              PROVE  HasDirty(z, t)
          <6>1. z[w].v /\ z[w].d /\ z[w].tag = t
            <7>1. CASE w = 1
              <8>1. z[1] = b1 /\ b1.v /\ b1.d /\ b1.tag = t
                BY <5>3, <7>1, <2>7, <2>8
              <8> QED BY <8>1, <7>1
            <7>2. CASE z[w] = s[w]
              BY <5>3, <7>2
            <7> QED BY <7>1, <7>2, <5>1
          <6> QED BY <6>1, <2>8 DEF HasDirty
        <5>4. ASSUME t = s[1].tag, IsDirty(vc, x)
              PROVE  HasDirty(z, t)
          <6>1. z[1].v /\ z[1].d /\ z[1].tag = t /\ 1 \in 1 .. k
            <7>1. b1.v /\ b1.d /\ b1.tag = t
              BY <5>4, <2>5, <2>7
            <7>2. z[1] = b1 /\ 1 \in 1 .. k
              BY <2>3, <2>8
            <7> QED BY <7>1, <7>2
          <6> QED BY <6>1, <2>8 DEF HasDirty
        <5>5. DOMAIN z = 1 .. k /\ DOMAIN s = 1 .. k
          BY <2>3, <2>8
        <5> QED BY <5>2, <5>3, <5>4, <5>5 DEF HasDirty
      <4> QED BY <4>1, <4>2, <3>2, <3>4, <2>5, <2>11 DEF s
    <3> QED BY <3>3, <3>4
  <2> QED BY <2>10, <2>13, <2>14, <2>15 DEF AfterSwapL1, r
<1> QED BY <1>1, <1>2


(***************************************************************************)
(* L1 and the victim cache together.  l1 and vc are the two before a       *)
(* request, fv says whether there is a victim cache.                       *)
(***************************************************************************)
InTop(l1, vc, b)    == Holds(l1, b) \/ Holds(vc, b)
DirtyTop(l1, vc, b) == IsDirty(l1, b) \/ IsDirty(vc, b)

TopInv(l1, n, k, vc, m, fv) ==
  /\ Sound(l1, n, k) /\ Sound(vc, 1, m)
  /\ \A b \in Addr : ~(Holds(l1, b) /\ Holds(vc, b))
  /\ FromTrace(l1) /\ FromTrace(vc)
  /\ ~fv => NothingIn(vc)
  /\ UnusedClean(vc)
  /\ \A b \in Addr : Holds(vc, b) => IsFull(l1, IndexOf(l1, b))

(* The block that leaves both.                                             *)
VictimsOf(l1, vc, fv, a) ==
  IF ~Evicts(Returned(l1, a)) THEN {}
  ELSE IF ~fv THEN {[a |-> Victim(l1, a), d |-> Returned(l1, a) = "EVICT_DIRTY"]}
  ELSE IF SwapReturned(vc, a) = "HIT" \/ ~Last(vc.sets[0]).v THEN {}
  ELSE {[a |-> Last(vc.sets[0]).tag, d |-> SwapReturned(vc, a) = "EVICT_DIRTY"]}

MissesTop(l1, vc, fv, a) ==
  /\ Returned(l1, a) /= "HIT"
  /\ ~(fv /\ Evicts(Returned(l1, a)) /\ SwapReturned(vc, a) = "HIT")

(* The operators of CacheSystem, by the names used here.                   *)
LEMMA TopNames ==
  ASSUME NEW addr
  PROVE  /\ TopVictim(addr) = VictimsOf(L1, VC, flag_VC, addr)
         /\ TopMiss(addr) <=> MissesTop(L1, VC, flag_VC, addr)
         /\ \A b : /\ Top(b) <=> InTop(L1, VC, b)
                   /\ TopDirty(b) <=> DirtyTop(L1, VC, b)
  BY DEF TopVictim, VictimsOf, TopMiss, MissesTop, rtn1, rtn2, Victim,
         Top, TopDirty, InTop, DirtyTop

(* Who leaves, and when.                                                   *)
LeavingOK(l1, vc, fv, a, gone) ==
  /\ \A v \in gone : /\ v.a \in Addr /\ v.a /= a /\ v.d \in BOOLEAN
                     /\ InTop(l1, vc, v.a) /\ (v.d <=> DirtyTop(l1, vc, v.a))
  /\ \A u, v \in gone : u = v
  /\ gone /= {} => MissesTop(l1, vc, fv, a)
  /\ MissesTop(l1, vc, fv, a) <=> ~InTop(l1, vc, a)

(* A miss that evicts nothing need not ask the victim cache: the block is  *)
(* not there.  Neither is the one L1 evicts.                               *)
LEMMA Asked ==
  ASSUME NEW l1, NEW n, NEW k, NEW vc, NEW m, NEW fv, TopInv(l1, n, k, vc, m, fv),
         NEW a \in Addr
  PROVE  /\ a \in Nat
         /\ ~Evicts(Returned(l1, a)) \/ ~fv => ~Holds(vc, a)
         /\ Evicts(Returned(l1, a)) => Victim(l1, a) \in Addr /\ ~Holds(vc, Victim(l1, a))
<1>1. a \in Nat /\ Sound(l1, n, k)
  BY CacheAssumption DEF TopInv
<1>2. /\ Returned(l1, a) = "HIT" <=> Holds(l1, a)
      /\ Evicts(Returned(l1, a)) <=> ~Holds(l1, a) /\ IsFull(l1, IndexOf(l1, a))
      /\ Evicts(Returned(l1, a)) => Victim(l1, a) \in Nat /\ Holds(l1, Victim(l1, a))
  BY <1>1, VictimIs
<1>3. ~Evicts(Returned(l1, a)) => ~Holds(vc, a)
  BY <1>2 DEF TopInv
<1>4. ~fv => ~Holds(vc, a)
  BY <1>1 DEF TopInv, NothingIn
<1>5. Evicts(Returned(l1, a)) => Victim(l1, a) \in Addr /\ ~Holds(vc, Victim(l1, a))
  <2>1. \A b \in Nat : Holds(l1, b) => b \in Addr
    BY DEF TopInv, FromTrace
  <2>2. \A b \in Addr : ~(Holds(l1, b) /\ Holds(vc, b))
    BY DEF TopInv
  <2> QED BY <2>1, <2>2, <1>2
<1> QED BY <1>1, <1>3, <1>4, <1>5

(* At most one block leaves, it was there, and it is written back if it is *)
(* dirty; then and only then a block comes in.                             *)
LEMMA LeavingIs ==
  ASSUME NEW l1, NEW n, NEW k, NEW vc, NEW m, NEW fv, TopInv(l1, n, k, vc, m, fv),
         NEW a \in Addr
  PROVE  LeavingOK(l1, vc, fv, a, VictimsOf(l1, vc, fv, a))
<1> DEFINE gone == VictimsOf(l1, vc, fv, a)
           E == Evicts(Returned(l1, a))
           z == Last(vc.sets[0])
<1>1. /\ a \in Nat /\ Sound(l1, n, k) /\ Sound(vc, 1, m) /\ UnusedClean(vc)
      /\ \A b \in Addr : ~(Holds(l1, b) /\ Holds(vc, b))
      /\ \A b \in Nat : Holds(vc, b) => b \in Addr
  BY CacheAssumption DEF TopInv, FromTrace
<1>2. /\ ~E \/ ~fv => ~Holds(vc, a)
      /\ E => Victim(l1, a) \in Addr /\ ~Holds(vc, Victim(l1, a))
  BY Asked
<1>3. /\ Returned(l1, a) = "HIT" <=> Holds(l1, a)
      /\ E => /\ ~Holds(l1, a) /\ Victim(l1, a) \in Nat /\ Victim(l1, a) /= a
              /\ Holds(l1, Victim(l1, a))
              /\ Returned(l1, a) = "EVICT_DIRTY" <=> IsDirty(l1, Victim(l1, a))
  <2>1. /\ Returned(l1, a) = "HIT" <=> Holds(l1, a)
        /\ E <=> ~Holds(l1, a) /\ IsFull(l1, IndexOf(l1, a))
    BY <1>1, VictimIs
  <2>2. E => /\ Victim(l1, a) \in Nat /\ Victim(l1, a) /= a
             /\ Holds(l1, Victim(l1, a))
             /\ Returned(l1, a) = "EVICT_DIRTY" <=> IsDirty(l1, Victim(l1, a))
    BY <1>1, VictimIs
  <2> QED BY <2>1, <2>2
<1>4. /\ SwapReturned(vc, a) = "HIT" <=> Holds(vc, a)
      /\ SwapReturned(vc, a) = "EVICT_DIRTY" <=> ~Holds(vc, a) /\ z.d
  BY <1>1, SwapPlaceIs
<1>5. z \in Block /\ (z.v => Holds(vc, z.tag) /\ (z.d <=> IsDirty(vc, z.tag)))
  <2>1. /\ vc.sets[0] \in Seq(Block) /\ Len(vc.sets[0]) = m /\ m \in Nat \ {0}
        /\ DOMAIN vc.sets[0] = 1 .. m /\ Sorted(vc.sets[0]) /\ z \in Block
        /\ \A b \in Nat : /\ Holds(vc, b) <=> Has(vc.sets[0], b)
                          /\ IsDirty(vc, b) <=> HasDirty(vc.sets[0], b)
    BY <1>1, OneSet
  <2>2. z = vc.sets[0][m] /\ z.tag \in Nat /\ m \in 1 .. m
    BY <2>1 DEF Last, Block
  <2>3. z.v => \A w \in 1 .. m : vc.sets[0][w].v /\ vc.sets[0][w].tag = z.tag => w = m
    BY <2>1, <2>2 DEF Sorted
  <2> HIDE DEF z
  <2>4. z.v => Has(vc.sets[0], z.tag)
    BY <2>1, <2>2 DEF Has
  <2>5. z.v => (z.d <=> HasDirty(vc.sets[0], z.tag))
    BY <2>1, <2>2, <2>3 DEF HasDirty
  <2> QED BY <2>1, <2>2, <2>4, <2>5
<1>6. \A b \in Nat : /\ IsDirty(l1, b) => Holds(l1, b)
                     /\ IsDirty(vc, b) => Holds(vc, b)
  BY HoldsIs
<1>7. MissesTop(l1, vc, fv, a) <=> ~InTop(l1, vc, a)
  BY <1>2, <1>3, <1>4 DEF MissesTop, InTop
<1>8. CASE ~E
  <2>1. gone = {}
    BY <1>8 DEF VictimsOf
  <2> QED BY <2>1, <1>7 DEF LeavingOK
<1>9. CASE E /\ ~fv
  <2>1. gone = {[a |-> Victim(l1, a), d |-> Returned(l1, a) = "EVICT_DIRTY"]}
    BY <1>9 DEF VictimsOf
  <2> DEFINE u == [a |-> Victim(l1, a), d |-> Returned(l1, a) = "EVICT_DIRTY"]
  <2>2. u.a = Victim(l1, a) /\ (u.d <=> IsDirty(l1, Victim(l1, a))) /\ u.d \in BOOLEAN
    <3>1. u.a = Victim(l1, a)
      OBVIOUS
    <3>2. u.d = (Returned(l1, a) = "EVICT_DIRTY")
      OBVIOUS
    <3> HIDE DEF u, gone
    <3>3. (Returned(l1, a) = "EVICT_DIRTY") <=> IsDirty(l1, Victim(l1, a))
      BY <1>3, <1>9
    <3> QED BY <3>1, <3>2, <3>3
  <2> HIDE DEF u, gone
  <2>3. gone = {u}
    BY <2>1 DEF u
  <2>4. u.a \in Addr /\ u.a /= a /\ u.a \in Nat
    BY <2>2, <1>2, <1>3, <1>9
  <2>5. InTop(l1, vc, u.a) /\ (u.d <=> DirtyTop(l1, vc, u.a))
    BY <2>2, <2>4, <1>2, <1>3, <1>6, <1>9 DEF InTop, DirtyTop
  <2>6. MissesTop(l1, vc, fv, a)
    BY <1>2, <1>3, <1>7, <1>9 DEF InTop
  <2> QED BY <2>2, <2>3, <2>4, <2>5, <2>6, <1>7 DEF LeavingOK, gone
<1>10. CASE E /\ fv /\ (SwapReturned(vc, a) = "HIT" \/ ~z.v)
  <2>1. gone = {}
    BY <1>10 DEF VictimsOf
  <2> QED BY <2>1, <1>7 DEF LeavingOK
<1>11. CASE E /\ fv /\ ~(SwapReturned(vc, a) = "HIT" \/ ~z.v)
  <2> DEFINE u == [a |-> z.tag, d |-> SwapReturned(vc, a) = "EVICT_DIRTY"]
  <2>1. gone = {u}
    BY <1>11 DEF VictimsOf
  <2>2. u.a = z.tag /\ (u.d <=> z.d) /\ u.d \in BOOLEAN
    BY <1>4, <1>11
  <2> HIDE DEF u, gone, z
  <2>3. ~Holds(vc, a) /\ Holds(vc, u.a) /\ (u.d <=> IsDirty(vc, u.a)) /\ u.a \in Nat
    BY <2>2, <1>4, <1>5, <1>11 DEF Block
  <2>4. u.a \in Addr /\ u.a /= a
    BY <2>3, <1>1
  <2>5. InTop(l1, vc, u.a) /\ (u.d <=> DirtyTop(l1, vc, u.a))
    BY <2>3, <2>4, <1>1, <1>6 DEF InTop, DirtyTop
  <2>6. MissesTop(l1, vc, fv, a)
    BY <2>3, <1>3, <1>7, <1>11 DEF InTop
  <2> QED BY <2>1, <2>2, <2>4, <2>5, <2>6, <1>7 DEF LeavingOK, gone
<1> QED BY <1>8, <1>9, <1>10, <1>11


(* What a request does to the two.                                         *)
TopAfter(l1p, vcp, l1, vc, a, rw, gone) ==
  \A b \in Addr :
    /\ InTop(l1p, vcp, b) <=>
         b = a \/ (InTop(l1, vc, b) /\ \A v \in gone : b /= v.a)
    /\ DirtyTop(l1p, vcp, b) <=>
         IF b = a THEN rw = "WRITE" \/ DirtyTop(l1, vc, a)
         ELSE DirtyTop(l1, vc, b) /\ \A v \in gone : b /= v.a

(* Without a swap, what L1 evicts is gone.                                 *)
LEMMA TopNoSwap ==
  ASSUME NEW l1, NEW n, NEW k, NEW vc, NEW m, NEW fv, TopInv(l1, n, k, vc, m, fv),
         NEW a \in Addr, NEW rw, ~(fv /\ Evicts(Returned(l1, a)))
  PROVE  /\ TopInv(Requested(l1, rw, a), n, k, vc, m, fv)
         /\ TopAfter(Requested(l1, rw, a), vc, l1, vc, a, rw, VictimsOf(l1, vc, fv, a))
<1> DEFINE r == Requested(l1, rw, a)
           E == Evicts(Returned(l1, a))
           u == Victim(l1, a)
           gone == VictimsOf(l1, vc, fv, a)
<1>1. /\ a \in Nat /\ Addr \subseteq Nat /\ Sound(l1, n, k) /\ Sound(vc, 1, m)
      /\ UnusedClean(vc) /\ (~fv => NothingIn(vc))
      /\ \A b \in Addr : ~(Holds(l1, b) /\ Holds(vc, b))
      /\ \A b \in Nat : Holds(vc, b) => b \in Addr
      /\ \A b \in Nat : Holds(l1, b) => b \in Addr
      /\ \A b \in Addr : Holds(vc, b) => IsFull(l1, IndexOf(l1, b))
  BY CacheAssumption DEF TopInv, FromTrace
<1>2. ~Holds(vc, a) /\ (E => ~fv)
  BY Asked
<1>3. /\ Sound(r, n, k)
      /\ \A b \in Nat : Holds(r, b) <=> b = a \/ (Holds(l1, b) /\ ~(E /\ b = u))
      /\ \A b \in Nat : IsDirty(r, b) <=> IF b = a THEN rw = "WRITE" \/ IsDirty(l1, a)
                                         ELSE IsDirty(l1, b) /\ ~(E /\ b = u)
      /\ \A i \in 0 .. n - 1 : IsFull(l1, i) => IsFull(r, i)
  BY <1>1, RequestedIs
<1>4. \A v \in gone : E /\ v.a = u
  BY <1>2 DEF VictimsOf
<1>5. E => \E v \in gone : v.a = u
  BY <1>2 DEF VictimsOf
<1>6. \A b : (\A v \in gone : b /= v.a) <=> ~(E /\ b = u)
  BY <1>4, <1>5
<1>7. \A b \in Nat : IndexOf(r, b) = IndexOf(l1, b) /\ IndexOf(l1, b) \in 0 .. n - 1
  <2>1. r.SET_NUM = n /\ l1.SET_NUM = n /\ n \in Nat \ {0}
    BY <1>1, <1>3, SoundIs
  <2>2. \A b \in Nat : IndexOf(l1, b) \in 0 .. n - 1
    BY <2>1, SplitIs
  <2> QED BY <2>1, <2>2 DEF IndexOf
<1>8. \A b \in Nat : IsDirty(vc, b) => Holds(vc, b)
  BY HoldsIs
<1> HIDE DEF r, E, u, gone
<1>9. TopInv(r, n, k, vc, m, fv)
  <2>1. \A b \in Addr : ~(Holds(r, b) /\ Holds(vc, b))
    BY <1>1, <1>2, <1>3
  <2>2. FromTrace(r) /\ FromTrace(vc)
    BY <1>1, <1>3 DEF FromTrace
  <2>3. \A b \in Addr : Holds(vc, b) => IsFull(r, IndexOf(r, b))
    BY <1>1, <1>3, <1>7
  <2> QED BY <2>1, <2>2, <2>3, <1>1, <1>3 DEF TopInv
<1>10. TopAfter(r, vc, l1, vc, a, rw, gone)
  <2> SUFFICES ASSUME NEW b \in Addr
               PROVE  /\ InTop(r, vc, b) <=>
                           b = a \/ (InTop(l1, vc, b) /\ \A v \in gone : b /= v.a)
                      /\ DirtyTop(r, vc, b) <=>
                           IF b = a THEN rw = "WRITE" \/ DirtyTop(l1, vc, a)
                           ELSE DirtyTop(l1, vc, b) /\ \A v \in gone : b /= v.a
    BY DEF TopAfter
  <2>1. /\ Holds(r, b) <=> b = a \/ (Holds(l1, b) /\ ~(E /\ b = u))
        /\ IsDirty(r, b) <=> IF b = a THEN rw = "WRITE" \/ IsDirty(l1, a)
                            ELSE IsDirty(l1, b) /\ ~(E /\ b = u)
        /\ (\A v \in gone : b /= v.a) <=> ~(E /\ b = u)
        /\ IsDirty(vc, b) => Holds(vc, b)
        /\ ~Holds(vc, a) /\ ~IsDirty(vc, a)
        /\ E => ~Holds(vc, b)
    BY <1>1, <1>2, <1>3, <1>6, <1>8 DEF NothingIn
  <2> QED BY <2>1 DEF InTop, DirtyTop
<1> QED BY <1>9, <1>10 DEF r, gone

(* With one, it changes places with the block asked for, or with the last  *)
(* one of the victim cache.                                                *)
LEMMA TopSwap ==
  ASSUME NEW l1, NEW n, NEW k, NEW vc, NEW m, NEW fv, TopInv(l1, n, k, vc, m, fv),
         NEW a \in Addr, NEW rw, fv, Evicts(Returned(l1, a)),
         NEW q, q = Requested(l1, rw, a),
         NEW r, r = SwappedL1(q, vc, a), NEW vcp, vcp = Swapped(vc, q, a)
  PROVE  /\ TopInv(r, n, k, vcp, m, fv)
         /\ TopAfter(r, vcp, l1, vc, a, rw, VictimsOf(l1, vc, fv, a))
         /\ SameRows(r, q) /\ SameCounts(r, q)
<1> DEFINE e == Victim(l1, a)
           gone == VictimsOf(l1, vc, fv, a)
<1>1. /\ a \in Nat /\ Addr \subseteq Nat /\ Sound(l1, n, k) /\ Sound(vc, 1, m)
      /\ UnusedClean(vc)
      /\ \A b \in Addr : ~(Holds(l1, b) /\ Holds(vc, b))
      /\ \A b \in Nat : Holds(vc, b) => b \in Addr
      /\ \A b \in Nat : Holds(l1, b) => b \in Addr
      /\ \A b \in Addr : Holds(vc, b) => IsFull(l1, IndexOf(l1, b))
  BY CacheAssumption DEF TopInv, FromTrace
<1>2. e \in Addr /\ ~Holds(vc, e)
  BY Asked
<1>3. /\ Sound(q, n, k)
      /\ \A b \in Nat : Holds(q, b) <=> b = a \/ (Holds(l1, b) /\ b /= e)
      /\ \A b \in Nat : IsDirty(q, b) <=> IF b = a THEN rw = "WRITE" \/ IsDirty(l1, a)
                                         ELSE IsDirty(l1, b) /\ b /= e
      /\ \A i \in 0 .. n - 1 : IsFull(l1, i) => IsFull(q, i)
  BY <1>1, RequestedIs
<1>4. /\ e \in Nat /\ e /= a /\ Holds(l1, e) /\ IndexOf(l1, e) = IndexOf(l1, a)
      /\ FoundAt(l1, a) \in Block /\ (FoundAt(l1, a).d <=> IsDirty(l1, e))
      /\ ~Holds(l1, a) /\ IsFull(l1, IndexOf(l1, a))
  <2>1. ~Holds(l1, a) /\ IsFull(l1, IndexOf(l1, a))
    BY <1>1, VictimIs
  <2> QED BY <2>1, <1>1, VictimIs
<1>5. q.blk_v = FoundAt(l1, a) /\ q.addr_evict = e
  <2>1. AfterRequest(q, l1, n, k, rw, a)
    BY <1>1, RequestedFields
  <2> QED BY <2>1 DEF AfterRequest
<1>6. HasEvicted(q) /\ ~Holds(vc, q.addr_evict)
  BY <1>2, <1>4, <1>5 DEF HasEvicted
<1>7. /\ Sound(vcp, 1, m) /\ UnusedClean(vcp)
      /\ \A b \in Nat : Holds(vcp, b) <=> b = e \/ (Holds(vc, b) /\ ~Gone(vc, a, b))
      /\ \A b \in Nat : IsDirty(vcp, b) <=>
           IF b = e THEN q.blk_v.d ELSE IsDirty(vc, b) /\ ~Gone(vc, a, b)
  BY <1>1, <1>5, <1>6, SwappedIs
<1>8. IsAt(q.sets[IndexOf(q, a)], 1, TagOf(q, a))
  <2>1. RowsAfter(q, l1, n, k, rw, a)
    BY <1>1, RequestedRows
  <2>2. q.SET_NUM = l1.SET_NUM
    BY <1>1, <1>3, SoundIs
  <2>3. IndexOf(q, a) = IndexOf(l1, a) /\ TagOf(q, a) = TagOf(l1, a)
    BY <2>2 DEF IndexOf, TagOf
  <2> QED BY <2>1, <2>3 DEF RowsAfter, IsAt, NewBlock
<1>9. AfterSwapL1(r, q, n, k, vc, a)
  BY <1>1, <1>3, <1>8, SwappedL1Is
<1>10. /\ Sound(r, n, k) /\ SameRows(r, q) /\ SameCounts(r, q)
       /\ \A b \in Nat : IsDirty(r, b) <=> IsDirty(q, b) \/ (b = a /\ IsDirty(vc, a))
  BY <1>9 DEF AfterSwapL1
<1>11. /\ \A b \in Nat : Holds(r, b) <=> Holds(q, b)
       /\ \A i \in 0 .. n - 1 : IsFull(r, i) <=> IsFull(q, i)
  BY <1>3, <1>10, SameRowsKeep
<1>12. \A b \in Nat : IndexOf(r, b) = IndexOf(l1, b) /\ IndexOf(l1, b) \in 0 .. n - 1
  <2>1. r.SET_NUM = n /\ l1.SET_NUM = n /\ n \in Nat \ {0}
    BY <1>1, <1>10, SoundIs
  <2>2. \A b \in Nat : IndexOf(l1, b) \in 0 .. n - 1
    BY <2>1, SplitIs
  <2> QED BY <2>1, <2>2 DEF IndexOf
<1>13. /\ \A b \in Nat : IsDirty(vc, b) => Holds(vc, b)
       /\ \A b \in Nat : IsDirty(l1, b) => Holds(l1, b)
  BY HoldsIs
<1>14. /\ SwapReturned(vc, a) = "HIT" <=> Holds(vc, a)
  BY <1>1, SwapPlaceIs
<1>15. \A b : Gone(vc, a, b) <=> (b = a /\ Holds(vc, a)) \/ \E v \in gone : v.a = b
  <2> DEFINE z == Last(vc.sets[0])
             u == [a |-> z.tag, d |-> SwapReturned(vc, a) = "EVICT_DIRTY"]
  <2>1. gone = IF Holds(vc, a) \/ ~z.v THEN {} ELSE {u}
    BY <1>14 DEF VictimsOf
  <2>2. u.a = z.tag
    OBVIOUS
  <2>3. \A b : Gone(vc, a, b) <=> IF Holds(vc, a) THEN b = a ELSE z.v /\ b = z.tag
    BY DEF Gone
  <2> HIDE DEF gone, u, z
  <2>4. CASE Holds(vc, a)
    BY <2>1, <2>3, <2>4
  <2>5. CASE ~Holds(vc, a) /\ ~z.v
    BY <2>1, <2>3, <2>5
  <2>6. CASE ~Holds(vc, a) /\ z.v
    <3>1. gone = {u}
      BY <2>1, <2>6
    <3> QED BY <3>1, <2>2, <2>3, <2>6
  <2> QED BY <2>4, <2>5, <2>6
<1>16. Gone(vc, a, a) \/ ~Holds(vc, a)
  BY DEF Gone
<1>17. LeavingOK(l1, vc, fv, a, gone)
  BY LeavingIs
<1> HIDE DEF e, gone
<1>18. TopInv(r, n, k, vcp, m, fv)
  <2>1. ASSUME NEW b \in Addr, Holds(r, b), Holds(vcp, b) PROVE FALSE
    <3>1. b \in Nat /\ (b = a \/ (Holds(l1, b) /\ b /= e))
      BY <2>1, <1>1, <1>3, <1>11
    <3>2. b = e \/ (Holds(vc, b) /\ ~Gone(vc, a, b))
      BY <2>1, <3>1, <1>7
    <3> QED BY <3>1, <3>2, <1>1, <1>4, <1>16
  <2>2. FromTrace(r) /\ FromTrace(vcp)
    BY <1>1, <1>2, <1>3, <1>7, <1>11 DEF FromTrace
  <2>3. ASSUME NEW b \in Addr, Holds(vcp, b) PROVE IsFull(r, IndexOf(r, b))
    <3>1. b \in Nat /\ (b = e \/ Holds(vc, b))
      BY <2>3, <1>1, <1>7
    <3>2. IsFull(l1, IndexOf(l1, b))
      BY <3>1, <2>3, <1>1, <1>4
    <3> QED BY <3>1, <3>2, <1>3, <1>11, <1>12
  <2> QED BY <2>1, <2>2, <2>3, <1>7, <1>10 DEF TopInv
<1>19. TopAfter(r, vcp, l1, vc, a, rw, gone)
  <2> SUFFICES ASSUME NEW b \in Addr
               PROVE  /\ InTop(r, vcp, b) <=>
                           b = a \/ (InTop(l1, vc, b) /\ \A v \in gone : b /= v.a)
                      /\ DirtyTop(r, vcp, b) <=>
                           IF b = a THEN rw = "WRITE" \/ DirtyTop(l1, vc, a)
                           ELSE DirtyTop(l1, vc, b) /\ \A v \in gone : b /= v.a
    BY DEF TopAfter
  <2>1. /\ b \in Nat
        /\ Holds(r, b) <=> b = a \/ (Holds(l1, b) /\ b /= e)
        /\ IsDirty(r, b) <=> IF b = a THEN rw = "WRITE" \/ IsDirty(l1, a) \/ IsDirty(vc, a)
                            ELSE IsDirty(l1, b) /\ b /= e
    BY <1>1, <1>3, <1>10, <1>11
  <2>2. /\ Holds(vcp, b) <=> b = e \/ (Holds(vc, b) /\ ~Gone(vc, a, b))
        /\ IsDirty(vcp, b) <=>
             IF b = e THEN IsDirty(l1, e) ELSE IsDirty(vc, b) /\ ~Gone(vc, a, b)
    BY <2>1, <1>4, <1>5, <1>7
  <2>3. /\ e /= a /\ Holds(l1, e) /\ ~Holds(vc, e) /\ ~IsDirty(vc, e)
        /\ IsDirty(vc, b) => Holds(vc, b)
        /\ IsDirty(l1, b) => Holds(l1, b)
        /\ ~(Holds(l1, b) /\ Holds(vc, b))
    BY <2>1, <1>1, <1>2, <1>4, <1>13
  <2>4. /\ b = a => (Gone(vc, a, b) \/ ~Holds(vc, b))
        /\ b /= a => (Gone(vc, a, b) <=> ~\A v \in gone : b /= v.a)
    BY <1>15, <1>16
  <2>5. ~(\A v \in gone : b /= v.a) => Holds(vc, b)
    <3> SUFFICES ASSUME NEW v \in gone, b = v.a PROVE Holds(vc, b)
      OBVIOUS
    <3>1. Gone(vc, a, b) /\ b /= a /\ InTop(l1, vc, b)
      BY <1>15, <1>17 DEF LeavingOK
    <3>2. v.a = Last(vc.sets[0]).tag /\ Last(vc.sets[0]).v
      BY DEF VictimsOf, gone
    <3>3. Holds(vc, v.a)
      <4>1. /\ vc.sets[0] \in Seq(Block) /\ Len(vc.sets[0]) = m /\ m \in Nat \ {0}
            /\ DOMAIN vc.sets[0] = 1 .. m
            /\ \A x \in Nat : Holds(vc, x) <=> Has(vc.sets[0], x)
        BY <1>1, OneSet
      <4>2. Last(vc.sets[0]) = vc.sets[0][m] /\ m \in 1 .. m
        BY <4>1 DEF Last
      <4>3. Has(vc.sets[0], v.a)
        BY <3>2, <4>1, <4>2 DEF Has
      <4> QED BY <4>1, <4>3, <2>1
    <3> QED BY <3>3
  <2> QED BY <2>1, <2>2, <2>3, <2>4, <2>5 DEF InTop, DirtyTop
<1> QED BY <1>10, <1>18, <1>19 DEF gone


(***************************************************************************)
(* Where the newest version is.  T and D are the blocks in L1 or the       *)
(* victim cache and those that are dirty there, fl says whether there is   *)
(* an L2.                                                                  *)
(***************************************************************************)
Places == {"top", "l2", "mem"}

FreshOK(f, T, D, l2, fl) ==
  /\ f \in [Addr -> SUBSET Places]
  /\ \A b \in Addr : b \in T => "top" \in f[b]
  /\ \A b \in Addr : b \notin D => IF fl /\ Holds(l2, b) THEN "l2" \in f[b]
                                   ELSE "mem" \in f[b]
  /\ \A b \in Addr : Holds(l2, b) /\ ~IsDirty(l2, b) /\ "l2" \in f[b] =>
                       "mem" \in f[b]

(* A place gets the version another one has.                               *)
LEMMA CopiedIs ==
  ASSUME NEW f \in [Addr -> SUBSET Places], NEW a \in Addr,
         NEW x \in Places, NEW y \in Places, x /= y
  PROVE  /\ Copied(f, a, x, y) \in [Addr -> SUBSET Places]
         /\ \A b \in Addr, z \in Places : z \in Copied(f, a, x, y)[b] <=>
              IF b = a /\ z = y THEN x \in f[a] ELSE z \in f[b]
<1> DEFINE g == Copied(f, a, x, y)
           s == IF x \in f[a] THEN f[a] \cup {y} ELSE f[a] \ {y}
<1>1. g = [f EXCEPT ![a] = s]
  BY DEF Copied
<1>2. s \in SUBSET Places /\ \A z \in Places : z \in s <=> IF z = y THEN x \in f[a]
                                                          ELSE z \in f[a]
  OBVIOUS
<1> HIDE DEF s
<1> QED BY <1>1, <1>2

(* A place has the newest version no more.                                 *)
LEMMA DroppedIs ==
  ASSUME NEW f \in [Addr -> SUBSET Places], NEW a \in Addr, NEW x \in Places
  PROVE  /\ Dropped(f, a, x) \in [Addr -> SUBSET Places]
         /\ \A b \in Addr, z \in Places : z \in Dropped(f, a, x)[b] <=>
              z \in f[b] /\ ~(b = a /\ z = x)
<1> DEFINE s == f[a] \ {x}
<1>1. Dropped(f, a, x) = [f EXCEPT ![a] = s]
  BY DEF Dropped
<1>2. s \in SUBSET Places /\ \A z \in Places : z \in s <=> z \in f[a] /\ z /= x
  OBVIOUS
<1> HIDE DEF s
<1> QED BY <1>1, <1>2

(* A block leaves a place, and is written below if it is dirty.            *)
LEMMA LeavesIs ==
  ASSUME NEW f \in [Addr -> SUBSET Places], NEW a \in Addr, NEW dirty \in BOOLEAN,
         NEW x \in Places, NEW y \in Places, x /= y
  PROVE  /\ Leaves(f, a, dirty, x, y) \in [Addr -> SUBSET Places]
         /\ \A b \in Addr, z \in Places : z \in Leaves(f, a, dirty, x, y)[b] <=>
              IF b /= a THEN z \in f[b]
              ELSE IF z = x THEN FALSE
              ELSE IF z = y /\ dirty THEN x \in f[a]
              ELSE z \in f[a]
<1> DEFINE g == IF dirty THEN Copied(f, a, x, y) ELSE f
<1>1. /\ g \in [Addr -> SUBSET Places]
      /\ \A b \in Addr, z \in Places : z \in g[b] <=>
           IF b = a /\ z = y /\ dirty THEN x \in f[a] ELSE z \in f[b]
  <2>1. CASE dirty
    BY <2>1, CopiedIs
  <2>2. CASE ~dirty
    BY <2>2
  <2> QED BY <2>1, <2>2
<1>2. Leaves(f, a, dirty, x, y) = Dropped(g, a, x)
  BY DEF Leaves
<1> HIDE DEF g
<1>3. /\ Dropped(g, a, x) \in [Addr -> SUBSET Places]
      /\ \A b \in Addr, z \in Places : z \in Dropped(g, a, x)[b] <=>
              z \in g[b] /\ ~(b = a /\ z = x)
  BY <1>1, DroppedIs
<1> QED BY <1>1, <1>2, <1>3

(* L2 takes block a in.                                                    *)
AllocatedSo(g, f, l2, a) ==
  /\ g \in [Addr -> SUBSET Places]
  /\ \A b \in Addr : "top" \in g[b] <=> "top" \in f[b]
  /\ \A b \in Addr : "l2" \in g[b] <=>
       IF b = a THEN IF Holds(l2, a) THEN "l2" \in f[a] ELSE "mem" \in f[a]
       ELSE "l2" \in f[b] /\ ~(Evicts(Returned(l2, a)) /\ b = Victim(l2, a))
  /\ \A b \in Addr : "mem" \in g[b] <=>
       IF Evicts(Returned(l2, a)) /\ b = Victim(l2, a) /\ IsDirty(l2, b)
       THEN "l2" \in f[b] ELSE "mem" \in f[b]

(* Where the versions are after L2 took block a in.                        *)
LEMMA AllocatedIs ==
  ASSUME NEW l2, NEW n, NEW k, Sound(l2, n, k), FromTrace(l2), NEW a \in Addr,
         NEW f \in [Addr -> SUBSET Places]
  PROVE  AllocatedSo(Allocated(f, l2, a), f, l2, a)
<1> DEFINE g == Allocated(f, l2, a)
           e == Victim(l2, a)
           rtn == Returned(l2, a)
           dirty == rtn = "EVICT_DIRTY"
           h == Leaves(f, e, dirty, "l2", "mem")
<1>1. a \in Nat /\ Addr \subseteq Nat
  BY CacheAssumption
<1>2. /\ rtn \in {"HIT", "MISS", "EVICT_DIRTY", "EVICT_CLEAN"}
      /\ rtn = "HIT" <=> Holds(l2, a)
      /\ Evicts(rtn) => /\ e \in Nat /\ e /= a /\ Holds(l2, e)
                        /\ dirty <=> IsDirty(l2, e)
  BY <1>1, VictimIs
<1>3. Evicts(rtn) <=> rtn \notin {"HIT", "MISS"}
  BY <1>2 DEF Evicts
<1>4. g = IF rtn = "HIT" THEN f
          ELSE IF rtn = "MISS" THEN Copied(f, a, "mem", "l2")
          ELSE Copied(h, a, "mem", "l2")
  <2>1. CASE rtn = "HIT"
    BY <2>1 DEF Allocated
  <2>2. CASE rtn = "MISS"
    BY <2>2 DEF Allocated
  <2>3. CASE rtn /= "HIT" /\ rtn /= "MISS"
    BY <2>3 DEF Allocated, Victim
  <2> QED BY <2>1, <2>2, <2>3
<1>5. "top" \in Places /\ "l2" \in Places /\ "mem" \in Places
  BY DEF Places
<1>6. Evicts(rtn) => e \in Addr
  BY <1>2 DEF FromTrace
<1>7. dirty \in BOOLEAN
  OBVIOUS
<1> HIDE DEF g, e, dirty, h
<1>8. CASE rtn = "HIT"
  <2>1. g = f /\ ~Evicts(rtn) /\ Holds(l2, a)
    BY <1>8, <1>2, <1>3, <1>4
  <2> QED BY <2>1 DEF AllocatedSo, g
<1>9. CASE rtn = "MISS"
  <2>1. g = Copied(f, a, "mem", "l2") /\ ~Evicts(rtn) /\ ~Holds(l2, a)
    BY <1>9, <1>2, <1>3, <1>4
  <2>2. /\ g \in [Addr -> SUBSET Places]
        /\ \A b \in Addr, z \in Places : z \in g[b] <=>
              IF b = a /\ z = "l2" THEN "mem" \in f[a] ELSE z \in f[b]
    BY <2>1, <1>5, CopiedIs
  <2> QED BY <2>1, <2>2, <1>5 DEF AllocatedSo, g
<1>10. CASE Evicts(rtn)
  <2>1. /\ g = Copied(h, a, "mem", "l2") /\ ~Holds(l2, a) /\ e \in Addr /\ e /= a
        /\ dirty <=> IsDirty(l2, e)
    BY <1>10, <1>2, <1>3, <1>4, <1>6
  <2>2. /\ h \in [Addr -> SUBSET Places]
        /\ \A b \in Addr, z \in Places : z \in h[b] <=>
              IF b /= e THEN z \in f[b]
              ELSE IF z = "l2" THEN FALSE
              ELSE IF z = "mem" /\ dirty THEN "l2" \in f[e]
              ELSE z \in f[e]
    BY <2>1, <1>5, <1>7, LeavesIs DEF h
  <2>3. /\ g \in [Addr -> SUBSET Places]
        /\ \A b \in Addr, z \in Places : z \in g[b] <=>
              IF b = a /\ z = "l2" THEN "mem" \in h[a] ELSE z \in h[b]
    BY <2>1, <2>2, <1>5, CopiedIs
  <2>4. \A b \in Addr :
          /\ "top" \in g[b] <=> "top" \in f[b]
          /\ "l2" \in g[b] <=> IF b = a THEN "mem" \in f[a] ELSE "l2" \in f[b] /\ b /= e
          /\ "mem" \in g[b] <=> IF b = e /\ dirty THEN "l2" \in f[b] ELSE "mem" \in f[b]
    BY <2>1, <2>2, <2>3, <1>5
  <2> QED BY <2>1, <2>3, <2>4, <1>10 DEF AllocatedSo, g, e
<1> QED BY <1>2, <1>3, <1>8, <1>9, <1>10 DEF g


(* Each step of a request keeps the newest versions where they are found.  *)
LEMMA KeptByRequest ==
  ASSUME NEW c, NEW n, NEW k, Sound(c, n, k), FromTrace(c), NEW a \in Addr, NEW rw
  PROVE  Sound(Requested(c, rw, a), n, k) /\ FromTrace(Requested(c, rw, a))
<1>1. a \in Nat
  BY CacheAssumption
<1>2. /\ Sound(Requested(c, rw, a), n, k)
      /\ \A b \in Nat : Holds(Requested(c, rw, a), b) <=>
           \/ b = a
           \/ Holds(c, b) /\ ~(Evicts(Returned(c, a)) /\ b = Victim(c, a))
  BY <1>1, RequestedIs
<1> QED BY <1>2 DEF FromTrace

(* L2 takes a block in, whatever it is asked to do with it.                *)
LEMMA FreshAllocated ==
  ASSUME NEW l2, NEW n, NEW k, Sound(l2, n, k), FromTrace(l2), NEW a \in Addr,
         NEW f, NEW T, NEW D, FreshOK(f, T, D, l2, TRUE), NEW rw
  PROVE  FreshOK(Allocated(f, l2, a), T, D, Requested(l2, rw, a), TRUE)
<1> DEFINE g == Allocated(f, l2, a)
           r == Requested(l2, rw, a)
           e == Victim(l2, a)
           E == Evicts(Returned(l2, a))
<1>1. a \in Nat /\ Addr \subseteq Nat
  BY CacheAssumption
<1>2. /\ f \in [Addr -> SUBSET Places]
      /\ \A b \in Addr : b \in T => "top" \in f[b]
      /\ \A b \in Addr : b \notin D => IF Holds(l2, b) THEN "l2" \in f[b]
                                       ELSE "mem" \in f[b]
      /\ \A b \in Addr : Holds(l2, b) /\ ~IsDirty(l2, b) /\ "l2" \in f[b] =>
                           "mem" \in f[b]
  BY DEF FreshOK
<1>3. AllocatedSo(g, f, l2, a)
  BY <1>2, AllocatedIs
<1>4. /\ \A b \in Addr : Holds(r, b) <=> b = a \/ (Holds(l2, b) /\ ~(E /\ b = e))
      /\ \A b \in Addr : IsDirty(r, b) <=> IF b = a THEN rw = "WRITE" \/ IsDirty(l2, a)
                                           ELSE IsDirty(l2, b) /\ ~(E /\ b = e)
  BY <1>1, RequestedIs
<1>5. E => e \in Addr /\ e /= a /\ Holds(l2, e) /\ ~Holds(l2, a)
  BY <1>1, VictimIs DEF FromTrace
<1>6. \A b \in Addr : IsDirty(l2, b) => Holds(l2, b)
  BY HoldsIs
<1> HIDE DEF g, r, e, E
<1>7. /\ g \in [Addr -> SUBSET Places]
      /\ \A b \in Addr : "top" \in g[b] <=> "top" \in f[b]
      /\ \A b \in Addr : "l2" \in g[b] <=>
           IF b = a THEN IF Holds(l2, a) THEN "l2" \in f[a] ELSE "mem" \in f[a]
           ELSE "l2" \in f[b] /\ ~(E /\ b = e)
      /\ \A b \in Addr : "mem" \in g[b] <=>
           IF E /\ b = e /\ IsDirty(l2, b) THEN "l2" \in f[b] ELSE "mem" \in f[b]
  BY <1>3 DEF AllocatedSo, E, e
<1>8. ASSUME NEW b \in Addr, b \notin D
      PROVE  IF Holds(r, b) THEN "l2" \in g[b] ELSE "mem" \in g[b]
  <2>1. CASE b = a
    BY <2>1, <1>2, <1>4, <1>7, <1>8
  <2>2. CASE b /= a /\ E /\ b = e
    BY <2>2, <1>2, <1>4, <1>5, <1>7, <1>8
  <2>3. CASE b /= a /\ ~(E /\ b = e)
    BY <2>3, <1>2, <1>4, <1>7, <1>8
  <2> QED BY <2>1, <2>2, <2>3
<1>9. ASSUME NEW b \in Addr, Holds(r, b), ~IsDirty(r, b), "l2" \in g[b]
      PROVE  "mem" \in g[b]
  <2>1. ~(E /\ b = e)
    BY <1>4, <1>5, <1>9
  <2>2. CASE b = a
    BY <2>1, <2>2, <1>2, <1>4, <1>7, <1>9
  <2>3. CASE b /= a
    BY <2>1, <2>3, <1>2, <1>4, <1>7, <1>9
  <2> QED BY <2>2, <2>3
<1>10. \A b \in Addr : b \in T => "top" \in g[b]
  BY <1>2, <1>7
<1> QED BY <1>7, <1>8, <1>9, <1>10 DEF FreshOK, g, r

L2Written(l2, v) == IF v.d THEN Requested(l2, "WRITE", v.a) ELSE l2

WrittenIn(f, v, l2, fl) ==
  IF ~fl THEN Leaves(f, v.a, v.d, "top", "mem")
  ELSE Leaves(IF v.d THEN Allocated(f, l2, v.a) ELSE f, v.a, v.d, "top", "l2")

FetchedIn(f, l2, a, fl) ==
  IF fl THEN Copied(Allocated(f, l2, a), a, "l2", "top")
  ELSE Copied(f, a, "mem", "top")

(* The three places.                                                       *)
LEMMA PlacesAre == "top" \in Places /\ "l2" \in Places /\ "mem" \in Places
  BY DEF Places

(* A block leaves L1 and the victim cache, written back if it is dirty.    *)
LEMMA FreshLeft ==
  ASSUME NEW l2, NEW n, NEW k, Sound(l2, n, k), FromTrace(l2),
         NEW fl \in BOOLEAN, ~fl => NothingIn(l2),
         NEW f, NEW T, NEW D, FreshOK(f, T, D, l2, fl),
         NEW v, v.a \in Addr, v.d \in BOOLEAN, v.a \in T, v.d <=> v.a \in D
  PROVE  FreshOK(WrittenIn(f, v, l2, fl), T \ {v.a}, D \ {v.a},
                 IF fl THEN L2Written(l2, v) ELSE l2, fl)
<1> DEFINE a == v.a
           d == v.d
<1>1. a \in Addr /\ d \in BOOLEAN /\ a \in T /\ (d <=> a \in D) /\ Addr \subseteq Nat
  BY CacheAssumption
<1>2. CASE ~fl
  <2> DEFINE g == Leaves(f, a, d, "top", "mem")
  <2>1. f \in [Addr -> SUBSET Places]
    BY DEF FreshOK
  <2>2. WrittenIn(f, v, l2, fl) = g
    BY <1>2 DEF WrittenIn
  <2> HIDE DEF a, d
  <2>3. /\ g \in [Addr -> SUBSET Places]
        /\ \A b \in Addr, z \in Places : z \in g[b] <=>
              IF b /= a THEN z \in f[b]
              ELSE IF z = "top" THEN FALSE
              ELSE IF z = "mem" /\ d THEN "top" \in f[a]
              ELSE z \in f[a]
    BY <1>1, <2>1, PlacesAre, LeavesIs
  <2>4. \A b \in Addr : ~Holds(l2, b)
    BY <1>1, <1>2 DEF NothingIn
  <2> HIDE DEF g
  <2>5. FreshOK(g, T \ {a}, D \ {a}, l2, fl)
    BY <1>1, <1>2, <2>3, <2>4, PlacesAre DEF FreshOK
  <2> QED BY <2>2, <2>5, <1>2 DEF a
<1>3. CASE fl
  <2> DEFINE h == IF d THEN Allocated(f, l2, a) ELSE f
             r == L2Written(l2, v)
             g == Leaves(h, a, d, "top", "l2")
  <2>1. FreshOK(h, T, D, r, fl)
    <3>1. CASE d
      <4>1. h = Allocated(f, l2, a) /\ r = Requested(l2, "WRITE", a)
        BY <3>1 DEF L2Written
      <4>2. FreshOK(f, T, D, l2, TRUE)
        BY <1>3
      <4> HIDE DEF h, r, a
      <4>3. FreshOK(Allocated(f, l2, a), T, D, Requested(l2, "WRITE", a), TRUE)
        BY <4>2, <1>1, FreshAllocated
      <4> QED BY <4>1, <4>3, <1>3
    <3>2. CASE ~d
      BY <3>2 DEF L2Written
    <3> QED BY <3>1, <3>2, <1>1
  <2>2. d => Holds(r, a) /\ IsDirty(r, a)
    <3>1. d => r = Requested(l2, "WRITE", a)
      BY DEF L2Written
    <3>2. a \in Nat
      BY <1>1
    <3> HIDE DEF r, a, d
    <3>3. Holds(Requested(l2, "WRITE", a), a) /\ IsDirty(Requested(l2, "WRITE", a), a)
      BY <3>2, RequestedIs
    <3> QED BY <3>1, <3>3
  <2>3. WrittenIn(f, v, l2, fl) = g
    BY <1>3 DEF WrittenIn
  <2>4. h \in [Addr -> SUBSET Places]
    BY <2>1 DEF FreshOK
  <2> HIDE DEF h, r, a, d
  <2>5. /\ g \in [Addr -> SUBSET Places]
        /\ \A b \in Addr, z \in Places : z \in g[b] <=>
              IF b /= a THEN z \in h[b]
              ELSE IF z = "top" THEN FALSE
              ELSE IF z = "l2" /\ d THEN "top" \in h[a]
              ELSE z \in h[a]
    BY <1>1, <2>4, PlacesAre, LeavesIs
  <2> HIDE DEF g
  <2>6. FreshOK(g, T \ {a}, D \ {a}, r, fl)
    <3>1. /\ \A b \in Addr : b \in T => "top" \in h[b]
          /\ \A b \in Addr : b \notin D => IF Holds(r, b) THEN "l2" \in h[b]
                                           ELSE "mem" \in h[b]
          /\ \A b \in Addr : Holds(r, b) /\ ~IsDirty(r, b) /\ "l2" \in h[b] =>
                               "mem" \in h[b]
      BY <2>1, <1>3 DEF FreshOK
    <3>2. \A b \in Addr :
            /\ "top" \in g[b] <=> "top" \in h[b] /\ b /= a
            /\ "l2" \in g[b] <=> IF b = a /\ d THEN "top" \in h[a] ELSE "l2" \in h[b]
            /\ "mem" \in g[b] <=> "mem" \in h[b]
      BY <2>5, PlacesAre
    <3>3. \A b \in Addr : b \notin D \ {a} =>
            IF fl /\ Holds(r, b) THEN "l2" \in g[b] ELSE "mem" \in g[b]
      BY <1>1, <1>3, <2>2, <3>1, <3>2
    <3>4. \A b \in Addr : Holds(r, b) /\ ~IsDirty(r, b) /\ "l2" \in g[b] =>
                            "mem" \in g[b]
      BY <1>1, <2>2, <3>1, <3>2
    <3>5. \A b \in Addr : b \in T \ {a} => "top" \in g[b]
      BY <3>1, <3>2
    <3> QED BY <2>5, <3>3, <3>4, <3>5 DEF FreshOK
  <2> QED BY <2>3, <2>6, <1>3 DEF r, a
<1> QED BY <1>2, <1>3


(* A block comes up from L2, or from memory if there is no L2.             *)
LEMMA FreshFetched ==
  ASSUME NEW l2, NEW n, NEW k, Sound(l2, n, k), FromTrace(l2),
         NEW fl \in BOOLEAN,
         NEW f, NEW T, NEW D, FreshOK(f, T, D, l2, fl),
         NEW a \in Addr, a \notin D
  PROVE  FreshOK(FetchedIn(f, l2, a, fl), T \cup {a}, D,
                 IF fl THEN Requested(l2, "READ", a) ELSE l2, fl)
<1> DEFINE x == IF fl THEN "l2" ELSE "mem"
           h == IF fl THEN Allocated(f, l2, a) ELSE f
           r == IF fl THEN Requested(l2, "READ", a) ELSE l2
           g == Copied(h, a, x, "top")
<1>1. FetchedIn(f, l2, a, fl) = g
  BY DEF FetchedIn
<1>2. FreshOK(h, T, D, r, fl)
  <2>1. CASE fl
    <3>1. FreshOK(f, T, D, l2, TRUE)
      BY <2>1
    <3>2. FreshOK(Allocated(f, l2, a), T, D, Requested(l2, "READ", a), TRUE)
      BY <3>1, FreshAllocated
    <3> QED BY <2>1, <3>2
  <2>2. CASE ~fl
    BY <2>2
  <2> QED BY <2>1, <2>2
<1>3. fl => Holds(r, a)
  <2>1. a \in Nat
    BY CacheAssumption
  <2>2. Holds(Requested(l2, "READ", a), a)
    BY <2>1, RequestedIs
  <2> QED BY <2>2
<1>4. x = (IF fl THEN "l2" ELSE "mem") /\ x \in Places /\ x /= "top"
  BY PlacesAre
<1>5. /\ h \in [Addr -> SUBSET Places]
      /\ \A b \in Addr : b \in T => "top" \in h[b]
      /\ \A b \in Addr : b \notin D => IF fl /\ Holds(r, b) THEN "l2" \in h[b]
                                       ELSE "mem" \in h[b]
      /\ \A b \in Addr : Holds(r, b) /\ ~IsDirty(r, b) /\ "l2" \in h[b] =>
                           "mem" \in h[b]
  BY <1>2 DEF FreshOK
<1> HIDE DEF x, h, r
<1>6. /\ g \in [Addr -> SUBSET Places]
      /\ \A b \in Addr, z \in Places : z \in g[b] <=>
           IF b = a /\ z = "top" THEN x \in h[a] ELSE z \in h[b]
  BY <1>4, <1>5, PlacesAre, CopiedIs
<1> HIDE DEF g
<1>7. \A b \in Addr : /\ "top" \in g[b] <=> IF b = a THEN x \in h[a] ELSE "top" \in h[b]
                      /\ "l2" \in g[b] <=> "l2" \in h[b]
                      /\ "mem" \in g[b] <=> "mem" \in h[b]
  BY <1>6, PlacesAre
<1>8. x \in h[a]
  BY <1>3, <1>4, <1>5
<1>9. FreshOK(g, T \cup {a}, D, r, fl)
  BY <1>5, <1>6, <1>7, <1>8 DEF FreshOK
<1> QED BY <1>1, <1>9 DEF r

(* The block asked for is written, or not.                                 *)
LEMMA FreshUsed ==
  ASSUME NEW l2, NEW fl, NEW f, NEW T, NEW D, FreshOK(f, T, D, l2, fl),
         NEW a \in Addr, NEW rw, a \in T
  PROVE  FreshOK(IF rw = "WRITE" THEN [f EXCEPT ![a] = {"top"}] ELSE f,
                 T, D \cup (IF rw = "WRITE" THEN {a} ELSE {}), l2, fl)
<1>1. CASE rw = "WRITE"
  <2> DEFINE g == [f EXCEPT ![a] = {"top"}]
  <2>1. /\ f \in [Addr -> SUBSET Places]
        /\ \A b \in Addr : b \in T => "top" \in f[b]
        /\ \A b \in Addr : b \notin D => IF fl /\ Holds(l2, b) THEN "l2" \in f[b]
                                         ELSE "mem" \in f[b]
        /\ \A b \in Addr : Holds(l2, b) /\ ~IsDirty(l2, b) /\ "l2" \in f[b] =>
                             "mem" \in f[b]
    BY DEF FreshOK
  <2>2. g \in [Addr -> SUBSET Places]
    BY <2>1, PlacesAre
  <2>3. g[a] = {"top"} /\ \A b \in Addr : b /= a => g[b] = f[b]
    BY <2>1
  <2> HIDE DEF g
  <2>4. FreshOK(g, T, D \cup {a}, l2, fl)
    BY <2>1, <2>2, <2>3 DEF FreshOK
  <2> QED BY <2>4, <1>1 DEF g
<1>2. CASE rw /= "WRITE"
  <2>1. D \cup {} = D
    OBVIOUS
  <2> QED BY <2>1, <1>2
<1> QED BY <1>1, <1>2

(* The whole of it, for what leaves L1 and the victim cache.               *)
L2Of(l2, gone) ==
  LET dirty == {v \in gone : v.d}
  IN  IF dirty = {} THEN l2
      ELSE Requested(l2, "WRITE", (CHOOSE v \in dirty : TRUE).a)

L2After(l2, gone, miss, fl, a) ==
  IF fl /\ miss THEN Requested(L2Of(l2, gone), "READ", a) ELSE l2

MovedIn(rw, a, gone, miss, f, l2, fl) ==
  LET f1 == IF gone = {} THEN f
            ELSE WrittenIn(f, CHOOSE v \in gone : TRUE, l2, fl)
      f2 == IF miss THEN FetchedIn(f1, L2Of(l2, gone), a, fl) ELSE f1
  IN  IF rw = "WRITE" THEN [f2 EXCEPT ![a] = {"top"}] ELSE f2

(* Moved, by the names used here.                                          *)
LEMMA MovedNames ==
  ASSUME NEW rw, NEW addr
  PROVE  Moved(rw, addr) = MovedIn(rw, addr, TopVictim(addr), TopMiss(addr),
                                   fresh, L2, flag_L2)
  BY DEF Moved, MovedIn, L2Of, WrittenBack, WrittenIn, Fetched, FetchedIn

MayLeave(gone, T, D, a, miss) ==
  /\ \A v \in gone : /\ v.a \in Addr /\ v.a /= a /\ v.d \in BOOLEAN
                     /\ v.a \in T /\ (v.d <=> v.a \in D)
  /\ \A u, v \in gone : u = v
  /\ gone /= {} => miss
  /\ miss <=> a \notin T
  /\ D \subseteq T

L2OK(l2, n, k, fl) == Sound(l2, n, k) /\ FromTrace(l2) /\ (~fl => NothingIn(l2))

(* All of these, in the order of a request.                                *)
LEMMA FreshMoved ==
  ASSUME NEW l2, NEW n, NEW k, NEW fl \in BOOLEAN, L2OK(l2, n, k, fl),
         NEW f, NEW T, NEW D, FreshOK(f, T, D, l2, fl),
         NEW a \in Addr, NEW rw, NEW miss \in BOOLEAN, NEW gone,
         MayLeave(gone, T, D, a, miss)
  PROVE  /\ FreshOK(MovedIn(rw, a, gone, miss, f, l2, fl),
                    (T \ {v.a : v \in gone}) \cup {a},
                    (D \ {v.a : v \in gone}) \cup (IF rw = "WRITE" THEN {a} ELSE {}),
                    L2After(l2, gone, miss, fl, a), fl)
         /\ L2OK(L2After(l2, gone, miss, fl, a), n, k, fl)
<1> DEFINE out == {v.a : v \in gone}
           w == L2Of(l2, gone)
           wf == IF fl THEN w ELSE l2
           f1 == IF gone = {} THEN f ELSE WrittenIn(f, CHOOSE v \in gone : TRUE, l2, fl)
           f2 == IF miss THEN FetchedIn(f1, w, a, fl) ELSE f1
           T1 == T \ out
           D1 == D \ out
           last == L2After(l2, gone, miss, fl, a)
<1>1. Sound(l2, n, k) /\ FromTrace(l2) /\ (~fl => NothingIn(l2))
  BY DEF L2OK
<1>2. /\ FreshOK(f1, T1, D1, wf, fl)
      /\ Sound(w, n, k) /\ FromTrace(w)
      /\ (~miss => w = l2)
  <2>1. CASE gone = {}
    <3>1. w = l2 /\ f1 = f /\ wf = l2
      BY <2>1 DEF L2Of
    <3>2. T1 = T /\ D1 = D
      BY <2>1
    <3> HIDE DEF w, wf, f1, T1, D1
    <3> QED BY <3>1, <3>2, <1>1
  <2>2. CASE gone /= {}
    <3>1. PICK v : gone = {v}
      BY <2>2 DEF MayLeave
    <3>2. /\ v.a \in Addr /\ v.a /= a /\ v.d \in BOOLEAN
          /\ v.a \in T /\ (v.d <=> v.a \in D) /\ miss
      BY <3>1 DEF MayLeave
    <3>3. (CHOOSE x \in gone : TRUE) = v
      BY <3>1
    <3>4. w = L2Written(l2, v)
      <4>1. CASE v.d
        <5>1. {x \in gone : x.d} = {v}
          BY <3>1, <4>1
        <5>2. (CHOOSE x \in {x \in gone : x.d} : TRUE) = v
          BY <5>1
        <5> QED BY <5>1, <5>2, <4>1 DEF L2Of, L2Written
      <4>2. CASE ~v.d
        <5>1. {x \in gone : x.d} = {}
          BY <3>1, <4>2
        <5> QED BY <5>1, <4>2 DEF L2Of, L2Written
      <4> QED BY <4>1, <4>2
    <3>5. f1 = WrittenIn(f, v, l2, fl) /\ T1 = T \ {v.a} /\ D1 = D \ {v.a}
      BY <3>1, <3>3
    <3>6. wf = IF fl THEN L2Written(l2, v) ELSE l2
      BY <3>4
    <3>7. Sound(w, n, k) /\ FromTrace(w)
      <4>1. CASE v.d
        BY <4>1, <3>2, <3>4, <1>1, KeptByRequest DEF L2Written
      <4>2. CASE ~v.d
        BY <4>2, <3>4, <1>1 DEF L2Written
      <4> QED BY <4>1, <4>2, <3>2
    <3> HIDE DEF w, wf, f1, T1, D1
    <3>8. FreshOK(WrittenIn(f, v, l2, fl), T \ {v.a}, D \ {v.a},
                  IF fl THEN L2Written(l2, v) ELSE l2, fl)
      BY <3>2, <1>1, FreshLeft
    <3> QED BY <3>2, <3>5, <3>6, <3>7, <3>8
  <2> QED BY <2>1, <2>2
<1>3. a \notin out
  BY DEF MayLeave
<1>4. FreshOK(f2, T1 \cup {a}, D1, last, fl) /\ L2OK(last, n, k, fl)
  <2>1. CASE miss
    <3>1. a \notin D1
      BY <2>1 DEF MayLeave
    <3>2. f2 = FetchedIn(f1, w, a, fl)
      BY <2>1
    <3>3. last = IF fl THEN Requested(w, "READ", a) ELSE l2
      BY <2>1 DEF L2After
    <3> HIDE DEF f2, f1, w, T1, D1, last
    <3>4. CASE fl
      <4>1. FreshOK(f1, T1, D1, w, fl)
        BY <1>2, <3>4
      <4>2. FreshOK(FetchedIn(f1, w, a, fl), T1 \cup {a}, D1,
                    IF fl THEN Requested(w, "READ", a) ELSE w, fl)
        BY <4>1, <1>2, <3>1, FreshFetched
      <4>3. Sound(Requested(w, "READ", a), n, k) /\ FromTrace(Requested(w, "READ", a))
        BY <1>2, KeptByRequest
      <4> QED BY <4>2, <4>3, <3>2, <3>3, <3>4 DEF L2OK
    <3>5. CASE ~fl
      <4>1. FreshOK(f1, T1, D1, l2, fl)
        BY <1>2, <3>5
      <4>2. FreshOK(FetchedIn(f1, l2, a, fl), T1 \cup {a}, D1,
                    IF fl THEN Requested(l2, "READ", a) ELSE l2, fl)
        BY <4>1, <1>1, <3>1, FreshFetched
      <4>3. FetchedIn(f1, w, a, fl) = FetchedIn(f1, l2, a, fl)
        BY <3>5 DEF FetchedIn
      <4> QED BY <4>2, <4>3, <3>2, <3>3, <3>5
    <3> QED BY <3>4, <3>5
  <2>2. CASE ~miss
    <3>1. f2 = f1 /\ last = l2 /\ wf = l2
      BY <2>2, <1>2 DEF L2After
    <3>2. T1 \cup {a} = T1
      BY <2>2, <1>3 DEF MayLeave
    <3> HIDE DEF f2, f1, wf, T1, D1, last
    <3> QED BY <3>1, <3>2, <1>2
  <2> QED BY <2>1, <2>2
<1> DEFINE g == IF rw = "WRITE" THEN [f2 EXCEPT ![a] = {"top"}] ELSE f2
<1>5. MovedIn(rw, a, gone, miss, f, l2, fl) = g
  BY DEF MovedIn
<1>6. a \in T1 \cup {a}
  OBVIOUS
<1> HIDE DEF f2, f1, w, wf, T1, D1, last
<1>7. FreshOK(g, T1 \cup {a}, D1 \cup (IF rw = "WRITE" THEN {a} ELSE {}), last, fl)
  BY <1>4, <1>6, FreshUsed
<1> QED BY <1>4, <1>5, <1>7 DEF T1, D1, last


(***************************************************************************)
(* A request, for every configuration.                                     *)
(***************************************************************************)
Swaps(l1, fv, a) == fv /\ Evicts(Returned(l1, a))

L1After(l1, vc, fv, rw, a) ==
  IF Swaps(l1, fv, a) THEN SwappedL1(Requested(l1, rw, a), vc, a)
  ELSE Requested(l1, rw, a)

VCAfter(l1, vc, fv, rw, a) ==
  IF Swaps(l1, fv, a) THEN Swapped(vc, Requested(l1, rw, a), a) ELSE vc

TopStep(l1p, vcp, l1, n, k, vc, m, fv, rw, a) ==
  /\ TopInv(l1p, n, k, vcp, m, fv)
  /\ TopAfter(l1p, vcp, l1, vc, a, rw, VictimsOf(l1, vc, fv, a))
  /\ SameRows(l1p, Requested(l1, rw, a)) /\ SameCounts(l1p, Requested(l1, rw, a))

(* L1 and the victim cache after a request.                                *)
LEMMA TopStepIs ==
  ASSUME NEW l1, NEW n, NEW k, NEW vc, NEW m, NEW fv, TopInv(l1, n, k, vc, m, fv),
         NEW a \in Addr, NEW rw
  PROVE  TopStep(L1After(l1, vc, fv, rw, a), VCAfter(l1, vc, fv, rw, a),
                 l1, n, k, vc, m, fv, rw, a)
<1>1. CASE Swaps(l1, fv, a)
  <2> DEFINE q == Requested(l1, rw, a)
             r == SwappedL1(q, vc, a)
             vcp == Swapped(vc, q, a)
  <2>1. L1After(l1, vc, fv, rw, a) = r /\ VCAfter(l1, vc, fv, rw, a) = vcp
    BY <1>1 DEF L1After, VCAfter
  <2>2. fv /\ Evicts(Returned(l1, a))
    BY <1>1 DEF Swaps
  <2>3. q = Requested(l1, rw, a) /\ r = SwappedL1(q, vc, a) /\ vcp = Swapped(vc, q, a)
    OBVIOUS
  <2> HIDE DEF q, r, vcp
  <2>4. /\ TopInv(r, n, k, vcp, m, fv)
        /\ TopAfter(r, vcp, l1, vc, a, rw, VictimsOf(l1, vc, fv, a))
        /\ SameRows(r, q) /\ SameCounts(r, q)
    BY <2>2, <2>3, TopSwap, ZenonT(60)
  <2> QED BY <2>1, <2>3, <2>4 DEF TopStep
<1>2. CASE ~Swaps(l1, fv, a)
  <2> DEFINE q == Requested(l1, rw, a)
  <2>1. L1After(l1, vc, fv, rw, a) = q /\ VCAfter(l1, vc, fv, rw, a) = vc
    BY <1>2 DEF L1After, VCAfter
  <2>2. ~(fv /\ Evicts(Returned(l1, a)))
    BY <1>2 DEF Swaps
  <2>3. /\ TopInv(q, n, k, vc, m, fv)
        /\ TopAfter(q, vc, l1, vc, a, rw, VictimsOf(l1, vc, fv, a))
    BY <2>2, TopNoSwap
  <2>4. SameRows(q, q) /\ SameCounts(q, q)
    BY DEF SameRows, SameCounts
  <2> QED BY <2>1, <2>3, <2>4 DEF TopStep
<1> QED BY <1>1, <1>2

(* L2 after a block u has left, dirty or not.                              *)
LEMMA L2OfOne ==
  ASSUME NEW l2, NEW x, NEW y \in BOOLEAN
  PROVE  L2Of(l2, {[a |-> x, d |-> y]}) = IF y THEN Requested(l2, "WRITE", x) ELSE l2
<1> DEFINE u == [a |-> x, d |-> y]
<1>1. u.a = x /\ u.d = y
  OBVIOUS
<1> HIDE DEF u
<1>2. CASE y
  <2>1. {v \in {u} : v.d} = {u}
    BY <1>1, <1>2
  <2>2. (CHOOSE v \in {v \in {u} : v.d} : TRUE) = u
    BY <2>1
  <2> QED BY <1>1, <1>2, <2>1, <2>2 DEF L2Of, u
<1>3. CASE ~y
  <2>1. {v \in {u} : v.d} = {}
    BY <1>1, <1>3
  <2> QED BY <1>3, <2>1 DEF L2Of, u
<1> QED BY <1>2, <1>3

(* L2 when nothing has left.                                               *)
LEMMA L2OfNone == \A l2 : L2Of(l2, {}) = l2
  BY DEF L2Of

(* func0 .. func3 do what these operators say, each for its configuration. *)
LEMMA RequestNames ==
  ASSUME NEW n, NEW k, NEW m, TopInv(L1, n, k, VC, m, flag_VC),
         NEW addr \in Addr, NEW rw, request(rw, addr)
  PROVE  /\ L1' = L1After(L1, VC, flag_VC, rw, addr)
         /\ VC' = VCAfter(L1, VC, flag_VC, rw, addr)
         /\ L2' = L2After(L2, TopVictim(addr), TopMiss(addr), flag_L2, addr)
<1> DEFINE E == Evicts(rtn1(addr))
           q == Requested(L1, rw, addr)
           z == Last(VC.sets[0])
<1>1. addr \in Nat /\ Sound(L1, n, k) /\ Sound(VC, 1, m) /\ UnusedClean(VC)
  BY CacheAssumption DEF TopInv
<1>2. /\ rtn1(addr) \in {"HIT", "MISS", "EVICT_DIRTY", "EVICT_CLEAN"}
      /\ E <=> rtn1(addr) \in {"EVICT_DIRTY", "EVICT_CLEAN"}
      /\ rtn2(addr) \in {"HIT", "EVICT_DIRTY", "EVICT_CLEAN"}
  BY <1>1, VictimIs, SwapPlaceIs DEF rtn1, rtn2, Evicts
<1>3. E => q.addr_evict = Victim(L1, addr)
  <2>1. AfterRequest(q, L1, n, k, rw, addr)
    BY <1>1, RequestedFields
  <2> QED BY <2>1 DEF AfterRequest, rtn1
<1>4. CASE ~flag_VC /\ ~flag_L2
  <2>1. func0(rw, addr)
    BY <1>4 DEF request
  <2> QED BY <2>1, <1>4 DEF func0, L1After, VCAfter, Swaps, L2After
<1>5. CASE ~flag_VC /\ flag_L2
  <2>1. func1(rw, addr)
    BY <1>5 DEF request
  <2>2. L1' = q /\ VC' = VC
    BY <2>1 DEF func1
  <2>3. L1' = L1After(L1, VC, flag_VC, rw, addr) /\ VC' = VCAfter(L1, VC, flag_VC, rw, addr)
    BY <2>2, <1>5 DEF L1After, VCAfter, Swaps
  <2>4. L2' = CASE rtn1(addr) = "EVICT_DIRTY" -> L2WrittenRead(q.addr_evict, addr)
                [] rtn1(addr) \in {"EVICT_CLEAN", "MISS"} -> L2Read(addr)
                [] OTHER -> L2
    BY <2>1, <2>2 DEF func1
  <2>5. TopMiss(addr) <=> rtn1(addr) /= "HIT"
    BY <1>5 DEF TopMiss
  <2>6. L2Of(L2, TopVictim(addr)) =
          IF rtn1(addr) = "EVICT_DIRTY" THEN Requested(L2, "WRITE", q.addr_evict) ELSE L2
    <3>1. CASE E
      <4>1. TopVictim(addr) = {[a |-> Victim(L1, addr), d |-> rtn1(addr) = "EVICT_DIRTY"]}
        BY <3>1, <1>5 DEF TopVictim, Victim
      <4> DEFINE y == rtn1(addr) = "EVICT_DIRTY"
                 x == Victim(L1, addr)
      <4>2. y \in BOOLEAN /\ TopVictim(addr) = {[a |-> x, d |-> y]}
        BY <4>1
      <4> HIDE DEF x, y
      <4>3. L2Of(L2, {[a |-> x, d |-> y]}) = IF y THEN Requested(L2, "WRITE", x) ELSE L2
        BY <4>2, L2OfOne, Zenon
      <4> QED BY <4>2, <4>3, <3>1, <1>3 DEF x, y
    <3>2. CASE ~E
      <4>1. TopVictim(addr) = {}
        BY <3>2 DEF TopVictim
      <4> QED BY <4>1, <3>2, <1>2, L2OfNone
    <3> QED BY <3>1, <3>2
  <2>7. L2' = L2After(L2, TopVictim(addr), TopMiss(addr), flag_L2, addr)
    BY <2>4, <2>5, <2>6, <1>2, <1>5 DEF L2After, L2WrittenRead, L2Read
  <2> QED BY <2>3, <2>7
<1>6. ASSUME flag_VC, Swap(rw, addr)
      PROVE  /\ L1' = L1After(L1, VC, flag_VC, rw, addr)
             /\ VC' = VCAfter(L1, VC, flag_VC, rw, addr)
  <2>1. E <=> Swaps(L1, flag_VC, addr)
    BY <1>6 DEF Swaps, rtn1
  <2> QED BY <2>1, <1>6 DEF Swap, L1After, VCAfter
<1>7. CASE flag_VC /\ ~flag_L2
  <2>1. func2(rw, addr)
    BY <1>7 DEF request
  <2>2. Swap(rw, addr) /\ L2' = L2
    BY <2>1 DEF func2
  <2> QED BY <2>2, <1>6, <1>7 DEF L2After
<1>8. CASE flag_VC /\ flag_L2
  <2>1. func3(rw, addr)
    BY <1>8 DEF request
  <2>2. Swap(rw, addr)
    BY <2>1 DEF func3
  <2>3. L2' = CASE E /\ rtn2(addr) = "EVICT_DIRTY" -> L2WrittenRead(VC'.addr_evict, addr)
                [] E /\ rtn2(addr) = "EVICT_CLEAN" -> L2Read(addr)
                [] rtn1(addr) = "MISS" -> L2Read(addr)
                [] OTHER -> L2
    BY <2>1 DEF func3
  <2>4. TopMiss(addr) <=> rtn1(addr) /= "HIT" /\ ~(E /\ rtn2(addr) = "HIT")
    BY <1>8 DEF TopMiss
  <2>5. E /\ rtn2(addr) /= "HIT" => VC'.addr_evict = z.tag
    <3> SUFFICES ASSUME E, rtn2(addr) /= "HIT" PROVE VC'.addr_evict = z.tag
      OBVIOUS
    <3>1. VC' = Swapped(VC, q, addr)
      BY <2>2 DEF Swap
    <3>2. HasEvicted(q) /\ ~Holds(VC, q.addr_evict)
      <4>1. /\ Victim(L1, addr) \in Nat /\ FoundAt(L1, addr) \in Block
            /\ ~Holds(VC, Victim(L1, addr))
        BY <1>1, VictimIs, Asked DEF rtn1
      <4>2. q.blk_v = FoundAt(L1, addr)
        <5>1. AfterRequest(q, L1, n, k, rw, addr)
          BY <1>1, RequestedFields
        <5> QED BY <5>1 DEF AfterRequest, rtn1
      <4> QED BY <4>1, <4>2, <1>3 DEF HasEvicted
    <3>3. ~Holds(VC, addr)
      BY <1>1, SwapPlaceIs DEF rtn2
    <3> HIDE DEF q
    <3>4. Swapped(VC, q, addr).addr_evict = Last(VC.sets[0]).tag
      BY <1>1, <3>2, <3>3, SwappedIs
    <3> QED BY <3>1, <3>4
  <2>6. rtn2(addr) = "EVICT_DIRTY" => z.v
    <3>1. rtn2(addr) = "EVICT_DIRTY" => z.d
      BY <1>1, SwapPlaceIs DEF rtn2
    <3>2. z = VC.sets[0][m] /\ m \in DOMAIN VC.sets[0]
      BY <1>1, OneSet DEF Last
    <3> QED BY <3>1, <3>2, <1>1 DEF UnusedClean
  <2>7. L2Of(L2, TopVictim(addr)) =
          IF E /\ rtn2(addr) = "EVICT_DIRTY" THEN Requested(L2, "WRITE", z.tag) ELSE L2
    <3>1. CASE E /\ rtn2(addr) /= "HIT" /\ z.v
      <4>1. TopVictim(addr) = {[a |-> z.tag, d |-> rtn2(addr) = "EVICT_DIRTY"]}
        BY <3>1, <1>8 DEF TopVictim
      <4> DEFINE y == rtn2(addr) = "EVICT_DIRTY"
                 x == z.tag
      <4>2. y \in BOOLEAN /\ TopVictim(addr) = {[a |-> x, d |-> y]}
        BY <4>1
      <4> HIDE DEF x, y
      <4>3. L2Of(L2, {[a |-> x, d |-> y]}) = IF y THEN Requested(L2, "WRITE", x) ELSE L2
        BY <4>2, L2OfOne, Zenon
      <4> QED BY <4>2, <4>3, <3>1 DEF x, y
    <3>2. CASE ~(E /\ rtn2(addr) /= "HIT" /\ z.v)
      <4>1. TopVictim(addr) = {}
        BY <3>2, <1>8 DEF TopVictim
      <4>2. ~(E /\ rtn2(addr) = "EVICT_DIRTY")
        BY <3>2, <2>6
      <4> QED BY <4>1, <4>2, L2OfNone
    <3> QED BY <3>1, <3>2
  <2>8. L2' = L2After(L2, TopVictim(addr), TopMiss(addr), flag_L2, addr)
    <3> HIDE DEF z, E
    <3>1. E => rtn1(addr) /= "HIT" /\ rtn1(addr) /= "MISS"
      BY <1>2
    <3>2. CASE E /\ rtn2(addr) = "EVICT_DIRTY"
      BY <3>1, <3>2, <2>3, <2>4, <2>5, <2>7, <1>8 DEF L2After, L2WrittenRead
    <3>3. CASE E /\ rtn2(addr) = "EVICT_CLEAN"
      BY <3>1, <3>3, <2>3, <2>4, <2>7, <1>8 DEF L2After, L2Read
    <3>4. CASE E /\ rtn2(addr) = "HIT"
      BY <3>1, <3>4, <2>3, <2>4, <1>8 DEF L2After
    <3>5. CASE ~E
      BY <3>5, <1>2, <2>3, <2>4, <2>7, <1>8 DEF L2After, L2Read
    <3> QED BY <3>2, <3>3, <3>4, <3>5, <1>2
  <2> QED BY <2>2, <2>8, <1>6, <1>8
<1> QED BY <1>4, <1>5, <1>7, <1>8


(***************************************************************************)
(* The invariant.                                                          *)
(***************************************************************************)
TopSet(l1, vc)   == {b \in Addr : InTop(l1, vc, b)}
DirtySet(l1, vc) == {b \in Addr : DirtyTop(l1, vc, b)}

Kept(p, l1, vc, l2, f, rec) ==
  /\ p \in Params
  /\ TopInv(l1, p.l1_sets, p.l1_assoc, vc, OrOne(p.vc_num_blocks), p.vc_num_blocks > 0)
  /\ L2OK(l2, OrOne(p.l2_sets), p.l2_assoc, p.l2_sets > 0)
  /\ FreshOK(f, TopSet(l1, vc), DirtySet(l1, vc), l2, p.l2_sets > 0)
  /\ rec \subseteq Addr \X Addr /\ LruIn(l1, rec)

(* The sizes of a configuration.                                           *)
LEMMA SizesAre ==
  ASSUME NEW p \in Params
  PROVE  /\ p.l1_sets \in Nat \ {0} /\ p.l1_assoc \in Nat \ {0}
         /\ OrOne(p.vc_num_blocks) \in Nat \ {0}
         /\ OrOne(p.l2_sets) \in Nat \ {0} /\ p.l2_assoc \in Nat \ {0}
         /\ p.vc_num_blocks \in Nat /\ p.l2_sets \in Nat
  BY CacheAssumption DEF OrOne

(* CacheInv, as a predicate of the values of the variables.                *)
LEMMA InvIsKept == CacheInv => Kept(params, L1, VC, L2, fresh, recent)
<1> SUFFICES ASSUME CacheInv PROVE Kept(params, L1, VC, L2, fresh, recent)
  OBVIOUS
<1>1. /\ params \in Params
      /\ CacheOK(L1, params.l1_sets, params.l1_assoc)
      /\ CacheOK(VC, 1, OrOne(params.vc_num_blocks))
      /\ CacheOK(L2, OrOne(params.l2_sets), params.l2_assoc)
      /\ fresh \in [Addr -> SUBSET {"top", "l2", "mem"}]
      /\ recent \subseteq Addr \X Addr
  BY DEF CacheInv, CacheTypeOK
<1>2. /\ Sound(L1, params.l1_sets, params.l1_assoc)
      /\ Sound(VC, 1, OrOne(params.vc_num_blocks))
      /\ Sound(L2, OrOne(params.l2_sets), params.l2_assoc)
  BY <1>1, SizesAre DEF CacheInv, ListsSound, Sound
<1>3. TopInv(L1, params.l1_sets, params.l1_assoc, VC, OrOne(params.vc_num_blocks),
             params.vc_num_blocks > 0)
  BY <1>2 DEF CacheInv, ListsSound, LeftOutEmpty, VictimsOfFullSets, flag_VC, TopInv
<1>4. L2OK(L2, OrOne(params.l2_sets), params.l2_assoc, params.l2_sets > 0)
  BY <1>2 DEF CacheInv, LeftOutEmpty, flag_L2, L2OK
<1>5. FreshOK(fresh, TopSet(L1, VC), DirtySet(L1, VC), L2, params.l2_sets > 0)
  <2>1. NewestFound
    BY DEF CacheInv
  <2>2. \A b \in Addr : /\ b \in TopSet(L1, VC) <=> Top(b)
                        /\ b \in DirtySet(L1, VC) <=> TopDirty(b)
    BY DEF TopSet, DirtySet, InTop, DirtyTop, Top, TopDirty
  <2> QED BY <1>1, <2>1, <2>2 DEF NewestFound, FreshOK, Places, flag_L2
<1>6. LruIn(L1, recent)
  BY LruIs DEF CacheInv
<1> QED BY <1>1, <1>3, <1>4, <1>5, <1>6 DEF Kept

(* And back.                                                               *)
LEMMA KeptIsInv == Kept(params, L1, VC, L2, fresh, recent) => CacheInv
<1> SUFFICES ASSUME Kept(params, L1, VC, L2, fresh, recent) PROVE CacheInv
  OBVIOUS
<1>1. /\ params \in Params
      /\ TopInv(L1, params.l1_sets, params.l1_assoc, VC, OrOne(params.vc_num_blocks),
                params.vc_num_blocks > 0)
      /\ L2OK(L2, OrOne(params.l2_sets), params.l2_assoc, params.l2_sets > 0)
      /\ FreshOK(fresh, TopSet(L1, VC), DirtySet(L1, VC), L2, params.l2_sets > 0)
      /\ recent \subseteq Addr \X Addr /\ LruIn(L1, recent)
  BY DEF Kept
<1>2. /\ Sound(L1, params.l1_sets, params.l1_assoc)
      /\ Sound(VC, 1, OrOne(params.vc_num_blocks))
      /\ Sound(L2, OrOne(params.l2_sets), params.l2_assoc)
  BY <1>1 DEF TopInv, L2OK
<1>3. CacheTypeOK
  BY <1>1, <1>2 DEF CacheTypeOK, Sound, FreshOK, Places
<1>4. ListsSound
  BY <1>1, <1>2 DEF ListsSound, Sound, TopInv
<1>5. /\ FromTrace(L1) /\ FromTrace(VC) /\ FromTrace(L2)
      /\ LeftOutEmpty /\ UnusedClean(VC) /\ VictimsOfFullSets
  BY <1>1 DEF TopInv, L2OK, LeftOutEmpty, VictimsOfFullSets, flag_VC, flag_L2
<1>6. NewestFound
  <2>1. \A b \in Addr : /\ b \in TopSet(L1, VC) <=> Top(b)
                        /\ b \in DirtySet(L1, VC) <=> TopDirty(b)
    BY DEF TopSet, DirtySet, InTop, DirtyTop, Top, TopDirty
  <2> QED BY <1>1, <2>1 DEF NewestFound, FreshOK, flag_L2
<1>7. LruExact
  BY <1>1, LruIs
<1> QED BY <1>3, <1>4, <1>5, <1>6, <1>7 DEF CacheInv

(* What a request leaves: the invariant, as a relation of the two states.  *)
LEMMA RequestKeeps ==
  ASSUME Kept(params, L1, VC, L2, fresh, recent),
         NEW addr \in Addr, NEW rw, request(rw, addr),
         fresh' = Moved(rw, addr),
         recent' = {p \in recent : p[2] /= addr}
                     \cup {<<addr, b>> : b \in Used \cup {addr}},
         params' = params
  PROVE  /\ Kept(params', L1', VC', L2', fresh', recent')
         /\ TopStep(L1', VC', L1, params.l1_sets, params.l1_assoc,
                    VC, OrOne(params.vc_num_blocks), flag_VC, rw, addr)
         /\ LeavingOK(L1, VC, flag_VC, addr, TopVictim(addr))
         /\ L2' = L2After(L2, TopVictim(addr), TopMiss(addr), flag_L2, addr)
<1> DEFINE n  == params.l1_sets
           k  == params.l1_assoc
           m  == OrOne(params.vc_num_blocks)
           n2 == OrOne(params.l2_sets)
           k2 == params.l2_assoc
           gone == TopVictim(addr)
           miss == TopMiss(addr)
           T == TopSet(L1, VC)
           D == DirtySet(L1, VC)
<1>1. /\ params \in Params
      /\ TopInv(L1, n, k, VC, m, flag_VC)
      /\ L2OK(L2, n2, k2, flag_L2)
      /\ FreshOK(fresh, T, D, L2, flag_L2)
      /\ recent \subseteq Addr \X Addr /\ LruIn(L1, recent)
  BY DEF Kept, flag_VC, flag_L2
<1>2. /\ gone = VictimsOf(L1, VC, flag_VC, addr)
      /\ miss <=> MissesTop(L1, VC, flag_VC, addr)
  BY TopNames
<1>3. flag_L2 \in BOOLEAN /\ miss \in BOOLEAN
  BY DEF flag_L2, TopMiss
<1>4. addr \in Nat
  BY CacheAssumption
<1> HIDE DEF n, k, m, n2, k2, gone, miss
<1>5. LeavingOK(L1, VC, flag_VC, addr, gone)
  BY <1>1, <1>2, LeavingIs
<1>6. /\ L1' = L1After(L1, VC, flag_VC, rw, addr)
      /\ VC' = VCAfter(L1, VC, flag_VC, rw, addr)
      /\ L2' = L2After(L2, gone, miss, flag_L2, addr)
  BY <1>1, RequestNames DEF gone, miss
<1>7. TopStep(L1', VC', L1, n, k, VC, m, flag_VC, rw, addr)
  BY <1>1, <1>6, TopStepIs
<1>8. /\ TopInv(L1', n, k, VC', m, flag_VC)
      /\ TopAfter(L1', VC', L1, VC, addr, rw, gone)
      /\ SameRows(L1', Requested(L1, rw, addr))
  BY <1>2, <1>7 DEF TopStep
<1>9. MayLeave(gone, T, D, addr, miss)
  <2>1. D \subseteq T
    BY HoldsIs DEF TopSet, DirtySet, InTop, DirtyTop
  <2> QED BY <2>1, <1>2, <1>5 DEF LeavingOK, MayLeave, TopSet, DirtySet
<1> HIDE DEF T, D
<1> DEFINE T2 == (T \ {v.a : v \in gone}) \cup {addr}
           D2 == (D \ {v.a : v \in gone}) \cup (IF rw = "WRITE" THEN {addr} ELSE {})
<1>10. /\ FreshOK(MovedIn(rw, addr, gone, miss, fresh, L2, flag_L2), T2, D2,
                  L2After(L2, gone, miss, flag_L2, addr), flag_L2)
       /\ L2OK(L2After(L2, gone, miss, flag_L2, addr), n2, k2, flag_L2)
  BY <1>1, <1>3, <1>9, FreshMoved
<1>11. fresh' = MovedIn(rw, addr, gone, miss, fresh, L2, flag_L2)
  BY MovedNames DEF gone, miss
<1>12. TopSet(L1', VC') = T2 /\ DirtySet(L1', VC') = D2
  <2>1. \A v \in gone : v.a /= addr
    BY <1>9 DEF MayLeave
  <2>2. TopSet(L1', VC') = T2
    BY <1>8 DEF TopAfter, TopSet, T
  <2>3. DirtySet(L1', VC') = D2
    BY <2>1, <1>8 DEF TopAfter, DirtySet, D
  <2> QED BY <2>2, <2>3
<1> HIDE DEF T2, D2
<1>13. /\ FreshOK(fresh', TopSet(L1', VC'), DirtySet(L1', VC'), L2', flag_L2)
       /\ L2OK(L2', n2, k2, flag_L2)
  BY <1>6, <1>10, <1>11, <1>12
<1>14. recent' = Now(recent, addr)
  BY DEF Now, Used, InUse
<1>15. recent' \subseteq Addr \X Addr /\ LruIn(L1', recent')
  <2>1. recent' \subseteq Addr \X Addr
    BY <1>1, <1>14, NowIs
  <2>2. Sound(L1, n, k) /\ FromTrace(L1)
    BY <1>1 DEF TopInv
  <2>3. LruIn(Requested(L1, rw, addr), Now(recent, addr))
    BY <2>2, <1>1, <1>4, LruStep
  <2>4. Sound(Requested(L1, rw, addr), n, k)
    BY <2>2, KeptByRequest
  <2>5. InUse(Now(recent, addr)) \subseteq Nat
    BY CacheAssumption DEF InUse
  <2>6. LruIn(L1', Now(recent, addr))
    BY <2>3, <2>4, <2>5, <1>8, SameRowsKeep
  <2> QED BY <2>1, <2>6, <1>14
<1>16. Kept(params', L1', VC', L2', fresh', recent')
  <2>1. params' = params
    OBVIOUS
  <2>2. Kept(params, L1', VC', L2', fresh', recent')
    BY <1>1, <1>8, <1>13, <1>15 DEF Kept, flag_VC, flag_L2, n, k, m, n2, k2
  <2> QED BY <2>1, <2>2
<1> QED BY <1>5, <1>6, <1>7, <1>16 DEF gone, miss, n, k, m


(***************************************************************************)
(* At the start.                                                           *)
(***************************************************************************)
LEMMA NewCacheIs ==
  ASSUME NEW n \in Nat \ {0}, NEW k \in Nat \ {0}
  PROVE  /\ Sound(NewCache(n, k, None), n, k)
         /\ \A a \in Nat : ~Holds(NewCache(n, k, None), a)
         /\ UnusedClean(NewCache(n, k, None))
         /\ LruIn(NewCache(n, k, None), {})
<1> DEFINE c == NewCache(n, k, None)
           row == [w \in 1 .. k |-> [tag |-> k - w, v |-> FALSE, d |-> FALSE]]
<1>1. /\ c.SET_NUM = n /\ c.sets = [i \in 0 .. n - 1 |-> row]
      /\ c.blk_v = None /\ c.addr_evict = None
      /\ c.reads = 0 /\ c.rmiss = 0 /\ c.writes = 0 /\ c.wmiss = 0
      /\ c.writebacks = 0 /\ c.swaps = 0 /\ c.access = 0
  BY DEF NewCache
<1>2. row \in Seq(Block) /\ Len(row) = k /\ DOMAIN row = 1 .. k
  <2>1. \A w \in 1 .. k : [tag |-> k - w, v |-> FALSE, d |-> FALSE] \in Block
    BY DEF Block
  <2>2. row \in [1 .. k -> Block]
    BY <2>1
  <2> QED BY <2>2
<1>3. \A w \in 1 .. k : ~row[w].v /\ ~row[w].d
  OBVIOUS
<1> HIDE DEF row
<1>4. \A i \in 0 .. n - 1 : c.sets[i] = row
  BY <1>1
<1>5. CacheOK(c, n, k)
  <2>1. c.sets \in [0 .. n - 1 -> Seq(Block)]
    BY <1>1, <1>2
  <2>2. c = [SET_NUM |-> n, sets |-> c.sets, blk_v |-> None, addr_evict |-> None,
             reads |-> 0, rmiss |-> 0, writes |-> 0, wmiss |-> 0,
             writebacks |-> 0, swaps |-> 0, access |-> 0]
    BY DEF NewCache
  <2>3. c \in [SET_NUM : {n}, sets : [0 .. n - 1 -> Seq(Block)],
            blk_v : Block \cup {None}, addr_evict : Nat \cup {None},
            reads : Nat, rmiss : Nat, writes : Nat, wmiss : Nat,
            writebacks : Nat, swaps : Nat, access : Nat]
    <3> DEFINE s == c.sets
    <3>1. s \in [0 .. n - 1 -> Seq(Block)]
      BY <2>1
    <3> HIDE DEF s
    <3>2. [SET_NUM |-> n, sets |-> s, blk_v |-> None, addr_evict |-> None,
             reads |-> 0, rmiss |-> 0, writes |-> 0, wmiss |-> 0,
             writebacks |-> 0, swaps |-> 0, access |-> 0]
          \in [SET_NUM : {n}, sets : [0 .. n - 1 -> Seq(Block)],
            blk_v : Block \cup {None}, addr_evict : Nat \cup {None},
            reads : Nat, rmiss : Nat, writes : Nat, wmiss : Nat,
            writebacks : Nat, swaps : Nat, access : Nat]
      BY <3>1
    <3> QED BY <2>2, <3>2 DEF s
  <2> HIDE DEF c
  <2> QED BY <2>3, <1>2, <1>4 DEF CacheOK
<1> HIDE DEF c
<1>6. Sound(c, n, k)
  <2>1. ListOK(c)
    BY <1>1, <1>2, <1>3, <1>4 DEF ListOK
  <2> QED BY <2>1, <1>5 DEF Sound
<1>7. \A a \in Nat : ~Holds(c, a)
  <2>1. \A a \in Nat : IndexOf(c, a) \in 0 .. n - 1
    BY <1>1, SplitIs
  <2> QED BY <2>1, <1>2, <1>3, <1>4 DEF Holds
<1>8. UnusedClean(c)
  BY <1>2, <1>3, <1>4 DEF UnusedClean
<1>9. LruIn(c, {})
  <2>1. InUse({}) = {}
    BY DEF InUse
  <2> SUFFICES ASSUME NEW i \in 0 .. n - 1 PROVE LruSet(c, i, {})
    BY <1>1 DEF LruIn
  <2> QED BY <2>1, <1>2, <1>3, <1>4 DEF LruSet
<1> QED BY <1>6, <1>7, <1>8, <1>9 DEF c

(* The initial state satisfies the invariant.                              *)
LEMMA InitKept == Init => Kept(params, L1, VC, L2, fresh, recent)
<1> SUFFICES ASSUME Init PROVE Kept(params, L1, VC, L2, fresh, recent)
  OBVIOUS
<1> DEFINE n  == params.l1_sets
           k  == params.l1_assoc
           m  == OrOne(params.vc_num_blocks)
           n2 == OrOne(params.l2_sets)
           k2 == params.l2_assoc
<1>1. /\ params \in Params
      /\ L1 = NewCache(n, k, None) /\ VC = NewCache(1, m, None)
      /\ L2 = NewCache(n2, k2, None)
      /\ fresh = [a \in Addr |-> {"mem"}] /\ recent = {}
  BY DEF Init
<1>2. /\ n \in Nat \ {0} /\ k \in Nat \ {0} /\ m \in Nat \ {0}
      /\ n2 \in Nat \ {0} /\ k2 \in Nat \ {0} /\ Addr \subseteq Nat
  BY <1>1, SizesAre, CacheAssumption
<1> HIDE DEF n, k, m, n2, k2
<1>3. /\ Sound(L1, n, k) /\ LruIn(L1, {}) /\ \A a \in Nat : ~Holds(L1, a)
      /\ Sound(L2, n2, k2) /\ \A a \in Nat : ~Holds(L2, a)
  BY <1>1, <1>2, NewCacheIs
<1>4. Sound(VC, 1, m) /\ UnusedClean(VC) /\ \A a \in Nat : ~Holds(VC, a)
  <2>1. 1 \in Nat \ {0}
    OBVIOUS
  <2> QED BY <2>1, <1>1, <1>2, NewCacheIs
<1>5. TopInv(L1, n, k, VC, m, params.vc_num_blocks > 0)
  BY <1>2, <1>3, <1>4 DEF TopInv, FromTrace, NothingIn
<1>6. L2OK(L2, n2, k2, params.l2_sets > 0)
  BY <1>3 DEF L2OK, FromTrace, NothingIn
<1>7. FreshOK(fresh, TopSet(L1, VC), DirtySet(L1, VC), L2, params.l2_sets > 0)
  <2>1. \A b \in Addr : /\ b \notin TopSet(L1, VC)
                        /\ ~Holds(L2, b) /\ fresh[b] = {"mem"}
    BY <1>1, <1>2, <1>3, <1>4 DEF TopSet, InTop
  <2>2. fresh \in [Addr -> SUBSET Places]
    BY <1>1, PlacesAre
  <2> QED BY <2>1, <2>2 DEF FreshOK
<1> QED BY <1>1, <1>3, <1>5, <1>6, <1>7 DEF Kept, n, k, m, n2, k2

(* The invariant holds in every state.                                     *)
LEMMA AlwaysKept == Spec => []Kept(params, L1, VC, L2, fresh, recent)
<1> DEFINE I == Kept(params, L1, VC, L2, fresh, recent)
<1>1. Init => I
  BY InitKept
<1>2. I /\ [Next]_vars => I'
  <2> SUFFICES ASSUME I, [Next]_vars PROVE I'
    OBVIOUS
  <2>1. CASE Next
    <3>1. PICK rw \in {"READ", "WRITE"}, addr \in Addr :
            /\ request(rw, addr)
            /\ fresh' = Moved(rw, addr)
            /\ recent' = {p \in recent : p[2] /= addr}
                            \cup {<<addr, b>> : b \in Used \cup {addr}}
            /\ UNCHANGED params
      BY <2>1 DEF Next
    <3>2. params' = params
      BY <3>1
    <3> QED BY <3>1, <3>2, RequestKeeps
  <2>2. CASE UNCHANGED vars
    BY <2>2 DEF vars
  <2> QED BY <2>1, <2>2
<1> HIDE DEF I
<1>3. Init /\ [][Next]_vars => []I
  BY <1>1, <1>2, PTL
<1> QED BY <1>3 DEF Spec, I

(* The inductive invariant holds in every reachable state.                 *)
THEOREM CachesInductive == Spec => []CacheInv
  BY AlwaysKept, KeptIsInv, PTL

(* Each set keeps its number of blocks, and every field its type.          *)
THEOREM CacheTypesKept == Spec => []CacheTypeOK
<1>1. CacheInv => CacheTypeOK
  BY DEF CacheInv
<1> QED BY <1>1, CachesInductive, PTL

(* Whatever is requested, valid blocks come first in every list (so the    *)
(* scan of request may stop at an invalid one), no list has a block twice, *)
(* and no block is in L1 and the victim cache.                             *)
THEOREM ListsStaySound == Spec => []ListsSound
<1>1. CacheInv => ListsSound
  BY DEF CacheInv
<1> QED BY <1>1, CachesInductive, PTL

(* No write is lost on any way through L1, victim cache, L2 and memory:    *)
(* the newest version is where the next request looks for it.              *)
THEOREM NoWriteIsLost == Spec => []NewestFound
<1>1. CacheInv => NewestFound
  BY DEF CacheInv
<1> QED BY <1>1, CachesInductive, PTL

(* L1 always replaces the least recently used block of the set.            *)
THEOREM LeastRecentIsReplaced == Spec => []LruExact
<1>1. CacheInv => LruExact
  BY DEF CacheInv
<1> QED BY <1>1, CachesInductive, PTL


(***************************************************************************)
(* The report.                                                             *)
(***************************************************************************)
Bit(P) == IF P THEN 1 ELSE 0

CountsOK(l1, vc, l2) ==
  /\ l1.rmiss \in Nat /\ l1.wmiss \in Nat /\ l1.writebacks \in Nat
  /\ vc.swaps \in Nat /\ vc.writebacks \in Nat
  /\ l2.reads \in Nat /\ l2.writes \in Nat

(* A set with one element or none.                                         *)
LEMMA OneOrNone ==
  ASSUME NEW S, NEW x, NEW P \in BOOLEAN, S = IF P THEN {x} ELSE {}
  PROVE  Cardinality(S) = Bit(P)
<1>1. CASE P
  <2>1. S = {x}
    BY <1>1
  <2> QED BY <2>1, <1>1, FS_Singleton DEF Bit
<1>2. CASE ~P
  <2>1. S = {}
    BY <1>2
  <2> QED BY <2>1, <1>2, FS_EmptySet DEF Bit
<1> QED BY <1>1, <1>2

L2Grows(r, l2, gone, miss) ==
  /\ r.reads = l2.reads + Bit(miss)
  /\ r.writes = l2.writes + Bit(\E v \in gone : v.d)

(* L2 is asked to write the dirty block that leaves, and to read the block *)
(* that comes.                                                             *)
LEMMA L2Traffic ==
  ASSUME NEW l2, NEW n, NEW k, Sound(l2, n, k), FromTrace(l2), NEW a \in Addr,
         NEW gone, \A v \in gone : v.a \in Addr /\ v.d \in BOOLEAN,
         \A u, v \in gone : u = v, NEW miss \in BOOLEAN, gone /= {} => miss
  PROVE  L2Grows(L2After(l2, gone, miss, TRUE, a), l2, gone, miss)
<1> DEFINE w == L2Of(l2, gone)
           P == \E v \in gone : v.d
<1>1. a \in Nat /\ Addr \subseteq Nat
  BY CacheAssumption
<1>2. l2.reads \in Nat /\ l2.writes \in Nat
  BY DEF Sound, CacheOK
<1>3. Sound(w, n, k) /\ w.reads = l2.reads /\ w.writes = l2.writes + Bit(P)
  <2>1. CASE P
    <3>1. PICK v : v \in gone /\ v.d
      BY <2>1
    <3>2. {x \in gone : x.d} = {v}
      BY <3>1
    <3>3. (CHOOSE x \in {x \in gone : x.d} : TRUE) = v
      BY <3>2
    <3>4. w = Requested(l2, "WRITE", v.a) /\ v.a \in Nat /\ v.a \in Addr
      BY <3>1, <3>2, <3>3, <1>1 DEF L2Of
    <3> HIDE DEF w, P
    <3>5. AfterRequest(w, l2, n, k, "WRITE", v.a)
      BY <3>4, RequestedFields
    <3>6. CountsAfter(w, l2, "WRITE", Returned(l2, v.a))
      BY <3>5 DEF AfterRequest
    <3>7. w.reads = l2.reads + 0 /\ w.writes = l2.writes + 1
      BY <3>6 DEF CountsAfter
    <3>8. Sound(w, n, k)
      BY <3>4, KeptByRequest
    <3> QED BY <3>7, <3>8, <2>1, <1>2 DEF Bit
  <2>2. CASE ~P
    <3>1. {x \in gone : x.d} = {}
      BY <2>2
    <3>2. w = l2
      BY <3>1 DEF L2Of
    <3> HIDE DEF w, P
    <3> QED BY <3>2, <2>2, <1>2 DEF Bit
  <2> QED BY <2>1, <2>2
<1>4. ~miss => w = l2 /\ ~P
  <2>1. ~miss => gone = {}
    OBVIOUS
  <2> QED BY <2>1, L2OfNone
<1>5. L2After(l2, gone, miss, TRUE, a) = IF miss THEN Requested(w, "READ", a) ELSE l2
  BY DEF L2After
<1> HIDE DEF w, P
<1>6. CASE miss
  <2>1. AfterRequest(Requested(w, "READ", a), w, n, k, "READ", a)
    BY <1>1, <1>3, RequestedFields
  <2>2. CountsAfter(Requested(w, "READ", a), w, "READ", Returned(w, a))
    BY <2>1 DEF AfterRequest
  <2> DEFINE r == Requested(w, "READ", a)
  <2>3. r.reads = w.reads + 1 /\ r.writes = w.writes + 0
    BY <2>2 DEF CountsAfter
  <2>4. L2After(l2, gone, miss, TRUE, a) = r
    BY <1>5, <1>6
  <2> HIDE DEF r
  <2>5. w.writes \in Nat
    BY <1>2, <1>3 DEF Bit
  <2>6. r.reads = l2.reads + Bit(miss) /\ r.writes = l2.writes + Bit(P)
    BY <2>3, <2>5, <1>2, <1>3, <1>6 DEF Bit
  <2> QED BY <2>4, <2>6 DEF L2Grows, P
<1>7. CASE ~miss
  <2>1. L2After(l2, gone, miss, TRUE, a) = l2 /\ ~P
    BY <1>4, <1>5, <1>7
  <2>2. l2.reads = l2.reads + Bit(miss) /\ l2.writes = l2.writes + Bit(P)
    BY <2>1, <1>2, <1>7 DEF Bit
  <2> QED BY <2>1, <2>2 DEF L2Grows, P
<1> QED BY <1>6, <1>7

(* The counters of L1 and the victim cache, and what they stand for.       *)
Misses(l1, vc, fv)     == (l1.rmiss + l1.wmiss) - (IF fv THEN vc.swaps ELSE 0)
Writebacks(l1, vc, fv) == IF fv THEN vc.writebacks ELSE l1.writebacks

CountsGrow(l1p, vcp, l1, vc, fv, a) ==
  /\ Misses(l1p, vcp, fv) - Misses(l1, vc, fv) = Bit(MissesTop(l1, vc, fv, a))
  /\ Writebacks(l1p, vcp, fv) - Writebacks(l1, vc, fv) =
       Bit(\E v \in VictimsOf(l1, vc, fv, a) : v.d)

(* What the counters of results() grow by.                                 *)
LEMMA TopTraffic ==
  ASSUME NEW l1, NEW n, NEW k, NEW vc, NEW m, NEW fv \in BOOLEAN,
         TopInv(l1, n, k, vc, m, fv),
         NEW a \in Addr, NEW rw \in {"READ", "WRITE"}, NEW l1p, NEW vcp,
         l1p = L1After(l1, vc, fv, rw, a), vcp = VCAfter(l1, vc, fv, rw, a)
  PROVE  CountsGrow(l1p, vcp, l1, vc, fv, a)
<1> DEFINE q == Requested(l1, rw, a)
           gone == VictimsOf(l1, vc, fv, a)
           r1 == Returned(l1, a)
           r2 == SwapReturned(vc, a)
           E == Evicts(r1)
           S == Swaps(l1, fv, a)
           z == Last(vc.sets[0])
<1>1. a \in Nat /\ Sound(l1, n, k) /\ Sound(vc, 1, m) /\ UnusedClean(vc)
  BY CacheAssumption DEF TopInv
<1>2. /\ l1.rmiss \in Nat /\ l1.wmiss \in Nat /\ l1.writebacks \in Nat
      /\ vc.swaps \in Nat /\ vc.writebacks \in Nat
  BY <1>1 DEF Sound, CacheOK
<1>3. /\ r1 \in {"HIT", "MISS", "EVICT_DIRTY", "EVICT_CLEAN"}
      /\ r2 \in {"HIT", "EVICT_DIRTY", "EVICT_CLEAN"}
      /\ E <=> r1 \in {"EVICT_DIRTY", "EVICT_CLEAN"}
  BY <1>1, VictimIs, SwapPlaceIs DEF Evicts
<1>4. S <=> fv /\ E
  BY DEF Swaps
<1>5. /\ l1p.rmiss + l1p.wmiss = l1.rmiss + l1.wmiss + Bit(r1 /= "HIT")
      /\ l1p.writebacks = l1.writebacks + Bit(r1 = "EVICT_DIRTY")
  <2>1. AfterRequest(q, l1, n, k, rw, a)
    BY <1>1, RequestedFields
  <2>2. CountsAfter(q, l1, rw, r1)
    BY <2>1 DEF AfterRequest
  <2>3. TopStep(l1p, vcp, l1, n, k, vc, m, fv, rw, a)
    BY TopStepIs
  <2>4. SameCounts(l1p, q)
    BY <2>3 DEF TopStep
  <2> HIDE DEF q, r1
  <2>5. /\ q.rmiss + q.wmiss = l1.rmiss + l1.wmiss + Bit(r1 /= "HIT")
        /\ q.writebacks = l1.writebacks + Bit(r1 = "EVICT_DIRTY")
    BY <2>2 DEF CountsAfter, Bit
  <2> QED BY <2>4, <2>5 DEF SameCounts
<1>6. /\ vcp.swaps = vc.swaps + Bit(S /\ r2 = "HIT")
      /\ vcp.writebacks = vc.writebacks + Bit(S /\ r2 = "EVICT_DIRTY")
  <2>1. CASE S
    <3>1. vcp = Swapped(vc, q, a)
      BY <2>1 DEF VCAfter
    <3>2. HasEvicted(q) /\ ~Holds(vc, q.addr_evict)
      <4>1. E
        BY <2>1, <1>4
      <4>2. /\ Victim(l1, a) \in Nat /\ FoundAt(l1, a) \in Block
            /\ ~Holds(vc, Victim(l1, a))
        BY <4>1, <1>1, VictimIs, Asked
      <4>3. AfterRequest(q, l1, n, k, rw, a)
        BY <1>1, RequestedFields
      <4>4. q.blk_v = FoundAt(l1, a) /\ q.addr_evict = Victim(l1, a)
        BY <4>1, <4>3 DEF AfterRequest
      <4> QED BY <4>2, <4>4 DEF HasEvicted
    <3> HIDE DEF q
    <3>3. AfterSwap(Swapped(vc, q, a), vc, m, q, a)
      BY <1>1, <3>2, SwappedFields
    <3>4. /\ vcp.writebacks = vc.writebacks + (IF r2 = "EVICT_DIRTY" THEN 1 ELSE 0)
          /\ vcp.swaps = vc.swaps + (IF r2 = "HIT" THEN 1 ELSE 0)
      BY <3>1, <3>3 DEF AfterSwap
    <3> QED BY <3>4, <2>1 DEF Bit
  <2>2. CASE ~S
    <3>1. vcp = vc
      BY <2>2 DEF VCAfter
    <3> QED BY <3>1, <2>2, <1>2 DEF Bit
  <2> QED BY <2>1, <2>2
<1>7. MissesTop(l1, vc, fv, a) <=> r1 /= "HIT" /\ ~(S /\ r2 = "HIT")
  BY <1>4 DEF MissesTop
<1>8. (\E v \in gone : v.d) <=> IF fv THEN S /\ r2 = "EVICT_DIRTY"
                                ELSE r1 = "EVICT_DIRTY"
  <2>1. r2 = "EVICT_DIRTY" => z.v
    <3>1. r2 = "EVICT_DIRTY" => z.d
      BY <1>1, SwapPlaceIs
    <3>2. z = vc.sets[0][m] /\ m \in DOMAIN vc.sets[0]
      BY <1>1, OneSet DEF Last
    <3> QED BY <3>1, <3>2, <1>1 DEF UnusedClean
  <2>2. CASE ~E
    <3>1. gone = {}
      BY <2>2 DEF VictimsOf
    <3> QED BY <3>1, <2>2, <1>3, <1>4
  <2>3. CASE E /\ ~fv
    <3> DEFINE u == [a |-> Victim(l1, a), d |-> r1 = "EVICT_DIRTY"]
    <3>1. gone = {u}
      BY <2>3 DEF VictimsOf
    <3>2. u.d = (r1 = "EVICT_DIRTY")
      OBVIOUS
    <3> HIDE DEF u, gone, r1, r2, E, S
    <3>3. (\E v \in gone : v.d) <=> u.d
      BY <3>1
    <3> QED BY <3>2, <3>3, <2>3
  <2>4. CASE E /\ fv /\ (r2 = "HIT" \/ ~z.v)
    <3>1. gone = {}
      BY <2>4 DEF VictimsOf
    <3> HIDE DEF gone, r1, r2, E, S
    <3> QED BY <3>1, <2>1, <2>4
  <2>5. CASE E /\ fv /\ ~(r2 = "HIT" \/ ~z.v)
    <3> DEFINE u == [a |-> z.tag, d |-> r2 = "EVICT_DIRTY"]
    <3>1. gone = {u}
      BY <2>5 DEF VictimsOf
    <3>2. u.d = (r2 = "EVICT_DIRTY")
      OBVIOUS
    <3> HIDE DEF u, gone, r1, r2, E, S
    <3>3. (\E v \in gone : v.d) <=> u.d
      BY <3>1
    <3> QED BY <3>2, <3>3, <2>5, <1>4
  <2> QED BY <2>2, <2>3, <2>4, <2>5
<1> DEFINE P == MissesTop(l1, vc, fv, a)
           Q == \E v \in gone : v.d
<1> HIDE DEF gone, r1, r2, E, S, P, Q
<1>9. (r1 = "HIT") => ~S
  BY <1>3, <1>4
<1>10. Misses(l1p, vcp, fv) - Misses(l1, vc, fv) = Bit(P)
  <2>1. P <=> r1 /= "HIT" /\ ~(S /\ r2 = "HIT")
    BY <1>7 DEF P
  <2> DEFINE x == l1.rmiss + l1.wmiss
             xp == l1p.rmiss + l1p.wmiss
  <2>2. x \in Nat /\ xp = x + Bit(r1 /= "HIT")
    BY <1>2, <1>5
  <2>3. /\ Misses(l1p, vcp, fv) = xp - (IF fv THEN vcp.swaps ELSE 0)
        /\ Misses(l1, vc, fv) = x - (IF fv THEN vc.swaps ELSE 0)
    BY DEF Misses
  <2> DEFINE y == vc.swaps
             yp == vcp.swaps
             b1 == Bit(r1 /= "HIT")
             b2 == Bit(S /\ r2 = "HIT")
             b3 == Bit(P)
  <2>4. y \in Nat /\ yp = y + b2 /\ xp = x + b1
    BY <2>2, <1>2, <1>6
  <2>5. fv => Misses(l1p, vcp, fv) = xp - yp /\ Misses(l1, vc, fv) = x - y
    BY <2>3
  <2>6. ~fv => Misses(l1p, vcp, fv) = xp - 0 /\ Misses(l1, vc, fv) = x - 0
    BY <2>3
  <2>7. fv \/ ~fv
    OBVIOUS
  <2>8. CASE r1 = "HIT"
    <3>1. b1 = 0 /\ b2 = 0 /\ b3 = 0
      BY <2>1, <2>8, <1>9 DEF Bit
    <3> HIDE DEF x, xp, y, yp, b1, b2, b3
    <3>2. xp = x /\ yp = y
      BY <3>1, <2>2, <2>4
    <3> QED BY <3>1, <3>2, <2>2, <2>4, <2>5, <2>6, <2>7 DEF b3
  <2>9. CASE r1 /= "HIT" /\ S /\ r2 = "HIT"
    <3>1. b1 = 1 /\ b2 = 1 /\ b3 = 0 /\ fv
      BY <2>1, <2>9, <1>4 DEF Bit
    <3> HIDE DEF x, xp, y, yp, b1, b2, b3
    <3>2. xp = x + 1 /\ yp = y + 1
      BY <3>1, <2>2, <2>4
    <3>3. Misses(l1p, vcp, fv) = xp - yp /\ Misses(l1, vc, fv) = x - y
      BY <3>1, <2>5
    <3>4. x \in Nat /\ y \in Nat
      BY <2>2, <2>4
    <3>5. (xp - yp) - (x - y) = 0
      BY <3>2, <3>4
    <3> QED BY <3>1, <3>3, <3>5 DEF b3
  <2>10. CASE r1 /= "HIT" /\ ~(S /\ r2 = "HIT")
    <3>1. b1 = 1 /\ b2 = 0 /\ b3 = 1
      BY <2>1, <2>10 DEF Bit
    <3> HIDE DEF x, xp, y, yp, b1, b2, b3
    <3>2. xp = x + 1 /\ yp = y
      BY <3>1, <2>2, <2>4
    <3> QED BY <3>1, <3>2, <2>2, <2>4, <2>5, <2>6, <2>7 DEF b3
  <2> QED BY <2>8, <2>9, <2>10
<1>11. Writebacks(l1p, vcp, fv) - Writebacks(l1, vc, fv) = Bit(Q)
  <2>1. Q <=> IF fv THEN S /\ r2 = "EVICT_DIRTY" ELSE r1 = "EVICT_DIRTY"
    BY <1>8 DEF Q
  <2> QED BY <2>1, <1>2, <1>5, <1>6 DEF Writebacks, Bit
<1> QED BY <1>10, <1>11 DEF CountsGrow, P, Q, gone


(* The blocks that come up, and the dirty ones that leave.                 *)
BlocksMove(l1p, vcp, l1, vc, fv, a, gone) ==
  /\ Cardinality({b \in Addr : InTop(l1p, vcp, b) /\ ~InTop(l1, vc, b)}) =
       Bit(MissesTop(l1, vc, fv, a))
  /\ Cardinality({b \in Addr : DirtyTop(l1, vc, b) /\ ~InTop(l1p, vcp, b)}) =
       Bit(\E v \in gone : v.d)

(* The blocks that move, counted.                                          *)
LEMMA MovesAre ==
  ASSUME NEW l1, NEW vc, NEW l1p, NEW vcp, NEW fv, NEW a \in Addr, NEW rw,
         NEW gone, LeavingOK(l1, vc, fv, a, gone),
         TopAfter(l1p, vcp, l1, vc, a, rw, gone)
  PROVE  BlocksMove(l1p, vcp, l1, vc, fv, a, gone)
<1> DEFINE up   == {b \in Addr : InTop(l1p, vcp, b) /\ ~InTop(l1, vc, b)}
           down == {b \in Addr : DirtyTop(l1, vc, b) /\ ~InTop(l1p, vcp, b)}
           P == MissesTop(l1, vc, fv, a)
           Q == \E v \in gone : v.d
<1>1. \A b \in Addr : DirtyTop(l1, vc, b) => InTop(l1, vc, b)
  BY HoldsIs DEF DirtyTop, InTop
<1>2. P <=> ~InTop(l1, vc, a)
  BY DEF LeavingOK
<1>3. \A b \in Addr : InTop(l1p, vcp, b) <=>
        b = a \/ (InTop(l1, vc, b) /\ \A v \in gone : b /= v.a)
  BY DEF TopAfter
<1>4. P \in BOOLEAN /\ Q \in BOOLEAN
  BY DEF MissesTop
<1>5. up = IF P THEN {a} ELSE {}
  <2>1. \A b : b \in up <=> b = a /\ P
    BY <1>2, <1>3
  <2> HIDE DEF up, P
  <2> QED BY <2>1
<1>6. Cardinality(up) = Bit(P)
  <2> HIDE DEF up, P
  <2> QED BY <1>4, <1>5, OneOrNone
<1>7. \A b : b \in down <=> \E v \in gone : v.d /\ b = v.a
  <2>1. \A v \in gone : /\ v.a \in Addr /\ v.a /= a /\ v.d \in BOOLEAN
                        /\ InTop(l1, vc, v.a) /\ (v.d <=> DirtyTop(l1, vc, v.a))
    BY DEF LeavingOK
  <2>2. ASSUME NEW b \in Addr, DirtyTop(l1, vc, b), ~InTop(l1p, vcp, b)
        PROVE  \E v \in gone : v.d /\ b = v.a
    BY <2>1, <2>2, <1>1, <1>3
  <2>3. ASSUME NEW v \in gone, v.d
        PROVE  v.a \in Addr /\ DirtyTop(l1, vc, v.a) /\ ~InTop(l1p, vcp, v.a)
    BY <2>1, <2>3, <1>3
  <2> QED BY <2>2, <2>3
<1>8. Cardinality(down) = Bit(Q)
  <2>1. CASE Q
    <3>1. PICK v \in gone : v.d
      BY <2>1
    <3>2. \A u \in gone : u = v
      BY <3>1 DEF LeavingOK
    <3>3. down = {v.a}
      <4> HIDE DEF down, Q
      <4> QED BY <3>1, <3>2, <1>7
    <3> HIDE DEF down, Q
    <3> QED BY <3>3, <2>1, FS_Singleton DEF Bit
  <2>2. CASE ~Q
    <3>1. down = {}
      <4>1. \A b : b \notin down
        BY <2>2, <1>7
      <4> HIDE DEF down
      <4> QED BY <4>1
    <3> HIDE DEF down, Q
    <3> QED BY <3>1, <2>2, FS_EmptySet DEF Bit
  <2> QED BY <2>1, <2>2
<1> QED BY <1>6, <1>8 DEF BlocksMove

(* Every step counts what it moves.                                        *)
LEMMA TrafficStep ==
  Kept(params, L1, VC, L2, fresh, recent) /\ [Next]_vars => [Traffic]_vars
<1> SUFFICES ASSUME Kept(params, L1, VC, L2, fresh, recent), Next PROVE Traffic
  OBVIOUS
<1> DEFINE n == params.l1_sets
           k == params.l1_assoc
           m == OrOne(params.vc_num_blocks)
<1>1. PICK rw \in {"READ", "WRITE"}, addr \in Addr :
        /\ request(rw, addr)
        /\ fresh' = Moved(rw, addr)
        /\ recent' = {p \in recent : p[2] /= addr}
                        \cup {<<addr, b>> : b \in Used \cup {addr}}
        /\ UNCHANGED params
  BY DEF Next
<1>2. params' = params
  BY <1>1
<1> DEFINE gone == TopVictim(addr)
           miss == TopMiss(addr)
<1>3. /\ TopStep(L1', VC', L1, n, k, VC, m, flag_VC, rw, addr)
      /\ LeavingOK(L1, VC, flag_VC, addr, gone)
      /\ L2' = L2After(L2, gone, miss, flag_L2, addr)
  BY <1>1, <1>2, RequestKeeps
<1>4. /\ TopInv(L1, n, k, VC, m, flag_VC)
      /\ Sound(L2, OrOne(params.l2_sets), params.l2_assoc) /\ FromTrace(L2)
  BY DEF Kept, L2OK, flag_VC, flag_L2
<1>5. /\ gone = VictimsOf(L1, VC, flag_VC, addr)
      /\ miss <=> MissesTop(L1, VC, flag_VC, addr)
  BY TopNames
<1>6. flag_VC \in BOOLEAN /\ flag_L2 \in BOOLEAN /\ miss \in BOOLEAN
      /\ flag_VC' = flag_VC
  BY <1>2 DEF flag_VC, flag_L2, TopMiss
<1>7. /\ L1' = L1After(L1, VC, flag_VC, rw, addr)
      /\ VC' = VCAfter(L1, VC, flag_VC, rw, addr)
  BY <1>1, <1>4, RequestNames
<1> HIDE DEF n, k, m, gone, miss
<1>8. TopAfter(L1', VC', L1, VC, addr, rw, gone)
  BY <1>3, <1>5 DEF TopStep
<1> DEFINE M == Bit(MissesTop(L1, VC, flag_VC, addr))
           W == Bit(\E v \in gone : v.d)
<1>9. /\ Misses(L1', VC', flag_VC) - Misses(L1, VC, flag_VC) = M
      /\ Writebacks(L1', VC', flag_VC) - Writebacks(L1, VC, flag_VC) = W
  <2>1. CountsGrow(L1', VC', L1, VC, flag_VC, addr)
    BY <1>4, <1>6, <1>7, TopTraffic
  <2> QED BY <2>1, <1>5 DEF CountsGrow
<1>10. /\ Cardinality({b \in Addr : InTop(L1', VC', b) /\ ~InTop(L1, VC, b)}) = M
       /\ Cardinality({b \in Addr : DirtyTop(L1, VC, b) /\ ~InTop(L1', VC', b)}) = W
  <2>1. BlocksMove(L1', VC', L1, VC, flag_VC, addr, gone)
    BY <1>3, <1>8, MovesAre
  <2> QED BY <2>1 DEF BlocksMove
<1>11. flag_L2 => L2'.reads - L2.reads = M /\ L2'.writes - L2.writes = W
  <2> SUFFICES ASSUME flag_L2
               PROVE  L2'.reads - L2.reads = M /\ L2'.writes - L2.writes = W
    OBVIOUS
  <2>1. /\ \A v \in gone : v.a \in Addr /\ v.d \in BOOLEAN
        /\ \A u, v \in gone : u = v
        /\ gone /= {} => miss
    BY <1>3, <1>5 DEF LeavingOK
  <2>2. L2Grows(L2After(L2, gone, miss, TRUE, addr), L2, gone, miss)
    BY <2>1, <1>4, <1>6, L2Traffic
  <2>3. L2' = L2After(L2, gone, miss, TRUE, addr)
    BY <1>3
  <2>4. Bit(miss) = M
    BY <1>5, <1>6 DEF Bit
  <2>5. L2.reads \in Nat /\ L2.writes \in Nat /\ M \in Nat /\ W \in Nat
    BY <1>4 DEF Sound, CacheOK, Bit
  <2> DEFINE r == L2After(L2, gone, miss, TRUE, addr)
  <2>6. r.reads = L2.reads + M /\ r.writes = L2.writes + W
    BY <2>2, <2>4 DEF L2Grows
  <2> HIDE DEF M, W, r
  <2>7. L2' = r
    BY <2>3 DEF r
  <2> QED BY <2>5, <2>6, <2>7
<1>12. /\ ReportedMisses' - ReportedMisses = M
       /\ ReportedWritebacks' - ReportedWritebacks = W
  BY <1>6, <1>9 DEF ReportedMisses, ReportedWritebacks, Misses, Writebacks
<1>13. /\ Cardinality({a \in Addr : Top(a)' /\ ~Top(a)}) = M
       /\ Cardinality({a \in Addr : TopDirty(a) /\ ~Top(a)'}) = W
  <2>1. \A a : /\ Top(a)' <=> InTop(L1', VC', a)
               /\ Top(a) <=> InTop(L1, VC, a)
               /\ TopDirty(a) <=> DirtyTop(L1, VC, a)
    BY DEF Top, TopDirty, InTop, DirtyTop
  <2> HIDE DEF M, W
  <2>2. {a \in Addr : Top(a)' /\ ~Top(a)} =
          {b \in Addr : InTop(L1', VC', b) /\ ~InTop(L1, VC, b)}
    BY <2>1
  <2>3. {a \in Addr : TopDirty(a) /\ ~Top(a)'} =
          {b \in Addr : DirtyTop(L1, VC, b) /\ ~InTop(L1', VC', b)}
    BY <2>1
  <2> QED BY <2>2, <2>3, <1>10
<1> HIDE DEF M, W
<1> QED BY <1>11, <1>12, <1>13 DEF Traffic

(* The misses and writebacks that results() reports grow by the blocks     *)
(* that come up and by the dirty blocks that leave; L2 is read and written *)
(* as often.                                                               *)
THEOREM ReportIsExact == Spec => TrafficExact
<1>1. Kept(params, L1, VC, L2, fresh, recent) /\ [Next]_vars => [Traffic]_vars
  BY TrafficStep
<1> DEFINE I == Kept(params, L1, VC, L2, fresh, recent)
<1>2. Spec => []I
  BY AlwaysKept
<1> HIDE DEF I
<1>3. I /\ [Next]_vars => [Traffic]_vars
  BY <1>1 DEF I
<1> QED BY <1>2, <1>3, PTL DEF Spec, TrafficExact
=============================================================================
