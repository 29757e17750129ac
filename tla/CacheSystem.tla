---------------------------- MODULE CacheSystem ----------------------------
(***************************************************************************)
(* CACHE_SYSTEM of Project01 (cache_system.h): an L1 cache, optionally a   *)
(* victim cache and an L2 cache, and the memory behind them.  The program  *)
(* simulates tags only; `fresh' adds where the newest version of each      *)
(* block is and moves it with the blocks, so that a lost write shows, and  *)
(* `recent' adds the order in which blocks were used.                      *)
(***************************************************************************)
EXTENDS Cache

CONSTANTS Addr,    \* the blocks of the trace
          Params,  \* the cache_params to be tried
          None     \* no block evicted yet

(* Sizes are in blocks and sets; without blocks the victim cache, and      *)
(* without sets L2, is left out.                                           *)
ASSUME CacheAssumption ==
  /\ Addr \subseteq Nat /\ None \notin Nat /\ None \notin Block
  /\ \A p \in Params : /\ p.l1_sets \in Nat \ {0} /\ p.l1_assoc \in Nat \ {0}
                       /\ p.vc_num_blocks \in Nat
                       /\ p.l2_sets \in Nat /\ p.l2_assoc \in Nat \ {0}

VARIABLES params,      \* the configuration, chosen once
          L1, VC, L2,
          fresh,       \* for each block, which of "top" (L1 and VC), "l2" and
                       \* "mem" have its newest version (history)
          recent       \* the pairs of blocks used, <<a, b>> if a was used after
                       \* b or is b (history)

vars == <<params, L1, VC, L2, fresh, recent>>

flag_L2 == params.l2_sets > 0
flag_VC == params.vc_num_blocks > 0

(* A cache that is left out is built with one block; nothing asks it.      *)
OrOne(n) == IF n > 0 THEN n ELSE 1

Init ==
  /\ params \in Params
  /\ L1 = NewCache(params.l1_sets, params.l1_assoc, None)
  /\ VC = NewCache(1, OrOne(params.vc_num_blocks), None)
  /\ L2 = NewCache(OrOne(params.l2_sets), params.l2_assoc, None)
  /\ fresh = [a \in Addr |-> {"mem"}]
  /\ recent = {}

(***************************************************************************)
(* func0 .. func3, one for each configuration.  What L1 evicts goes to the *)
(* victim cache or to L2, a dirty block before the missing one is fetched. *)
(***************************************************************************)
rtn1(addr) == Returned(L1, addr)
rtn2(addr) == SwapReturned(VC, addr)

(* L2 after a read of addr, and after a write of another block before it.  *)
L2Read(addr)              == Requested(L2, "READ", addr)
L2ReadOnly(v, addr)       == Requested(L2, "READ", addr)
                             \* mutant: the dirty block is dropped
L2WrittenRead(v, addr)    == Requested(Requested(L2, "WRITE", v), "READ", addr)

func0(rw, addr) ==
  /\ L1' = Requested(L1, rw, addr)
  /\ UNCHANGED <<VC, L2>>

func1(rw, addr) ==
  /\ L1' = Requested(L1, rw, addr)
  /\ L2' = CASE rtn1(addr) = "EVICT_DIRTY" -> L2WrittenRead(L1'.addr_evict, addr)
             [] rtn1(addr) \in {"EVICT_CLEAN", "MISS"} -> L2Read(addr)
             [] OTHER -> L2
  /\ UNCHANGED VC

Swap(rw, addr) ==
  LET l1 == Requested(L1, rw, addr)
  IN  IF Evicts(rtn1(addr))
      THEN L1' = SwappedL1(l1, VC, addr) /\ VC' = Swapped(VC, l1, addr)
      ELSE L1' = l1 /\ VC' = VC

func2(rw, addr) == Swap(rw, addr) /\ UNCHANGED L2

func3(rw, addr) ==
  /\ Swap(rw, addr)
  /\ L2' = CASE Evicts(rtn1(addr)) /\ rtn2(addr) = "EVICT_DIRTY" ->
                  L2WrittenRead(VC'.addr_evict, addr)
             [] Evicts(rtn1(addr)) /\ rtn2(addr) = "EVICT_CLEAN" -> L2Read(addr)
             [] rtn1(addr) = "MISS" -> L2Read(addr)
             [] OTHER -> L2

request(rw, addr) ==
  CASE ~flag_VC /\ ~flag_L2 -> func0(rw, addr)
    [] ~flag_VC /\ flag_L2  -> func1(rw, addr)
    [] flag_VC /\ ~flag_L2  -> func2(rw, addr)
    [] flag_VC /\ flag_L2   -> func3(rw, addr)

(***************************************************************************)
(* What the two histories record of a request.                             *)
(***************************************************************************)
Copied(f, a, from, to) ==
  [f EXCEPT ![a] = IF from \in @ THEN @ \cup {to} ELSE @ \ {to}]
Dropped(f, a, place) == [f EXCEPT ![a] = @ \ {place}]

(* A block leaves a place, and is written below if the place says dirty.   *)
Leaves(f, a, dirty, place, below) ==
  Dropped(IF dirty THEN Copied(f, a, place, below) ELSE f, a, place)

(* L2 makes room for block a and gets it from memory, unless it has it.    *)
Allocated(f, l2, a) ==
  LET v == AddrOf(l2, IndexOf(l2, a), FoundAt(l2, a).tag)
  IN  CASE Returned(l2, a) = "HIT"  -> f
        [] Returned(l2, a) = "MISS" -> Copied(f, a, "mem", "l2")
        [] OTHER -> Copied(Leaves(f, v, Returned(l2, a) = "EVICT_DIRTY", "l2", "mem"),
                           a, "mem", "l2")

(* The valid block that leaves L1 and VC, if any: the set has at most one. *)
TopVictim(addr) ==
  IF ~Evicts(rtn1(addr)) THEN {}
  ELSE IF ~flag_VC
  THEN {[a |-> AddrOf(L1, IndexOf(L1, addr), FoundAt(L1, addr).tag),
         d |-> rtn1(addr) = "EVICT_DIRTY"]}
  ELSE IF rtn2(addr) = "HIT" \/ ~Last(VC.sets[0]).v THEN {}
  ELSE {[a |-> Last(VC.sets[0]).tag, d |-> rtn2(addr) = "EVICT_DIRTY"]}

TopMiss(addr) ==
  rtn1(addr) /= "HIT" /\ ~(flag_VC /\ Evicts(rtn1(addr)) /\ rtn2(addr) = "HIT")

WrittenBack(f, v) ==
  IF ~flag_L2 THEN Leaves(f, v.a, v.d, "top", "mem")
  ELSE Leaves(IF v.d THEN Allocated(f, L2, v.a) ELSE f, v.a, v.d, "top", "l2")

Fetched(f, l2, addr) ==
  IF flag_L2 THEN Copied(Allocated(f, l2, addr), addr, "l2", "top")
  ELSE Copied(f, addr, "mem", "top")

Moved(rw, addr) ==
  LET dirty == {v \in TopVictim(addr) : v.d}
      f1 == IF TopVictim(addr) = {} THEN fresh
            ELSE WrittenBack(fresh, CHOOSE v \in TopVictim(addr) : TRUE)
      l2 == IF dirty = {} THEN L2
            ELSE Requested(L2, "WRITE", (CHOOSE v \in dirty : TRUE).a)
      f2 == IF TopMiss(addr) THEN Fetched(f1, l2, addr) ELSE f1
  IN  IF rw = "WRITE" THEN [f2 EXCEPT ![addr] = {"top"}] ELSE f2

Used == {a \in Addr : <<a, a>> \in recent}

Next ==
  \E rw \in {"READ", "WRITE"}, addr \in Addr :
    /\ request(rw, addr)
    /\ fresh' = Moved(rw, addr)
    /\ recent' = {p \in recent : p[2] /= addr}
                    \cup {<<addr, b>> : b \in Used \cup {addr}}
    /\ UNCHANGED params

Spec == Init /\ [][Next]_vars

(***************************************************************************)
(* Properties.                                                             *)
(***************************************************************************)
CacheOK(c, set_num, assoc) ==
  /\ c \in [SET_NUM : {set_num}, sets : [0 .. set_num - 1 -> Seq(Block)],
            blk_v : Block \cup {None}, addr_evict : Nat \cup {None},
            reads : Nat, rmiss : Nat, writes : Nat, wmiss : Nat,
            writebacks : Nat, swaps : Nat, access : Nat]
  /\ \A i \in 0 .. set_num - 1 : Len(c.sets[i]) = assoc

(* The lists keep their lengths: each set has `assoc' blocks.              *)
CacheTypeOK ==
  /\ params \in Params
  /\ CacheOK(L1, params.l1_sets, params.l1_assoc)
  /\ CacheOK(VC, 1, OrOne(params.vc_num_blocks))
  /\ CacheOK(L2, OrOne(params.l2_sets), params.l2_assoc)
  /\ fresh \in [Addr -> SUBSET {"top", "l2", "mem"}]
  /\ recent \subseteq Addr \X Addr

Top(addr)      == Holds(L1, addr) \/ Holds(VC, addr)
TopDirty(addr) == IsDirty(L1, addr) \/ IsDirty(VC, addr)

(* "once you find a invalid blk, the rest blk will be all invalid": the    *)
(* scan of request may stop at the first invalid block.  A block is in no  *)
(* list twice, and never in L1 and the victim cache at once, although a    *)
(* swap happens after L1 has taken the block in, and a miss that evicts    *)
(* nothing does not ask the victim cache at all.                           *)
ListOK(c) ==
  \A i \in 0 .. c.SET_NUM - 1 : \A w, x \in DOMAIN c.sets[i] : w < x =>
    LET b == c.sets[i][w]
        e == c.sets[i][x]
    IN  e.v => b.v /\ b.tag /= e.tag

ListsSound ==
  /\ ListOK(L1) /\ ListOK(VC) /\ ListOK(L2)
  /\ \A a \in Addr : ~(Holds(L1, a) /\ Holds(VC, a))

(* No write is lost: what L1 or the victim cache holds is the newest       *)
(* version; a block they do not hold dirty is newest where the next fetch  *)
(* looks for it, in L2 or else in memory; and L2 does not call clean what  *)
(* is newer than memory.  Swaps must carry the dirty bit both ways.        *)
NewestFound ==
  \A a \in Addr :
    /\ Top(a) => "top" \in fresh[a]
    /\ ~TopDirty(a) => IF flag_L2 /\ Holds(L2, a) THEN "l2" \in fresh[a]
                       ELSE "mem" \in fresh[a]
    /\ Holds(L2, a) /\ ~IsDirty(L2, a) /\ "l2" \in fresh[a] => "mem" \in fresh[a]

(* L1 replaces the least recently used block of the set: each list is in   *)
(* the order of use, and a block that was used and is not held any more    *)
(* was used before all of its set, which is full.                          *)
LruExact ==
  \A i \in 0 .. L1.SET_NUM - 1 :
    LET s    == L1.sets[i]
        a(w) == AddrOf(L1, i, s[w].tag)
    IN  /\ \A w \in DOMAIN s : s[w].v => a(w) \in Used
        /\ \A w, x \in DOMAIN s : w < x /\ s[x].v => <<a(w), a(x)>> \in recent
        /\ \A b \in Used : IndexOf(L1, b) = i /\ ~Holds(L1, b) =>
             \A w \in DOMAIN s : s[w].v /\ <<a(w), b>> \in recent

(***************************************************************************)
(* results(): what the report says of the traffic below L1 and the victim  *)
(* cache.                                                                  *)
(***************************************************************************)
ReportedMisses     == (L1.rmiss + L1.wmiss) - (IF flag_VC THEN VC.swaps ELSE 0)
ReportedWritebacks == IF flag_VC THEN VC.writebacks ELSE L1.writebacks

(* The report counts what moves: the misses it adds up grow by the blocks  *)
(* that come up into L1 and the victim cache, the writebacks by the dirty  *)
(* blocks that leave them.                                                 *)
Traffic ==
  /\ ReportedMisses' - ReportedMisses =
       Cardinality({a \in Addr : Top(a)' /\ ~Top(a)})
  /\ ReportedWritebacks' - ReportedWritebacks =
       Cardinality({a \in Addr : TopDirty(a) /\ ~Top(a)'})
  /\ flag_L2 => /\ L2.reads' - L2.reads = ReportedMisses' - ReportedMisses
                /\ L2.writes' - L2.writes = ReportedWritebacks' - ReportedWritebacks

TrafficExact == [][Traffic]_vars
=============================================================================
