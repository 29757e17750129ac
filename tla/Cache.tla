------------------------------- MODULE Cache -------------------------------
(***************************************************************************)
(* One cache of Project01: class Cache (basic_cache.h) with the request of *)
(* Regular_Cache (regular_cache.h) and the swap request of Victim_Cache    *)
(* (victim_cache.h).  A cache is a record; a method is an operator from    *)
(* caches to caches, and what it returns is an operator of its own.        *)
(*                                                                         *)
(* An address is the number of a memory block: the offset inside a block   *)
(* is cut off by every method before anything else is done with it.  The   *)
(* masks and shifts split the number by the number of sets, a power of 2.  *)
(***************************************************************************)
EXTENDS Naturals, Sequences, FiniteSetsExt, SequencesExt

IndexOf(c, addr)        == addr % c.SET_NUM
TagOf(c, addr)          == addr \div c.SET_NUM
AddrWithoutIndex(c, idx, tag) == tag * c.SET_NUM  \* mutant: the index is lost
AddrOf(c, idx, tag)     == tag * c.SET_NUM + idx

(* A set is a list, most recently used first.  The constructor pushes      *)
(* invalid blocks with tags 0, 1, ... to the front.  blk_v and addr_evict  *)
(* are what the last eviction left; None before the first one.             *)
Block == [tag : Nat, v : BOOLEAN, d : BOOLEAN]

NewCache(set_num, assoc, None) ==
  [SET_NUM |-> set_num,
   sets |-> [i \in 0 .. set_num - 1 |->
               [w \in 1 .. assoc |->
                  [tag |-> assoc - w, v |-> FALSE, d |-> FALSE]]],
   blk_v |-> None, addr_evict |-> None,
   reads |-> 0, rmiss |-> 0, writes |-> 0, wmiss |-> 0,
   writebacks |-> 0, swaps |-> 0, access |-> 0]

Holds(c, addr) == \E w \in DOMAIN c.sets[IndexOf(c, addr)] :
  LET b == c.sets[IndexOf(c, addr)][w] IN b.v /\ b.tag = TagOf(c, addr)

IsDirty(c, addr) == \E w \in DOMAIN c.sets[IndexOf(c, addr)] :
  LET b == c.sets[IndexOf(c, addr)][w] IN b.v /\ b.d /\ b.tag = TagOf(c, addr)

(* Mutants: the block stays where it was; it is not erased there.          *)
RenewInPlace(s, w, b)    == [s EXCEPT ![w] = b]
RenewNothingErased(s, w, b) == <<b>> \o s

(* Puts b at the front of a list and erases place w.                       *)
Renew(s, w, b) == <<b>> \o RemoveAt(s, w)

(***************************************************************************)
(* Regular_Cache::request.  The scan stops at the first invalid block or   *)
(* the first block with the tag, whichever comes first: it relies on the   *)
(* invalid blocks being last.                                              *)
(***************************************************************************)
StopAt(c, addr) ==
  LET s == c.sets[IndexOf(c, addr)]
  IN  {w \in DOMAIN s : ~s[w].v \/ s[w].tag = TagOf(c, addr)}

PlaceOf(c, addr) ==
  IF StopAt(c, addr) = {} THEN Len(c.sets[IndexOf(c, addr)])
  ELSE Min(StopAt(c, addr))

FoundAt(c, addr) == c.sets[IndexOf(c, addr)][PlaceOf(c, addr)]

Returned(c, addr) ==
  IF StopAt(c, addr) = {}
  THEN IF FoundAt(c, addr).d THEN "EVICT_DIRTY" ELSE "EVICT_CLEAN"
  ELSE IF FoundAt(c, addr).v THEN "HIT" ELSE "MISS"

Evicts(rtn) == rtn \in {"EVICT_DIRTY", "EVICT_CLEAN"}
One(p)      == IF p THEN 1 ELSE 0

Requested(c, rw, addr) ==
  LET idx   == IndexOf(c, addr)
      old   == FoundAt(c, addr)
      rtn   == Returned(c, addr)
      new   == [tag |-> TagOf(c, addr), v |-> TRUE,
                d |-> rw = "WRITE" \/ (rtn = "HIT" /\ old.d)]
  IN  [c EXCEPT
         !.sets[idx]  = Renew(@, PlaceOf(c, addr), new),
         !.blk_v      = IF Evicts(rtn) THEN old ELSE @,
         !.addr_evict = IF Evicts(rtn) THEN AddrOf(c, idx, old.tag) ELSE @,
         !.reads      = @ + One(rw = "READ"),
         !.writes     = @ + One(rw = "WRITE"),
         !.rmiss      = @ + One(rw = "READ" /\ rtn /= "HIT"),
         !.wmiss      = @ + One(rw = "WRITE" /\ rtn /= "HIT"),
         !.writebacks = @ + One(rtn = "EVICT_DIRTY"),
         !.access     = @ + 1]

(***************************************************************************)
(* Victim_Cache::swap_request(l1, x).  Called after l1 has put x at the    *)
(* front of its set and evicted a block, which is found in l1's blk_v and  *)
(* addr_evict.  The victim cache has one set.                              *)
(***************************************************************************)
SwapAt(vc, x) == {w \in DOMAIN vc.sets[0] :
                    vc.sets[0][w].tag = x /\ vc.sets[0][w].v}

SwapReturned(vc, x) ==
  IF SwapAt(vc, x) /= {} THEN "HIT"
  ELSE IF Last(vc.sets[0]).d THEN "EVICT_DIRTY" ELSE "EVICT_CLEAN"

(* The victim cache after it. *)
Swapped(vc, l1, x) ==
  LET rtn == SwapReturned(vc, x)
      at  == IF rtn = "HIT" THEN Min(SwapAt(vc, x)) ELSE Len(vc.sets[0])
      new == [tag |-> l1.addr_evict, v |-> TRUE, d |-> l1.blk_v.d]
  IN  [vc EXCEPT !.sets[0]    = Renew(@, at, new),
                 !.blk_v      = IF Evicts(rtn) THEN vc.sets[0][at] ELSE @,
                 !.addr_evict = IF Evicts(rtn) THEN vc.sets[0][at].tag ELSE @,
                 !.writebacks = @ + One(rtn = "EVICT_DIRTY"),
                 !.swaps      = @ + One(rtn = "HIT"),
                 !.access     = @ + 1]

(* L1 after it: block x takes over the dirty bit of its copy.              *)
SwapForgetsDirty(l1, vc, x) == l1     \* mutant: the bit is not taken over

SwappedL1(l1, vc, x) ==
  IF SwapAt(vc, x) = {} THEN l1
  ELSE [l1 EXCEPT !.sets[IndexOf(l1, x)][1].d =
          @ \/ vc.sets[0][Min(SwapAt(vc, x))].d]
=============================================================================
