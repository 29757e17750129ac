--------------------------- MODULE MCCacheSystem ---------------------------
(***************************************************************************)
(* CacheSystem on small instances: L1 with two sets of one block or one    *)
(* set of two, each alone, with a victim cache, with L2 and with both.     *)
(* CacheView leaves out the counters, which no method reads.               *)
(***************************************************************************)
EXTENDS CacheSystem

Small(l1, vc, l2) ==
  [l1_sets |-> l1[1], l1_assoc |-> l1[2], vc_num_blocks |-> vc,
   l2_sets |-> l2[1], l2_assoc |-> l2[2]]

DirectMapped == <<2, 1>>
Associative  == <<1, 2>>
NoL2         == <<0, 1>>

SmallParams ==
  {Small(DirectMapped, vc, l2) : vc \in {0, 1}, l2 \in {NoL2, Associative}}
  \cup {Small(Associative, vc, l2) : vc \in {0, 1}, l2 \in {NoL2, DirectMapped}}
  \cup {Small(DirectMapped, 2, NoL2), Small(DirectMapped, 0, DirectMapped)}

Kept(c) == <<c.sets, c.blk_v, c.addr_evict>>
CacheView == <<params, Kept(L1), Kept(VC), Kept(L2), fresh, recent>>
=============================================================================
