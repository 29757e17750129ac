--------------------------- MODULE CacheInductive ---------------------------
(***************************************************************************)
(* The inductive invariant of the cache system.  The properties of         *)
(* CacheSystem survive a step because of what a victim cache may hold: the *)
(* swap trusts that the block L1 evicted is not there yet, and a miss that *)
(* evicts nothing trusts that the block it wants is not there at all.      *)
(***************************************************************************)
EXTENDS CacheSystem

(* A cache holds blocks of the trace only, one that is left out nothing.   *)
FromTrace(c)  == \A a \in Nat : Holds(c, a) => a \in Addr
NothingIn(c)  == \A a \in Nat : ~Holds(c, a)

LeftOutEmpty == (~flag_VC => NothingIn(VC)) /\ (~flag_L2 => NothingIn(L2))

(* A block that was never filled is not dirty: Victim_Cache evicts it      *)
(* without looking at its valid bit.                                       *)
UnusedClean(c) ==
  \A w \in DOMAIN c.sets[0] : ~c.sets[0][w].v => ~c.sets[0][w].d

(* What the victim cache holds was evicted by L1 from a full set, and a    *)
(* set that is full once stays full.                                       *)
IsFull(c, i) == \A w \in DOMAIN c.sets[i] : c.sets[i][w].v

VictimsOfFullSets ==
  \A a \in Addr : Holds(VC, a) => IsFull(L1, IndexOf(L1, a))

CacheInv ==
  /\ CacheTypeOK /\ ListsSound
  /\ FromTrace(L1) /\ FromTrace(VC) /\ FromTrace(L2)
  /\ LeftOutEmpty /\ UnusedClean(VC) /\ VictimsOfFullSets
  /\ NewestFound /\ LruExact
=============================================================================
