-------------------------- MODULE OutOfOrderProofs --------------------------
(***************************************************************************)
(* OutOfOrderInductive's invariant holds in every state of the core, for   *)
(* every machine, instruction set and trace bound: Init implies it and     *)
(* every stage preserves it.  The properties of OutOfOrderProps follow.    *)
(***************************************************************************)
EXTENDS OutOfOrderInductive, FiniteSetTheorems, SequenceTheorems, TLAPS

(***************************************************************************)
(* What the type invariant says of each variable.                          *)
(***************************************************************************)
LEMMA Sizes ==
  ASSUME params \in Params
  PROVE  /\ RobSize \in Nat \ {0} /\ IqSize \in Nat /\ Width \in Nat \ {0}
         /\ Tag = 0 .. RobSize - 1 /\ Slot = 0 .. Width - 1
         /\ Entry = 0 .. IqSize - 1 /\ Unit = 0 .. 5 * Width - 1
         /\ None \notin Nat
         /\ NReg \in Nat \ {0} /\ MaxTrace \in Nat \ {0}
  BY CpuAssumption DEF RobSize, IqSize, Width, Tag, Slot, Entry, Unit

(* The sizes of the machine and the sets built from them do not change.    *)
LEMMA SameMachine ==
  ASSUME params' = params
  PROVE  /\ RobSize' = RobSize /\ IqSize' = IqSize /\ Width' = Width
         /\ Tag' = Tag /\ Slot' = Slot /\ Entry' = Entry /\ Unit' = Unit
  BY DEF RobSize, IqSize, Width, Tag, Slot, Entry, Unit

(* CpuTypeOK, one fact for each variable of the stages and latches.        *)
LEMMA Types ==
  ASSUME CpuTypeOK
  PROVE  /\ params \in Params
         /\ prog \in Seq(Instr) /\ Len(prog) <= MaxTrace /\ Len(prog) \in Nat
         /\ last \in BOOLEAN /\ loop \in {"trace", "drain"}
         /\ stage \in Stages /\ slot \in Slot
         /\ inst_input \in [Slot -> PipeReg] /\ De \in [Slot -> PipeReg]
         /\ Rn \in [Slot -> PipeReg] /\ Rr \in [Slot -> PipeReg]
         /\ Di \in [Slot -> PipeReg]
         /\ Rmt \in [Reg -> Tag \cup {None}]
         /\ FE \in BOOLEAN /\ DE \in BOOLEAN /\ RN \in BOOLEAN /\ RR \in BOOLEAN
         /\ DI \in BOOLEAN /\ IS \in BOOLEAN /\ empty \in BOOLEAN
         /\ done_flag \in BOOLEAN
  BY DEF CpuTypeOK

(* CpuTypeOK, for the fields of the reorder buffer.                        *)
LEMMA RobTypes ==
  ASSUME CpuTypeOK
  PROVE  /\ Rob = [cqueue |-> Rob.cqueue, Head |-> Rob.Head, Tail |-> Rob.Tail,
                   Full |-> Rob.Full]
         /\ Rob.Head \in 0 .. RobSize - 1 /\ Rob.Tail \in 0 .. RobSize - 1
         /\ Rob.Head \in Tag /\ Rob.Tail \in Tag /\ Rob.Full \in BOOLEAN
         /\ Rob.cqueue \in [Tag -> [rdy : BOOLEAN, seq : Seq0, dst : Reg \cup {None}]]
         /\ \A t \in Tag : /\ Rob.cqueue[t].rdy \in BOOLEAN
                           /\ Rob.cqueue[t].seq \in Seq0
                           /\ Rob.cqueue[t].dst \in Reg \cup {None}
<1>1. Rob \in RobOf(Seq0, Reg \cup {None})
  BY DEF CpuTypeOK
<1>2. Tag = 0 .. RobSize - 1
  BY DEF Tag
<1> QED BY <1>1, <1>2 DEF RobOf

(***************************************************************************)
(* The reorder buffer's ring.                                              *)
(***************************************************************************)
LEMMA Wrap ==
  ASSUME NEW n \in Nat \ {0}, NEW a \in 0 .. 2 * n - 1
  PROVE  a % n = IF a >= n THEN a - n ELSE a
  OBVIOUS

(* One place on, around the ring.                                          *)
LEMMA NextIdxIs ==
  ASSUME params \in Params, NEW t \in Tag
  PROVE  /\ NextIdx(t) = IF t = RobSize - 1 THEN 0 ELSE t + 1
         /\ NextIdx(t) \in Tag
<1>1. RobSize \in Nat \ {0} /\ Tag = 0 .. RobSize - 1
  BY Sizes
<1> DEFINE a == t + 1
<1>2. a \in 0 .. 2 * RobSize - 1
  BY <1>1
<1>3. a % RobSize = IF a >= RobSize THEN a - RobSize ELSE a
  <2> HIDE DEF a
  <2> QED BY <1>1, <1>2, Wrap
<1> QED BY <1>1, <1>3 DEF NextIdx

(* RobCount is the distance from head to tail, and a ring that is not full *)
(* has an entry left.                                                      *)
LEMMA CountIs ==
  ASSUME CpuTypeOK
  PROVE  /\ RobCount(Rob) = IF Rob.Full THEN RobSize
                            ELSE IF Rob.Tail >= Rob.Head THEN Rob.Tail - Rob.Head
                            ELSE Rob.Tail - Rob.Head + RobSize
         /\ RobCount(Rob) \in 0 .. RobSize
         /\ ~Rob.Full => RobCount(Rob) < RobSize
<1>1. /\ RobSize \in Nat \ {0}
      /\ Rob.Head \in 0 .. RobSize - 1 /\ Rob.Tail \in 0 .. RobSize - 1
  BY Types, Sizes, RobTypes
<1> DEFINE a == Rob.Tail + RobSize - Rob.Head
<1>2. a \in 0 .. 2 * RobSize - 1
  BY <1>1
<1>3. a % RobSize = IF a >= RobSize THEN a - RobSize ELSE a
  <2> HIDE DEF a
  <2> QED BY <1>1, <1>2, Wrap
<1> QED BY <1>1, <1>3 DEF RobCount

(* Distances from the head are places of the ring, each taken once.        *)
LEMMA PosIs ==
  ASSUME CpuTypeOK
  PROVE  /\ \A t \in Tag : Pos(t) \in 0 .. RobSize - 1
         /\ \A t, u \in Tag : Pos(t) = Pos(u) => t = u
         /\ \A k \in 0 .. RobSize - 1 : \E t \in Tag : Pos(t) = k
         /\ Pos(Rob.Head) = 0
         /\ ~Rob.Full => Pos(Rob.Tail) = RobCount(Rob)
<1>1. /\ RobSize \in Nat \ {0} /\ Tag = 0 .. RobSize - 1
      /\ Rob.Head \in 0 .. RobSize - 1 /\ Rob.Tail \in 0 .. RobSize - 1
  BY Types, Sizes, RobTypes
<1>2. \A t \in Tag : Pos(t) \in 0 .. RobSize - 1
  BY <1>1 DEF Pos
<1>3. \A t, u \in Tag : Pos(t) = Pos(u) => t = u
  BY <1>1 DEF Pos
<1>4. ASSUME NEW k \in 0 .. RobSize - 1
      PROVE  \E t \in Tag : Pos(t) = k
  <2> DEFINE t == IF k + Rob.Head >= RobSize THEN k + Rob.Head - RobSize
                  ELSE k + Rob.Head
  <2>1. t \in Tag /\ Pos(t) = k
    BY <1>1 DEF Pos
  <2> HIDE DEF t
  <2> QED BY <2>1
<1>5. Pos(Rob.Head) = 0
  BY <1>1 DEF Pos
<1>6. ~Rob.Full => Pos(Rob.Tail) = RobCount(Rob)
  BY <1>1, CountIs DEF Pos
<1> QED BY <1>2, <1>3, <1>4, <1>5, <1>6

(* The table's own shape, whatever the ring holds. *)
LEMMA TagsIs ==
  ASSUME CpuTypeOK
  PROVE  /\ Tags.size \in 0 .. RobSize /\ Tags.size \in Nat
         /\ Tags.size = RobCount(Rob)
         /\ Tags.held = {t \in Tag : Pos(t) < Tags.size}
         /\ Tags.pos = [t \in Tag |-> Pos(t)]
         /\ \A t \in Tag : /\ Tags.pos[t] = Pos(t)
                           /\ Tags.seq[t] = Rob.cqueue[t].seq
                           /\ Tags.dst[t] = Rob.cqueue[t].dst
                           /\ Tags.seq[t] \in Seq0
                           /\ Tags.dst[t] \in Reg \cup {None}
                           /\ t \in Tags.ready <=> Rob.cqueue[t].rdy
                           /\ t \in Tags.held <=> Tags.pos[t] < Tags.size
                           /\ Tags.pos[t] \in 0 .. RobSize - 1
         /\ \A t, u \in Tag : Tags.pos[t] = Tags.pos[u] => t = u
         /\ \A k \in 0 .. Tags.size - 1 : \E t \in Tags.held : Tags.pos[t] = k
         /\ Tags.held \subseteq Tag /\ Tags.ready \subseteq Tag
         /\ Tags.wb = WbTags
<1>1. /\ Tags.size = RobCount(Rob)
      /\ Tags.held = {t \in Tag : Pos(t) < RobCount(Rob)}
      /\ Tags.pos = [t \in Tag |-> Pos(t)]
      /\ Tags.seq = [t \in Tag |-> Rob.cqueue[t].seq]
      /\ Tags.dst = [t \in Tag |-> Rob.cqueue[t].dst]
      /\ Tags.ready = {t \in Tag : Rob.cqueue[t].rdy}
      /\ Tags.wb = WbTags
  BY DEF Tags, GetRdy
<1>2. RobCount(Rob) \in 0 .. RobSize /\ RobSize \in Nat
  BY CountIs, Types, Sizes
<1>3. \A k \in 0 .. Tags.size - 1 : \E t \in Tags.held : Tags.pos[t] = k
  <2> TAKE k \in 0 .. Tags.size - 1
  <2>1. k \in 0 .. RobSize - 1 /\ k < RobCount(Rob)
    BY <1>1, <1>2
  <2>2. PICK t \in Tag : Pos(t) = k
    BY <2>1, PosIs
  <2> QED BY <2>1, <2>2, <1>1
<1>4. Tags.size \in 0 .. RobSize /\ Tags.size \in Nat
  BY <1>1, <1>2
<1>5. \A t \in Tag : Rob.cqueue[t].seq \in Seq0 /\ Rob.cqueue[t].dst \in Reg \cup {None}
  BY RobTypes
<1>6. \A t \in Tag : Pos(t) \in 0 .. RobSize - 1
  BY PosIs
<1>7. \A t, u \in Tag : Pos(t) = Pos(u) => t = u
  BY PosIs
<1> QED BY <1>1, <1>3, <1>4, <1>5, <1>6, <1>7

(***************************************************************************)
(* What becomes of the table.                                              *)
(***************************************************************************)
LEMMA SameTags ==
  ASSUME UNCHANGED <<params, Rob, Wb>>
  PROVE  Tags' = Tags
<1>1. RobSize' = RobSize /\ Tag' = Tag /\ Unit' = Unit
  BY SameMachine
<1>2. \A t : Pos(t)' = Pos(t) /\ GetRdy(Rob, t)' = GetRdy(Rob, t)
  BY <1>1 DEF Pos, GetRdy
<1>3. RobCount(Rob)' = RobCount(Rob) /\ WbTags' = WbTags
  BY <1>1 DEF RobCount, WbTags
<1> QED BY <1>1, <1>2, <1>3 DEF Tags

(* The head leaves.                                                        *)
LEMMA RetireTags ==
  ASSUME CpuTypeOK, UNCHANGED <<params, Wb>>, Rob' = RemoveHead(Rob),
         Tags.size > 0, Rob.Full => Rob.Head = Rob.Tail
  PROVE  /\ Tags'.size = Tags.size - 1
         /\ Tags'.held = Tags.held \ {Rob.Head}
         /\ \A t \in Tags'.held : Tags'.pos[t] = Tags.pos[t] - 1
         /\ Tags'.seq = Tags.seq /\ Tags'.dst = Tags.dst
         /\ Tags'.ready = Tags.ready /\ Tags'.wb = Tags.wb
         /\ Rob.Head \in Tags.held /\ Tags.pos[Rob.Head] = 0
         /\ Rob'.Full = FALSE
         /\ EmptiedBy(Rob) <=> Tags.size = 1
<1>1. /\ Rob'.cqueue = Rob.cqueue /\ Rob'.Head = NextIdx(Rob.Head)
      /\ Rob'.Tail = Rob.Tail /\ Rob'.Full = FALSE
  BY RobTypes DEF RemoveHead
<1>2. RobSize' = RobSize /\ Tag' = Tag /\ Unit' = Unit
  BY SameMachine
<1>3. /\ RobSize \in Nat \ {0} /\ Tag = 0 .. RobSize - 1
      /\ Rob.Head \in 0 .. RobSize - 1 /\ Rob.Tail \in 0 .. RobSize - 1
      /\ Rob.Full \in BOOLEAN
  BY Types, Sizes, RobTypes
<1>4. /\ NextIdx(Rob.Head) = IF Rob.Head = RobSize - 1 THEN 0 ELSE Rob.Head + 1
      /\ NextIdx(Rob.Head) \in 0 .. RobSize - 1
  BY <1>3, NextIdxIs, Types
<1>5. RobCount(Rob)' = RobCount(Rob) - 1
  <2>1. RobCount(Rob)' = (Rob.Tail + RobSize - NextIdx(Rob.Head)) % RobSize
    BY <1>1, <1>2 DEF RobCount
  <2> DEFINE a == Rob.Tail + RobSize - NextIdx(Rob.Head)
  <2>2. a \in 0 .. 2 * RobSize - 1
    BY <1>3, <1>4
  <2>3. a % RobSize = IF a >= RobSize THEN a - RobSize ELSE a
    <3> HIDE DEF a
    <3> QED BY <1>3, <2>2, Wrap
  <2>4. RobCount(Rob) > 0
    BY TagsIs
  <2>5. RobCount(Rob) = IF Rob.Full THEN RobSize
                        ELSE IF Rob.Tail >= Rob.Head THEN Rob.Tail - Rob.Head
                        ELSE Rob.Tail - Rob.Head + RobSize
    BY CountIs
  <2>6. a % RobSize = RobCount(Rob) - 1
    <3> DEFINE next == NextIdx(Rob.Head)
    <3>1. /\ a = Rob.Tail + RobSize - next
          /\ next = IF Rob.Head = RobSize - 1 THEN 0 ELSE Rob.Head + 1
          /\ RobCount(Rob) \in 0 .. RobSize
      BY <1>4, CountIs
    <3> HIDE DEF a, next
    <3>2. (IF a >= RobSize THEN a - RobSize ELSE a) = RobCount(Rob) - 1
      <4> DEFINE c == RobCount(Rob)
      <4>1. c \in 0 .. RobSize /\ c > 0
        BY <3>1, <2>4
      <4>2. c = IF Rob.Full THEN RobSize
                ELSE IF Rob.Tail >= Rob.Head THEN Rob.Tail - Rob.Head
                ELSE Rob.Tail - Rob.Head + RobSize
        BY <2>5
      <4>3. RobSize \in Nat \ {0} /\ Rob.Head \in 0 .. RobSize - 1
            /\ Rob.Tail \in 0 .. RobSize - 1 /\ Rob.Full \in BOOLEAN
            /\ (Rob.Full => Rob.Head = Rob.Tail)
        BY <1>3
      <4>4. a = Rob.Tail + RobSize - next
            /\ next = IF Rob.Head = RobSize - 1 THEN 0 ELSE Rob.Head + 1
        BY <3>1
      <4> HIDE DEF c
      <4>5. (IF a >= RobSize THEN a - RobSize ELSE a) = c - 1
        BY ONLY <4>1, <4>2, <4>3, <4>4
      <4> QED BY <4>5 DEF c
    <3> QED BY <3>2, <2>3
  <2> QED BY <2>1, <2>6
<1>6. \A t \in Tag \ {Rob.Head} : Pos(t)' = Pos(t) - 1
  BY <1>1, <1>2, <1>3, <1>4 DEF Pos
<1>7. \A t \in Tag : t = Rob.Head => Pos(t)' = RobSize - 1 /\ Pos(t) = 0
  BY <1>1, <1>2, <1>3, <1>4 DEF Pos
<1>8. EmptiedBy(Rob) <=> RobCount(Rob) = 1
  <2>1. RobCount(Rob) > 0
    BY TagsIs
  <2> QED BY <2>1, <1>3, <1>4, CountIs DEF EmptiedBy
<1>9. WbTags' = WbTags
  BY <1>2 DEF WbTags
<1>10. Tags' = [size  |-> RobCount(Rob) - 1,
                held  |-> {t \in Tag : Pos(t)' < RobCount(Rob) - 1},
                pos   |-> [t \in Tag |-> Pos(t)'],
                seq   |-> Tags.seq, dst |-> Tags.dst,
                ready |-> Tags.ready, wb |-> Tags.wb]
  BY <1>1, <1>2, <1>5, <1>9 DEF Tags, GetRdy
<1>11. /\ Tags'.size = RobCount(Rob) - 1
       /\ Tags'.held = {t \in Tag : Pos(t)' < RobCount(Rob) - 1}
       /\ Tags'.pos = [t \in Tag |-> Pos(t)']
       /\ Tags'.seq = Tags.seq /\ Tags'.dst = Tags.dst
       /\ Tags'.ready = Tags.ready /\ Tags'.wb = Tags.wb
  BY <1>10
<1>12. RobCount(Rob) \in 1 .. RobSize /\ Tags.size = RobCount(Rob)
  BY CountIs, TagsIs
<1>13. Tags'.held = Tags.held \ {Rob.Head}
  <2>1. \A t \in Tag : Pos(t) \in 0 .. RobSize - 1
    BY PosIs
  <2>2. Tags.held = {t \in Tag : Pos(t) < RobCount(Rob)}
    BY TagsIs
  <2>3. \A t \in Tag : t \in Tags'.held <=> t \in Tags.held /\ t /= Rob.Head
    <3> TAKE t \in Tag
    <3>1. CASE t = Rob.Head
      BY <3>1, <1>7, <1>11, <1>12, <1>3
    <3>2. CASE t /= Rob.Head
      <4>1. Pos(t)' = Pos(t) - 1 /\ Pos(t) \in 0 .. RobSize - 1
        BY <3>2, <1>6, <2>1
      <4>2. t \in Tags'.held <=> Pos(t)' < RobCount(Rob) - 1
        BY <1>11
      <4>3. t \in Tags.held <=> Pos(t) < RobCount(Rob)
        BY <2>2
      <4> QED BY <3>2, <4>1, <4>2, <4>3, <1>12
    <3> QED BY <3>1, <3>2
  <2> QED BY <2>2, <2>3, <1>11
<1>14. \A t \in Tags'.held : Tags'.pos[t] = Tags.pos[t] - 1
  BY <1>11, <1>13, <1>6, TagsIs
<1>15. Rob.Head \in Tags.held /\ Tags.pos[Rob.Head] = 0
  BY <1>3, <1>7, <1>12, TagsIs
<1> QED BY <1>1, <1>8, <1>11, <1>12, <1>13, <1>14, <1>15

(* What stands in Wb is marked ready.                                      *)
LEMMA WritebackTags ==
  ASSUME CpuTypeOK, UNCHANGED <<params, Wb>>, Rob' = SetRdy(Rob, WbTags)
  PROVE  /\ Tags'.size = Tags.size /\ Tags'.held = Tags.held
         /\ Tags'.pos = Tags.pos
         /\ Tags'.seq = Tags.seq /\ Tags'.dst = Tags.dst
         /\ Tags'.ready = Tags.ready \cup Tags.wb /\ Tags'.wb = Tags.wb
         /\ Rob'.Full = Rob.Full /\ Rob'.Head = Rob.Head /\ Rob'.Tail = Rob.Tail
<1> DEFINE e(t)   == [Rob.cqueue[t] EXCEPT !.rdy = @ \/ t \in WbTags]
           marked == [t \in Tag |-> e(t)]
<1>1. /\ Rob'.cqueue = marked
      /\ Rob'.Head = Rob.Head /\ Rob'.Tail = Rob.Tail /\ Rob'.Full = Rob.Full
  <2>1. Rob' = [Rob EXCEPT !.cqueue = marked]
    BY DEF SetRdy
  <2> HIDE DEF marked
  <2> QED BY <2>1, RobTypes
<1>2. \A t \in Tag : /\ Rob'.cqueue[t].seq = Rob.cqueue[t].seq
                     /\ Rob'.cqueue[t].dst = Rob.cqueue[t].dst
                     /\ Rob'.cqueue[t].rdy <=> (Rob.cqueue[t].rdy \/ t \in WbTags)
  <2> TAKE t \in Tag
  <2>1. Rob.cqueue[t] \in [rdy : BOOLEAN, seq : Seq0, dst : Reg \cup {None}]
    BY RobTypes
  <2>2. /\ e(t).seq = Rob.cqueue[t].seq /\ e(t).dst = Rob.cqueue[t].dst
        /\ e(t).rdy <=> (Rob.cqueue[t].rdy \/ t \in WbTags)
    BY <2>1
  <2>3. Rob'.cqueue[t] = e(t)
    BY <1>1
  <2> HIDE DEF e
  <2> QED BY <2>2, <2>3
<1>3. RobSize' = RobSize /\ Tag' = Tag /\ Unit' = Unit
  BY SameMachine
<1>4. WbTags' = WbTags /\ RobCount(Rob)' = RobCount(Rob)
  BY <1>1, <1>3 DEF WbTags, RobCount
<1>5. \A t : Pos(t)' = Pos(t)
  BY <1>1, <1>3 DEF Pos
<1>6. WbTags \subseteq Tag
  BY DEF WbTags, CpuTypeOK, WbReg
<1> QED BY <1>1, <1>2, <1>3, <1>4, <1>5, <1>6, ZenonT(60) DEF Tags, GetRdy

(* What stands in Wb changes.                                              *)
LEMMA ExecuteTags ==
  ASSUME UNCHANGED <<params, Rob>>
  PROVE  /\ Tags'.size = Tags.size /\ Tags'.held = Tags.held
         /\ Tags'.pos = Tags.pos
         /\ Tags'.seq = Tags.seq /\ Tags'.dst = Tags.dst
         /\ Tags'.ready = Tags.ready /\ Tags'.wb = WbTags'
<1>1. RobSize' = RobSize /\ Tag' = Tag
  BY SameMachine
<1>2. \A t : Pos(t)' = Pos(t) /\ GetRdy(Rob, t)' = GetRdy(Rob, t)
  BY <1>1 DEF Pos, GetRdy
<1>3. RobCount(Rob)' = RobCount(Rob)
  BY <1>1 DEF RobCount
<1> QED BY <1>1, <1>2, <1>3 DEF Tags

(* An instruction enters at the tail.                                      *)
LEMMA AllocateTags ==
  ASSUME CpuTypeOK, UNCHANGED <<params, Wb>>, ~Rob.Full,
         NEW seq, NEW dst, Rob' = Allocate(Rob, seq, dst)
  PROVE  /\ Tags'.size = Tags.size + 1
         /\ Tags'.held = Tags.held \cup {Rob.Tail} /\ Rob.Tail \notin Tags.held
         /\ Tags'.pos = Tags.pos /\ Tags.pos[Rob.Tail] = Tags.size
         /\ Rob.Tail \in Tag
         /\ \A t \in Tag \ {Rob.Tail} : /\ Tags'.seq[t] = Tags.seq[t]
                                        /\ Tags'.dst[t] = Tags.dst[t]
         /\ Tags'.seq[Rob.Tail] = seq /\ Tags'.dst[Rob.Tail] = dst
         /\ Tags'.ready = Tags.ready \ {Rob.Tail} /\ Tags'.wb = Tags.wb
         /\ Rob'.Full => Rob'.Head = Rob'.Tail
<1> DEFINE entry == [rdy |-> FALSE, seq |-> seq, dst |-> dst]
<1>1. /\ Rob'.cqueue = [Rob.cqueue EXCEPT ![Rob.Tail] = entry]
      /\ Rob'.Head = Rob.Head /\ Rob'.Tail = NextIdx(Rob.Tail)
      /\ Rob'.Full = (NextIdx(Rob.Tail) = Rob.Head)
  <2>1. Rob' = [Rob EXCEPT !.cqueue[Rob.Tail] = entry, !.Tail = NextIdx(Rob.Tail),
                           !.Full = NextIdx(Rob.Tail) = Rob.Head]
    BY DEF Allocate
  <2> HIDE DEF entry
  <2> QED BY <2>1, RobTypes
<1>2. RobSize' = RobSize /\ Tag' = Tag /\ Unit' = Unit
  BY SameMachine
<1>3. /\ RobSize \in Nat \ {0} /\ Tag = 0 .. RobSize - 1
      /\ Rob.Head \in 0 .. RobSize - 1 /\ Rob.Tail \in 0 .. RobSize - 1
      /\ Rob.Tail \in Tag /\ Rob.Full \in BOOLEAN
  BY Types, Sizes, RobTypes
<1>4. /\ NextIdx(Rob.Tail) = IF Rob.Tail = RobSize - 1 THEN 0 ELSE Rob.Tail + 1
      /\ NextIdx(Rob.Tail) \in 0 .. RobSize - 1
  BY <1>3, NextIdxIs, Types
<1>5. RobCount(Rob)' = RobCount(Rob) + 1
  <2> DEFINE next == NextIdx(Rob.Tail)
             a == next + RobSize - Rob.Head
  <2>1. RobCount(Rob)' = IF next = Rob.Head THEN RobSize ELSE a % RobSize
    BY <1>1, <1>2 DEF RobCount
  <2>2. a \in 0 .. 2 * RobSize - 1
    BY <1>3, <1>4, SMTT(30)
  <2>3. a % RobSize = IF a >= RobSize THEN a - RobSize ELSE a
    <3> HIDE DEF a
    <3> QED BY <1>3, <2>2, Wrap
  <2>4. RobCount(Rob) = IF Rob.Tail >= Rob.Head THEN Rob.Tail - Rob.Head
                        ELSE Rob.Tail - Rob.Head + RobSize
    BY CountIs
  <2>5. (IF next = Rob.Head THEN RobSize ELSE IF a >= RobSize THEN a - RobSize ELSE a)
          = RobCount(Rob) + 1
    BY ONLY <1>3, <1>4, <2>4, SMTT(30)
  <2> QED BY <2>1, <2>3, <2>5
<1>6. \A t : Pos(t)' = Pos(t)
  BY <1>1, <1>2 DEF Pos
<1>7. WbTags' = WbTags
  BY <1>2 DEF WbTags
<1>8. \A t \in Tag : Rob'.cqueue[t] = IF t = Rob.Tail THEN entry ELSE Rob.cqueue[t]
  BY <1>1, RobTypes
<1>9. /\ Tags'.size = RobCount(Rob) + 1
      /\ Tags'.held = {t \in Tag : Pos(t) < RobCount(Rob) + 1}
      /\ Tags'.pos = Tags.pos
      /\ Tags'.seq = [t \in Tag |-> Rob'.cqueue[t].seq]
      /\ Tags'.dst = [t \in Tag |-> Rob'.cqueue[t].dst]
      /\ Tags'.ready = {t \in Tag : Rob'.cqueue[t].rdy}
      /\ Tags'.wb = Tags.wb
  BY <1>2, <1>5, <1>6, <1>7 DEF Tags, GetRdy
<1>10. /\ Pos(Rob.Tail) = RobCount(Rob) /\ RobCount(Rob) \in Nat
       /\ \A t \in Tag : Pos(t) \in 0 .. RobSize - 1
       /\ \A t \in Tag : Pos(t) = Pos(Rob.Tail) => t = Rob.Tail
  <2>1. Pos(Rob.Tail) = RobCount(Rob)
    BY PosIs
  <2>2. RobCount(Rob) \in Nat
    BY CountIs, <1>3
  <2>3. \A t, u \in Tag : Pos(t) = Pos(u) => t = u
    BY PosIs
  <2>4. \A t \in Tag : Pos(t) \in 0 .. RobSize - 1
    BY PosIs
  <2> QED BY <2>1, <2>2, <2>3, <2>4, <1>3
<1>11. /\ Tags.size = RobCount(Rob) /\ Tags.held = {t \in Tag : Pos(t) < RobCount(Rob)}
       /\ Tags.ready = {t \in Tag : Rob.cqueue[t].rdy}
       /\ \A t \in Tag : /\ Tags.seq[t] = Rob.cqueue[t].seq
                         /\ Tags.dst[t] = Rob.cqueue[t].dst
                         /\ Tags.pos[t] = Pos(t)
  <2>1. /\ Tags.size = RobCount(Rob)
        /\ \A t \in Tag : /\ Tags.seq[t] = Rob.cqueue[t].seq
                          /\ Tags.dst[t] = Rob.cqueue[t].dst
                          /\ Tags.pos[t] = Pos(t)
    BY TagsIs
  <2>2. /\ Tags.held = {t \in Tag : Pos(t) < RobCount(Rob)}
        /\ Tags.ready = {t \in Tag : Rob.cqueue[t].rdy}
    BY DEF Tags, GetRdy
  <2> QED BY <2>1, <2>2
<1>12. Tags'.held = Tags.held \cup {Rob.Tail} /\ Rob.Tail \notin Tags.held
  <2>1. ASSUME NEW t \in Tag
        PROVE  Pos(t) < RobCount(Rob) + 1 <=> Pos(t) < RobCount(Rob) \/ t = Rob.Tail
    <3>1. Pos(t) \in Nat /\ RobCount(Rob) \in Nat
      BY <1>10, <1>3, SMTT(30)
    <3>2. Pos(t) = RobCount(Rob) <=> t = Rob.Tail
      BY <1>10
    <3> QED BY <3>1, <3>2
  <2>2. \A t : t \in Tags'.held <=> t \in Tags.held \/ t = Rob.Tail
    BY <2>1, <1>9, <1>11, <1>3
  <2>3. Rob.Tail \notin Tags.held
    BY <1>10, <1>11
  <2> QED BY <2>2, <2>3
<1>13. /\ \A t \in Tag \ {Rob.Tail} : /\ Tags'.seq[t] = Tags.seq[t]
                                      /\ Tags'.dst[t] = Tags.dst[t]
       /\ Tags'.seq[Rob.Tail] = seq /\ Tags'.dst[Rob.Tail] = dst
  <2>1. /\ \A t \in Tag : Tags'.seq[t] = Rob'.cqueue[t].seq
        /\ \A t \in Tag : Tags'.dst[t] = Rob'.cqueue[t].dst
    BY <1>9
  <2>2. entry.seq = seq /\ entry.dst = dst
    OBVIOUS
  <2> HIDE DEF entry
  <2> QED BY <2>1, <2>2, <1>8, <1>11, <1>3
<1>14. Tags'.ready = Tags.ready \ {Rob.Tail}
  <2>1. entry.rdy = FALSE
    OBVIOUS
  <2> HIDE DEF entry
  <2>2. \A t \in Tag : Rob'.cqueue[t].rdy <=> (Rob.cqueue[t].rdy /\ t /= Rob.Tail)
    BY <2>1, <1>8
  <2> QED BY <2>2, <1>9, <1>11
<1>15. Tags.pos[Rob.Tail] = Tags.size
  BY <1>10, <1>11, <1>3
<1> QED BY <1>1, <1>3, <1>9, <1>11, <1>12, <1>13, <1>14, <1>15

(* The reorder buffer is called full when a bundle does not fit.           *)
LEMMA FullIs ==
  ASSUME CpuTypeOK
  PROVE  RobIsFull(Rob) <=> RobSize < Tags.size + Width
<1>1. /\ RobSize \in Nat \ {0} /\ Width \in Nat \ {0}
      /\ Rob.Head \in 0 .. RobSize - 1 /\ Rob.Tail \in 0 .. RobSize - 1
      /\ Rob.Full \in BOOLEAN
  BY Types, Sizes, RobTypes
<1> DEFINE c == RobCount(Rob)
<1>2. /\ c \in 0 .. RobSize /\ Tags.size = c
      /\ c = IF Rob.Full THEN RobSize
             ELSE IF Rob.Tail >= Rob.Head THEN Rob.Tail - Rob.Head
             ELSE Rob.Tail - Rob.Head + RobSize
  BY CountIs, TagsIs
<1> HIDE DEF c
<1>3. CASE Rob.Full
  <2>1. RobIsFull(Rob)
    BY <1>3 DEF RobIsFull
  <2>2. RobSize < c + Width
    BY ONLY <1>1, <1>2, <1>3
  <2> QED BY <2>1, <2>2, <1>2
<1>4. ASSUME ~Rob.Full, NEW j \in 1 .. Width - 1, (Rob.Tail + j) % RobSize = Rob.Head
      PROVE  RobSize < c + Width
  <2>1. CASE j >= RobSize
    BY ONLY <2>1, <1>1, <1>2, <1>4
  <2>2. CASE j < RobSize
    <3> DEFINE a == Rob.Tail + j
    <3>1. a \in 0 .. 2 * RobSize - 1
      BY ONLY <2>2, <1>1, <1>4
    <3>2. a % RobSize = IF a >= RobSize THEN a - RobSize ELSE a
      <4> HIDE DEF a
      <4> QED BY <1>1, <3>1, Wrap
    <3>3. Rob.Head = IF a >= RobSize THEN a - RobSize ELSE a
      BY <3>2, <1>4
    <3> QED BY ONLY <3>3, <1>1, <1>2, <1>4, <2>2
  <2> QED BY <2>1, <2>2, <1>1
<1>5. ASSUME ~Rob.Full, RobSize < c + Width
      PROVE  \E j \in 1 .. Width - 1 : (Rob.Tail + j) % RobSize = Rob.Head
  <2> DEFINE j == RobSize - c
             a == Rob.Tail + j
  <2>1. j \in 1 .. Width - 1 /\ a \in 0 .. 2 * RobSize - 1
    BY ONLY <1>1, <1>2, <1>5
  <2>2. a % RobSize = IF a >= RobSize THEN a - RobSize ELSE a
    <3> HIDE DEF a
    <3> QED BY <1>1, <2>1, Wrap
  <2>3. Rob.Head = IF a >= RobSize THEN a - RobSize ELSE a
    BY ONLY <1>1, <1>2, <1>5
  <2> QED BY <2>1, <2>2, <2>3
<1> QED BY <1>2, <1>3, <1>4, <1>5 DEF RobIsFull

(***************************************************************************)
(* Types after a step.                                                     *)
(***************************************************************************)
LEMMA SameTypes ==
  ASSUME params' = params
  PROVE  /\ [Slot -> PipeReg]' = [Slot -> PipeReg]
         /\ [Reg -> Tag \cup {None}]' = [Reg -> Tag \cup {None}]
         /\ RobOf(Seq0, Reg \cup {None})' = RobOf(Seq0, Reg \cup {None})
         /\ [Entry -> IqRegOf(Seq0, Op, Tag, Reg \cup Tag \cup {None})]'
              = [Entry -> IqRegOf(Seq0, Op, Tag, Reg \cup Tag \cup {None})]
         /\ (0 .. IqSize)' = 0 .. IqSize
         /\ ExcOf(Seq0, Tag)' = ExcOf(Seq0, Tag)
         /\ [Unit -> WbReg]' = [Unit -> WbReg]
         /\ Slot' = Slot
<1>1. /\ Tag' = Tag /\ Slot' = Slot /\ Entry' = Entry /\ Unit' = Unit
      /\ IqSize' = IqSize
  BY SameMachine
<1> QED BY <1>1 DEF PipeReg, RobOf, ExcOf, WbReg

(* Each variable keeps its type if it does when the machine is the same.   *)
LEMMA TypeKept ==
  ASSUME CpuTypeOK, params' = params,
         prog' \in Seq(Instr) /\ Len(prog') <= MaxTrace,
         last' \in BOOLEAN /\ loop' \in {"trace", "drain"},
         stage' \in Stages /\ slot' \in Slot,
         {inst_input', De', Rn', Rr', Di'} \subseteq [Slot -> PipeReg],
         Rmt' \in [Reg -> Tag \cup {None}],
         Rob' \in RobOf(Seq0, Reg \cup {None}),
         Iq'.queue \in [Entry -> IqRegOf(Seq0, Op, Tag, Reg \cup Tag \cup {None})],
         Iq'.cnt \in 0 .. IqSize /\ Iq'.seq_max \in 1 .. MaxTrace + 1,
         Exc' \in ExcOf(Seq0, Tag), Wb' \in [Unit -> WbReg],
         {FE', DE', RN', RR', DI', IS', empty', done_flag'} \subseteq BOOLEAN
  PROVE  CpuTypeOK'
<1>1. params' \in Params
  BY DEF CpuTypeOK
<1> QED BY <1>1, SameTypes DEF CpuTypeOK

(* CpuTypeOK, with the latches and the flags gathered into sets.           *)
LEMMA AllTypes ==
  ASSUME CpuTypeOK
  PROVE  /\ {inst_input, De, Rn, Rr, Di} \subseteq [Slot -> PipeReg]
         /\ Rob \in RobOf(Seq0, Reg \cup {None})
         /\ Iq.queue \in [Entry -> IqRegOf(Seq0, Op, Tag, Reg \cup Tag \cup {None})]
         /\ Iq.cnt \in 0 .. IqSize /\ Iq.seq_max \in 1 .. MaxTrace + 1
         /\ Exc \in ExcOf(Seq0, Tag)
         /\ Wb \in [Unit -> WbReg]
         /\ {FE, DE, RN, RR, DI, IS, empty, done_flag} \subseteq BOOLEAN
  BY DEF CpuTypeOK

(* The stages by name.                                                     *)
LEMMA StagesIs ==
  Stages = {"Read", "UpdInfo", "Retire", "Writeback", "Execute", "Issue",
            "Dispatch", "Enqueue", "RegRead", "Rename", "RenameInst",
            "Decode", "Fetch", "Advance_Cycle", "End"}
  BY DEF Stages

(* Where the program is after a stage, or after a turn of its loop.        *)
LEMMA GoToIs ==
  ASSUME params \in Params, NEW s \in Stages, GoTo(s)
  PROVE  stage' = s /\ slot' = 0 /\ stage' \in Stages /\ slot' \in Slot
  BY Sizes DEF GoTo

(* A loop over the slots goes on to the next slot, or to the next stage    *)
(* after the last.                                                         *)
LEMMA TurnIs ==
  ASSUME params \in Params, stage \in Stages, slot \in Slot,
         NEW s \in Stages, TurnThen(s)
  PROVE  /\ stage' \in Stages /\ slot' \in Slot
         /\ \/ slot < Width - 1 /\ stage' = stage /\ slot' = slot + 1
            \/ slot = Width - 1 /\ stage' = s /\ slot' = 0
  BY Sizes DEF TurnThen, GoTo

(***************************************************************************)
(* The parts of the invariant, by what a stage can disturb.                *)
(***************************************************************************)
Settled == {"UpdInfo", "Retire", "Writeback", "Execute", "Issue", "Dispatch"}
Behind  == Settled \cup {"Enqueue", "RegRead", "Rename"}
Calm    == Settled \cup {"Read", "Decode", "Fetch", "Advance_Cycle", "End"}

FrontAt(rn, de, fe) ==
  /\ InOrder(Rn, RnFrom, Width, rn, de) /\ InOrder(De, DeFrom, Width, de, fe)
  /\ InOrder(inst_input, InFrom, Width, fe, Len(prog))
  /\ NoGaps(rn, de, fe) /\ AsFetched /\ HandedOn

MiddleAt(rd, rn) ==
  InOrder(Di, DiFrom, Width, Dispatched, rd) /\ InOrder(Rr, 0, RrTo, rd, rn)

RobAt(rd, rn, de) ==
  /\ RobInOrder(prog, Tags, Dispatched, rn)
  /\ RobHasRoom(rn) /\ RobRunsEmpty(rn, de) /\ StageOK(rd, rn, de)
  /\ Refilled(rd, rn, de)

TagsOK == MapExact(Tags, Rmt) /\ LatchesOK /\ BackEndOK

(* What a step must establish; a step but RenameInst leaves rn as it is.   *)
CoreFor(rn) ==
  /\ rn \in 0 .. Len(prog)
  /\ \E rd, de, fe \in 0 .. Len(prog) : CoreAt(rd, rn, de, fe)

IqIsRecord == Iq = [queue |-> Iq.queue, cnt |-> Iq.cnt, seq_max |-> Iq.seq_max]

(* The invariant as the parts that the stages disturb separately.          *)
LEMMA CoreIs ==
  ASSUME NEW rd, NEW rn, NEW de, NEW fe
  PROVE  CoreAt(rd, rn, de, fe) <=>
           /\ CpuTypeOK /\ IqIsRecord
           /\ FrontAt(rn, de, fe) /\ MiddleAt(rd, rn) /\ RobAt(rd, rn, de)
           /\ TagsOK /\ IqHasRoom /\ UnitsSuffice
  BY DEF CoreAt, TraceOrder, LatchesInOrder, FrontAt, MiddleAt, RobAt, TagsOK,
         IqIsRecord

(* Where the latches count, stage by stage.                                *)
LEMMA FromsIs ==
  /\ stage \in Calm => DiFrom = 0 /\ RrTo = Width
  /\ stage \in Behind => /\ RnFrom = 0 /\ DeFrom = 0 /\ InFrom = 0
                         /\ ~RnMoves /\ ~DeMoves
  BY DEF Settled, Behind, Calm, DiFrom, RrTo, RnFrom, DeFrom, InFrom, RnMoves, DeMoves

(* The stages behind Rename do not touch the latches in front of it.       *)
LEMMA FrontSame ==
  ASSUME params \in Params, UNCHANGED <<mainVars, De, Rn, FE, DE>>,
         NEW rn, NEW de, NEW fe, FrontAt(rn, de, fe),
         stage \in Behind,
         stage' \in Behind \cup {"RenameInst", "Decode"},
         stage' = "RenameInst" => slot' = 0,
         stage' = "Decode" => ~RN'
  PROVE  FrontAt(rn, de, fe)'
<1>1. Width' = Width /\ Slot' = Slot /\ Width \in Nat
  BY SameMachine, Sizes DEF mainVars
<1>2. RnFrom = 0 /\ DeFrom = 0 /\ InFrom = 0 /\ ~RnMoves /\ ~DeMoves
  BY FromsIs
<1>3. RnFrom' = 0 /\ DeFrom' = 0 /\ InFrom' = 0 /\ ~DeMoves'
  BY <1>1 DEF Behind, Settled, RnFrom, DeFrom, InFrom, DeMoves
<1>4. /\ InOrder(Rn, RnFrom, Width, rn, de)'
      /\ InOrder(De, DeFrom, Width, de, fe)'
      /\ InOrder(inst_input, InFrom, Width, fe, Len(prog))'
  BY <1>1, <1>2, <1>3 DEF FrontAt, InOrder, mainVars
<1>5. NoGaps(rn, de, fe)'
  <2>1. stage /= "Read" /\ stage' /= "Read"
    BY DEF Behind, Settled
  <2>2. IsBubbles(inst_input)' <=> IsBubbles(inst_input)
    BY <1>1 DEF IsBubbles, mainVars
  <2> QED BY <1>2, <1>3, <2>1, <2>2 DEF FrontAt, NoGaps, mainVars
<1>6. AsFetched'
  BY <1>1, <1>2, <1>3 DEF FrontAt, AsFetched, Raw, mainVars
<1>7. HandedOn'
  BY <1>3 DEF HandedOn
<1> QED BY <1>4, <1>5, <1>6, <1>7 DEF FrontAt

(* Rr and Di hold what they held, between two stages that do not empty     *)
(* them.                                                                   *)
LEMMA MiddleSame ==
  ASSUME UNCHANGED <<params, Rr, Di>>, Dispatched' = Dispatched,
         NEW rd, NEW rn, MiddleAt(rd, rn), stage \in Calm, stage' \in Calm
  PROVE  MiddleAt(rd, rn)'
<1>1. Width' = Width /\ DiFrom = 0 /\ RrTo = Width /\ DiFrom' = 0 /\ RrTo' = Width
  <2>1. Width' = Width
    BY SameMachine
  <2>2. DiFrom' = 0 /\ RrTo' = Width
    BY <2>1 DEF Settled, Calm, DiFrom, RrTo
  <2> QED BY <2>1, <2>2, FromsIs
<1> QED BY <1>1 DEF MiddleAt, InOrder

(***************************************************************************)
(* Which instruction a tag stands for.                                     *)
(***************************************************************************)
LEMMA Held ==
  ASSUME CpuTypeOK, NEW prg, NEW d \in Nat, NEW rn \in Nat,
         RobInOrder(prg, Tags, d, rn)
  PROVE  /\ rn - Tags.size \in Nat
         /\ \A t \in Tags.held : /\ t \in Tag /\ Tags.seq[t] \in Nat
                                 /\ Tags.pos[t] \in Nat
                                 /\ Tags.seq[t] = (rn - Tags.size) + Tags.pos[t]
                                 /\ rn - Tags.size <= Tags.seq[t]
                                 /\ Tags.seq[t] < rn
         /\ \A t, u \in Tags.held : Tags.seq[t] = Tags.seq[u] => t = u
         /\ \A q \in rn - Tags.size .. rn - 1 :
              \E t \in Tags.held : Tags.seq[t] = q
<1>1. Tags.size \in Nat /\ Tags.size <= rn
  BY TagsIs DEF RobInOrder
<1>2. \A t \in Tags.held : /\ t \in Tag /\ Tags.seq[t] = (rn - Tags.size) + Tags.pos[t]
                           /\ Tags.pos[t] \in 0 .. Tags.size - 1
  <2>1. \A t \in Tags.held : t \in Tag /\ Tags.seq[t] = (rn - Tags.size) + Tags.pos[t]
    BY TagsIs DEF RobInOrder
  <2>2. \A t \in Tags.held : Tags.pos[t] \in 0 .. RobSize - 1 /\ Tags.pos[t] < Tags.size
    BY TagsIs
  <2>3. params \in Params
    BY Types
  <2>4. RobSize \in Nat
    BY <2>3, Sizes
  <2> QED BY <2>1, <2>2, <2>4, <1>1
<1>3. \A t, u \in Tags.held : Tags.pos[t] = Tags.pos[u] => t = u
  BY TagsIs
<1>4. \A k \in 0 .. Tags.size - 1 : \E t \in Tags.held : Tags.pos[t] = k
  BY TagsIs
<1>5. ASSUME NEW q \in rn - Tags.size .. rn - 1
      PROVE  \E t \in Tags.held : Tags.seq[t] = q
  <2>1. q - (rn - Tags.size) \in 0 .. Tags.size - 1
    BY <1>1
  <2>2. PICK t \in Tags.held : Tags.pos[t] = q - (rn - Tags.size)
    BY <2>1, <1>4
  <2>3. Tags.seq[t] = q
    BY <2>2, <1>2, <1>1
  <2> QED BY <2>3
<1>6. rn - Tags.size \in Nat
  BY <1>1
<1>7. \A t, u \in Tags.held : Tags.seq[t] = Tags.seq[u] => t = u
  BY <1>1, <1>2, <1>3
<1>8. \A t \in Tags.held : /\ Tags.seq[t] \in Nat /\ Tags.pos[t] \in Nat
                           /\ rn - Tags.size <= Tags.seq[t]
                           /\ Tags.seq[t] < rn
  BY <1>1, <1>2
<1> QED BY <1>2, <1>5, <1>6, <1>7, <1>8

(***************************************************************************)
(* What the sources say, when the table changes.  Moves covers every step  *)
(* but Allocate: instructions may leave at the head, and become ready.     *)
(***************************************************************************)
Moves(tb, tb2) ==
  /\ tb2.held \subseteq tb.held /\ tb2.seq = tb.seq /\ tb2.dst = tb.dst
  /\ tb.ready \subseteq tb2.ready
  /\ tb.ready \cup tb.wb \subseteq tb2.ready \cup tb2.wb
  /\ \A t \in tb.held \ tb2.held : Retired(tb2, t)

(* An instruction's source has one producer at most.                       *)
LEMMA ProducerIs ==
  ASSUME NEW prg, NEW q \in Nat, NEW r,
         NEW p1 \in Nat, Producer(prg, p1, q, r),
         NEW p2 \in Nat, Producer(prg, p2, q, r)
  PROVE  p1 = p2
<1>1. CASE p1 < p2
  BY <1>1 DEF Producer
<1>2. CASE p2 < p1
  BY <1>2 DEF Producer
<1> QED BY <1>1, <1>2

(* Instructions read later do not change who produced a source.            *)
LEMMA ProducerGrows ==
  ASSUME NEW prg, NEW prg2, NEW n \in Nat,
         \A m \in 1 .. n : prg2[m] = prg[m]
  PROVE  \A p \in Nat, q \in 0 .. n : \A r :
           Producer(prg2, p, q, r) <=> Producer(prg, p, q, r)
<1> SUFFICES ASSUME NEW p \in Nat, NEW q \in 0 .. n, NEW r, p < q
             PROVE  Producer(prg2, p, q, r) <=> Producer(prg, p, q, r)
  BY DEF Producer
<1>1. prg2[p + 1] = prg[p + 1]
  OBVIOUS
<1>2. \A m \in p + 1 .. q - 1 : prg2[m + 1] = prg[m + 1]
  OBVIOUS
<1> QED BY <1>1, <1>2 DEF Producer

(* A source that waits for its producer's tag still does when the head     *)
(* leaves, or when a producer becomes ready.                               *)
LEMMA SourceMoves ==
  ASSUME NEW prg, NEW prg2, NEW n \in Nat, NEW tb, NEW tb2, NEW q \in 0 .. n,
         NEW r, NEW waits \in BOOLEAN, NEW tag,
         NEW looked \in BOOLEAN, NEW looked2 \in BOOLEAN,
         \A m \in 1 .. n : prg2[m] = prg[m],
         \A t \in Tag : tb.seq[t] \in Nat,
         tb.held \subseteq Tag, tb.ready \subseteq Tag,
         Moves(tb, tb2), looked2 => looked /\ tb2.held = tb.held,
         SourceOK(prg, tb, q, r, waits, tag, looked)
  PROVE  SourceOK(prg2, tb2, q, r, waits, tag, looked2)
<1>1. \A p \in Nat : Producer(prg2, p, q, r) <=> Producer(prg, p, q, r)
  BY ProducerGrows
<1>2. CASE waits
  <2>1. /\ r /= None /\ tag \in Tag /\ Producer(prg, tb.seq[tag], q, r)
        /\ tag \in tb.held \/ (~looked /\ Retired(tb, tag))
    BY <1>2 DEF SourceOK, Retired
  <2>2. tag \in tb2.held \/ (~looked2 /\ Retired(tb2, tag))
    BY <2>1 DEF Moves, Retired
  <2>3. Producer(prg2, tb2.seq[tag], q, r)
    BY <1>1, <2>1 DEF Moves
  <2> QED BY <1>2, <2>1, <2>2, <2>3 DEF SourceOK
<1>3. CASE ~waits
  <2>1. r = None \/ Known(prg, tb, q, r)
    BY <1>3 DEF SourceOK
  <2>2. Known(prg, tb, q, r) => Known(prg2, tb2, q, r)
    BY <1>1 DEF Known, Moves
  <2> QED BY <1>3, <2>1, <2>2 DEF SourceOK
<1> QED BY <1>2, <1>3

(* SourceMoves, for both sources of everything in a latch.                 *)
LEMMA LatchMoves ==
  ASSUME NEW prg, NEW prg2, NEW n \in Nat, NEW tb, NEW tb2,
         NEW latch \in [Slot -> PipeReg],
         NEW looked \in BOOLEAN, NEW looked2 \in BOOLEAN,
         \A m \in 1 .. n : prg2[m] = prg[m],
         \A t \in Tag : tb.seq[t] \in Nat,
         tb.held \subseteq Tag, tb.ready \subseteq Tag,
         \A t \in tb.held : tb.seq[t] < n,
         Moves(tb, tb2), looked2 => looked /\ tb2.held = tb.held,
         \A k \in Slot : latch[k].seq /= None =>
           latch[k].dst \notin tb.held \ tb2.held,
         LatchOK(prg, tb, latch, looked)
  PROVE  LatchOK(prg2, tb2, latch, looked2)
<1> SUFFICES ASSUME NEW k \in Slot
             PROVE  EntryOK(prg2, tb2, latch[k], looked2)
  BY DEF LatchOK
<1> DEFINE e == latch[k]
<1>1. EntryOK(prg, tb, e, looked) /\ e.rob1 \in BOOLEAN /\ e.rob2 \in BOOLEAN
  BY DEF LatchOK, PipeReg
<1>2. e.seq /= None => e.dst \notin tb.held \ tb2.held
  OBVIOUS
<1> HIDE DEF e
<1>3. CASE e.seq = None
  BY <1>1, <1>3 DEF EntryOK, e
<1>4. CASE e.seq /= None
  <2>1. /\ Holder(tb, e.dst, e.seq)
        /\ SourceOK(prg, tb, e.seq, prg[e.seq + 1].src1, e.rob1, e.src1, looked)
        /\ SourceOK(prg, tb, e.seq, prg[e.seq + 1].src2, e.rob2, e.src2, looked)
    BY <1>1, <1>4 DEF EntryOK
  <2>2. e.seq \in Nat /\ e.seq < n
    BY <2>1 DEF Holder
  <2>3. prg2[e.seq + 1] = prg[e.seq + 1] /\ e.seq \in 0 .. n
    BY <2>2
  <2> DEFINE q == e.seq
  <2>a. ASSUME NEW r, NEW waits \in BOOLEAN, NEW tag,
               SourceOK(prg, tb, q, r, waits, tag, looked)
        PROVE  SourceOK(prg2, tb2, q, r, waits, tag, looked2)
    <3>1. q \in 0 .. n
      BY <2>3
    <3> HIDE DEF q
    <3> QED BY <3>1, <2>a, SourceMoves
  <2>4. SourceOK(prg2, tb2, e.seq, prg[e.seq + 1].src1, e.rob1, e.src1, looked2)
    BY <1>1, <2>1, <2>a
  <2>5. SourceOK(prg2, tb2, e.seq, prg[e.seq + 1].src2, e.rob2, e.src2, looked2)
    BY <1>1, <2>1, <2>a
  <2>6. Holder(tb2, e.dst, e.seq)
    BY <1>2, <1>4, <2>1 DEF Holder, Moves
  <2> QED BY <1>4, <2>3, <2>4, <2>5, <2>6 DEF EntryOK, e
<1> QED BY <1>3, <1>4

(* The issue queue and the units, while nothing more is announced.         *)
LEMMA QueueMoves ==
  ASSUME NEW prg, NEW prg2, NEW n \in Nat, NEW tb, NEW tb2, NEW d,
         NEW queue, NEW valid, NEW exc, NEW busy,
         \A m \in 1 .. n : prg2[m] = prg[m],
         \A t \in Tag : tb.seq[t] \in Nat, tb.held \subseteq Tag,
         \A t \in tb.held : tb.seq[t] < n,
         Moves(tb, tb2), tb2.ready \cup tb2.wb = tb.ready \cup tb.wb,
         tb.held \ tb2.held \subseteq tb.ready,
         IqOK(prg, tb, d, queue, valid), ExcOK(tb, d, exc, busy)
  PROVE  IqOK(prg2, tb2, d, queue, valid) /\ ExcOK(tb2, d, exc, busy)
<1>1. \A q, tag : Pending(tb, d, q, tag) => Pending(tb2, d, q, tag)
  BY DEF Pending, Holder, Moves
<1>2. ExcOK(tb2, d, exc, busy)
  BY <1>1 DEF ExcOK
<1>3. ASSUME NEW q \in 0 .. n, NEW r, NEW ready \in BOOLEAN, NEW tag,
             WaitsForTag(prg, tb, q, r, ready, tag)
      PROVE  WaitsForTag(prg2, tb2, q, r, ready, tag)
  <2>1. \A p \in Nat : Producer(prg2, p, q, r) <=> Producer(prg, p, q, r)
    BY ProducerGrows
  <2>2. Known(prg, tb, q, r) => Known(prg2, tb2, q, r)
    BY <2>1 DEF Known, Moves
  <2>3. tag \in tb.held \ (tb.ready \cup tb.wb) =>
          /\ tag \in tb2.held \ (tb2.ready \cup tb2.wb)
          /\ tb2.seq[tag] = tb.seq[tag] /\ tb.seq[tag] \in Nat
    BY DEF Moves
  <2> QED BY <1>3, <2>1, <2>2, <2>3 DEF WaitsForTag
<1>4. ASSUME NEW x \in valid
      PROVE  IqEntryOK(prg2, tb2, d, queue[x])
  <2> DEFINE e == queue[x]
  <2>1. IqEntryOK(prg, tb, d, e)
    BY DEF IqOK
  <2> HIDE DEF e
  <2>2. e.seq \in Nat /\ e.seq < n
    BY <2>1 DEF IqEntryOK, Pending, Holder
  <2>3. prg2[e.seq + 1] = prg[e.seq + 1] /\ e.seq \in 0 .. n
    BY <2>2
  <2>4. \A r, tag : \A ready : WaitsForTag(prg, tb, e.seq, r, ready, tag)
                               => WaitsForTag(prg2, tb2, e.seq, r, ready, tag)
    BY <1>3, <2>3 DEF WaitsForTag
  <2> QED BY <1>1, <2>1, <2>3, <2>4 DEF IqEntryOK, e
<1> QED BY <1>2, <1>4 DEF IqOK

(* What was dispatched is still in the queue, in a unit, in Wb or ready,   *)
(* when instructions leave at the head or become ready.                    *)
LEMMA LostMoves ==
  ASSUME NEW tb, NEW tb2, NEW d, NEW tags, Moves(tb, tb2),
         NothingLost(tb, d, tags)
  PROVE  NothingLost(tb2, d, tags)
  BY DEF NothingLost, Moves

(* What the lemmas on tables ask of the machine's own.                     *)
LEMMA TableIs ==
  ASSUME CpuTypeOK, NEW rn \in 0 .. Len(prog),
         RobInOrder(prog, Tags, Dispatched, rn)
  PROVE  /\ \A t \in Tag : Tags.seq[t] \in Nat
         /\ Tags.held \subseteq Tag /\ Tags.ready \subseteq Tag
         /\ \A t \in Tags.held : Tags.seq[t] < Len(prog)
         /\ Dispatched \in Nat /\ rn \in Nat /\ Len(prog) \in Nat
<1>1. Len(prog) \in Nat /\ rn \in Nat /\ params \in Params
  BY Types
<1>2. Dispatched \in Nat
  BY AllTypes DEF Dispatched
<1>3. \A t \in Tag : Tags.seq[t] \in Nat
  BY TagsIs DEF Seq0
<1>4. Tags.held \subseteq Tag /\ Tags.ready \subseteq Tag
  BY TagsIs
<1>5. \A t \in Tags.held : Tags.seq[t] < Len(prog)
  <2>1. \A t \in Tags.held : Tags.seq[t] < rn
    BY <1>1, <1>2, Held
  <2> QED BY <2>1, <1>1, <1>3, <1>4
<1> QED BY <1>1, <1>2, <1>3, <1>4, <1>5

(* The sequence numbers in the reorder buffer: one tag for each, without   *)
(* gaps, up to the youngest renamed.                                       *)
LEMMA HeldIs ==
  ASSUME CpuTypeOK, NEW rn \in 0 .. Len(prog),
         RobInOrder(prog, Tags, Dispatched, rn)
  PROVE  /\ rn - Tags.size \in Nat
         /\ \A t \in Tags.held : /\ t \in Tag /\ Tags.seq[t] \in Nat
                                 /\ Tags.pos[t] \in Nat
                                 /\ Tags.seq[t] = (rn - Tags.size) + Tags.pos[t]
                                 /\ rn - Tags.size <= Tags.seq[t]
                                 /\ Tags.seq[t] < rn
         /\ \A t, u \in Tags.held : Tags.seq[t] = Tags.seq[u] => t = u
         /\ \A q \in rn - Tags.size .. rn - 1 :
              \E t \in Tags.held : Tags.seq[t] = q
<1> DEFINE d == Dispatched
<1>1. d \in Nat /\ rn \in Nat /\ RobInOrder(prog, Tags, d, rn)
  BY TableIs
<1> HIDE DEF d
<1> QED BY <1>1, Held

(***************************************************************************)
(* Steps that leave the back end as it is.                                 *)
(***************************************************************************)
LEMMA TagsSame ==
  ASSUME CpuTypeOK, NEW rn \in 0 .. Len(prog),
         RobInOrder(prog, Tags, Dispatched, rn),
         UNCHANGED <<params, Di, Rmt, Rob, Iq, Exc, Wb>>,
         Rr' = Rr \/ Rr' = NoBundle,
         \A m \in 1 .. Len(prog) : prog'[m] = prog[m],
         stage' \notin BackToRegRead => stage \notin BackToRegRead,
         stage' \notin BackToDispatch => stage \notin BackToDispatch,
         stage \notin {"Execute"}, stage' \notin {"Execute", "Enqueue"},
         TagsOK
  PROVE  TagsOK'
<1>1. Tags' = Tags
  BY SameTags
<1>2. Moves(Tags, Tags)
  BY DEF Moves
<1>3. MapExact(Tags, Rmt)'
  BY <1>1 DEF TagsOK
<1>4. ASSUME NEW latch \in [Slot -> PipeReg],
             NEW looked \in BOOLEAN, NEW looked2 \in BOOLEAN, looked2 => looked,
             LatchOK(prog, Tags, latch, looked)
      PROVE  LatchOK(prog', Tags, latch, looked2)
  BY <1>2, <1>4, TableIs, LatchMoves
<1>5. LatchOK(prog', Tags, Di, stage' \notin BackToDispatch)
  BY <1>4, Types DEF TagsOK, LatchesOK
<1>6. LatchOK(prog', Tags, Rr, stage' \notin BackToRegRead)
  BY <1>4, Types DEF TagsOK, LatchesOK
<1>7. LatchOK(prog', Tags, NoBundle, stage' \notin BackToRegRead)
  BY DEF LatchOK, EntryOK, NoBundle, Bubble
<1>8. LatchesOK'
  BY <1>1, <1>5, <1>6, <1>7 DEF LatchesOK
<1>9. BackEndOK'
  <2>1. /\ Dispatched' = Dispatched /\ ValidIq' = ValidIq /\ BusyUnits' = BusyUnits
        /\ IqTags' = IqTags /\ ExcTags' = ExcTags
    BY SameMachine DEF Dispatched, ValidIq, BusyUnits, IqTags, ExcTags
  <2>2. /\ IqOK(prog', Tags, Dispatched, Iq.queue, ValidIq)
        /\ ExcOK(Tags, Dispatched, Exc, BusyUnits)
    BY <1>2, TableIs, QueueMoves DEF TagsOK, BackEndOK
  <2>3. WbOK(Tags, Dispatched, Wb, FALSE)
    BY DEF TagsOK, BackEndOK
  <2> QED BY <1>1, <2>1, <2>2, <2>3 DEF TagsOK, BackEndOK
<1> QED BY <1>3, <1>8, <1>9 DEF TagsOK

(* What the queue and the units have room for, when neither changes.       *)
LEMMA RoomSame ==
  ASSUME UNCHANGED <<params, Iq, Exc>>, stage /= "Issue",
         stage' \notin {"Dispatch", "Enqueue", "Issue"},
         IqHasRoom, UnitsSuffice
  PROVE  IqHasRoom' /\ UnitsSuffice'
<1>1. /\ ValidIq' = ValidIq /\ Width' = Width /\ IqSize' = IqSize
      /\ Dispatched' = Dispatched /\ \A k : UnitsFrom(k)' = UnitsFrom(k)
  BY SameMachine DEF ValidIq, UnitsFrom, Dispatched
<1> QED BY <1>1 DEF IqHasRoom, UnitsSuffice

(* A latch that was handed on as a whole, and one that holds nothing.      *)
LEMMA HandedOver ==
  ASSUME NEW latch, NEW w \in Nat, NEW from \in Nat, NEW upto \in Nat,
         InOrder(latch, w, w, from, upto)
  PROVE  from = upto
  BY DEF InOrder

(* No slot, no instruction.                                                *)
LEMMA NothingBehind ==
  ASSUME NEW latch, NEW w \in Nat, NEW from \in Nat
  PROVE  InOrder(latch, w, w, from, from)
  BY DEF InOrder

(* How many instructions a run of slots can hold, and what they are.       *)
LEMMA InOrderIs ==
  ASSUME NEW latch, NEW lo \in Nat, NEW hi \in Nat, NEW from \in Nat, NEW upto \in Nat,
         InOrder(latch, lo, hi, from, upto)
  PROVE  /\ from <= upto /\ upto <= from + (hi - lo)
         /\ \A k \in lo .. hi - 1 : latch[k].seq = None \/ latch[k].seq \in from .. upto - 1
         /\ (\A k \in lo .. hi - 1 : latch[k].seq = None) /\ lo <= hi => from = upto
<1>1. /\ from <= upto /\ upto <= from + (hi - lo)
      /\ \A k \in lo .. hi - 1 :
           latch[k].seq = IF from + (k - lo) < upto THEN from + (k - lo) ELSE None
  BY DEF InOrder
<1>2. \A k \in lo .. hi - 1 : latch[k].seq = None \/ latch[k].seq \in from .. upto - 1
  BY <1>1
<1>3. ASSUME \A k \in lo .. hi - 1 : latch[k].seq = None, lo <= hi, from < upto
      PROVE  FALSE
  <2>1. lo \in lo .. hi - 1
    BY <1>1, <1>3
  <2>2. latch[lo].seq = from
    BY <2>1, <1>1, <1>3
  <2> QED BY <2>1, <2>2, <1>3, CpuAssumption
<1> QED BY <1>1, <1>2, <1>3

(* The numbers of the trace a state is described by.                       *)
LEMMA Numbers ==
  ASSUME CpuTypeOK, NEW rd \in 0 .. Len(prog), NEW rn \in 0 .. Len(prog),
         NEW de \in 0 .. Len(prog), NEW fe \in 0 .. Len(prog)
  PROVE  /\ rd \in Nat /\ rn \in Nat /\ de \in Nat /\ fe \in Nat
         /\ Len(prog) \in Nat /\ Width \in Nat \ {0} /\ Slot = 0 .. Width - 1
         /\ params \in Params
  BY Types, Sizes

(***************************************************************************)
(* A cycle begins.                                                         *)
(***************************************************************************)
LEMMA BeginCycleKeeps ==
  ASSUME NEW rd \in 0 .. Len(prog), NEW rn \in 0 .. Len(prog),
         NEW de \in 0 .. Len(prog), NEW fe \in 0 .. Len(prog),
         CoreAt(rd, rn, de, fe), BeginCycle
  PROVE  CoreFor(rn)'
<1>1. /\ CpuTypeOK /\ IqIsRecord
      /\ FrontAt(rn, de, fe) /\ MiddleAt(rd, rn) /\ RobAt(rd, rn, de)
      /\ TagsOK /\ IqHasRoom /\ UnitsSuffice
  BY CoreIs
<1>2. /\ stage = "UpdInfo" /\ stage' = "Retire" /\ slot' = 0 /\ empty' = FALSE
      /\ UNCHANGED <<mainVars, frontVars, Rr, Di, Rmt, Rob, Iq, Exc, Wb,
                     RN, RR, DI, IS, done_flag>>
  BY DEF BeginCycle, GoTo
<1>3. params \in Params /\ params' = params /\ Width' = Width /\ RobSize' = RobSize
  BY <1>1, <1>2, Types, SameMachine DEF mainVars
<1>4. CpuTypeOK'
  <2>1. stage' \in Stages /\ slot' \in Slot
    BY <1>2, <1>3, Sizes, StagesIs, SMTT(30)
  <2> QED BY <2>1, <1>1, <1>2, TypeKept, Types, AllTypes DEF mainVars, frontVars
<1>5. FrontAt(rn, de, fe)'
  BY <1>1, <1>2, <1>3, FrontSame DEF frontVars, Behind, Settled
<1>6. Tags' = Tags /\ Dispatched' = Dispatched
  BY <1>2, SameTags DEF mainVars, Dispatched
<1>7. MiddleAt(rd, rn)'
  BY <1>1, <1>2, <1>6, MiddleSame DEF mainVars, Settled, Calm
<1>8. RobAt(rd, rn, de)'
  BY <1>1, <1>2, <1>3, <1>6 DEF RobAt, RobHasRoom, RobRunsEmpty, StageOK, Refilled, mainVars
<1>9. TagsOK'
  BY <1>1, <1>2, TagsSame DEF mainVars, RobAt, BackToRegRead, BackToDispatch
<1>10. IqHasRoom' /\ UnitsSuffice'
  BY <1>1, <1>2, RoomSame DEF mainVars
<1>11. IqIsRecord'
  BY <1>1, <1>2 DEF IqIsRecord
<1>12. CoreAt(rd, rn, de, fe)'
  BY <1>4, <1>5, <1>7, <1>8, <1>9, <1>10, <1>11
     DEF CoreAt, TraceOrder, LatchesInOrder, FrontAt, MiddleAt, RobAt, TagsOK, IqIsRecord
<1> QED BY <1>2, <1>12 DEF CoreFor, mainVars

(***************************************************************************)
(* Decode and Fetch.                                                       *)
(***************************************************************************)
LEMMA DecodeKeeps ==
  ASSUME NEW rd \in 0 .. Len(prog), NEW rn \in 0 .. Len(prog),
         NEW de \in 0 .. Len(prog), NEW fe \in 0 .. Len(prog),
         CoreAt(rd, rn, de, fe), Decode
  PROVE  CoreFor(rn)'
<1>0. PICK de2 \in 0 .. Len(prog) : de2 = IF RN THEN fe ELSE de
  OBVIOUS
<1>1. /\ CpuTypeOK /\ IqIsRecord
      /\ FrontAt(rn, de, fe) /\ MiddleAt(rd, rn) /\ RobAt(rd, rn, de)
      /\ TagsOK /\ IqHasRoom /\ UnitsSuffice
  BY CoreIs
<1>2. /\ stage = "Decode" /\ stage' = "Fetch" /\ slot' = 0 /\ DE' = RN
      /\ Rn' = IF RN THEN De ELSE Rn
      /\ UNCHANGED <<mainVars, De, FE, Rr, Di, Rmt, Rob, Iq, Exc, Wb,
                     RN, RR, DI, IS, empty, done_flag>>
  BY DEF Decode, GoTo
<1>3. /\ params' = params /\ Width' = Width /\ RobSize' = RobSize /\ Slot' = Slot
      /\ prog' = prog /\ last' = last /\ loop' = loop /\ inst_input' = inst_input
  BY <1>2, SameMachine DEF mainVars
<1>4. /\ rd \in Nat /\ rn \in Nat /\ de \in Nat /\ fe \in Nat
      /\ Len(prog) \in Nat /\ Width \in Nat \ {0} /\ Slot = 0 .. Width - 1
      /\ params \in Params /\ RN \in BOOLEAN
  BY <1>1, Numbers, Types
<1>5. CpuTypeOK'
  <2>1. stage' \in Stages /\ slot' \in Slot
    BY <1>2, <1>4, StagesIs
  <2>2. Rn' \in [Slot -> PipeReg]
    BY <1>1, <1>2, Types
  <2> QED BY <2>1, <2>2, <1>1, <1>2, <1>3, TypeKept, Types, AllTypes
<1>6. /\ RnFrom = (IF RN THEN Width ELSE 0) /\ DeFrom = 0 /\ InFrom = 0
      /\ RnMoves = RN /\ ~DeMoves
  BY <1>2, <1>4 DEF RnFrom, DeFrom, InFrom, RnMoves, DeMoves
<1>7. /\ RnFrom' = 0 /\ DeFrom' = (IF RN THEN Width ELSE 0) /\ InFrom' = 0
      /\ ~RnMoves' /\ DeMoves' = RN
  BY <1>2, <1>3, <1>4 DEF RnFrom, DeFrom, InFrom, RnMoves, DeMoves
<1>8. /\ InOrder(Rn, RnFrom, Width, rn, de) /\ InOrder(De, 0, Width, de, fe)
      /\ InOrder(inst_input, 0, Width, fe, Len(prog))
      /\ NoGaps(rn, de, fe) /\ AsFetched
  BY <1>1, <1>6 DEF FrontAt
<1>9. RN => rn = de
  BY <1>4, <1>6, <1>8, HandedOver
<1>10. /\ InOrder(Rn', 0, Width, rn, de2)
       /\ InOrder(De', IF RN THEN Width ELSE 0, Width, de2, fe)
       /\ InOrder(inst_input', 0, Width, fe, Len(prog))
  <2>1. CASE RN
    BY <2>1, <1>0, <1>2, <1>3, <1>4, <1>8, <1>9, NothingBehind
  <2>2. CASE ~RN
    BY <2>2, <1>0, <1>2, <1>3, <1>6, <1>8
  <2> QED BY <2>1, <2>2
<1>11. NoGaps(rn, de2, fe)'
  <2>1. IsBubbles(inst_input)' <=> IsBubbles(inst_input)
    BY <1>3 DEF IsBubbles
  <2> QED BY <2>1, <1>0, <1>2, <1>3, <1>4, <1>6, <1>7, <1>8, <1>9 DEF NoGaps
<1>12. AsFetched'
  BY <1>2, <1>3, <1>6, <1>7, <1>8 DEF AsFetched, Raw
<1>13. HandedOn'
  BY <1>2, <1>3, <1>7 DEF HandedOn
<1>14. Tags' = Tags /\ Dispatched' = Dispatched
  BY <1>2, <1>3, SameTags DEF Dispatched
<1>15. MiddleAt(rd, rn)'
  BY <1>1, <1>2, <1>3, <1>14, MiddleSame DEF Calm
<1>16. RobAt(rd, rn, de2)'
  BY <1>1, <1>2, <1>3, <1>4, <1>14
     DEF RobAt, RobHasRoom, RobRunsEmpty, StageOK, Refilled
<1>17. TagsOK'
  BY <1>1, <1>2, <1>3, TagsSame DEF RobAt, BackToRegRead, BackToDispatch
<1>18. IqHasRoom' /\ UnitsSuffice'
  BY <1>1, <1>2, <1>3, RoomSame
<1>19. IqIsRecord'
  BY <1>1, <1>2 DEF IqIsRecord
<1>20. CoreAt(rd, rn, de2, fe)'
  BY <1>3, <1>5, <1>7, <1>10, <1>11, <1>12, <1>13, <1>15, <1>16, <1>17, <1>18, <1>19
     DEF CoreAt, TraceOrder, LatchesInOrder, MiddleAt, RobAt, TagsOK, IqIsRecord
<1> QED BY <1>3, <1>20 DEF CoreFor

(* Fetch preserves the invariant.                                          *)
LEMMA FetchKeeps ==
  ASSUME NEW rd \in 0 .. Len(prog), NEW rn \in 0 .. Len(prog),
         NEW de \in 0 .. Len(prog), NEW fe \in 0 .. Len(prog),
         CoreAt(rd, rn, de, fe), Fetch
  PROVE  CoreFor(rn)'
<1>0. PICK fe2 \in 0 .. Len(prog) : fe2 = IF DE THEN Len(prog) ELSE fe
  BY Numbers DEF CoreAt
<1>1. /\ CpuTypeOK /\ IqIsRecord
      /\ FrontAt(rn, de, fe) /\ MiddleAt(rd, rn) /\ RobAt(rd, rn, de)
      /\ TagsOK /\ IqHasRoom /\ UnitsSuffice
  BY CoreIs
<1>2. /\ stage = "Fetch" /\ stage' = "Advance_Cycle" /\ slot' = 0 /\ FE' = DE
      /\ De' = IF DE THEN inst_input ELSE De
      /\ UNCHANGED <<mainVars, Rn, DE, Rr, Di, Rmt, Rob, Iq, Exc, Wb,
                     RN, RR, DI, IS, empty, done_flag>>
  BY DEF Fetch, GoTo
<1>3. /\ params' = params /\ Width' = Width /\ RobSize' = RobSize /\ Slot' = Slot
      /\ prog' = prog /\ last' = last /\ loop' = loop /\ inst_input' = inst_input
  BY <1>2, SameMachine DEF mainVars
<1>4. /\ rd \in Nat /\ rn \in Nat /\ de \in Nat /\ fe \in Nat
      /\ Len(prog) \in Nat /\ Width \in Nat \ {0} /\ Slot = 0 .. Width - 1
      /\ params \in Params /\ DE \in BOOLEAN
  BY <1>1, Numbers, Types
<1>5. CpuTypeOK'
  <2>1. stage' \in Stages /\ slot' \in Slot
    BY <1>2, <1>4, StagesIs
  <2>2. De' \in [Slot -> PipeReg]
    BY <1>1, <1>2, Types
  <2> QED BY <2>1, <2>2, <1>1, <1>2, <1>3, TypeKept, Types, AllTypes
<1>6. /\ RnFrom = 0 /\ DeFrom = (IF DE THEN Width ELSE 0) /\ InFrom = 0
      /\ ~RnMoves /\ DeMoves = DE
  BY <1>2, <1>4 DEF RnFrom, DeFrom, InFrom, RnMoves, DeMoves
<1>7. /\ RnFrom' = 0 /\ DeFrom' = 0 /\ InFrom' = (IF DE THEN Width ELSE 0)
      /\ ~RnMoves' /\ ~DeMoves'
  BY <1>2, <1>3, <1>4 DEF RnFrom, DeFrom, InFrom, RnMoves, DeMoves
<1>8. /\ InOrder(Rn, 0, Width, rn, de) /\ InOrder(De, DeFrom, Width, de, fe)
      /\ InOrder(inst_input, 0, Width, fe, Len(prog))
      /\ NoGaps(rn, de, fe) /\ AsFetched
  BY <1>1, <1>6 DEF FrontAt
<1>9. DE => de = fe
  BY <1>4, <1>6, <1>8, HandedOver
<1>10. /\ InOrder(Rn', 0, Width, rn, de)
       /\ InOrder(De', 0, Width, de, fe2)
       /\ InOrder(inst_input', IF DE THEN Width ELSE 0, Width, fe2, Len(prog))
  <2>1. CASE DE
    BY <2>1, <1>0, <1>2, <1>3, <1>4, <1>8, <1>9, NothingBehind
  <2>2. CASE ~DE
    BY <2>2, <1>0, <1>2, <1>3, <1>6, <1>8
  <2> QED BY <2>1, <2>2
<1>11. NoGaps(rn, de, fe2)'
  <2>1. IsBubbles(inst_input)' <=> IsBubbles(inst_input)
    BY <1>3 DEF IsBubbles
  <2>2. CASE DE
    BY <2>1, <2>2, <1>0, <1>2, <1>3, <1>4, <1>6, <1>7, <1>8, <1>9 DEF NoGaps
  <2>3. CASE ~DE
    BY <2>1, <2>3, <1>0, <1>2, <1>3, <1>4, <1>6, <1>7, <1>8, <1>9 DEF NoGaps
  <2> QED BY <2>2, <2>3
<1>12. AsFetched'
  BY <1>2, <1>3, <1>6, <1>7, <1>8 DEF AsFetched, Raw
<1>13. HandedOn'
  BY <1>2, <1>3, <1>7 DEF HandedOn
<1>14. Tags' = Tags /\ Dispatched' = Dispatched
  BY <1>2, <1>3, SameTags DEF Dispatched
<1>15. MiddleAt(rd, rn)'
  BY <1>1, <1>2, <1>3, <1>14, MiddleSame DEF Calm
<1>16. RobAt(rd, rn, de)'
  BY <1>1, <1>2, <1>3, <1>4, <1>14
     DEF RobAt, RobHasRoom, RobRunsEmpty, StageOK, Refilled
<1>17. TagsOK'
  BY <1>1, <1>2, <1>3, TagsSame DEF RobAt, BackToRegRead, BackToDispatch
<1>18. IqHasRoom' /\ UnitsSuffice'
  BY <1>1, <1>2, <1>3, RoomSame
<1>19. IqIsRecord'
  BY <1>1, <1>2 DEF IqIsRecord
<1>20. CoreAt(rd, rn, de, fe2)'
  BY <1>3, <1>5, <1>7, <1>10, <1>11, <1>12, <1>13, <1>15, <1>16, <1>17, <1>18, <1>19
     DEF CoreAt, TraceOrder, LatchesInOrder, MiddleAt, RobAt, TagsOK, IqIsRecord
<1> QED BY <1>3, <1>20 DEF CoreFor

(***************************************************************************)
(* The end of a cycle.  In the second loop nothing is left to fetch.       *)
(***************************************************************************)
LEMMA NothingOffered ==
  ASSUME CpuTypeOK, NEW fe \in Nat,
         InOrder(inst_input, 0, Width, fe, Len(prog)), IsBubbles(inst_input)
  PROVE  fe = Len(prog)
<1>1. Len(prog) \in Nat /\ Width \in Nat \ {0} /\ Slot = 0 .. Width - 1
  BY Types, Sizes
<1>2. \A k \in 0 .. Width - 1 : inst_input[k].seq = None
  BY <1>1 DEF IsBubbles
<1> QED BY <1>1, <1>2, InOrderIs

(* Advance_Cycle preserves the invariant, in main's first loop and in its  *)
(* second.                                                                 *)
LEMMA AdvanceKeeps ==
  ASSUME NEW rd \in 0 .. Len(prog), NEW rn \in 0 .. Len(prog),
         NEW de \in 0 .. Len(prog), NEW fe \in 0 .. Len(prog),
         CoreAt(rd, rn, de, fe), Advance_Cycle
  PROVE  CoreFor(rn)'
<1>1. /\ CpuTypeOK /\ IqIsRecord
      /\ FrontAt(rn, de, fe) /\ MiddleAt(rd, rn) /\ RobAt(rd, rn, de)
      /\ TagsOK /\ IqHasRoom /\ UnitsSuffice
  BY CoreIs
<1>2. /\ stage = "Advance_Cycle" /\ slot' = 0
      /\ \/ /\ loop = "trace" /\ FE /\ stage' = "Read"
            /\ loop' = IF last THEN "drain" ELSE "trace"
         \/ loop = "trace" /\ ~FE /\ stage' = "UpdInfo" /\ loop' = "trace"
         \/ loop = "drain" /\ done_flag /\ stage' = "End" /\ loop' = "drain"
         \/ loop = "drain" /\ ~done_flag /\ stage' = "Read" /\ loop' = "drain"
      /\ UNCHANGED <<params, prog, last, inst_input, frontVars, Rr, Di, Rmt, Rob,
                     Iq, Exc, Wb, RN, RR, DI, IS, empty, done_flag>>
  BY <1>1, Types DEF Advance_Cycle, GoTo
<1>3. /\ params' = params /\ Width' = Width /\ RobSize' = RobSize /\ Slot' = Slot
      /\ prog' = prog /\ last' = last /\ inst_input' = inst_input
      /\ De' = De /\ Rn' = Rn /\ FE' = FE /\ DE' = DE
  BY <1>2, SameMachine DEF frontVars
<1>4. /\ rd \in Nat /\ rn \in Nat /\ de \in Nat /\ fe \in Nat
      /\ Len(prog) \in Nat /\ Width \in Nat \ {0} /\ Slot = 0 .. Width - 1
      /\ params \in Params /\ FE \in BOOLEAN /\ last \in BOOLEAN
  BY <1>1, Numbers, Types
<1>5. CpuTypeOK'
  <2>1. stage' \in Stages /\ slot' \in Slot
    BY <1>2, <1>4, StagesIs
  <2>2. loop' \in {"trace", "drain"}
    BY <1>2
  <2> QED BY <2>1, <2>2, <1>1, <1>2, <1>3, TypeKept, Types, AllTypes
<1>6. /\ RnFrom = 0 /\ DeFrom = 0 /\ InFrom = (IF FE THEN Width ELSE 0)
      /\ ~RnMoves /\ ~DeMoves
  BY <1>2, <1>4 DEF RnFrom, DeFrom, InFrom, RnMoves, DeMoves
<1>7. /\ RnFrom' = 0 /\ DeFrom' = 0
      /\ InFrom' = (IF stage' = "UpdInfo" THEN 0 ELSE Width)
      /\ ~RnMoves' /\ ~DeMoves'
  BY <1>2, <1>3, <1>4 DEF RnFrom, DeFrom, InFrom, RnMoves, DeMoves
<1>8. /\ InOrder(Rn, 0, Width, rn, de) /\ InOrder(De, 0, Width, de, fe)
      /\ InOrder(inst_input, InFrom, Width, fe, Len(prog))
      /\ NoGaps(rn, de, fe) /\ AsFetched /\ HandedOn
  BY <1>1, <1>6 DEF FrontAt
<1>9. loop = "drain" => IsBubbles(inst_input) /\ last
  BY <1>2, <1>8 DEF NoGaps
<1>10. FE \/ loop = "drain" => fe = Len(prog)
  BY <1>1, <1>4, <1>6, <1>8, <1>9, HandedOver, NothingOffered
<1>11. InOrder(inst_input, InFrom', Width, fe, Len(prog))
  <2>1. CASE stage' = "UpdInfo"
    BY <2>1, <1>2, <1>6, <1>7, <1>8
  <2>2. CASE stage' /= "UpdInfo"
    BY <2>2, <1>2, <1>4, <1>7, <1>10, NothingBehind
  <2> QED BY <2>1, <2>2
<1>12. NoGaps(rn, de, fe)'
  <2>1. IsBubbles(inst_input)' <=> IsBubbles(inst_input)
    BY <1>3 DEF IsBubbles
  <2> QED BY <2>1, <1>2, <1>3, <1>4, <1>6, <1>7, <1>8, <1>9 DEF NoGaps
<1>13. AsFetched'
  BY <1>3, <1>6, <1>7, <1>8 DEF AsFetched, Raw
<1>14. HandedOn'
  <2>1. stage' /= "UpdInfo" =>
          \A k \in Slot : inst_input[k].seq \in {None, De[k].seq}
    <3>1. CASE FE
      BY <3>1, <1>4, <1>6, <1>8 DEF HandedOn
    <3>2. CASE loop = "drain"
      BY <3>2, <1>9 DEF IsBubbles
    <3> QED BY <3>1, <3>2, <1>2
  <2>2. stage' = "UpdInfo" => InFrom' = 0
    BY <1>7
  <2> QED BY <2>1, <2>2, <1>3, <1>7 DEF HandedOn
<1>15. Tags' = Tags /\ Dispatched' = Dispatched
  BY <1>2, <1>3, SameTags DEF Dispatched
<1>16. MiddleAt(rd, rn)'
  BY <1>1, <1>2, <1>3, <1>15, MiddleSame DEF Calm, Settled
<1>17. RobAt(rd, rn, de)'
  <2>1. RobInOrder(prog, Tags, Dispatched, rn)' /\ RobHasRoom(rn)' /\ StageOK(rd, rn, de)'
    BY <1>1, <1>2, <1>3, <1>15 DEF RobAt, RobHasRoom, StageOK
  <2>2. RobRunsEmpty(rn, de)'
    BY <1>1, <1>2, <1>3, <1>15 DEF RobAt, RobRunsEmpty
  <2>3. Refilled(rd, rn, de)'
    BY <1>1, <1>2, <1>3, <1>4, <1>15 DEF RobAt, StageOK, Refilled
  <2> QED BY <2>1, <2>2, <2>3 DEF RobAt
<1>18. TagsOK'
  BY <1>1, <1>2, <1>3, TagsSame DEF RobAt, BackToRegRead, BackToDispatch
<1>19. IqHasRoom' /\ UnitsSuffice'
  BY <1>1, <1>2, <1>3, RoomSame
<1>20. IqIsRecord'
  BY <1>1, <1>2 DEF IqIsRecord
<1>21. CoreAt(rd, rn, de, fe)'
  BY <1>3, <1>5, <1>7, <1>8, <1>11, <1>12, <1>13, <1>14, <1>16, <1>17, <1>18, <1>19, <1>20
     DEF CoreAt, TraceOrder, LatchesInOrder, MiddleAt, RobAt, TagsOK, IqIsRecord
<1> QED BY <1>3, <1>21 DEF CoreFor

(***************************************************************************)
(* main reads a bundle, or an empty one.                                   *)
(***************************************************************************)
LEMMA ReadNothingKeeps ==
  ASSUME NEW rd \in 0 .. Len(prog), NEW rn \in 0 .. Len(prog),
         NEW de \in 0 .. Len(prog), NEW fe \in 0 .. Len(prog),
         CoreAt(rd, rn, de, fe), ReadNothing
  PROVE  CoreFor(rn)'
<1>1. /\ CpuTypeOK /\ IqIsRecord
      /\ FrontAt(rn, de, fe) /\ MiddleAt(rd, rn) /\ RobAt(rd, rn, de)
      /\ TagsOK /\ IqHasRoom /\ UnitsSuffice
  BY CoreIs
<1>2. /\ stage = "Read" /\ loop = "drain" /\ stage' = "UpdInfo" /\ slot' = 0
      /\ inst_input' = NoBundle
      /\ UNCHANGED <<params, prog, last, loop, De, Rn, Rr, Di, Rmt, Rob, Iq, Exc,
                     Wb, FE, DE, RN, RR, DI, IS, empty, done_flag>>
  BY DEF ReadNothing, GoTo
<1>3. params' = params /\ Width' = Width /\ RobSize' = RobSize /\ Slot' = Slot
  BY <1>2, SameMachine
<1>4. /\ rd \in Nat /\ rn \in Nat /\ de \in Nat /\ fe \in Nat
      /\ Len(prog) \in Nat /\ Width \in Nat \ {0} /\ Slot = 0 .. Width - 1
      /\ params \in Params
  BY <1>1, Numbers
<1>5. NoBundle \in [Slot -> PipeReg]
  BY DEF NoBundle, Bubble, PipeReg, Op
<1>6. CpuTypeOK'
  <2>1. stage' \in Stages /\ slot' \in Slot
    BY <1>2, <1>4, StagesIs
  <2> QED BY <2>1, <1>1, <1>2, <1>3, <1>5, TypeKept, Types, AllTypes
<1>7. /\ RnFrom = 0 /\ DeFrom = 0 /\ InFrom = Width /\ ~RnMoves /\ ~DeMoves
  BY <1>2 DEF RnFrom, DeFrom, InFrom, RnMoves, DeMoves
<1>8. /\ RnFrom' = 0 /\ DeFrom' = 0 /\ InFrom' = 0 /\ ~RnMoves' /\ ~DeMoves'
  BY <1>2, <1>3 DEF RnFrom, DeFrom, InFrom, RnMoves, DeMoves
<1>9. /\ InOrder(Rn, 0, Width, rn, de) /\ InOrder(De, 0, Width, de, fe)
      /\ InOrder(inst_input, Width, Width, fe, Len(prog))
      /\ NoGaps(rn, de, fe) /\ AsFetched
  BY <1>1, <1>7 DEF FrontAt
<1>10. fe = Len(prog) /\ last
  BY <1>2, <1>4, <1>9, HandedOver DEF NoGaps
<1>11. InOrder(NoBundle, 0, Width, fe, fe)
  BY <1>4 DEF InOrder, NoBundle, Bubble
<1>12. NoGaps(rn, de, fe)'
  <2>1. IsBubbles(inst_input)'
    BY <1>2, <1>3 DEF IsBubbles, NoBundle, Bubble
  <2> QED BY <2>1, <1>2, <1>3, <1>4, <1>7, <1>8, <1>9, <1>10 DEF NoGaps
<1>13. AsFetched'
  <2>1. Raw(prog, NoBundle, 0, Width)
    BY <1>4 DEF Raw, NoBundle, Bubble
  <2> QED BY <2>1, <1>2, <1>3, <1>7, <1>8, <1>9 DEF AsFetched, Raw
<1>14. HandedOn'
  BY <1>8 DEF HandedOn
<1>15. Tags' = Tags /\ Dispatched' = Dispatched
  BY <1>2, <1>3, SameTags DEF Dispatched
<1>16. MiddleAt(rd, rn)'
  BY <1>1, <1>2, <1>3, <1>15, MiddleSame DEF Calm, Settled
<1>17. RobAt(rd, rn, de)'
  BY <1>1, <1>2, <1>3, <1>4, <1>15
     DEF RobAt, RobHasRoom, RobRunsEmpty, StageOK, Refilled
<1>18. TagsOK'
  BY <1>1, <1>2, <1>3, TagsSame DEF RobAt, BackToRegRead, BackToDispatch
<1>19. IqHasRoom' /\ UnitsSuffice'
  BY <1>1, <1>2, <1>3, RoomSame
<1>20. IqIsRecord'
  BY <1>1, <1>2 DEF IqIsRecord
<1>21. CoreAt(rd, rn, de, fe)'
  BY <1>2, <1>3, <1>6, <1>8, <1>9, <1>10, <1>11, <1>12, <1>13, <1>14, <1>16, <1>17,
     <1>18, <1>19, <1>20
     DEF CoreAt, TraceOrder, LatchesInOrder, MiddleAt, RobAt, TagsOK, IqIsRecord
<1> QED BY <1>2, <1>21 DEF CoreFor

(* A bundle behind the trace: what was read stays where it was.            *)
LEMMA Appended ==
  ASSUME NEW seq \in Seq(Instr), NEW n \in Nat, NEW bundle \in [1 .. n -> Instr]
  PROVE  /\ seq \o bundle \in Seq(Instr) /\ Len(seq \o bundle) = Len(seq) + n
         /\ \A m \in 1 .. Len(seq) : (seq \o bundle)[m] = seq[m]
         /\ \A k \in 0 .. n - 1 : (seq \o bundle)[Len(seq) + k + 1] = bundle[k + 1]
<1>1. bundle \in Seq(Instr) /\ Len(bundle) = n
  BY SeqDef, LenProperties
<1>2. /\ seq \o bundle \in Seq(Instr) /\ Len(seq \o bundle) = Len(seq) + n
      /\ \A m \in 1 .. Len(seq) + n :
           (seq \o bundle)[m] = IF m <= Len(seq) THEN seq[m] ELSE bundle[m - Len(seq)]
  BY <1>1, ConcatProperties
<1>3. Len(seq) \in Nat
  BY LenProperties
<1>4. ASSUME NEW k \in 0 .. n - 1
      PROVE  (seq \o bundle)[Len(seq) + k + 1] = bundle[k + 1]
  <2> DEFINE m == Len(seq) + k + 1
  <2>1. m \in 1 .. Len(seq) + n /\ ~(m <= Len(seq)) /\ m - Len(seq) = k + 1
    BY <1>3
  <2> HIDE DEF m
  <2>2. (seq \o bundle)[m] = bundle[m - Len(seq)]
    BY <2>1, <1>2
  <2> QED BY <2>1, <2>2 DEF m
<1> QED BY <1>2, <1>3, <1>4

(* Reading a bundle of any length up to Width preserves the invariant.     *)
LEMMA ReadTraceKeeps ==
  ASSUME NEW rd \in 0 .. Len(prog), NEW rn \in 0 .. Len(prog),
         NEW de \in 0 .. Len(prog), NEW fe \in 0 .. Len(prog),
         CoreAt(rd, rn, de, fe),
         NEW n \in 0 .. Width, NEW bundle \in [1 .. n -> Instr], ReadTrace(n, bundle)
  PROVE  CoreFor(rn)'
<1>1. /\ CpuTypeOK /\ IqIsRecord
      /\ FrontAt(rn, de, fe) /\ MiddleAt(rd, rn) /\ RobAt(rd, rn, de)
      /\ TagsOK /\ IqHasRoom /\ UnitsSuffice
  BY CoreIs
<1>2. /\ stage = "Read" /\ loop = "trace" /\ stage' = "UpdInfo" /\ slot' = 0
      /\ Len(prog) + n <= MaxTrace
      /\ prog' = prog \o bundle /\ last' = (n < Width)
      /\ inst_input' = [k \in Slot |-> IF k < n
                                       THEN Fetched(bundle[k + 1], Len(prog) + k)
                                       ELSE Bubble]
      /\ UNCHANGED <<params, loop, De, Rn, Rr, Di, Rmt, Rob, Iq, Exc, Wb,
                     FE, DE, RN, RR, DI, IS, empty, done_flag>>
  BY DEF ReadTrace, GoTo
<1>3. params' = params /\ Width' = Width /\ RobSize' = RobSize /\ Slot' = Slot
  BY <1>2, SameMachine
<1>4. /\ rd \in Nat /\ rn \in Nat /\ de \in Nat /\ fe \in Nat
      /\ Len(prog) \in Nat /\ Width \in Nat \ {0} /\ Slot = 0 .. Width - 1
      /\ params \in Params /\ n \in Nat /\ n <= Width /\ MaxTrace \in Nat
  BY <1>1, Numbers, Sizes
<1>0. prog' \in Seq(Instr) /\ Len(prog') \in Nat
  <2>1. n \in Nat /\ prog \in Seq(Instr)
    BY <1>1, <1>4, Types
  <2>2. prog \o bundle \in Seq(Instr)
    BY <2>1, Appended, Zenon
  <2> QED BY <2>2, <1>2, LenProperties
<1>5. /\ Len(prog') = Len(prog) + n
      /\ \A m \in 1 .. Len(prog) : prog'[m] = prog[m]
      /\ \A k \in 0 .. n - 1 : prog'[Len(prog) + k + 1] = bundle[k + 1]
  <2> DEFINE longer == prog \o bundle
  <2>1. prog \in Seq(Instr) /\ prog' = longer
    BY <1>1, <1>2, Types
  <2>2. /\ Len(longer) = Len(prog) + n
        /\ \A m \in 1 .. Len(prog) : longer[m] = prog[m]
        /\ \A k \in 0 .. n - 1 : longer[Len(prog) + k + 1] = bundle[k + 1]
    <3>1. n \in Nat /\ prog \in Seq(Instr)
      BY <2>1, <1>4
    <3> QED BY <3>1, Appended, Zenon
  <2> HIDE DEF longer
  <2> QED BY <2>1, <2>2
<1>6. \A k \in 0 .. Width - 1 :
        /\ k < n => inst_input'[k] = Fetched(bundle[k + 1], Len(prog) + k)
        /\ ~(k < n) => inst_input'[k] = Bubble
  BY <1>2, <1>4
<1>7. inst_input' \in [Slot -> PipeReg]
  <2>1. ASSUME NEW k \in Slot, k < n
        PROVE  Fetched(bundle[k + 1], Len(prog) + k) \in PipeReg
    <3>1. k + 1 \in 1 .. n /\ Len(prog) + k \in Seq0
      BY <2>1, <1>2, <1>4 DEF Seq0
    <3>2. bundle[k + 1] \in InstrType
      BY <3>1, InstrAssumption
    <3> QED BY <3>1, <3>2 DEF Fetched, PipeReg, InstrType
  <2>2. Bubble \in PipeReg
    BY DEF Bubble, PipeReg, Op
  <2> QED BY <2>1, <2>2, <1>2
<1>8. CpuTypeOK'
  <2>1. stage' \in Stages /\ slot' \in Slot
    BY <1>2, <1>4, StagesIs
  <2>2. Len(prog') <= MaxTrace /\ last' \in BOOLEAN
    BY <1>2, <1>5
  <2> QED BY <2>1, <2>2, <1>0, <1>1, <1>2, <1>3, <1>7, TypeKept, Types, AllTypes
<1>9. /\ RnFrom = 0 /\ DeFrom = 0 /\ InFrom = Width /\ ~RnMoves /\ ~DeMoves
  BY <1>2 DEF RnFrom, DeFrom, InFrom, RnMoves, DeMoves
<1>10. /\ RnFrom' = 0 /\ DeFrom' = 0 /\ InFrom' = 0 /\ ~RnMoves' /\ ~DeMoves'
  BY <1>2, <1>3 DEF RnFrom, DeFrom, InFrom, RnMoves, DeMoves
<1>11. /\ InOrder(Rn, 0, Width, rn, de) /\ InOrder(De, 0, Width, de, fe)
       /\ InOrder(inst_input, Width, Width, fe, Len(prog))
       /\ NoGaps(rn, de, fe) /\ AsFetched
  BY <1>1, <1>9 DEF FrontAt
<1>12. fe = Len(prog) /\ ~last /\ (fe = de => de = 0) /\ (de = rn => rn = 0)
  <2>1. fe = Len(prog)
    BY <1>4, <1>11, HandedOver
  <2>2. ~last /\ (fe = de => de = 0)
    BY <1>2, <1>9, <1>11 DEF NoGaps
  <2>3. de = rn => rn = 0
    BY <1>4, <1>9, <1>11, <2>1, <2>2 DEF NoGaps
  <2> QED BY <2>1, <2>2, <2>3
<1>13. InOrder(inst_input', 0, Width, fe, Len(prog'))
  <2>1. \A k \in 0 .. Width - 1 :
          inst_input'[k].seq = IF k < n THEN Len(prog) + k ELSE None
    <3> TAKE k \in 0 .. Width - 1
    <3>1. Fetched(bundle[k + 1], Len(prog) + k).seq = Len(prog) + k /\ Bubble.seq = None
      BY DEF Fetched, Bubble
    <3> QED BY <3>1, <1>6
  <2>2. fe = Len(prog) /\ Len(prog') = fe + n /\ fe \in Nat /\ n \in Nat /\ n <= Width
        /\ Width \in Nat
    BY <1>4, <1>5, <1>12
  <2>3. fe <= Len(prog') /\ Len(prog') <= fe + (Width - 0)
    BY <2>2
  <2>4. ASSUME NEW k \in 0 .. Width - 1
        PROVE  inst_input'[k].seq = IF fe + (k - 0) < Len(prog') THEN fe + (k - 0) ELSE None
    <3>1. (fe + (k - 0) < Len(prog') <=> k < n) /\ fe + (k - 0) = fe + k
      BY <2>2
    <3>2. inst_input'[k].seq = IF k < n THEN fe + k ELSE None
      BY <2>1, <2>2
    <3> QED BY <3>1, <3>2
  <2> QED BY <2>3, <2>4 DEF InOrder
<1>14. NoGaps(rn, de, fe)'
  <2>1. fe = Len(prog') => last'
    <3>1. fe = Len(prog') => n < Width
      BY <1>4, <1>5, <1>12
    <3> QED BY <3>1, <1>2
  <2>2. /\ stage' = "UpdInfo" /\ loop' = "trace"
        /\ (de = rn => rn = 0) /\ (fe = de => de = 0)
    BY <1>2, <1>12
  <2> QED BY <2>1, <2>2 DEF NoGaps
<1>15. ASSUME NEW latch, NEW from \in Nat, NEW upto \in 0 .. Len(prog),
              InOrder(latch, 0, Width, from, upto), Raw(prog, latch, 0, Width)
       PROVE  Raw(prog', latch, 0, Width)
  <2>1. \A k \in 0 .. Width - 1 : latch[k].seq = None \/ latch[k].seq \in from .. upto - 1
    <3>1. 0 \in Nat /\ upto \in Nat
      BY <1>4
    <3> QED BY <3>1, <1>4, <1>15, InOrderIs
  <2>2. \A k \in 0 .. Width - 1 : latch[k].seq = None
                                  \/ prog'[latch[k].seq + 1] = prog[latch[k].seq + 1]
    <3> TAKE k \in 0 .. Width - 1
    <3>1. CASE latch[k].seq \in from .. upto - 1
      <4> DEFINE m == latch[k].seq + 1
      <4>1. m \in 1 .. Len(prog)
        BY <3>1, <1>4, SMTT(30)
      <4> HIDE DEF m
      <4>2. prog'[m] = prog[m]
        BY <4>1, <1>5
      <4> QED BY <4>2 DEF m
    <3> QED BY <3>1, <2>1
  <2> QED BY <2>2, <1>15 DEF Raw
<1>16. AsFetched'
  <2>1. Raw(prog', Rn, 0, Width) /\ Raw(prog', De, 0, Width)
    BY <1>4, <1>9, <1>11, <1>15 DEF AsFetched
  <2>2. Raw(prog', inst_input', 0, Width)
    <3>1. ASSUME NEW k \in 0 .. Width - 1
          PROVE  inst_input'[k] = IF inst_input'[k].seq = None THEN Bubble
                                  ELSE Fetched(prog'[inst_input'[k].seq + 1],
                                               inst_input'[k].seq)
      <4>1. CASE k < n
        <5>1. /\ inst_input'[k] = Fetched(bundle[k + 1], Len(prog) + k)
              /\ prog'[Len(prog) + k + 1] = bundle[k + 1]
          <6>1. k \in 0 .. n - 1
            BY <4>1, <1>4
          <6>2. inst_input'[k] = Fetched(bundle[k + 1], Len(prog) + k)
            BY <4>1, <1>6
          <6>3. prog'[Len(prog) + k + 1] = bundle[k + 1]
            BY <6>1, <1>5
          <6> QED BY <6>2, <6>3
        <5>2. inst_input'[k].seq = Len(prog) + k /\ Len(prog) + k /= None
          BY <5>1, <1>4, CpuAssumption, SMTT(30) DEF Fetched
        <5> QED BY <5>1, <5>2
      <4>2. CASE ~(k < n)
        <5>1. inst_input'[k] = Bubble /\ Bubble.seq = None
          BY <4>2, <1>6 DEF Bubble
        <5> QED BY <5>1
      <4> QED BY <4>1, <4>2
    <3> QED BY <3>1 DEF Raw
  <2> QED BY <2>1, <2>2, <1>2, <1>3, <1>10 DEF AsFetched
<1>17. HandedOn'
  BY <1>10 DEF HandedOn
<1>18. Tags' = Tags /\ Dispatched' = Dispatched
  BY <1>2, SameTags DEF Dispatched
<1>19. MiddleAt(rd, rn)'
  BY <1>1, <1>2, <1>3, <1>18, MiddleSame DEF Calm, Settled
<1>20. RobAt(rd, rn, de)'
  <2>1. RobInOrder(prog, Tags, Dispatched, rn)'
    <3>1. \A t \in Tags.held : Tags.seq[t] \in Nat /\ Tags.seq[t] < Len(prog)
      BY <1>1, TableIs DEF RobAt
    <3>2. ASSUME NEW t \in Tags.held
          PROVE  prog'[Tags.seq[t] + 1] = prog[Tags.seq[t] + 1]
      <4> DEFINE m == Tags.seq[t] + 1
      <4>1. m \in 1 .. Len(prog)
        BY <3>1, <1>4
      <4> HIDE DEF m
      <4>2. prog'[m] = prog[m]
        BY <4>1, <1>5
      <4> QED BY <4>2 DEF m
    <3> QED BY <3>2, <1>1, <1>18 DEF RobAt, RobInOrder
  <2>2. RobHasRoom(rn)' /\ StageOK(rd, rn, de)'
    BY <1>1, <1>2, <1>3, <1>18 DEF RobAt, RobHasRoom, StageOK
  <2>3. RobRunsEmpty(rn, de)'
    BY <1>1, <1>2, <1>18 DEF RobAt, RobRunsEmpty
  <2>4. Refilled(rd, rn, de)'
    <3>1. 0 < rn => rn < Len(prog)
      <4>1. rn <= de /\ de <= fe
        BY <1>11 DEF InOrder
      <4> QED BY <4>1, <1>4, <1>12
    <3>2. slot = 0
      BY <1>1, <1>2 DEF RobAt, StageOK
    <3> QED BY <3>1, <3>2, <1>1, <1>2, <1>3, <1>18 DEF RobAt, Refilled
  <2> QED BY <2>1, <2>2, <2>3, <2>4 DEF RobAt
<1>21. TagsOK'
  BY <1>1, <1>2, <1>5, TagsSame DEF RobAt, BackToRegRead, BackToDispatch
<1>22. IqHasRoom' /\ UnitsSuffice'
  BY <1>1, <1>2, <1>3, RoomSame
<1>23. IqIsRecord'
  BY <1>1, <1>2 DEF IqIsRecord
<1>24. CoreAt(rd, rn, de, fe)'
  BY <1>2, <1>3, <1>8, <1>10, <1>11, <1>13, <1>14, <1>16, <1>17, <1>19, <1>20, <1>21,
     <1>22, <1>23
     DEF CoreAt, TraceOrder, LatchesInOrder, MiddleAt, RobAt, TagsOK, IqIsRecord
<1>25. {rd, rn, de, fe} \subseteq 0 .. Len(prog')
  BY <1>4, <1>5
<1> QED BY <1>24, <1>25 DEF CoreFor

(***************************************************************************)
(* Retire.                                                                 *)
(***************************************************************************)
(* When the last instruction leaves the program is at its end, if the      *)
(* reorder buffer has room for two bundles.                                *)
LEMMA EmptiedAtTheEnd ==
  ASSUME CpuTypeOK, NEW rd \in 0 .. Len(prog), NEW rn \in 0 .. Len(prog),
         NEW de \in 0 .. Len(prog), NEW fe \in 0 .. Len(prog),
         FrontAt(rn, de, fe), Refilled(rd, rn, de), stage = "Retire",
         2 * Width <= RobSize, 0 < rn, Tags.size = 1, rn <= rd
  PROVE  rn = Len(prog) /\ loop = "drain"
<1>1. /\ rn \in Nat /\ de \in Nat /\ fe \in Nat /\ Len(prog) \in Nat /\ rd \in Nat
      /\ Width \in Nat \ {0} /\ slot \in 0 .. Width - 1 /\ loop \in {"trace", "drain"}
      /\ rn <= Len(prog) /\ RobSize \in Nat
  BY Numbers, Types, Sizes
<1>2. rn = Len(prog)
  <2>1. rn < Len(prog) => RobSize < Tags.size + slot + Width
    <3>1. ~(rd < rn)
      BY <1>1
    <3> QED BY <3>1 DEF Refilled
  <2> QED BY <2>1, <1>1
<1>3. RnFrom = 0 /\ DeFrom = 0 /\ InFrom = 0 /\ ~DeMoves
  BY FromsIs DEF Behind, Settled
<1>4. rn <= de /\ de <= fe /\ NoGaps(rn, de, fe)
  BY <1>3 DEF FrontAt, InOrder
<1>5. de = Len(prog) /\ fe = de /\ de /= 0
  BY <1>1, <1>2, <1>4
<1>6. loop /= "trace"
  BY <1>3, <1>4, <1>5 DEF NoGaps
<1> QED BY <1>1, <1>2, <1>6

(* What Retire takes is there: no entry is ready before the first          *)
(* instruction, and the flag stops it when the last one has left.          *)
LEMMA SomethingToRetire ==
  ASSUME CpuTypeOK, NEW rd \in 0 .. Len(prog), NEW rn \in 0 .. Len(prog),
         NEW de \in 0 .. Len(prog), RobAt(rd, rn, de), stage = "Retire", Retiring
  PROVE  Rob.Head \in Tags.ready /\ rn > 0 /\ Tags.size > 0
<1>1. rn \in Nat /\ Tags.size \in Nat /\ ~empty /\ Rob.Head \in Tags.ready
  BY Types, RobTypes, TagsIs DEF Retiring, CurrentRob
<1>2. RobInOrder(prog, Tags, Dispatched, rn) /\ RobRunsEmpty(rn, de)
  BY DEF RobAt
<1>3. rn > 0
  BY <1>1, <1>2 DEF RobInOrder
<1>4. Tags.size > 0
  BY <1>1, <1>2, <1>3 DEF RobRunsEmpty
<1> QED BY <1>1, <1>3, <1>4

(* One instruction leaves at the head: its mapping goes if the map still   *)
(* names it, and only a source that is still to be looked up may name its  *)
(* tag.                                                                    *)
LEMMA RetireOne ==
  ASSUME NEW rd \in 0 .. Len(prog), NEW rn \in 0 .. Len(prog),
         NEW de \in 0 .. Len(prog), NEW fe \in 0 .. Len(prog),
         CpuTypeOK, FrontAt(rn, de, fe), MiddleAt(rd, rn), RobAt(rd, rn, de), TagsOK,
         UNCHANGED <<mainVars, Rr, Di, Iq, Exc, Wb>>,
         stage = "Retire", stage' \in {"Retire", "Writeback"},
         slot' = (IF stage' = "Retire" THEN slot + 1 ELSE 0),
         Retiring, Rmt' = Unmapped(CurrentRob(Rob).dst), Rob' = RemoveHead(Rob),
         empty' = EmptiedBy(Rob), done_flag' = empty'
  PROVE  /\ RobAt(rd, rn, de)' /\ TagsOK'
         /\ Rmt' \in [Reg -> Tag \cup {None}]
         /\ Rob' \in RobOf(Seq0, Reg \cup {None})
         /\ {empty', done_flag'} \subseteq BOOLEAN
<1> DEFINE h == Rob.Head
<1>1. /\ params' = params /\ Width' = Width /\ RobSize' = RobSize /\ Slot' = Slot
      /\ Unit' = Unit
      /\ prog' = prog /\ last' = last /\ loop' = loop /\ Dispatched' = Dispatched
  BY SameMachine DEF mainVars, Dispatched
<1>2. /\ rd \in Nat /\ rn \in Nat /\ de \in Nat /\ fe \in Nat /\ Len(prog) \in Nat
      /\ Width \in Nat \ {0} /\ Slot = 0 .. Width - 1 /\ slot \in Slot
      /\ params \in Params /\ RobSize \in Nat \ {0} /\ Dispatched \in Nat
  BY Numbers, Types, Sizes, TableIs DEF RobAt
<1>3. /\ RobInOrder(prog, Tags, Dispatched, rn) /\ RobHasRoom(rn)
      /\ RobRunsEmpty(rn, de) /\ StageOK(rd, rn, de) /\ Refilled(rd, rn, de)
  BY DEF RobAt
<1>4. h \in Tag /\ h \in Tags.ready /\ ~empty /\ h /= None
  BY <1>2, RobTypes, Sizes, SomethingToRetire, SMTT(30) DEF Retiring
<1>5. rn > 0
  BY SomethingToRetire
<1>6. Tags.size \in Nat /\ Tags.size > 0
  BY TagsIs, SomethingToRetire
<1>7. /\ Tags'.size = Tags.size - 1
      /\ Tags'.held = Tags.held \ {h}
      /\ \A t \in Tags'.held : Tags'.pos[t] = Tags.pos[t] - 1
      /\ Tags'.seq = Tags.seq /\ Tags'.dst = Tags.dst
      /\ Tags'.ready = Tags.ready /\ Tags'.wb = Tags.wb
      /\ h \in Tags.held /\ Tags.pos[h] = 0
      /\ Rob'.Full = FALSE
      /\ EmptiedBy(Rob) <=> Tags.size = 1
  BY <1>1, <1>3, <1>6, RetireTags DEF RobHasRoom
<1>8. /\ \A t \in Tags.held :
           /\ t \in Tag /\ Tags.seq[t] \in Nat /\ Tags.pos[t] \in Nat
           /\ Tags.seq[t] = (rn - Tags.size) + Tags.pos[t] /\ Tags.seq[t] < rn
      /\ \A t, u \in Tags.held : Tags.seq[t] = Tags.seq[u] => t = u
      /\ rn - Tags.size \in Nat
  BY <1>3, HeldIs
<1>9. Tags.seq[h] = rn - Tags.size /\ Tags.seq[h] < Dispatched
  <2>1. ~(Dispatched <= Tags.seq[h])
    BY <1>3, <1>4, <1>7 DEF RobInOrder
  <2>2. Tags.seq[h] \in Nat /\ Tags.seq[h] = (rn - Tags.size) + 0
    BY <1>7, <1>8
  <2> QED BY <2>1, <2>2, <1>2, <1>8
<1>10. Dispatched <= rd
  BY FromsIs DEF MiddleAt, InOrder, Calm, Settled
<1>11. RobInOrder(prog, Tags, Dispatched, rn)'
  <2>1. Tags'.size <= rn /\ rn <= Tags'.size + Dispatched
    <3>1. PICK size \in Nat, d \in Nat : size = Tags.size /\ d = Dispatched
      BY <1>2, <1>6
    <3>2. Tags.size <= rn /\ rn - Tags.size < Dispatched
      BY <1>3, <1>9 DEF RobInOrder
    <3>3. size <= rn /\ rn - size < d /\ Tags'.size = size - 1
      BY <1>7, <3>1, <3>2, Zenon
    <3>4. size - 1 <= rn /\ rn <= (size - 1) + d
      BY <1>2, <3>3
    <3> QED BY <3>1, <3>3, <3>4, Zenon
  <2>2. ASSUME NEW t \in Tags'.held
        PROVE  /\ Tags'.seq[t] = (rn - Tags'.size) + Tags'.pos[t]
               /\ Tags'.dst[t] = prog[Tags'.seq[t] + 1].dst
               /\ Dispatched <= Tags'.seq[t] => t \notin Tags'.ready
    <3>1. t \in Tags.held
      BY <1>7
    <3>2. Tags'.seq[t] = (rn - Tags'.size) + Tags'.pos[t]
      <4>1. /\ Tags'.seq[t] = (rn - Tags.size) + Tags.pos[t] /\ Tags.pos[t] \in Nat
            /\ Tags'.pos[t] = Tags.pos[t] - 1
        BY <3>1, <1>7, <1>8
      <4>2. Tags'.size = Tags.size - 1
        BY <1>7
      <4> QED BY ONLY <4>1, <4>2, <1>2, <1>6
    <3> QED BY <3>1, <3>2, <1>3, <1>7 DEF RobInOrder
  <2> QED BY <2>1, <2>2, <1>1, <1>5 DEF RobInOrder
<1>12. RobHasRoom(rn)'
  BY <1>1, <1>3, <1>7 DEF RobHasRoom
<1>13. /\ empty' = (Tags.size = 1) /\ empty' \in BOOLEAN /\ done_flag' = empty'
       /\ empty' => Tags'.size = 0
  <2>1. EmptiedBy(Rob) \in BOOLEAN
    BY DEF EmptiedBy
  <2> QED BY <2>1, <1>6, <1>7
<1>14. RobRunsEmpty(rn, de)'
  <2>1. Tags'.size = 0 => empty'
    BY <1>6, <1>7, <1>13
  <2> QED BY <2>1, <1>5, <1>13 DEF RobRunsEmpty
<1>15. StageOK(rd, rn, de)'
  BY <1>3 DEF StageOK
<1>16. Refilled(rd, rn, de)'
  <2>1. ASSUME 2 * Width <= RobSize, 0 < rn, rn < Len(prog), stage' = "Retire"
        PROVE  rd < rn \/ RobSize < Tags'.size + slot' + Width
    <3>1. rd < rn \/ RobSize < Tags.size + slot + Width
      BY <2>1, <1>3 DEF Refilled
    <3>2. slot' = slot + 1 /\ slot \in Nat
      BY <2>1, <1>2
    <3> QED BY <3>1, <3>2, <1>2, <1>6, <1>7, SMTT(30)
  <2>2. ASSUME 2 * Width <= RobSize, done_flag'
        PROVE  loop = "drain" /\ rn = Len(prog) /\ Tags'.size = 0
    <3>1. Tags.size = 1 /\ Tags'.size = 0
      BY <2>2, <1>13
    <3>2. rn <= rd
      BY <3>1, <1>2, <1>9, <1>10
    <3> QED BY <2>2, <3>1, <3>2, <1>3, <1>5, EmptiedAtTheEnd
  <2> QED BY <2>1, <2>2, <1>1 DEF Refilled
<1>17. MapExact(Tags, Rmt)' /\ Rmt' \in [Reg -> Tag \cup {None}]
  <2>1. CurrentRob(Rob).dst = Tags.dst[h] /\ Tags.dst[h] \in Reg \cup {None}
    BY <1>4, TagsIs DEF CurrentRob
  <2>2. /\ Rmt \in [Reg -> Tag \cup {None}]
        /\ Rmt' = IF Tags.dst[h] /= None /\ Rmt[Tags.dst[h]] = h
                  THEN [Rmt EXCEPT ![Tags.dst[h]] = None] ELSE Rmt
    BY <2>1, Types DEF Unmapped
  <2>3. \A t, u \in Tags.held : Tags.pos[t] = Tags.pos[u] => t = u
    BY TagsIs
  <2>4. MapExact(Tags', Rmt')
    <3>1. MapExact(Tags, Rmt) /\ \A t \in Tags.held : Tags.pos[t] \in Nat
      BY <1>8 DEF TagsOK
    <3>2. \A t \in Tags.held \ {h} : Tags.pos[t] > 0
      BY <3>1, <2>3, <1>7
    <3>3. ASSUME NEW r \in Reg
          PROVE  Rmt'[r] = IF Rmt[r] = h THEN None ELSE Rmt[r]
      <4>1. Rmt[r] = h => Tags.dst[h] = r /\ r /= None
        BY <3>1, <1>4, CpuAssumption DEF MapExact, Reg
      <4> QED BY <4>1, <2>2
    <3>4. ASSUME NEW r \in Reg
          PROVE  /\ Rmt'[r] = None => \A t \in Tags'.held : Tags'.dst[t] /= r
                 /\ Rmt'[r] /= None =>
                      /\ Rmt'[r] \in Tags'.held /\ Tags'.dst[Rmt'[r]] = r
                      /\ \A t \in Tags'.held : Tags'.pos[t] > Tags'.pos[Rmt'[r]]
                                                => Tags'.dst[t] /= r
      <4>1. /\ Rmt[r] = None => \A t \in Tags.held : Tags.dst[t] /= r
            /\ Rmt[r] /= None =>
                 /\ Rmt[r] \in Tags.held /\ Tags.dst[Rmt[r]] = r
                 /\ \A t \in Tags.held : Tags.pos[t] > Tags.pos[Rmt[r]]
                                           => Tags.dst[t] /= r
        BY <3>1 DEF MapExact
      <4> HIDE DEF h
      <4>2. CASE Rmt[r] = h
        <5>1. Rmt[r] /= None /\ Rmt'[r] = None
          BY <4>2, <3>3, <1>4
        <5>2. \A t \in Tags'.held : Tags.pos[t] > Tags.pos[Rmt[r]] /\ t \in Tags.held
          BY <4>2, <3>2, <1>7
        <5> QED BY <5>1, <5>2, <4>1, <1>7
      <4>3. CASE Rmt[r] /= h
        <5>1. Rmt'[r] = Rmt[r]
          BY <4>3, <3>3
        <5>2. CASE Rmt[r] = None
          BY <5>1, <5>2, <4>1, <1>7
        <5>3. CASE Rmt[r] /= None
          <6>1. Rmt[r] \in Tags'.held /\ Tags'.dst[Rmt[r]] = r
            BY <5>3, <4>1, <4>3, <1>7
          <6>2. ASSUME NEW t \in Tags'.held, Tags'.pos[t] > Tags'.pos[Rmt[r]]
                PROVE  Tags'.dst[t] /= r
            <7>1. t \in Tags.held /\ Rmt[r] \in Tags.held /\ Tags'.dst = Tags.dst
              BY <6>1, <1>7
            <7>2. Tags.pos[t] > Tags.pos[Rmt[r]]
              <8>1. /\ Tags'.pos[t] = Tags.pos[t] - 1
                    /\ Tags'.pos[Rmt[r]] = Tags.pos[Rmt[r]] - 1
                BY <6>1, <1>7
              <8>2. Tags.pos[t] \in Nat /\ Tags.pos[Rmt[r]] \in Nat
                BY <7>1, <3>1
              <8> QED BY ONLY <6>2, <8>1, <8>2
            <7> QED BY <7>1, <7>2, <5>3, <4>1
          <6> QED BY <5>1, <5>3, <6>1, <6>2
        <5> QED BY <5>2, <5>3
      <4> QED BY <4>2, <4>3
    <3> QED BY <3>4 DEF MapExact
  <2> QED BY <2>2, <2>4
<1>18. Moves(Tags, Tags')
  <2>1. Retired(Tags', h)
    <3>1. \A t \in Tags'.held : Tags.seq[h] < Tags.seq[t]
      <4> TAKE t \in Tags'.held
      <4>1. t \in Tags.held /\ t /= h
        BY <1>7
      <4>2. Tags.seq[t] /= Tags.seq[h] /\ Tags.pos[t] \in Nat
            /\ Tags.seq[t] = (rn - Tags.size) + Tags.pos[t]
        BY <4>1, <1>7, <1>8
      <4> QED BY <4>2, <1>8, <1>9
    <3> QED BY <3>1, <1>4, <1>7 DEF Retired
  <2> QED BY <2>1, <1>7 DEF Moves
<1>19. /\ \A t \in Tag : Tags.seq[t] \in Nat
       /\ Tags.held \subseteq Tag /\ Tags.ready \subseteq Tag
       /\ \A t \in Tags.held : Tags.seq[t] < Len(prog)
  BY <1>3, TableIs
<1>20. ASSUME NEW latch \in [Slot -> PipeReg], NEW from \in Nat, NEW upto \in Nat,
              Dispatched <= from, InOrder(latch, 0, Width, from, upto),
              LatchOK(prog, Tags, latch, FALSE)
       PROVE  LatchOK(prog, Tags', latch, FALSE)
  <2>1. ASSUME NEW k \in Slot, latch[k].seq /= None
        PROVE  latch[k].dst \notin Tags.held \ Tags'.held
    <3>1. latch[k].seq \in from .. upto - 1
      <4>1. k \in 0 .. Width - 1
        BY <1>2
      <4>2. 0 \in Nat /\ Width \in Nat /\ from \in Nat /\ upto \in Nat
        BY <1>2
      <4>3. InOrder(latch, 0, Width, from, upto)
        BY <1>20
      <4> QED BY <2>1, <4>1, <4>2, <4>3, InOrderIs
    <3>2. Tags.seq[latch[k].dst] = latch[k].seq
      BY <2>1, <1>20 DEF LatchOK, EntryOK, Holder
    <3> QED BY <3>1, <3>2, <1>2, <1>7, <1>9, <1>20, SMTT(30)
  <2> QED BY <2>1, <1>2, <1>18, <1>19, <1>20, LatchMoves
<1>21. LatchesOK'
  <2>1. LatchOK(prog, Tags, Rr, FALSE) /\ LatchOK(prog, Tags, Di, FALSE)
    BY DEF TagsOK, LatchesOK, BackToRegRead, BackToDispatch
  <2>2. /\ InOrder(Di, 0, Width, Dispatched, rd) /\ InOrder(Rr, 0, Width, rd, rn)
        /\ Rr \in [Slot -> PipeReg] /\ Di \in [Slot -> PipeReg]
    BY FromsIs, Types DEF MiddleAt, Calm, Settled
  <2>3. LatchOK(prog, Tags', Rr, FALSE) /\ LatchOK(prog, Tags', Di, FALSE)
    BY <2>1, <2>2, <1>2, <1>10, <1>20
  <2> QED BY <2>3, <1>1 DEF LatchesOK, BackToRegRead, BackToDispatch
<1>22. BackEndOK'
  <2>1. /\ ValidIq' = ValidIq /\ BusyUnits' = BusyUnits
        /\ IqTags' = IqTags /\ ExcTags' = ExcTags
    BY <1>1, SameMachine DEF ValidIq, BusyUnits, IqTags, ExcTags
  <2>2. /\ IqOK(prog, Tags', Dispatched, Iq.queue, ValidIq)
        /\ ExcOK(Tags', Dispatched, Exc, BusyUnits)
    <3>1. /\ IqOK(prog, Tags, Dispatched, Iq.queue, ValidIq)
          /\ ExcOK(Tags, Dispatched, Exc, BusyUnits)
      BY DEF TagsOK, BackEndOK
    <3>2. /\ Tags'.ready \cup Tags'.wb = Tags.ready \cup Tags.wb
          /\ Tags.held \ Tags'.held \subseteq Tags.ready
      BY <1>4, <1>7
    <3>3. \A m \in 1 .. Len(prog) : prog[m] = prog[m]
      OBVIOUS
    <3> QED BY <3>1, <3>2, <3>3, <1>2, <1>18, <1>19, QueueMoves
  <2>3. WbOK(Tags', Dispatched, Wb, FALSE)
    BY <1>4, <1>7 DEF TagsOK, BackEndOK, WbOK, Holder
  <2>4. NothingLost(Tags', Dispatched, IqTags \cup ExcTags)
    BY <1>18, LostMoves DEF TagsOK, BackEndOK
  <2> QED BY <2>1, <2>2, <2>3, <2>4, <1>1 DEF TagsOK, BackEndOK
<1>23. Rob' \in RobOf(Seq0, Reg \cup {None})
  <2>1. Rob' = [cqueue |-> Rob.cqueue, Head |-> NextIdx(Rob.Head), Tail |-> Rob.Tail,
                Full |-> FALSE]
    BY RobTypes DEF RemoveHead
  <2>2. NextIdx(Rob.Head) \in Tag
    BY <1>2, <1>4, NextIdxIs
  <2> QED BY <2>1, <2>2, RobTypes DEF RobOf
<1> QED BY <1>11, <1>12, <1>13, <1>14, <1>15, <1>16, <1>17, <1>21, <1>22, <1>23
      DEF RobAt, TagsOK

(* Retire preserves the invariant.                                         *)
LEMMA RetireKeeps ==
  ASSUME NEW rd \in 0 .. Len(prog), NEW rn \in 0 .. Len(prog),
         NEW de \in 0 .. Len(prog), NEW fe \in 0 .. Len(prog),
         CoreAt(rd, rn, de, fe), Retire
  PROVE  CoreFor(rn)'
<1>1. /\ CpuTypeOK /\ IqIsRecord
      /\ FrontAt(rn, de, fe) /\ MiddleAt(rd, rn) /\ RobAt(rd, rn, de)
      /\ TagsOK /\ IqHasRoom /\ UnitsSuffice
  BY CoreIs
<1>2. /\ stage = "Retire"
      /\ UNCHANGED <<mainVars, frontVars, Rr, Di, Iq, Exc, Wb, RN, RR, DI, IS>>
      /\ TurnThen("Writeback")
  BY DEF Retire
<1>3. /\ params' = params /\ Width' = Width /\ RobSize' = RobSize
      /\ prog' = prog /\ last' = last /\ loop' = loop /\ inst_input' = inst_input
      /\ De' = De /\ Rn' = Rn /\ FE' = FE /\ DE' = DE
      /\ Dispatched' = Dispatched
  BY <1>2, SameMachine DEF mainVars, frontVars, Dispatched
<1>4. /\ params \in Params /\ Width \in Nat \ {0} /\ Slot = 0 .. Width - 1
      /\ slot \in Slot /\ stage \in Stages /\ "Writeback" \in Stages
  BY <1>1, Types, Sizes, StagesIs
<1>5. /\ stage' \in Stages /\ slot' \in Slot /\ stage' \in {"Retire", "Writeback"}
      /\ slot' = (IF stage' = "Retire" THEN slot + 1 ELSE 0)
  BY <1>2, <1>4, TurnIs
<1>6. /\ RobAt(rd, rn, de)' /\ TagsOK'
      /\ Rmt' \in [Reg -> Tag \cup {None}]
      /\ Rob' \in RobOf(Seq0, Reg \cup {None})
      /\ {empty', done_flag'} \subseteq BOOLEAN
  <2>1. CASE Retiring
    BY <2>1, <1>1, <1>2, <1>5, RetireOne DEF Retire
  <2>2. CASE ~Retiring
    <3>1. UNCHANGED <<Rmt, Rob, empty, done_flag>>
      BY <2>2 DEF Retire
    <3>2. Tags' = Tags
      BY <3>1, <1>2, <1>3, SameTags
    <3>3. RobInOrder(prog, Tags, Dispatched, rn)' /\ RobHasRoom(rn)'
          /\ StageOK(rd, rn, de)'
      BY <3>1, <3>2, <1>1, <1>2, <1>3, <1>5 DEF RobAt, RobHasRoom, StageOK
    <3>4. RobRunsEmpty(rn, de)'
      BY <3>1, <3>2, <1>1, <1>2, <1>3, <1>5 DEF RobAt, RobRunsEmpty
    <3>5. Refilled(rd, rn, de)'
      <4>1. slot' >= slot \/ stage' = "Writeback"
        BY <1>4, <1>5
      <4>2. Tags.size \in Nat /\ slot \in Nat /\ slot' \in Nat /\ RobSize \in Nat
        BY <1>1, <1>4, <1>5, TagsIs, Sizes
      <4> QED BY <3>1, <3>2, <4>1, <4>2, <1>1, <1>2, <1>3, <1>4, <1>5, SMTT(30) DEF RobAt, Refilled
    <3>6. TagsOK'
      BY <3>1, <1>1, <1>2, <1>3, <1>5, TagsSame DEF RobAt, BackToRegRead, BackToDispatch
    <3> QED BY <3>1, <3>3, <3>4, <3>5, <3>6, <1>1, AllTypes, Types DEF RobAt
  <2> QED BY <2>1, <2>2
<1>7. CpuTypeOK'
  BY <1>1, <1>2, <1>3, <1>5, <1>6, TypeKept, Types, AllTypes
<1>8. FrontAt(rn, de, fe)'
  BY <1>1, <1>2, <1>3, <1>4, <1>5, FrontSame DEF Behind, Settled
<1>9. MiddleAt(rd, rn)'
  BY <1>1, <1>2, <1>3, <1>5, MiddleSame DEF Calm, Settled
<1>10. IqHasRoom' /\ UnitsSuffice'
  BY <1>1, <1>2, <1>3, <1>5, RoomSame
<1>11. IqIsRecord'
  BY <1>1, <1>2 DEF IqIsRecord
<1>12. CoreAt(rd, rn, de, fe)'
  BY <1>6, <1>7, <1>8, <1>9, <1>10, <1>11
     DEF CoreAt, TraceOrder, LatchesInOrder, FrontAt, MiddleAt, RobAt, TagsOK, IqIsRecord
<1> QED BY <1>3, <1>12 DEF CoreFor

(***************************************************************************)
(* Writeback.                                                              *)
(***************************************************************************)
LEMMA WbIs ==
  ASSUME CpuTypeOK, NEW done \in BOOLEAN, WbOK(Tags, Dispatched, Wb, done)
  PROVE  \A t \in Tags.wb : /\ t \in Tags.held /\ Tags.seq[t] < Dispatched
                            /\ t \in Tags.ready <=> done
<1> SUFFICES ASSUME NEW t \in Tags.wb
             PROVE  /\ t \in Tags.held /\ Tags.seq[t] < Dispatched
                    /\ t \in Tags.ready <=> done
  OBVIOUS
<1>1. PICK u \in Unit : Wb[u].v /\ t = Wb[u].Rob_tag
  BY TagsIs DEF WbTags
<1>2. u \in DOMAIN Wb
  BY AllTypes
<1> QED BY <1>1, <1>2 DEF WbOK, Holder

(* Writeback preserves the invariant: it marks ready what stands in Wb.    *)
LEMMA WritebackKeeps ==
  ASSUME NEW rd \in 0 .. Len(prog), NEW rn \in 0 .. Len(prog),
         NEW de \in 0 .. Len(prog), NEW fe \in 0 .. Len(prog),
         CoreAt(rd, rn, de, fe), Writeback
  PROVE  CoreFor(rn)'
<1>1. /\ CpuTypeOK /\ IqIsRecord
      /\ FrontAt(rn, de, fe) /\ MiddleAt(rd, rn) /\ RobAt(rd, rn, de)
      /\ TagsOK /\ IqHasRoom /\ UnitsSuffice
  BY CoreIs
<1>2. /\ stage = "Writeback" /\ stage' = "Execute" /\ slot' = 0
      /\ Rob' = SetRdy(Rob, WbTags)
      /\ UNCHANGED <<mainVars, frontVars, Rr, Di, Rmt, Iq, Exc, Wb,
                     RN, RR, DI, IS, empty, done_flag>>
  BY DEF Writeback, GoTo
<1>3. /\ params' = params /\ Width' = Width /\ RobSize' = RobSize
      /\ prog' = prog /\ last' = last /\ loop' = loop /\ inst_input' = inst_input
      /\ De' = De /\ Rn' = Rn /\ FE' = FE /\ DE' = DE
      /\ Dispatched' = Dispatched
  BY <1>2, SameMachine DEF mainVars, frontVars, Dispatched
<1>4. /\ params \in Params /\ Width \in Nat \ {0} /\ Slot = 0 .. Width - 1
      /\ slot \in Slot /\ rn \in Nat /\ Len(prog) \in Nat /\ Dispatched \in Nat
  BY <1>1, Numbers, Types, TableIs DEF RobAt
<1>5. /\ Tags'.size = Tags.size /\ Tags'.held = Tags.held /\ Tags'.pos = Tags.pos
      /\ Tags'.seq = Tags.seq /\ Tags'.dst = Tags.dst
      /\ Tags'.ready = Tags.ready \cup Tags.wb /\ Tags'.wb = Tags.wb
      /\ Rob'.Full = Rob.Full /\ Rob'.Head = Rob.Head /\ Rob'.Tail = Rob.Tail
  BY <1>1, <1>2, <1>3, WritebackTags
<1>6. Rob' \in RobOf(Seq0, Reg \cup {None})
  <2> DEFINE marked == [t \in Tag |-> [Rob.cqueue[t] EXCEPT !.rdy = @ \/ t \in WbTags]]
  <2>1. Rob' = [Rob EXCEPT !.cqueue = marked]
    BY <1>2 DEF SetRdy
  <2>2. marked \in [Tag -> [rdy : BOOLEAN, seq : Seq0, dst : Reg \cup {None}]]
    <3>1. ASSUME NEW t \in Tag
          PROVE  [Rob.cqueue[t] EXCEPT !.rdy = @ \/ t \in WbTags]
                   \in [rdy : BOOLEAN, seq : Seq0, dst : Reg \cup {None}]
      <4> DEFINE e == Rob.cqueue[t]
      <4>1. e \in [rdy : BOOLEAN, seq : Seq0, dst : Reg \cup {None}]
        BY <1>1, RobTypes
      <4> HIDE DEF e
      <4>2. [e EXCEPT !.rdy = @ \/ t \in WbTags]
              \in [rdy : BOOLEAN, seq : Seq0, dst : Reg \cup {None}]
        BY <4>1
      <4> QED BY <4>2 DEF e
    <3> QED BY <3>1
  <2> HIDE DEF marked
  <2> QED BY <2>1, <2>2, <1>1, RobTypes DEF RobOf
<1>7. CpuTypeOK'
  <2>1. stage' \in Stages /\ slot' \in Slot
    BY <1>2, <1>4, StagesIs
  <2> QED BY <2>1, <1>1, <1>2, <1>3, <1>6, TypeKept, Types, AllTypes
<1>8. WbOK(Tags, Dispatched, Wb, FALSE)
  BY <1>1, <1>2 DEF TagsOK, BackEndOK
<1>9. /\ \A t \in Tags.wb : t \in Tags.held /\ Tags.seq[t] < Dispatched
      /\ \A t \in Tag : Tags.seq[t] \in Nat
      /\ Tags.held \subseteq Tag /\ Tags.ready \subseteq Tag
      /\ \A t \in Tags.held : Tags.seq[t] < Len(prog)
  BY <1>1, <1>8, WbIs, TableIs DEF RobAt
<1>10. RobAt(rd, rn, de)'
  <2>1. RobInOrder(prog, Tags, Dispatched, rn)'
    <3>1. \A t \in Tags.held : Dispatched <= Tags.seq[t] => t \notin Tags'.ready
      <4> TAKE t \in Tags.held
      <4>1. Dispatched <= Tags.seq[t] => t \notin Tags.ready
        BY <1>1 DEF RobAt, RobInOrder
      <4>2. t \in Tags.wb => ~(Dispatched <= Tags.seq[t])
        BY <1>4, <1>9
      <4> QED BY <4>1, <4>2, <1>5
    <3>2. rn = 0 => Tags'.ready = {}
      <4>1. rn = 0 => Tags.held = {}
        BY <1>1, HeldIs DEF RobAt
      <4> QED BY <4>1, <1>1, <1>5, <1>9 DEF RobAt, RobInOrder
    <3> QED BY <3>1, <3>2, <1>1, <1>3, <1>5 DEF RobAt, RobInOrder
  <2>2. RobHasRoom(rn)' /\ StageOK(rd, rn, de)'
    BY <1>1, <1>2, <1>3, <1>5 DEF RobAt, RobHasRoom, StageOK
  <2>3. RobRunsEmpty(rn, de)'
    BY <1>1, <1>2, <1>5 DEF RobAt, RobRunsEmpty
  <2>4. Refilled(rd, rn, de)'
    BY <1>1, <1>2, <1>3, <1>5 DEF RobAt, Refilled
  <2> QED BY <2>1, <2>2, <2>3, <2>4 DEF RobAt
<1>11. Moves(Tags, Tags')
  BY <1>5 DEF Moves
<1>12. TagsOK'
  <2>1. MapExact(Tags, Rmt)'
    <3>1. MapExact(Tags', Rmt)
      BY <1>1, <1>5 DEF TagsOK, MapExact
    <3> QED BY <3>1, <1>2
  <2>2. ASSUME NEW latch \in [Slot -> PipeReg], LatchOK(prog, Tags, latch, FALSE)
        PROVE  LatchOK(prog, Tags', latch, FALSE)
    BY <2>2, <1>4, <1>5, <1>9, <1>11, LatchMoves
  <2>3. LatchOK(prog, Tags', Rr, FALSE) /\ LatchOK(prog, Tags', Di, FALSE)
    BY <2>2, <1>1, <1>2, Types DEF TagsOK, LatchesOK, BackToRegRead, BackToDispatch
  <2>4. LatchesOK'
    BY <2>3, <1>2, <1>3 DEF LatchesOK, BackToRegRead, BackToDispatch
  <2>5. /\ ValidIq' = ValidIq /\ BusyUnits' = BusyUnits
        /\ IqTags' = IqTags /\ ExcTags' = ExcTags
    BY <1>2, <1>3, SameMachine DEF ValidIq, BusyUnits, IqTags, ExcTags
  <2>6. /\ IqOK(prog, Tags', Dispatched, Iq.queue, ValidIq)
        /\ ExcOK(Tags', Dispatched, Exc, BusyUnits)
    <3>1. /\ IqOK(prog, Tags, Dispatched, Iq.queue, ValidIq)
          /\ ExcOK(Tags, Dispatched, Exc, BusyUnits)
      BY <1>1 DEF TagsOK, BackEndOK
    <3>2. /\ Tags'.ready \cup Tags'.wb = Tags.ready \cup Tags.wb
          /\ Tags.held \ Tags'.held \subseteq Tags.ready
      BY <1>5
    <3>3. \A m \in 1 .. Len(prog) : prog[m] = prog[m]
      OBVIOUS
    <3> QED BY <3>1, <3>2, <3>3, <1>4, <1>9, <1>11, QueueMoves
  <2>7. WbOK(Tags', Dispatched, Wb, TRUE)
    <3>1. ASSUME NEW u \in DOMAIN Wb, Wb[u].v
          PROVE  Wb[u].Rob_tag \in Tags'.ready
      BY <3>1, <1>1, <1>5, TagsIs, AllTypes DEF WbTags
    <3> QED BY <3>1, <1>5, <1>8 DEF WbOK, Holder
  <2>8. NothingLost(Tags', Dispatched, IqTags \cup ExcTags)
    BY <1>1, <1>11, LostMoves DEF TagsOK, BackEndOK
  <2>9. BackEndOK'
    BY <2>5, <2>6, <2>7, <2>8, <1>1, <1>2, <1>3 DEF TagsOK, BackEndOK
  <2> QED BY <2>1, <2>4, <2>9 DEF TagsOK
<1>13. FrontAt(rn, de, fe)'
  BY <1>1, <1>2, <1>3, <1>4, FrontSame DEF Behind, Settled
<1>14. MiddleAt(rd, rn)'
  BY <1>1, <1>2, <1>3, MiddleSame DEF Calm, Settled
<1>15. IqHasRoom' /\ UnitsSuffice'
  BY <1>1, <1>2, <1>3, RoomSame
<1>16. IqIsRecord'
  BY <1>1, <1>2 DEF IqIsRecord
<1>17. CoreAt(rd, rn, de, fe)'
  BY <1>7, <1>10, <1>12, <1>13, <1>14, <1>15, <1>16
     DEF CoreAt, TraceOrder, LatchesInOrder, FrontAt, MiddleAt, RobAt, TagsOK, IqIsRecord
<1> QED BY <1>3, <1>17 DEF CoreFor

(***************************************************************************)
(* Execute.                                                                *)
(***************************************************************************)
LEMMA UnitsAre ==
  ASSUME CpuTypeOK
  PROVE  /\ Exc \in [Unit -> [seq : Seq0, cnt : (0 .. 5) \cup {None}, dst_tag : Tag]]
         /\ \A u \in Unit : /\ Exc[u].seq \in Seq0 /\ Exc[u].dst_tag \in Tag
                            /\ Exc[u].cnt \in (0 .. 5) \cup {None}
                            /\ u \in BusyUnits <=> Exc[u].cnt \in 1 .. 5
<1>1. Exc \in [Unit -> [seq : Seq0, cnt : (0 .. 5) \cup {None}, dst_tag : Tag]]
  BY AllTypes DEF ExcOf
<1>2. \A u \in Unit : u \in BusyUnits <=> Exc[u].cnt \in 1 .. 5
  BY <1>1, CpuAssumption DEF BusyUnits
<1> QED BY <1>1, <1>2

(* A cycle passes in the units.                                            *)
LEMMA CountedDown ==
  ASSUME CpuTypeOK, params' = params, Exc' = DecCnt(Exc)
  PROVE  /\ Exc' \in ExcOf(Seq0, Tag)
         /\ \A u \in Unit : Exc'[u].seq = Exc[u].seq /\ Exc'[u].dst_tag = Exc[u].dst_tag
         /\ Done(Exc') = {u \in Unit : Exc[u].cnt = 1}
         /\ BusyUnits' = {u \in Unit : Exc[u].cnt \in 2 .. 5}
         /\ \A k \in 1 .. 5 : UnitsFrom(k)' = UnitsFrom(k + 1)
<1>1. ASSUME NEW u \in Unit
      PROVE  /\ Exc'[u] \in [seq : Seq0, cnt : (0 .. 5) \cup {None}, dst_tag : Tag]
             /\ Exc'[u].seq = Exc[u].seq /\ Exc'[u].dst_tag = Exc[u].dst_tag
             /\ Exc'[u].cnt = IF Exc[u].cnt \in {None, 0} THEN None ELSE Exc[u].cnt - 1
  <2> DEFINE e == Exc[u]
             c == IF e.cnt \in {None, 0} THEN None ELSE e.cnt - 1
  <2>1. Exc'[u] = [e EXCEPT !.cnt = c]
    BY DEF DecCnt
  <2>2. e \in [seq : Seq0, cnt : (0 .. 5) \cup {None}, dst_tag : Tag]
    BY UnitsAre
  <2>3. c \in (0 .. 5) \cup {None}
    <3>1. e.cnt \in (0 .. 5) \cup {None}
      BY UnitsAre
    <3> QED BY <3>1
  <2> HIDE DEF e, c
  <2>4. /\ [e EXCEPT !.cnt = c] \in [seq : Seq0, cnt : (0 .. 5) \cup {None}, dst_tag : Tag]
        /\ [e EXCEPT !.cnt = c].seq = e.seq /\ [e EXCEPT !.cnt = c].dst_tag = e.dst_tag
        /\ [e EXCEPT !.cnt = c].cnt = c
    BY <2>2, <2>3
  <2> QED BY <2>1, <2>4 DEF e, c
<1>2. Exc' \in ExcOf(Seq0, Tag)
  <2> DEFINE unit(u) == [Exc[u] EXCEPT !.cnt = IF @ \in {None, 0} THEN None ELSE @ - 1]
  <2>1. Exc' = [u \in Unit |-> unit(u)]
    BY DEF DecCnt
  <2> HIDE DEF unit
  <2>2. Exc' = [u \in Unit |-> Exc'[u]]
    BY <2>1
  <2>3. \A u \in Unit : Exc'[u] \in [seq : Seq0, cnt : (0 .. 5) \cup {None}, dst_tag : Tag]
    BY <1>1
  <2> QED BY <2>2, <2>3 DEF ExcOf
<1>3. \A u \in Unit : Exc[u].cnt \in (0 .. 5) \cup {None}
  BY UnitsAre
<1>4. None \notin Nat
  BY CpuAssumption
<1>5. \A u \in Unit : /\ Exc'[u].cnt = 0 <=> Exc[u].cnt = 1
                      /\ Exc'[u].cnt \notin {None, 0} <=> Exc[u].cnt \in 2 .. 5
  <2> TAKE u \in Unit
  <2> DEFINE c == Exc[u].cnt
             c2 == Exc'[u].cnt
  <2>1. c \in (0 .. 5) \cup {None} /\ c2 = IF c \in {None, 0} THEN None ELSE c - 1
    BY <1>1, <1>3
  <2> HIDE DEF c, c2
  <2>2. (c2 = 0 <=> c = 1) /\ (c2 \notin {None, 0} <=> c \in 2 .. 5)
    BY ONLY <2>1, <1>4
  <2> QED BY <2>2 DEF c, c2
<1>6. ASSUME NEW k \in 1 .. 5, NEW u \in Unit
      PROVE  Exc'[u].cnt \in k .. 5 <=> Exc[u].cnt \in k + 1 .. 5
  <2> DEFINE c == Exc[u].cnt
             c2 == Exc'[u].cnt
  <2>1. c \in (0 .. 5) \cup {None} /\ c2 = IF c \in {None, 0} THEN None ELSE c - 1
    BY <1>1, <1>3
  <2> HIDE DEF c, c2
  <2>2. c2 \in k .. 5 <=> c \in k + 1 .. 5
    BY ONLY <2>1, <1>4, <1>6
  <2> QED BY <2>2 DEF c, c2
<1>7. Unit' = Unit
  BY SameMachine
<1>8. Done(Exc') = {u \in Unit : Exc[u].cnt = 1}
  BY <1>5 DEF Done
<1>9. BusyUnits' = {u \in Unit : Exc[u].cnt \in 2 .. 5}
  BY <1>5, <1>7 DEF BusyUnits
<1>10. \A k \in 1 .. 5 : UnitsFrom(k)' = UnitsFrom(k + 1)
  BY <1>6, <1>7 DEF UnitsFrom
<1> QED BY <1>1, <1>2, <1>8, <1>9, <1>10

(* What is done wakes its consumers.                                       *)
IqReg == IqRegOf(Seq0, Op, Tag, Reg \cup Tag \cup {None})

(* CpuTypeOK, for the entries of the issue queue.                          *)
LEMMA QueueIs ==
  ASSUME CpuTypeOK
  PROVE  /\ Iq.queue \in [Entry -> IqReg] /\ ValidIq \subseteq Entry
         /\ \A i \in Entry :
              /\ Iq.queue[i] \in IqReg
              /\ i \in ValidIq <=> Iq.queue[i].v /= "INV"
              /\ Iq.queue[i].v \in {"INV", "RDY", "NRDY"}
              /\ Iq.queue[i].rs1_rdy \in BOOLEAN /\ Iq.queue[i].rs2_rdy \in BOOLEAN
<1>1. Iq.queue \in [Entry -> IqReg]
  BY AllTypes DEF IqReg
<1>2. \A i \in Entry : Iq.queue[i] \in IqReg
  BY <1>1
<1> QED BY <1>1, <1>2 DEF IqReg, IqRegOf, ValidIq

(* What IQ::Update does to an entry: it sets the ready bits of the         *)
(* announced tags, clears none, and keeps the entry's state in step with   *)
(* them.                                                                   *)
LEMMA WokenIs ==
  ASSUME NEW e \in IqReg, NEW tags
  PROVE  /\ Woken(e, tags) \in IqReg
         /\ Woken(e, tags).seq = e.seq /\ Woken(e, tags).dst_tag = e.dst_tag
         /\ Woken(e, tags).rs1_tag = e.rs1_tag /\ Woken(e, tags).rs2_tag = e.rs2_tag
         /\ Woken(e, tags).v = "INV" <=> e.v = "INV"
         /\ (e.v = "RDY" <=> e.rs1_rdy /\ e.rs2_rdy) /\ e.v /= "INV" =>
              /\ Woken(e, tags).rs1_rdy <=> (e.rs1_rdy \/ e.rs1_tag \in tags)
              /\ Woken(e, tags).rs2_rdy <=> (e.rs2_rdy \/ e.rs2_tag \in tags)
              /\ Woken(e, tags).v = "RDY" <=>
                   Woken(e, tags).rs1_rdy /\ Woken(e, tags).rs2_rdy
<1> DEFINE r1 == e.rs1_rdy \/ e.rs1_tag \in tags
           r2 == e.rs2_rdy \/ e.rs2_tag \in tags
           v == IF r1 /\ r2 THEN "RDY" ELSE "NRDY"
<1>1. Woken(e, tags) = IF e.v /= "NRDY" THEN e
                       ELSE [e EXCEPT !.rs1_rdy = r1, !.rs2_rdy = r2, !.v = v]
  BY DEF Woken
<1>2. /\ r1 \in BOOLEAN /\ r2 \in BOOLEAN /\ v \in {"INV", "RDY", "NRDY"} /\ v /= "INV"
      /\ v = "RDY" <=> r1 /\ r2
  BY DEF IqReg, IqRegOf
<1>3. /\ e.v \in {"INV", "RDY", "NRDY"} /\ e.rs1_rdy \in BOOLEAN /\ e.rs2_rdy \in BOOLEAN
  BY DEF IqReg, IqRegOf
<1>4. CASE e.v = "NRDY"
  <2>1. r1 <=> (e.rs1_rdy \/ e.rs1_tag \in tags)
    OBVIOUS
  <2>2. r2 <=> (e.rs2_rdy \/ e.rs2_tag \in tags)
    OBVIOUS
  <2> HIDE DEF r1, r2, v
  <2> DEFINE w == [e EXCEPT !.rs1_rdy = r1, !.rs2_rdy = r2, !.v = v]
  <2>3. /\ w \in IqReg /\ w.seq = e.seq /\ w.dst_tag = e.dst_tag
        /\ w.rs1_tag = e.rs1_tag /\ w.rs2_tag = e.rs2_tag
        /\ w.v = v /\ w.rs1_rdy = r1 /\ w.rs2_rdy = r2
    BY <1>2 DEF IqReg, IqRegOf
  <2>4. Woken(e, tags) = w
    BY <1>1, <1>4
  <2> HIDE DEF w
  <2> QED BY <2>1, <2>2, <2>3, <2>4, <1>2, <1>4
<1>5. CASE e.v /= "NRDY"
  <2>1. Woken(e, tags) = e
    BY <1>1, <1>5
  <2> HIDE DEF r1, r2, v
  <2> QED BY <2>1, <1>3, <1>5
<1> QED BY <1>4, <1>5

(* IQ::Update wakes every entry and moves none.                            *)
LEMMA Updated ==
  ASSUME CpuTypeOK, IqIsRecord, params' = params, NEW tags, Iq' = Update(Iq, tags)
  PROVE  /\ Iq'.cnt = Iq.cnt /\ Iq'.seq_max = Iq.seq_max /\ IqIsRecord'
         /\ Iq'.queue \in [Entry -> IqReg]
         /\ \A i \in Entry : Iq'.queue[i] = Woken(Iq.queue[i], tags)
         /\ ValidIq' = ValidIq /\ IqTags' = IqTags
<1> DEFINE queue == [i \in Entry |-> Woken(Iq.queue[i], tags)]
<1>1. /\ Iq'.queue = queue /\ Iq'.cnt = Iq.cnt /\ Iq'.seq_max = Iq.seq_max
      /\ Iq' = [queue |-> queue, cnt |-> Iq.cnt, seq_max |-> Iq.seq_max]
  <2>1. Iq' = [Iq EXCEPT !.queue = queue]
    BY DEF Update
  <2> HIDE DEF queue
  <2> QED BY <2>1 DEF IqIsRecord
<1>2. IqIsRecord'
  BY <1>1 DEF IqIsRecord
<1>3. \A i \in Entry : Iq'.queue[i] = Woken(Iq.queue[i], tags)
  BY <1>1
<1>4. Iq'.queue \in [Entry -> IqReg]
  BY <1>1, QueueIs, WokenIs
<1>5. \A i \in Entry : /\ Iq'.queue[i].v = "INV" <=> Iq.queue[i].v = "INV"
                       /\ Iq'.queue[i].dst_tag = Iq.queue[i].dst_tag
  BY <1>3, QueueIs, WokenIs
<1>6. ValidIq' = ValidIq
  BY <1>5, SameMachine DEF ValidIq
<1>7. IqTags' = IqTags
  BY <1>5, <1>6, QueueIs DEF IqTags, TagsOf
<1> QED BY <1>1, <1>2, <1>3, <1>4, <1>6, <1>7

(* Every entry that waits for an instruction that is done is woken in the  *)
(* same cycle, so nothing that is still awaited was announced before.      *)
LEMMA ExecuteTagsOK ==
  ASSUME CpuTypeOK, IqIsRecord, NEW rn \in 0 .. Len(prog),
         RobInOrder(prog, Tags, Dispatched, rn), TagsOK,
         UNCHANGED <<params, prog, Rob, Rmt, Rr, Di>>,
         stage = "Execute", stage' = "Issue",
         Exc' = DecCnt(Exc),
         Wb' = [u \in Unit |->
                  IF u \in Done(Exc')
                  THEN [v |-> TRUE, seq |-> Exc'[u].seq, Rob_tag |-> Exc'[u].dst_tag]
                  ELSE [v |-> FALSE, seq |-> 0, Rob_tag |-> 0]],
         Iq' = Update(Iq, {Exc'[u].dst_tag : u \in Done(Exc')})
  PROVE  TagsOK' /\ Wb' \in [Unit -> WbReg]
<1> DEFINE done == {Exc[u].dst_tag : u \in Done(Exc')}
<1>1. /\ Unit' = Unit /\ Slot' = Slot /\ Dispatched' = Dispatched
      /\ Iq' = Update(Iq, done)
      /\ ValidIq' = ValidIq /\ IqTags' = IqTags
      /\ \A i \in Entry : Iq'.queue[i] = Woken(Iq.queue[i], done)
  <2>1. {Exc'[u].dst_tag : u \in Done(Exc')} = done
    BY CountedDown DEF Done
  <2>2. Iq' = Update(Iq, done)
    BY <2>1
  <2> QED BY <2>2, Updated, SameMachine DEF Dispatched
<1>2. /\ Done(Exc') = {u \in Unit : Exc[u].cnt = 1}
      /\ BusyUnits' \subseteq BusyUnits /\ Done(Exc') \subseteq BusyUnits
      /\ BusyUnits \subseteq BusyUnits' \cup Done(Exc')
      /\ Done(Exc') \cap BusyUnits' = {}
  <2>1. /\ Done(Exc') = {u \in Unit : Exc[u].cnt = 1}
        /\ BusyUnits' = {u \in Unit : Exc[u].cnt \in 2 .. 5}
    BY CountedDown
  <2>2. BusyUnits = {u \in Unit : Exc[u].cnt \in 1 .. 5}
    BY UnitsAre DEF BusyUnits
  <2>3. \A c : (c \in 1 .. 5 <=> c = 1 \/ c \in 2 .. 5) /\ ~(c = 1 /\ c \in 2 .. 5)
    OBVIOUS
  <2> QED BY <2>1, <2>2, <2>3
<1>3. \A u \in Unit : Exc'[u].seq = Exc[u].seq /\ Exc'[u].dst_tag = Exc[u].dst_tag
  BY CountedDown
<1>4. /\ \A u \in Done(Exc') : Wb'[u] = [v |-> TRUE, seq |-> Exc[u].seq,
                                         Rob_tag |-> Exc[u].dst_tag]
      /\ \A u \in Unit \ Done(Exc') : Wb'[u] = [v |-> FALSE, seq |-> 0, Rob_tag |-> 0]
      /\ DOMAIN Wb' = Unit
  BY <1>2, <1>3
<1> DEFINE finished == Done(Exc')
<1>23. /\ finished \subseteq Unit
       /\ \A u \in finished : /\ Wb'[u].v = TRUE /\ Wb'[u].seq = Exc[u].seq
                              /\ Wb'[u].Rob_tag = Exc[u].dst_tag
       /\ \A u \in Unit \ finished : Wb'[u].v = FALSE
  BY <1>2, <1>4
<1>5. Wb' \in [Unit -> WbReg]
  <2>1. 0 \in Seq0 /\ 0 \in Tag
    BY Types, Sizes DEF Seq0
  <2>2. \A u \in Unit : Wb'[u] \in WbReg
    <3>1. \A u \in Done(Exc') : Wb'[u] \in WbReg
      <4>1. \A u \in Unit : Exc[u].seq \in Seq0 /\ Exc[u].dst_tag \in Tag
        BY UnitsAre
      <4> TAKE u \in Done(Exc')
      <4>2. u \in Unit /\ Exc[u].seq \in Seq0 /\ Exc[u].dst_tag \in Tag
        BY <4>1, <1>2
      <4>3. Wb'[u] = [v |-> TRUE, seq |-> Exc[u].seq, Rob_tag |-> Exc[u].dst_tag]
        BY <1>4
      <4> QED BY <4>2, <4>3 DEF WbReg
    <3>2. \A u \in Unit \ Done(Exc') : Wb'[u] \in WbReg
      BY <2>1, <1>4 DEF WbReg
    <3> QED BY <3>1, <3>2
  <2>3. Wb' = [u \in Unit |-> Wb'[u]]
    OBVIOUS
  <2> QED BY <2>2, <2>3
<1>6. WbTags' = done
  <2>1. done = {Exc[u].dst_tag : u \in finished}
    OBVIOUS
  <2> HIDE DEF finished, done
  <2>2. {u \in Unit : Wb'[u].v} = finished
    BY <1>23
  <2>3. WbTags' = {Wb'[u].Rob_tag : u \in finished}
    BY <2>2, <1>1 DEF WbTags
  <2>4. \A u \in finished : Wb'[u].Rob_tag = Exc[u].dst_tag
    BY <1>23
  <2> QED BY ONLY <2>1, <2>3, <2>4
<1>7. /\ Tags'.size = Tags.size /\ Tags'.held = Tags.held /\ Tags'.pos = Tags.pos
      /\ Tags'.seq = Tags.seq /\ Tags'.dst = Tags.dst
      /\ Tags'.ready = Tags.ready /\ Tags'.wb = done
  BY <1>6, ExecuteTags
<1>8. /\ WbOK(Tags, Dispatched, Wb, TRUE)
      /\ IqOK(prog, Tags, Dispatched, Iq.queue, ValidIq)
      /\ ExcOK(Tags, Dispatched, Exc, BusyUnits)
      /\ IqTags \cap ExcTags = {}
      /\ NothingLost(Tags, Dispatched, IqTags \cup ExcTags)
  BY DEF TagsOK, BackEndOK
<1>9. Tags.wb \subseteq Tags.ready
  BY <1>8, WbIs
<1>10. Moves(Tags, Tags')
  BY <1>7, <1>9 DEF Moves
<1>11. /\ \A t \in Tag : Tags.seq[t] \in Nat
       /\ Tags.held \subseteq Tag /\ Tags.ready \subseteq Tag
       /\ \A t \in Tags.held : Tags.seq[t] < Len(prog)
       /\ Len(prog) \in Nat
  BY TableIs
<1>12. \A u \in BusyUnits : Pending(Tags, Dispatched, Exc[u].seq, Exc[u].dst_tag)
  BY <1>8 DEF ExcOK
<1>13. ExcTags = ExcTags' \cup done /\ ExcTags' \subseteq ExcTags /\ done \subseteq ExcTags
  <2>1. BusyUnits \subseteq Unit
    BY DEF BusyUnits
  <2>2. ExcTags' = {Exc[u].dst_tag : u \in BusyUnits'}
    BY <2>1, <1>2, <1>3 DEF ExcTags, TagsOf
  <2> QED BY <2>2, <1>2 DEF ExcTags, TagsOf
<1>14. MapExact(Tags, Rmt)'
  BY <1>7 DEF TagsOK, MapExact
<1>15. LatchesOK'
  <2>1. LatchOK(prog, Tags, Rr, FALSE) /\ LatchOK(prog, Tags, Di, FALSE)
    BY DEF TagsOK, LatchesOK, BackToRegRead, BackToDispatch
  <2>2. LatchOK(prog, Tags', Rr, FALSE) /\ LatchOK(prog, Tags', Di, FALSE)
    BY <2>1, <1>7, <1>10, <1>11, Types, LatchMoves
  <2> QED BY <2>2 DEF LatchesOK, BackToRegRead, BackToDispatch
<1>16. \A q, tag : Pending(Tags, Dispatched, q, tag) /\ tag \notin done
                     => Pending(Tags', Dispatched, q, tag)
  BY <1>7 DEF Pending, Holder
<1>17. ExcOK(Tags', Dispatched, Exc', BusyUnits')
  <2>1. BusyUnits \subseteq Unit
    BY DEF BusyUnits
  <2>2. \A u, w \in BusyUnits : Exc[u].dst_tag = Exc[w].dst_tag => u = w
    BY <1>8 DEF ExcOK
  <2>3. ASSUME NEW u \in BusyUnits'
        PROVE  Pending(Tags', Dispatched, Exc'[u].seq, Exc'[u].dst_tag)
    <3>1. Exc[u].dst_tag \notin done
      BY <2>2, <1>2
    <3> QED BY <3>1, <2>1, <1>2, <1>3, <1>12, <1>16
  <2>4. \A u, w \in BusyUnits' : Exc'[u].dst_tag = Exc'[w].dst_tag => u = w
    BY <2>1, <2>2, <1>2, <1>3
  <2> QED BY <2>3, <2>4 DEF ExcOK
<1>18. ASSUME NEW q \in Nat, q < Len(prog), NEW r, NEW tag, NEW ready \in BOOLEAN,
              WaitsForTag(prog, Tags, q, r, ready, tag)
       PROVE  WaitsForTag(prog, Tags', q, r, ready \/ tag \in done, tag)
  <2>1. CASE ready
    <3>1. Known(prog, Tags, q, r) => Known(prog, Tags', q, r)
      BY <1>10 DEF Known, Moves
    <3> QED BY <2>1, <3>1, <1>18 DEF WaitsForTag
  <2>2. CASE ~ready
    <3>1. /\ r /= None /\ Producer(prog, Tags.seq[tag], q, r)
          /\ tag \in Tags.held \ (Tags.ready \cup Tags.wb)
      BY <2>2, <1>18 DEF WaitsForTag
    <3>2. CASE tag \notin done
      BY <2>2, <3>1, <3>2, <1>7 DEF WaitsForTag
    <3>3. CASE tag \in done
      <4>1. ASSUME NEW t \in Tags'.held, Producer(prog, Tags'.seq[t], q, r)
            PROVE  t \in Tags'.ready \cup Tags'.wb
        <5>1. t \in Tags.held /\ Tags.seq[t] \in Nat /\ Tags.seq[tag] \in Nat
          BY <3>1, <1>7, <1>11
        <5>2. Producer(prog, Tags.seq[t], q, r)
          BY <4>1, <1>7
        <5>3. Tags.seq[t] = Tags.seq[tag]
          BY <5>1, <5>2, <3>1, ProducerIs
        <5>4. t = tag
          BY <5>1, <5>3, <3>1, HeldIs
        <5> QED BY <5>4, <3>3, <1>7
      <4>2. Known(prog, Tags', q, r)
        BY <4>1 DEF Known
      <4> QED BY <4>2, <3>3 DEF WaitsForTag
    <3> QED BY <3>2, <3>3
  <2> QED BY <2>1, <2>2
<1>19. IqOK(prog, Tags', Dispatched, Iq'.queue, ValidIq')
  <2>1. ASSUME NEW x \in ValidIq
        PROVE  IqEntryOK(prog, Tags', Dispatched, Iq'.queue[x])
    <3>1. PICK e \in IqReg : e = Iq.queue[x] /\ e.v /= "INV"
      BY QueueIs
    <3>2. PICK w : w = Woken(e, done)
      OBVIOUS
    <3>3. /\ e.seq /= None /\ Pending(Tags, Dispatched, e.seq, e.dst_tag)
          /\ WaitsForTag(prog, Tags, e.seq, prog[e.seq + 1].src1, e.rs1_rdy, e.rs1_tag)
          /\ WaitsForTag(prog, Tags, e.seq, prog[e.seq + 1].src2, e.rs2_rdy, e.rs2_tag)
          /\ e.v = "RDY" <=> e.rs1_rdy /\ e.rs2_rdy
      BY <3>1, <1>8 DEF IqOK, IqEntryOK
    <3>4. /\ w.seq = e.seq /\ w.dst_tag = e.dst_tag
          /\ w.rs1_tag = e.rs1_tag /\ w.rs2_tag = e.rs2_tag
          /\ w.rs1_rdy <=> (e.rs1_rdy \/ e.rs1_tag \in done)
          /\ w.rs2_rdy <=> (e.rs2_rdy \/ e.rs2_tag \in done)
          /\ w.v = "RDY" <=> w.rs1_rdy /\ w.rs2_rdy
      <4>1. (e.v = "RDY" <=> e.rs1_rdy /\ e.rs2_rdy) /\ e.v /= "INV"
        BY <3>1, <3>3
      <4> QED BY <4>1, <3>2, WokenIs
    <3>5. w.rs1_rdy \in BOOLEAN /\ w.rs2_rdy \in BOOLEAN
      BY <3>1, <3>2, WokenIs DEF IqReg, IqRegOf
    <3>6. e.rs1_rdy \in BOOLEAN /\ e.rs2_rdy \in BOOLEAN
      BY <3>1 DEF IqReg, IqRegOf
    <3>7. e.seq \in Nat /\ e.seq < Len(prog)
      BY <3>3, <1>11 DEF Pending, Holder
    <3>8. e.dst_tag \notin done
      <4>1. e.dst_tag \in IqTags
        BY <3>1 DEF IqTags, TagsOf
      <4> QED BY <4>1, <1>8, <1>13
    <3>9. Pending(Tags', Dispatched, e.seq, e.dst_tag)
      BY <3>3, <3>8, <1>16
    <3>10. WaitsForTag(prog, Tags', e.seq, prog[e.seq + 1].src1,
                       e.rs1_rdy \/ e.rs1_tag \in done, e.rs1_tag)
      BY <3>3, <3>6, <3>7, <1>18
    <3>11. WaitsForTag(prog, Tags', e.seq, prog[e.seq + 1].src2,
                       e.rs2_rdy \/ e.rs2_tag \in done, e.rs2_tag)
      BY <3>3, <3>6, <3>7, <1>18
    <3>12. WaitsForTag(prog, Tags', w.seq, prog[w.seq + 1].src1, w.rs1_rdy, w.rs1_tag)
      BY <3>10, <3>4 DEF WaitsForTag
    <3>13. WaitsForTag(prog, Tags', w.seq, prog[w.seq + 1].src2, w.rs2_rdy, w.rs2_tag)
      BY <3>11, <3>4 DEF WaitsForTag
    <3>14. IqEntryOK(prog, Tags', Dispatched, w)
      BY <3>3, <3>4, <3>9, <3>12, <3>13 DEF IqEntryOK
    <3>15. Iq'.queue[x] = w
      BY <3>1, <3>2, <1>1, QueueIs
    <3> QED BY <3>14, <3>15
  <2>2. ASSUME NEW x \in ValidIq
        PROVE  Iq'.queue[x].dst_tag = Iq.queue[x].dst_tag
    <3>1. x \in Entry /\ Iq.queue[x] \in IqReg
      BY QueueIs
    <3>2. Woken(Iq.queue[x], done).dst_tag = Iq.queue[x].dst_tag
      BY <3>1, WokenIs
    <3> QED BY <3>1, <3>2, <1>1
  <2>3. \A x, y \in ValidIq : Iq'.queue[x].dst_tag = Iq'.queue[y].dst_tag => x = y
    BY <2>2, <1>8 DEF IqOK
  <2> QED BY <2>1, <2>3, <1>1 DEF IqOK
<1>20. WbOK(Tags', Dispatched, Wb', FALSE)
  <2>1. ASSUME NEW u \in DOMAIN Wb', Wb'[u].v
        PROVE  /\ Wb'[u].seq < Dispatched /\ Holder(Tags', Wb'[u].Rob_tag, Wb'[u].seq)
               /\ Wb'[u].Rob_tag \notin Tags'.ready
    <3>1. u \in Done(Exc')
      BY <2>1, <1>4
    <3>2. Wb'[u].seq = Exc[u].seq /\ Wb'[u].Rob_tag = Exc[u].dst_tag
      BY <3>1, <1>4
    <3>3. Pending(Tags, Dispatched, Exc[u].seq, Exc[u].dst_tag)
      BY <3>1, <1>2, <1>12
    <3> QED BY <3>2, <3>3, <1>7 DEF Pending, Holder
  <2> QED BY <2>1 DEF WbOK
<1>21. NothingLost(Tags', Dispatched, IqTags \cup ExcTags')
  BY <1>7, <1>8, <1>9, <1>13 DEF NothingLost
<1>22. BackEndOK'
  BY <1>1, <1>8, <1>13, <1>17, <1>19, <1>20, <1>21 DEF BackEndOK
<1> QED BY <1>5, <1>14, <1>15, <1>22 DEF TagsOK

(* Execute preserves the invariant.                                        *)
LEMMA ExecuteKeeps ==
  ASSUME NEW rd \in 0 .. Len(prog), NEW rn \in 0 .. Len(prog),
         NEW de \in 0 .. Len(prog), NEW fe \in 0 .. Len(prog),
         CoreAt(rd, rn, de, fe), Execute
  PROVE  CoreFor(rn)'
<1>1. /\ CpuTypeOK /\ IqIsRecord
      /\ FrontAt(rn, de, fe) /\ MiddleAt(rd, rn) /\ RobAt(rd, rn, de)
      /\ TagsOK /\ IqHasRoom /\ UnitsSuffice
  BY CoreIs
<1>2. /\ stage = "Execute" /\ stage' = "Issue" /\ slot' = 0
      /\ Exc' = DecCnt(Exc)
      /\ Iq' = Update(Iq, {Exc'[u].dst_tag : u \in Done(Exc')})
      /\ UNCHANGED <<mainVars, frontVars, Rr, Di, Rmt, Rob,
                     RN, RR, DI, IS, empty, done_flag>>
  BY DEF Execute, GoTo
<1>3. /\ params' = params /\ Width' = Width /\ RobSize' = RobSize /\ IqSize' = IqSize
      /\ prog' = prog /\ last' = last /\ loop' = loop /\ inst_input' = inst_input
      /\ De' = De /\ Rn' = Rn /\ FE' = FE /\ DE' = DE
  BY <1>2, SameMachine DEF mainVars, frontVars
<1>4. /\ params \in Params /\ Width \in Nat \ {0} /\ Slot = 0 .. Width - 1
      /\ slot \in Slot
  BY <1>1, Numbers, Types
<1>5. /\ Iq'.cnt = Iq.cnt /\ Iq'.seq_max = Iq.seq_max /\ IqIsRecord'
      /\ Iq'.queue \in [Entry -> IqReg] /\ ValidIq' = ValidIq
      /\ Dispatched' = Dispatched
  BY <1>1, <1>2, <1>3, Updated DEF Dispatched
<1>6. Tags'.size = Tags.size /\ Tags'.held = Tags.held /\ Tags'.pos = Tags.pos
      /\ Tags'.seq = Tags.seq /\ Tags'.dst = Tags.dst /\ Tags'.ready = Tags.ready
  BY <1>2, <1>3, ExecuteTags
<1>7. TagsOK' /\ Wb' \in [Unit -> WbReg]
  BY <1>1, <1>2, <1>3, ExecuteTagsOK DEF Execute, RobAt
<1>8. CpuTypeOK'
  <2>1. stage' \in Stages /\ slot' \in Slot
    BY <1>2, <1>4, StagesIs
  <2>2. Iq'.queue \in [Entry -> IqRegOf(Seq0, Op, Tag, Reg \cup Tag \cup {None})]
    BY <1>5 DEF IqReg
  <2>3. Exc' \in ExcOf(Seq0, Tag)
    BY <1>1, <1>2, <1>3, CountedDown
  <2> QED BY <2>1, <2>2, <2>3, <1>1, <1>2, <1>3, <1>5, <1>7, TypeKept, Types, AllTypes
<1>9. RobAt(rd, rn, de)'
  BY <1>1, <1>2, <1>3, <1>5, <1>6
     DEF RobAt, RobInOrder, RobHasRoom, RobRunsEmpty, StageOK, Refilled
<1>10. FrontAt(rn, de, fe)'
  BY <1>1, <1>2, <1>3, <1>4, FrontSame DEF Behind, Settled
<1>11. MiddleAt(rd, rn)'
  BY <1>1, <1>2, <1>3, <1>5, MiddleSame DEF Calm, Settled
<1>12. IqHasRoom'
  BY <1>1, <1>2, <1>3, <1>5 DEF IqHasRoom
<1>13. UnitsSuffice'
  <2>1. \A k \in 1 .. 5 : Cardinality(UnitsFrom(k)) <= (6 - k) * Width
    BY <1>1, <1>2 DEF UnitsSuffice
  <2>2. \A k \in 1 .. 5 : UnitsFrom(k)' = UnitsFrom(k + 1)
    BY <1>1, <1>2, <1>3, CountedDown
  <2>3. UnitsFrom(6) = {}
    BY DEF UnitsFrom
  <2>4. \A k \in 1 .. 5 : Cardinality(UnitsFrom(k)') <= (5 - k) * Width
    <3>1. Cardinality(UnitsFrom(6)) = 0
      BY <2>3, FS_EmptySet
    <3>2. \A k \in 1 .. 4 : Cardinality(UnitsFrom(k + 1)) <= (6 - (k + 1)) * Width
      <4> TAKE k \in 1 .. 4
      <4>1. k + 1 \in 1 .. 5
        OBVIOUS
      <4> QED BY <4>1, <2>1
    <3>3. \A k \in 1 .. 4 : 6 - (k + 1) = 5 - k
      OBVIOUS
    <3>4. Cardinality(UnitsFrom(5)') = 0 /\ (5 - 5) * Width = 0
      BY <2>2, <3>1, <1>4
    <3>5. \A k \in 1 .. 4 : Cardinality(UnitsFrom(k)') <= (5 - k) * Width
      BY <2>2, <3>2, <3>3
    <3>6. \A k \in 1 .. 5 : k \in 1 .. 4 \/ k = 5
      OBVIOUS
    <3> QED BY <3>4, <3>5, <3>6
  <2>5. \A k \in 1 .. 5 : (5 - k) * Width + 0 = (5 - k) * Width
    BY <1>4
  <2> QED BY <2>4, <2>5, <1>2, <1>3 DEF UnitsSuffice
<1>14. CoreAt(rd, rn, de, fe)'
  BY <1>5, <1>7, <1>8, <1>9, <1>10, <1>11, <1>12, <1>13
     DEF CoreAt, TraceOrder, LatchesInOrder, FrontAt, MiddleAt, RobAt, TagsOK, IqIsRecord
<1> QED BY <1>3, <1>14 DEF CoreFor

(***************************************************************************)
(* Issue.                                                                  *)
(***************************************************************************)
LEMMA FinitePlaces ==
  ASSUME CpuTypeOK
  PROVE  /\ IsFiniteSet(Entry) /\ IsFiniteSet(Unit) /\ IsFiniteSet(Slot)
         /\ IsFiniteSet(ValidIq) /\ Cardinality(ValidIq) \in Nat
         /\ \A k \in 1 .. 5 : IsFiniteSet(UnitsFrom(k)) /\ Cardinality(UnitsFrom(k)) \in Nat
<1>1. /\ Entry = 0 .. IqSize - 1 /\ Unit = 0 .. 5 * Width - 1 /\ Slot = 0 .. Width - 1
      /\ IqSize \in Nat /\ Width \in Nat
  BY Types, Sizes
<1>2. IsFiniteSet(Entry) /\ IsFiniteSet(Unit) /\ IsFiniteSet(Slot)
  <2> DEFINE n == 5 * Width
  <2>1. n \in Nat
    BY <1>1
  <2> HIDE DEF n
  <2>2. IsFiniteSet(0 .. n - 1) /\ IsFiniteSet(0 .. IqSize - 1) /\ IsFiniteSet(0 .. Width - 1)
    BY <1>1, <2>1, FS_Interval
  <2> QED BY <1>1, <2>2 DEF n
<1>3. ValidIq \subseteq Entry /\ \A k : UnitsFrom(k) \subseteq Unit
  BY DEF ValidIq, UnitsFrom
<1> QED BY <1>2, <1>3, FS_Subset, FS_CardinalityType

(* An instruction leaves the issue queue, and the count with it.           *)
LEMMA Invalidated ==
  ASSUME CpuTypeOK, IqIsRecord, params' = params, Iq.cnt = Cardinality(ValidIq),
         NEW i \in ValidIq, Iq' = Invalidation(Iq, i)
  PROVE  /\ Iq'.seq_max = Iq.seq_max /\ IqIsRecord'
         /\ Iq'.queue \in [Entry -> IqReg]
         /\ \A x \in Entry \ {i} : Iq'.queue[x] = Iq.queue[x]
         /\ ValidIq' = ValidIq \ {i}
         /\ Iq'.cnt \in 0 .. IqSize /\ Iq'.cnt = Cardinality(ValidIq')
<1> DEFINE queue == [Iq.queue EXCEPT ![i] = InvEntry]
<1>1. /\ Iq'.queue = queue /\ Iq'.cnt = Iq.cnt - 1 /\ Iq'.seq_max = Iq.seq_max
      /\ Iq' = [queue |-> queue, cnt |-> Iq.cnt - 1, seq_max |-> Iq.seq_max]
  <2> DEFINE inv == InvEntry
  <2>1. Iq' = [Iq EXCEPT !.queue[i] = inv, !.cnt = Iq.cnt - 1]
    BY DEF Invalidation
  <2>2. queue = [Iq.queue EXCEPT ![i] = inv]
    OBVIOUS
  <2> HIDE DEF inv, queue
  <2> QED BY <2>1, <2>2 DEF IqIsRecord
<1>2. InvEntry \in IqReg /\ InvEntry.v = "INV"
  <2>1. 0 \in Tag
    BY Types, Sizes
  <2> QED BY <2>1 DEF InvEntry, IqReg, IqRegOf, Op
<1>3. /\ Iq'.queue \in [Entry -> IqReg] /\ i \in Entry
      /\ \A x \in Entry \ {i} : Iq'.queue[x] = Iq.queue[x]
      /\ Iq'.queue[i].v = "INV"
  <2>1. Iq.queue \in [Entry -> IqReg] /\ i \in Entry
    BY QueueIs
  <2> DEFINE inv == InvEntry
  <2>2. Iq'.queue = [Iq.queue EXCEPT ![i] = inv] /\ inv \in IqReg /\ inv.v = "INV"
    BY <1>1, <1>2
  <2> HIDE DEF inv
  <2> QED BY <2>1, <2>2
<1>4. ValidIq' = ValidIq \ {i}
  BY <1>3, SameMachine DEF ValidIq
<1>5. Iq'.cnt \in 0 .. IqSize /\ Iq'.cnt = Cardinality(ValidIq')
  <2>1. Cardinality(ValidIq \ {i}) = Cardinality(ValidIq) - 1
    BY FinitePlaces, FS_RemoveElement
  <2>2. Cardinality(ValidIq \ {i}) \in Nat
    BY FinitePlaces, FS_RemoveElement, FS_CardinalityType
  <2>3. Iq.cnt \in 0 .. IqSize /\ IqSize \in Nat
    BY AllTypes, Types, Sizes
  <2> QED BY <1>1, <1>4, <2>1, <2>2, <2>3
<1>6. IqIsRecord'
  BY <1>1 DEF IqIsRecord
<1> QED BY <1>1, <1>3, <1>4, <1>5, <1>6

(* An instruction enters a free unit: one more is busy, at the top of its  *)
(* latency.                                                                *)
LEMMA Loaded ==
  ASSUME CpuTypeOK, params' = params, NEW u \in Unit, Available(Exc, u),
         NEW seq \in Seq0, NEW op \in Op, NEW tag \in Tag, Exc' = Load(Exc, u, seq, op, tag)
  PROVE  /\ Exc' \in ExcOf(Seq0, Tag)
         /\ Exc'[u].seq = seq /\ Exc'[u].dst_tag = tag
         /\ \A w \in Unit \ {u} : Exc'[w] = Exc[w]
         /\ BusyUnits' = BusyUnits \cup {u} /\ u \notin BusyUnits
         /\ \A k \in 1 .. 5 : Cardinality(UnitsFrom(k)') <= Cardinality(UnitsFrom(k)) + 1
<1> DEFINE e == [seq |-> seq, cnt |-> Latency(op), dst_tag |-> tag]
<1>1. Latency(op) \in {1, 2, 5} /\ Latency(op) \notin {None, 0}
  <2>1. op \in {0, 1, 2}
    BY DEF Op
  <2>2. Latency(op) \in {1, 2, 5}
    BY <2>1 DEF Latency
  <2> QED BY <2>2, CpuAssumption
<1>2. /\ e \in [seq : Seq0, cnt : (0 .. 5) \cup {None}, dst_tag : Tag]
      /\ e.seq = seq /\ e.dst_tag = tag /\ e.cnt \notin {None, 0}
  BY <1>1
<1>3. Exc' = [Exc EXCEPT ![u] = e]
  BY DEF Load
<1> HIDE DEF e
<1>4. /\ Exc' \in ExcOf(Seq0, Tag) /\ Exc'[u] = e
      /\ \A w \in Unit \ {u} : Exc'[w] = Exc[w]
  BY <1>2, <1>3, UnitsAre DEF ExcOf
<1>5. BusyUnits' = BusyUnits \cup {u} /\ u \notin BusyUnits
  BY <1>2, <1>4, SameMachine DEF BusyUnits, Available
<1>6. ASSUME NEW k \in 1 .. 5
      PROVE  Cardinality(UnitsFrom(k)') <= Cardinality(UnitsFrom(k)) + 1
  <2>1. UnitsFrom(k)' \subseteq UnitsFrom(k) \cup {u}
    BY <1>4, SameMachine DEF UnitsFrom
  <2>2. IsFiniteSet(UnitsFrom(k))
    BY FinitePlaces
  <2>3. /\ IsFiniteSet(UnitsFrom(k) \cup {u})
        /\ Cardinality(UnitsFrom(k) \cup {u}) <= Cardinality(UnitsFrom(k)) + 1
    <3> DEFINE s == UnitsFrom(k)
    <3>1. IsFiniteSet(s) /\ Cardinality(s) \in Nat
      BY <2>2, FS_CardinalityType
    <3> HIDE DEF s
    <3>2. /\ IsFiniteSet(s \cup {u})
          /\ Cardinality(s \cup {u}) = IF u \in s THEN Cardinality(s) ELSE Cardinality(s) + 1
      BY <3>1, FS_AddElement
    <3>3. IsFiniteSet(s \cup {u}) /\ Cardinality(s \cup {u}) <= Cardinality(s) + 1
      BY <3>1, <3>2
    <3> QED BY <3>3 DEF s
  <2>4. /\ Cardinality(UnitsFrom(k)') <= Cardinality(UnitsFrom(k) \cup {u})
        /\ IsFiniteSet(UnitsFrom(k)')
    BY <2>1, <2>3, FS_Subset
  <2> QED BY <2>2, <2>3, <2>4, FS_CardinalityType
<1> QED BY <1>2, <1>4, <1>5, <1>6

(* An instruction moves from the queue to a unit.                          *)
LEMMA IssuedOne ==
  ASSUME CpuTypeOK, IqIsRecord, NEW rn \in 0 .. Len(prog),
         RobInOrder(prog, Tags, Dispatched, rn), BackEndOK, stage = "Issue",
         UNCHANGED <<params, prog, Rob, Wb>>, stage' /= "Execute",
         Iq.cnt = Cardinality(ValidIq),
         NEW i \in Entry, NEW u \in Unit, IssueTo(i, u)
  PROVE  /\ BackEndOK' /\ Exc' \in ExcOf(Seq0, Tag)
         /\ Iq'.queue \in [Entry -> IqReg] /\ IqIsRecord'
         /\ Iq'.seq_max = Iq.seq_max
         /\ Iq'.cnt \in 0 .. IqSize /\ Iq'.cnt = Cardinality(ValidIq')
         /\ \A k \in 1 .. 5 : Cardinality(UnitsFrom(k)') <= Cardinality(UnitsFrom(k)) + 1
<1> DEFINE seq == Iq.queue[i].seq
           op  == Iq.queue[i].op
           tag == Iq.queue[i].dst_tag
<1>1. /\ i \in ValidIq /\ Available(Exc, u)
      /\ Exc' = Load(Exc, u, seq, op, tag) /\ Iq' = Invalidation(Iq, i)
  BY DEF IssueTo, IsOldestRdy, IsFirstEmpty, Candidates, ValidIq
<1>2. /\ IqOK(prog, Tags, Dispatched, Iq.queue, ValidIq)
      /\ ExcOK(Tags, Dispatched, Exc, BusyUnits)
      /\ IqTags \cap ExcTags = {}
      /\ WbOK(Tags, Dispatched, Wb, FALSE)
      /\ NothingLost(Tags, Dispatched, IqTags \cup ExcTags)
  BY DEF BackEndOK
<1>3. Pending(Tags, Dispatched, seq, tag)
  BY <1>1, <1>2 DEF IqOK, IqEntryOK
<1>4. seq \in Seq0 /\ tag \in Tag /\ op \in Op
  <2>1. tag \in Tag /\ seq \in Seq0
    BY <1>3, TagsIs DEF Pending, Holder
  <2>2. op \in Op
    BY QueueIs DEF IqReg, IqRegOf
  <2> QED BY <2>1, <2>2
<1>5. /\ Iq'.seq_max = Iq.seq_max /\ IqIsRecord'
      /\ Iq'.queue \in [Entry -> IqReg]
      /\ \A x \in Entry \ {i} : Iq'.queue[x] = Iq.queue[x]
      /\ ValidIq' = ValidIq \ {i}
      /\ Iq'.cnt \in 0 .. IqSize /\ Iq'.cnt = Cardinality(ValidIq')
  BY <1>1, Invalidated
<1>6. /\ Exc' \in ExcOf(Seq0, Tag)
      /\ Exc'[u].seq = seq /\ Exc'[u].dst_tag = tag
      /\ \A w \in Unit \ {u} : Exc'[w] = Exc[w]
      /\ BusyUnits' = BusyUnits \cup {u} /\ u \notin BusyUnits
      /\ \A k \in 1 .. 5 : Cardinality(UnitsFrom(k)') <= Cardinality(UnitsFrom(k)) + 1
  <2> HIDE DEF seq, op, tag
  <2> QED BY <1>1, <1>4, Loaded
<1>7. Tags' = Tags /\ Dispatched' = Dispatched /\ Wb' = Wb /\ prog' = prog
  BY <1>5, SameTags DEF Dispatched
<1>8. ValidIq \subseteq Entry /\ BusyUnits \subseteq Unit
  BY DEF ValidIq, BusyUnits
<1>9. \A x \in ValidIq' : x \in ValidIq /\ x /= i /\ Iq'.queue[x] = Iq.queue[x]
  BY <1>5, <1>8
<1>10. \A w \in BusyUnits : w /= u /\ Exc'[w] = Exc[w]
  BY <1>6, <1>8
<1>11. tag \in IqTags
  BY <1>1 DEF IqTags, TagsOf
<1>12. IqTags' = IqTags \ {tag}
  <2>1. \A x \in ValidIq : Iq.queue[x].dst_tag = tag => x = i
    BY <1>1, <1>2 DEF IqOK
  <2>2. IqTags' = {Iq.queue[x].dst_tag : x \in ValidIq \ {i}}
    BY <1>5, <1>9 DEF IqTags, TagsOf
  <2> QED BY <2>1, <2>2 DEF IqTags, TagsOf
<1>13. ExcTags' = ExcTags \cup {tag}
  <2>1. ExcTags' = {Exc'[w].dst_tag : w \in BusyUnits \cup {u}}
    BY <1>6 DEF ExcTags, TagsOf
  <2> QED BY <2>1, <1>6, <1>10 DEF ExcTags, TagsOf
<1>14. IqOK(prog, Tags, Dispatched, Iq'.queue, ValidIq')
  BY <1>2, <1>9 DEF IqOK
<1>15. ExcOK(Tags, Dispatched, Exc', BusyUnits')
  <2>1. \A w \in BusyUnits' : Pending(Tags, Dispatched, Exc'[w].seq, Exc'[w].dst_tag)
    BY <1>2, <1>3, <1>6, <1>10 DEF ExcOK
  <2>2. \A w \in BusyUnits : Exc[w].dst_tag /= tag
    BY <1>2, <1>11 DEF ExcTags, TagsOf
  <2>3. \A w, v \in BusyUnits' : Exc'[w].dst_tag = Exc'[v].dst_tag => w = v
    BY <2>2, <1>2, <1>6, <1>10 DEF ExcOK
  <2> QED BY <2>1, <2>3 DEF ExcOK
<1>16. NothingLost(Tags, Dispatched, IqTags' \cup ExcTags')
  BY <1>2, <1>12, <1>13 DEF NothingLost
<1>17. BackEndOK'
  BY <1>2, <1>7, <1>12, <1>13, <1>14, <1>15, <1>16 DEF BackEndOK
<1> QED BY <1>5, <1>6, <1>17

(* Issue preserves the invariant.                                          *)
LEMMA IssueKeeps ==
  ASSUME NEW rd \in 0 .. Len(prog), NEW rn \in 0 .. Len(prog),
         NEW de \in 0 .. Len(prog), NEW fe \in 0 .. Len(prog),
         CoreAt(rd, rn, de, fe), Issue
  PROVE  CoreFor(rn)'
<1>1. /\ CpuTypeOK /\ IqIsRecord
      /\ FrontAt(rn, de, fe) /\ MiddleAt(rd, rn) /\ RobAt(rd, rn, de)
      /\ TagsOK /\ IqHasRoom /\ UnitsSuffice
  BY CoreIs
<1>2. /\ stage = "Issue" /\ TurnThen("Dispatch")
      /\ NothingToIssue \/ \E i \in Entry, u \in Unit : IssueTo(i, u)
      /\ IS' = IF slot = Width - 1 THEN ~IqIsFull(Iq') ELSE IS
      /\ UNCHANGED <<mainVars, frontVars, Rr, Di, Rmt, Rob, Wb,
                     RN, RR, DI, empty, done_flag>>
  BY DEF Issue
<1>3. /\ params' = params /\ Width' = Width /\ RobSize' = RobSize /\ IqSize' = IqSize
      /\ prog' = prog /\ last' = last /\ loop' = loop /\ inst_input' = inst_input
      /\ De' = De /\ Rn' = Rn /\ FE' = FE /\ DE' = DE
  BY <1>2, SameMachine DEF mainVars, frontVars
<1>4. /\ params \in Params /\ Width \in Nat \ {0} /\ Slot = 0 .. Width - 1
      /\ slot \in Slot /\ stage \in Stages /\ "Dispatch" \in Stages
      /\ IqSize \in Nat /\ rn \in Nat
  BY <1>1, Numbers, Types, Sizes, StagesIs
<1>5. /\ stage' \in Stages /\ slot' \in Slot
      /\ \/ slot < Width - 1 /\ stage' = "Issue" /\ slot' = slot + 1
         \/ slot = Width - 1 /\ stage' = "Dispatch" /\ slot' = 0
  BY <1>2, <1>4, TurnIs
<1>6. Tags' = Tags
  BY <1>2, <1>3, SameTags
<1>7. /\ BackEndOK' /\ Exc' \in ExcOf(Seq0, Tag)
      /\ Iq'.queue \in [Entry -> IqReg] /\ IqIsRecord'
      /\ Iq'.seq_max = Iq.seq_max
      /\ Iq'.cnt \in 0 .. IqSize /\ Iq'.cnt = Cardinality(ValidIq')
      /\ \A k \in 1 .. 5 : Cardinality(UnitsFrom(k)') <= Cardinality(UnitsFrom(k)) + 1
  <2>1. CASE NothingToIssue
    <3>1. Exc' = Exc /\ Iq' = Iq
      BY <2>1 DEF NothingToIssue
    <3>2. /\ ValidIq' = ValidIq /\ BusyUnits' = BusyUnits /\ Dispatched' = Dispatched
          /\ \A k : UnitsFrom(k)' = UnitsFrom(k)
      BY <3>1, <1>3, SameMachine DEF ValidIq, BusyUnits, Dispatched, UnitsFrom
    <3>3. IqTags' = IqTags /\ ExcTags' = ExcTags
      BY <3>1, <3>2 DEF IqTags, ExcTags, TagsOf
    <3>4. BackEndOK'
      BY <3>1, <3>2, <3>3, <1>1, <1>2, <1>3, <1>5, <1>6 DEF TagsOK, BackEndOK
    <3>5. /\ Exc' \in ExcOf(Seq0, Tag) /\ Iq'.queue \in [Entry -> IqReg]
          /\ Iq'.cnt \in 0 .. IqSize /\ Iq'.cnt = Cardinality(ValidIq') /\ IqIsRecord'
      BY <3>1, <3>2, <1>1, AllTypes, QueueIs DEF IqHasRoom, IqIsRecord
    <3>6. \A k \in 1 .. 5 : Cardinality(UnitsFrom(k)') <= Cardinality(UnitsFrom(k)) + 1
      <4>1. \A n \in Nat : n <= n + 1
        OBVIOUS
      <4> QED BY <4>1, <3>2, <1>1, FinitePlaces
    <3> QED BY <3>1, <3>4, <3>5, <3>6
  <2>2. ASSUME NEW i \in Entry, NEW u \in Unit, IssueTo(i, u)
        PROVE  /\ BackEndOK' /\ Exc' \in ExcOf(Seq0, Tag)
               /\ Iq'.queue \in [Entry -> IqReg] /\ IqIsRecord'
               /\ Iq'.seq_max = Iq.seq_max
               /\ Iq'.cnt \in 0 .. IqSize /\ Iq'.cnt = Cardinality(ValidIq')
               /\ \A k \in 1 .. 5 :
                    Cardinality(UnitsFrom(k)') <= Cardinality(UnitsFrom(k)) + 1
    BY <2>2, <1>1, <1>2, <1>3, <1>5, IssuedOne DEF RobAt, TagsOK, IqHasRoom
  <2> QED BY <2>1, <2>2, <1>2
<1>8. Dispatched' = Dispatched
  BY <1>7 DEF Dispatched
<1>9. IS' \in BOOLEAN
  BY <1>1, <1>2, Types DEF IqIsFull
<1>10. CpuTypeOK'
  <2>1. Iq'.queue \in [Entry -> IqRegOf(Seq0, Op, Tag, Reg \cup Tag \cup {None})]
    BY <1>7 DEF IqReg
  <2>2. Iq'.seq_max \in 1 .. MaxTrace + 1
    BY <1>1, <1>7, AllTypes
  <2> QED BY <2>1, <2>2, <1>1, <1>2, <1>3, <1>5, <1>7, <1>9, TypeKept, Types, AllTypes
<1>11. RobAt(rd, rn, de)'
  <2>1. RobInOrder(prog, Tags, Dispatched, rn)' /\ RobHasRoom(rn)' /\ StageOK(rd, rn, de)'
    BY <1>1, <1>2, <1>3, <1>5, <1>6, <1>8 DEF RobAt, RobHasRoom, StageOK
  <2>2. RobRunsEmpty(rn, de)'
    BY <1>1, <1>2, <1>3, <1>5, <1>6 DEF RobAt, RobRunsEmpty
  <2>3. Refilled(rd, rn, de)'
    BY <1>1, <1>2, <1>3, <1>5, <1>6 DEF RobAt, Refilled
  <2> QED BY <2>1, <2>2, <2>3 DEF RobAt
<1>12. FrontAt(rn, de, fe)'
  BY <1>1, <1>2, <1>3, <1>4, <1>5, FrontSame DEF Behind, Settled
<1>13. MiddleAt(rd, rn)'
  BY <1>1, <1>2, <1>3, <1>5, <1>8, MiddleSame DEF Calm, Settled
<1>14. TagsOK'
  <2>1. MapExact(Tags, Rmt)'
    BY <1>1, <1>2, <1>6 DEF TagsOK
  <2>2. LatchOK(prog, Tags, Rr, FALSE) /\ LatchOK(prog, Tags, Di, FALSE)
    BY <1>1, <1>2 DEF TagsOK, LatchesOK, BackToRegRead, BackToDispatch
  <2>3. LatchesOK'
    BY <2>2, <1>2, <1>3, <1>5, <1>6 DEF LatchesOK, BackToRegRead, BackToDispatch
  <2> QED BY <2>1, <2>3, <1>7 DEF TagsOK
<1>15. IqHasRoom'
  <2>1. ASSUME stage' = "Dispatch", IS'
        PROVE  Iq'.cnt + Width <= IqSize
    <3>1. slot = Width - 1 /\ ~IqIsFull(Iq')
      BY <2>1, <1>2, <1>5
    <3>2. \A j \in 0 .. Width - 1 : Iq'.cnt + j /= IqSize
      BY <3>1 DEF IqIsFull
    <3> DEFINE c == Iq'.cnt
               j == IqSize - c
    <3>3. c \in 0 .. IqSize
      BY <1>7
    <3>4. c + j = IqSize /\ j \in Nat
      BY <3>3, <1>4
    <3>5. ~(j \in 0 .. Width - 1)
      BY <3>2, <3>4
    <3>6. Width \in Nat /\ IqSize \in Nat
      BY <1>4
    <3>7. c + Width <= IqSize
      <4> HIDE DEF c, j
      <4> QED BY <3>3, <3>4, <3>5, <3>6
    <3> QED BY <3>7
  <2>2. stage' /= "Enqueue"
    BY <1>5
  <2>3. Dispatched' > 0 => Width <= IqSize
    BY <1>1, <1>7 DEF IqHasRoom, Dispatched
  <2> QED BY <2>1, <2>2, <2>3, <1>3, <1>7 DEF IqHasRoom
<1>16. UnitsSuffice'
  <2>1. ASSUME NEW k \in 1 .. 5
        PROVE  Cardinality(UnitsFrom(k)') <=
                 IF stage' = "Issue" THEN (5 - k) * Width + slot' ELSE (6 - k) * Width
    <3> DEFINE c == Cardinality(UnitsFrom(k))
               c2 == Cardinality(UnitsFrom(k)')
               m == (5 - k) * Width
    <3>1. c <= m + slot /\ c2 <= c + 1 /\ c \in Nat
      BY <1>1, <1>2, <1>7, FinitePlaces DEF UnitsSuffice
    <3>2. m \in Nat /\ (6 - k) * Width = m + Width
      <4>1. k = 1 \/ k = 2 \/ k = 3 \/ k = 4 \/ k = 5
        OBVIOUS
      <4> QED BY ONLY <4>1, <1>4
    <3>3. c2 \in Nat
      <4>1. UnitsFrom(k)' \subseteq Unit
        BY <1>3, SameMachine DEF UnitsFrom
      <4>2. IsFiniteSet(Unit)
        BY <1>1, FinitePlaces
      <4>3. IsFiniteSet(UnitsFrom(k)')
        BY <4>1, <4>2, FS_Subset
      <4> QED BY <4>3, FS_CardinalityType
    <3> HIDE DEF c, c2, m
    <3>4. c2 <= IF stage' = "Issue" THEN m + slot' ELSE m + Width
      <4>1. m \in Nat /\ slot \in Nat
        BY <3>2, <1>4
      <4>2. c2 <= m + slot + 1
        BY ONLY <3>1, <3>3, <4>1
      <4>3. Width \in Nat
        BY <1>4
      <4>4. CASE stage' = "Issue"
        <5>1. slot' = slot + 1
          BY <4>4, <1>5
        <5> QED BY ONLY <4>1, <4>2, <4>4, <5>1, <3>3
      <4>5. CASE stage' /= "Issue"
        <5>1. slot = Width - 1
          BY <4>5, <1>5
        <5> QED BY ONLY <4>1, <4>2, <4>3, <4>5, <5>1, <3>3
      <4> QED BY <4>4, <4>5
    <3> QED BY <3>2, <3>4 DEF c2, m
  <2> QED BY <2>1, <1>3 DEF UnitsSuffice
<1>17. CoreAt(rd, rn, de, fe)'
  BY <1>7, <1>10, <1>11, <1>12, <1>13, <1>14, <1>15, <1>16
     DEF CoreAt, TraceOrder, LatchesInOrder, FrontAt, MiddleAt, RobAt, TagsOK, IqIsRecord
<1> QED BY <1>3, <1>17 DEF CoreFor

(***************************************************************************)
(* Dispatch and RegRead look the awaited sources up.                       *)
(***************************************************************************)
LEMMA CheckedIs ==
  ASSUME NEW reg \in PipeReg
  PROVE  /\ Checked(reg) \in PipeReg
         /\ Checked(reg).seq = reg.seq /\ Checked(reg).dst = reg.dst
         /\ Checked(reg).src1 = reg.src1 /\ Checked(reg).src2 = reg.src2
         /\ Checked(reg).rob1 <=> reg.rob1 /\ Awaited(reg.src1)
         /\ Checked(reg).rob2 <=> reg.rob2 /\ Awaited(reg.src2)
<1> DEFINE b1 == reg.rob1 /\ Awaited(reg.src1)
           b2 == reg.rob2 /\ Awaited(reg.src2)
<1>1. Checked(reg) = [reg EXCEPT !.rob1 = b1, !.rob2 = b2]
  BY DEF Checked
<1>2. b1 \in BOOLEAN /\ b2 \in BOOLEAN
  OBVIOUS
<1>3. (b1 <=> reg.rob1 /\ Awaited(reg.src1)) /\ (b2 <=> reg.rob2 /\ Awaited(reg.src2))
  OBVIOUS
<1> HIDE DEF b1, b2
<1> QED BY <1>1, <1>2, <1>3 DEF PipeReg

(* A source checked against the reorder buffer and Wb awaits a producer    *)
(* that is in neither as done.                                             *)
LEMMA SourceLookedAt ==
  ASSUME CpuTypeOK, NEW rn \in 0 .. Len(prog), RobInOrder(prog, Tags, Dispatched, rn),
         NEW q \in Nat, NEW r, NEW waits \in BOOLEAN, NEW tag,
         SourceOK(prog, Tags, q, r, waits, tag, FALSE)
  PROVE  /\ SourceOK(prog, Tags, q, r, waits /\ Awaited(tag), tag, TRUE)
         /\ waits /\ Awaited(tag) => tag \notin Tags.ready \cup Tags.wb
<1>1. /\ \A t \in Tag : Tags.seq[t] \in Nat
      /\ Tags.held \subseteq Tag /\ Tags.ready \subseteq Tag
  BY TableIs
<1>2. CASE ~waits
  BY <1>2 DEF SourceOK
<1>3. CASE waits
  <2>1. /\ r /= None /\ Producer(prog, Tags.seq[tag], q, r)
        /\ tag \in Tags.held \/ Retired(Tags, tag)
        /\ tag \in Tag
    BY <1>1, <1>3 DEF SourceOK, Retired
  <2>2. Awaited(tag) <=> tag \notin Tags.ready \cup Tags.wb
    BY <2>1, TagsIs DEF Awaited, FindWb, GetRdy
  <2>3. CASE Awaited(tag)
    BY <1>3, <2>1, <2>2, <2>3 DEF SourceOK, Retired
  <2>4. CASE ~Awaited(tag)
    <3>1. ASSUME NEW t \in Tags.held, Producer(prog, Tags.seq[t], q, r)
          PROVE  t \in Tags.ready \cup Tags.wb
      <4>1. Tags.seq[t] \in Nat /\ Tags.seq[tag] \in Nat
        BY <1>1, <2>1
      <4>2. Tags.seq[t] = Tags.seq[tag]
        BY <4>1, <2>1, <3>1, ProducerIs
      <4>3. ~Retired(Tags, tag)
        BY <4>1, <4>2 DEF Retired
      <4>4. t = tag
        BY <4>2, <4>3, <2>1, HeldIs
      <4> QED BY <4>4, <2>2, <2>4
    <3>2. Known(prog, Tags, q, r)
      BY <3>1 DEF Known
    <3> QED BY <2>4, <3>2 DEF SourceOK
  <2> QED BY <2>3, <2>4
<1> QED BY <1>2, <1>3

(* SourceLookedAt, for both sources of an instruction.                     *)
LEMMA LookedAt ==
  ASSUME CpuTypeOK, NEW rn \in 0 .. Len(prog), RobInOrder(prog, Tags, Dispatched, rn),
         NEW reg \in PipeReg, EntryOK(prog, Tags, reg, FALSE)
  PROVE  /\ EntryOK(prog, Tags, Checked(reg), TRUE)
         /\ Checked(reg).rob1 => Checked(reg).src1 \notin Tags.ready \cup Tags.wb
         /\ Checked(reg).rob2 => Checked(reg).src2 \notin Tags.ready \cup Tags.wb
<1>1. CASE reg.seq = None
  BY <1>1, CheckedIs DEF EntryOK
<1>2. CASE reg.seq /= None
  <2> DEFINE w1 == reg.rob1 /\ Awaited(reg.src1)
             w2 == reg.rob2 /\ Awaited(reg.src2)
             i  == prog[reg.seq + 1]
  <2>1. /\ Holder(Tags, reg.dst, reg.seq)
        /\ SourceOK(prog, Tags, reg.seq, i.src1, reg.rob1, reg.src1, FALSE)
        /\ SourceOK(prog, Tags, reg.seq, i.src2, reg.rob2, reg.src2, FALSE)
    BY <1>2 DEF EntryOK
  <2>2. reg.seq \in Nat /\ reg.rob1 \in BOOLEAN /\ reg.rob2 \in BOOLEAN
    BY <2>1, TableIs DEF Holder, PipeReg
  <2>3. /\ SourceOK(prog, Tags, reg.seq, i.src1, w1, reg.src1, TRUE)
        /\ w1 => reg.src1 \notin Tags.ready \cup Tags.wb
        /\ SourceOK(prog, Tags, reg.seq, i.src2, w2, reg.src2, TRUE)
        /\ w2 => reg.src2 \notin Tags.ready \cup Tags.wb
    <3> HIDE DEF i
    <3> QED BY <2>1, <2>2, SourceLookedAt
  <2> DEFINE c == Checked(reg)
  <2>4. /\ c.seq = reg.seq /\ c.dst = reg.dst /\ c.src1 = reg.src1 /\ c.src2 = reg.src2
        /\ c.rob1 <=> w1
        /\ c.rob2 <=> w2
    BY CheckedIs
  <2> HIDE DEF w1, w2, c
  <2>5. /\ SourceOK(prog, Tags, c.seq, prog[c.seq + 1].src1, c.rob1, c.src1, TRUE)
        /\ SourceOK(prog, Tags, c.seq, prog[c.seq + 1].src2, c.rob2, c.src2, TRUE)
    BY <2>3, <2>4 DEF SourceOK
  <2>6. EntryOK(prog, Tags, c, TRUE)
    BY <2>1, <2>4, <2>5, <1>2 DEF EntryOK
  <2> QED BY <2>3, <2>4, <2>6 DEF c
<1> QED BY <1>1, <1>2

(* A latch of bubbles holds no instruction.                                *)
LEMMA EmptyBundle ==
  ASSUME params \in Params, NEW latch, NEW from \in Nat, NEW upto \in Nat,
         InOrder(latch, 0, Width, from, upto), IsBubbles(latch)
  PROVE  from = upto
<1>1. Width \in Nat \ {0} /\ Slot = 0 .. Width - 1
  BY Sizes
<1>2. \A k \in 0 .. Width - 1 : latch[k].seq = None
  BY <1>1 DEF IsBubbles
<1> DEFINE w == Width
<1>3. 0 \in Nat /\ w \in Nat /\ 0 <= w /\ InOrder(latch, 0, w, from, upto)
      /\ \A k \in 0 .. w - 1 : latch[k].seq = None
  BY <1>1, <1>2
<1> HIDE DEF w
<1> QED BY <1>3, InOrderIs

(* What stays when Iq, Exc, Wb and the reorder buffer do.                  *)
LEMMA BackEndSame ==
  ASSUME UNCHANGED <<params, prog, Rob, Iq, Exc, Wb>>,
         stage /= "Execute", stage' /= "Execute", BackEndOK
  PROVE  BackEndOK' /\ Tags' = Tags /\ Dispatched' = Dispatched
<1>1. Tags' = Tags /\ Dispatched' = Dispatched
  BY SameTags DEF Dispatched
<1>2. ValidIq' = ValidIq /\ BusyUnits' = BusyUnits
  BY SameMachine DEF ValidIq, BusyUnits
<1>3. IqTags' = IqTags /\ ExcTags' = ExcTags
  BY <1>2 DEF IqTags, ExcTags, TagsOf
<1> QED BY <1>1, <1>2, <1>3 DEF BackEndOK

(* Dispatch preserves the invariant.                                       *)
LEMMA DispatchKeeps ==
  ASSUME NEW rd \in 0 .. Len(prog), NEW rn \in 0 .. Len(prog),
         NEW de \in 0 .. Len(prog), NEW fe \in 0 .. Len(prog),
         CoreAt(rd, rn, de, fe), Dispatch
  PROVE  CoreFor(rn)'
<1>1. /\ CpuTypeOK /\ IqIsRecord
      /\ FrontAt(rn, de, fe) /\ MiddleAt(rd, rn) /\ RobAt(rd, rn, de)
      /\ TagsOK /\ IqHasRoom /\ UnitsSuffice
  BY CoreIs
<1>2. /\ stage = "Dispatch" /\ slot' = 0
      /\ Di' = [k \in Slot |-> IF Di[k].seq = None THEN Di[k] ELSE Checked(Di[k])]
      /\ \/ IS /\ DI' = TRUE /\ stage' = "Enqueue"
         \/ ~IS /\ DI' = IsBubbles(Di) /\ stage' = "RegRead"
      /\ UNCHANGED <<mainVars, frontVars, Rr, Rmt, Rob, Iq, Exc, Wb,
                     RN, RR, IS, empty, done_flag>>
  BY DEF Dispatch, GoTo
<1>3. /\ params' = params /\ Width' = Width /\ RobSize' = RobSize /\ IqSize' = IqSize
      /\ Slot' = Slot
      /\ prog' = prog /\ last' = last /\ loop' = loop /\ inst_input' = inst_input
      /\ De' = De /\ Rn' = Rn /\ FE' = FE /\ DE' = DE
  BY <1>2, SameMachine DEF mainVars, frontVars
<1>4. /\ params \in Params /\ Width \in Nat \ {0} /\ Slot = 0 .. Width - 1
      /\ slot \in Slot /\ rn \in Nat /\ rd \in Nat /\ Dispatched \in Nat
  BY <1>1, Numbers, Types, TableIs DEF RobAt
<1>5. \A k \in Slot : /\ Di[k] \in PipeReg
                      /\ Di'[k] \in PipeReg /\ Di'[k].seq = Di[k].seq
  BY <1>1, <1>2, Types, CheckedIs
<1>6. Di' \in [Slot -> PipeReg]
  BY <1>1, <1>2, Types, CheckedIs
<1>7. CpuTypeOK'
  <2>1. stage' \in Stages /\ slot' \in Slot
    BY <1>2, <1>4, StagesIs
  <2>2. DI' \in BOOLEAN
    BY <1>2 DEF IsBubbles
  <2> QED BY <2>1, <2>2, <1>1, <1>2, <1>3, <1>6, TypeKept, Types, AllTypes
<1>8. BackEndOK' /\ Tags' = Tags /\ Dispatched' = Dispatched
  BY <1>1, <1>2, <1>3, BackEndSame DEF TagsOK
<1>9. FrontAt(rn, de, fe)'
  BY <1>1, <1>2, <1>3, <1>4, FrontSame DEF Behind, Settled
<1>10. MiddleAt(rd, rn)'
  <2>1. /\ InOrder(Di, 0, Width, Dispatched, rd) /\ InOrder(Rr, 0, Width, rd, rn)
    BY <1>1, <1>2, FromsIs DEF MiddleAt, Calm, Settled
  <2>2. InOrder(Di', 0, Width, Dispatched, rd)
    BY <2>1, <1>4, <1>5 DEF InOrder
  <2>3. stage' = "RegRead" /\ DI' => Dispatched = rd
    BY <2>1, <1>2, <1>4, EmptyBundle
  <2>4. /\ DiFrom' = IF stage' = "RegRead" /\ DI' THEN Width ELSE 0
        /\ RrTo' = Width
    BY <1>2, <1>3 DEF DiFrom, RrTo
  <2>5. InOrder(Di', DiFrom', Width, Dispatched, rd)
    BY <2>2, <2>3, <2>4, <1>4, NothingBehind
  <2> QED BY <2>1, <2>4, <2>5, <1>2, <1>3, <1>8 DEF MiddleAt
<1>11. RobAt(rd, rn, de)'
  <2>1. RobInOrder(prog, Tags, Dispatched, rn)' /\ RobHasRoom(rn)' /\ StageOK(rd, rn, de)'
    BY <1>1, <1>2, <1>3, <1>8 DEF RobAt, RobHasRoom, StageOK
  <2>2. RobRunsEmpty(rn, de)'
    BY <1>1, <1>2, <1>3, <1>8 DEF RobAt, RobRunsEmpty
  <2>3. Refilled(rd, rn, de)'
    BY <1>1, <1>2, <1>3, <1>8 DEF RobAt, Refilled
  <2> QED BY <2>1, <2>2, <2>3 DEF RobAt
<1>12. TagsOK'
  <2>1. MapExact(Tags, Rmt)'
    BY <1>1, <1>2, <1>8 DEF TagsOK
  <2>2. LatchOK(prog, Tags, Rr, FALSE) /\ LatchOK(prog, Tags, Di, FALSE)
    BY <1>1, <1>2 DEF TagsOK, LatchesOK, BackToRegRead, BackToDispatch
  <2>3. ASSUME NEW k \in Slot
        PROVE  /\ EntryOK(prog, Tags, Di'[k], TRUE)
               /\ Di'[k].rob1 => Di'[k].src1 \notin Tags.ready \cup Tags.wb
               /\ Di'[k].rob2 => Di'[k].src2 \notin Tags.ready \cup Tags.wb
    <3>1. EntryOK(prog, Tags, Di[k], FALSE) /\ Di[k] \in PipeReg
      BY <2>2, <1>1, Types DEF LatchOK
    <3>2. CASE Di[k].seq = None
      <4>1. Di'[k] = Di[k]
        BY <3>2, <1>2
      <4> QED BY <4>1, <3>1, <3>2 DEF EntryOK
    <3>3. CASE Di[k].seq /= None
      <4>1. Di'[k] = Checked(Di[k])
        BY <3>3, <1>2
      <4> QED BY <4>1, <3>1, <1>1, LookedAt DEF RobAt
    <3> QED BY <3>2, <3>3
  <2>4. LatchOK(prog, Tags, Di', TRUE)
    BY <2>3, <1>6 DEF LatchOK
  <2>5. LatchesOK'
    BY <2>2, <2>3, <2>4, <1>2, <1>3, <1>8 DEF LatchesOK, BackToRegRead, BackToDispatch
  <2> QED BY <2>1, <2>5, <1>8 DEF TagsOK
<1>13. IqHasRoom'
  <2>1. ValidIq' = ValidIq
    BY <1>2, <1>3, SameMachine DEF ValidIq
  <2>2. IS => Iq.cnt + (Width - 0) <= IqSize
    BY <1>1, <1>2, <1>4 DEF IqHasRoom
  <2>3. IS => Width <= IqSize
    <3> DEFINE c == Iq.cnt
    <3>1. c \in Nat
      BY <1>1, AllTypes
    <3>2. IS => c + Width <= IqSize
      BY <1>1, <1>2 DEF IqHasRoom
    <3>3. IqSize \in Nat
      BY <1>4, Sizes
    <3> HIDE DEF c
    <3> QED BY <3>1, <3>2, <3>3, <1>4
  <2> QED BY <2>1, <2>2, <2>3, <1>1, <1>2, <1>3, <1>8 DEF IqHasRoom
<1>14. UnitsSuffice'
  <2>1. \A k : UnitsFrom(k)' = UnitsFrom(k)
    BY <1>2, <1>3, SameMachine DEF UnitsFrom
  <2> QED BY <2>1, <1>1, <1>2, <1>3 DEF UnitsSuffice
<1>15. IqIsRecord'
  BY <1>1, <1>2 DEF IqIsRecord
<1>16. CoreAt(rd, rn, de, fe)'
  BY <1>7, <1>9, <1>10, <1>11, <1>12, <1>13, <1>14, <1>15
     DEF CoreAt, TraceOrder, LatchesInOrder, FrontAt, MiddleAt, RobAt, TagsOK, IqIsRecord
<1> QED BY <1>3, <1>16 DEF CoreFor

(***************************************************************************)
(* Enqueue.                                                                *)
(***************************************************************************)
LEMMA Inserted ==
  ASSUME CpuTypeOK, IqIsRecord, params' = params, Iq.cnt = Cardinality(ValidIq),
         NEW i \in Entry \ ValidIq, NEW e \in IqReg, e.v /= "INV",
         Iq' = Insert(Iq, i, e)
  PROVE  /\ Iq'.seq_max = Iq.seq_max + 1 /\ IqIsRecord'
         /\ Iq'.queue \in [Entry -> IqReg] /\ Iq'.queue[i] = e
         /\ \A x \in Entry \ {i} : Iq'.queue[x] = Iq.queue[x]
         /\ ValidIq' = ValidIq \cup {i}
         /\ Iq'.cnt = Iq.cnt + 1 /\ Iq'.cnt = Cardinality(ValidIq')
<1> DEFINE queue == [Iq.queue EXCEPT ![i] = e]
<1>1. /\ Iq'.queue = queue /\ Iq'.cnt = Iq.cnt + 1 /\ Iq'.seq_max = Iq.seq_max + 1
      /\ Iq' = [queue |-> queue, cnt |-> Iq.cnt + 1, seq_max |-> Iq.seq_max + 1]
  <2>1. Iq' = [Iq EXCEPT !.queue[i] = e, !.cnt = Iq.cnt + 1, !.seq_max = Iq.seq_max + 1]
    BY DEF Insert
  <2> QED BY <2>1 DEF IqIsRecord
<1>2. /\ Iq'.queue \in [Entry -> IqReg] /\ Iq'.queue[i] = e
      /\ \A x \in Entry \ {i} : Iq'.queue[x] = Iq.queue[x]
  BY <1>1, QueueIs
<1>3. ValidIq' = ValidIq \cup {i}
  BY <1>2, SameMachine DEF ValidIq
<1>4. Iq'.cnt = Cardinality(ValidIq')
  <2> DEFINE s == ValidIq
  <2>1. IsFiniteSet(s) /\ i \notin s /\ ValidIq' = s \cup {i} /\ Iq'.cnt = Cardinality(s) + 1
    BY <1>1, <1>3, FinitePlaces
  <2> HIDE DEF s
  <2> QED BY <2>1, FS_AddElement
<1>5. IqIsRecord'
  BY <1>1 DEF IqIsRecord
<1> QED BY <1>1, <1>2, <1>3, <1>4, <1>5

(* An instruction enters the issue queue: the count, the numbers and the   *)
(* sources it waits for are those of the queue with it.                    *)
LEMMA EnqueuedOne ==
  ASSUME CpuTypeOK, IqIsRecord, NEW rn \in 0 .. Len(prog),
         RobInOrder(prog, Tags, Dispatched, rn), TagsOK, stage = "Enqueue",
         UNCHANGED <<params, prog, Rob, Wb, Exc>>, stage' /= "Execute",
         Iq.cnt = Cardinality(ValidIq),
         slot \in Slot, Di[slot].seq = Dispatched,
         NEW i \in Entry, IsFirstInv(Iq, i), Iq' = Insert(Iq, i, IqEntry(Di[slot]))
  PROVE  /\ BackEndOK' /\ IqIsRecord'
         /\ Iq'.queue \in [Entry -> IqReg]
         /\ Iq'.seq_max = Iq.seq_max + 1 /\ Dispatched' = Dispatched + 1
         /\ Iq'.cnt = Iq.cnt + 1 /\ Iq'.cnt = Cardinality(ValidIq')
<1> DEFINE d == Dispatched
           reg == Di[slot]
           e == IqEntry(reg)
<1>1. /\ IqOK(prog, Tags, d, Iq.queue, ValidIq)
      /\ ExcOK(Tags, d, Exc, BusyUnits)
      /\ IqTags \cap ExcTags = {}
      /\ WbOK(Tags, d, Wb, FALSE)
      /\ NothingLost(Tags, d, IqTags \cup ExcTags)
  BY DEF TagsOK, BackEndOK
<1>2. d \in Nat /\ d /= None /\ d + 1 \in Nat
  BY TableIs, CpuAssumption
<1>3. /\ Holder(Tags, reg.dst, d)
      /\ SourceOK(prog, Tags, d, prog[d + 1].src1, reg.rob1, reg.src1, TRUE)
      /\ SourceOK(prog, Tags, d, prog[d + 1].src2, reg.rob2, reg.src2, TRUE)
      /\ reg.rob1 => reg.src1 \notin Tags.ready \cup Tags.wb
      /\ reg.rob2 => reg.src2 \notin Tags.ready \cup Tags.wb
  <2>1. LatchOK(prog, Tags, Di, TRUE) /\ slot \in DOMAIN Di
    BY Types DEF TagsOK, LatchesOK, BackToDispatch
  <2>2. EntryOK(prog, Tags, reg, TRUE) /\ reg.seq /= None
    BY <2>1, <1>2 DEF LatchOK
  <2>3. /\ reg.rob1 => reg.src1 \notin Tags.ready \cup Tags.wb
        /\ reg.rob2 => reg.src2 \notin Tags.ready \cup Tags.wb
    BY DEF TagsOK, LatchesOK
  <2> QED BY <2>2, <2>3 DEF EntryOK
<1>4. reg \in PipeReg /\ reg.dst \in Tag /\ reg.dst \in Tags.held /\ Tags.seq[reg.dst] = d
  BY <1>3, Types, TagsIs DEF Holder
<1>5. /\ e.seq = d /\ e.dst_tag = reg.dst
      /\ e.rs1_tag = reg.src1 /\ e.rs2_tag = reg.src2
      /\ e.rs1_rdy = ~reg.rob1 /\ e.rs2_rdy = ~reg.rob2
      /\ e.v = IF reg.rob1 \/ reg.rob2 THEN "NRDY" ELSE "RDY"
      /\ e \in IqReg
  BY <1>4 DEF IqEntry, IqReg, IqRegOf, PipeReg
<1>6. reg.rob1 \in BOOLEAN /\ reg.rob2 \in BOOLEAN /\ e.v /= "INV"
      /\ (e.v = "RDY" <=> ~reg.rob1 /\ ~reg.rob2)
  BY <1>4, <1>5 DEF PipeReg
<1>7. i \notin ValidIq
  BY DEF IsFirstInv, ValidIq
<1>8. /\ Iq'.seq_max = Iq.seq_max + 1 /\ IqIsRecord'
      /\ Iq'.queue \in [Entry -> IqReg] /\ Iq'.queue[i] = e
      /\ \A x \in Entry \ {i} : Iq'.queue[x] = Iq.queue[x]
      /\ ValidIq' = ValidIq \cup {i}
      /\ Iq'.cnt = Iq.cnt + 1 /\ Iq'.cnt = Cardinality(ValidIq')
  <2>1. Iq' = Insert(Iq, i, e)
    OBVIOUS
  <2> HIDE DEF e
  <2> QED BY <2>1, <1>5, <1>6, <1>7, Inserted
<1>9. Dispatched' = d + 1
  BY <1>8, AllTypes DEF Dispatched
<1> HIDE DEF reg, e
<1>10. Tags' = Tags /\ Exc' = Exc /\ BusyUnits' = BusyUnits
  BY SameTags, SameMachine DEF BusyUnits
<1>11. \A x \in ValidIq : x \in Entry /\ x /= i /\ Iq'.queue[x] = Iq.queue[x]
  BY <1>7, <1>8 DEF ValidIq
<1>12. \A t \in Tags.held : Tags.seq[t] \in Nat
  BY TableIs
<1>13. \A q, tag : Pending(Tags, d, q, tag) =>
         /\ Pending(Tags, d + 1, q, tag) /\ tag /= reg.dst
  <2> SUFFICES ASSUME NEW q, NEW tag, Pending(Tags, d, q, tag)
               PROVE  Pending(Tags, d + 1, q, tag) /\ tag /= reg.dst
    OBVIOUS
  <2>1. q < d /\ q = Tags.seq[tag] /\ tag \in Tags.held /\ q \in Nat
    BY <1>12 DEF Pending, Holder
  <2>2. q < d + 1 /\ q /= d
    BY <2>1, <1>2
  <2> QED BY <2>1, <2>2, <1>4 DEF Pending
<1>14. Pending(Tags, d + 1, d, reg.dst)
  <2>1. reg.dst \notin Tags.ready
    BY <1>2, <1>4 DEF RobInOrder
  <2>2. reg.dst \notin Tags.wb
    <3>1. \A t \in Tags.wb : Tags.seq[t] < d
      BY <1>1, WbIs
    <3> QED BY <3>1, <1>2, <1>4
  <2> QED BY <2>1, <2>2, <1>2, <1>3 DEF Pending
<1>15. IqOK(prog, Tags, d + 1, Iq'.queue, ValidIq')
  <2>1. \A x \in ValidIq : IqEntryOK(prog, Tags, d + 1, Iq'.queue[x])
    BY <1>1, <1>11, <1>13 DEF IqOK, IqEntryOK
  <2>2. /\ WaitsForTag(prog, Tags, d, prog[d + 1].src1, e.rs1_rdy, e.rs1_tag)
        /\ WaitsForTag(prog, Tags, d, prog[d + 1].src2, e.rs2_rdy, e.rs2_tag)
    BY <1>3, <1>5, <1>6 DEF SourceOK, WaitsForTag
  <2>3. IqEntryOK(prog, Tags, d + 1, e)
    BY <2>2, <1>2, <1>5, <1>6, <1>14 DEF IqEntryOK
  <2>4. \A x \in ValidIq : Iq'.queue[x].dst_tag /= reg.dst
    BY <1>1, <1>11, <1>13 DEF IqOK, IqEntryOK
  <2>5. \A x, y \in ValidIq' : Iq'.queue[x].dst_tag = Iq'.queue[y].dst_tag => x = y
    BY <2>4, <1>1, <1>5, <1>8, <1>11 DEF IqOK
  <2> QED BY <2>1, <2>3, <2>5, <1>8 DEF IqOK
<1>16. ExcOK(Tags, d + 1, Exc, BusyUnits)
  BY <1>1, <1>13 DEF ExcOK
<1>17. IqTags' = IqTags \cup {reg.dst}
  <2>1. IqTags' = {Iq'.queue[x].dst_tag : x \in ValidIq \cup {i}}
    BY <1>8 DEF IqTags, TagsOf
  <2> QED BY <2>1, <1>5, <1>8, <1>11 DEF IqTags, TagsOf
<1>18. ExcTags' = ExcTags /\ reg.dst \notin ExcTags
  <2>1. ExcTags' = ExcTags
    BY <1>10 DEF ExcTags, TagsOf
  <2>2. \A u \in BusyUnits : Exc[u].dst_tag /= reg.dst
    BY <1>1, <1>13 DEF ExcOK
  <2> QED BY <2>1, <2>2 DEF ExcTags, TagsOf
<1>19. WbOK(Tags, d + 1, Wb, FALSE)
  <2>1. \A u \in DOMAIN Wb : Wb[u].v => Wb[u].seq < d + 1
    <3> SUFFICES ASSUME NEW u \in DOMAIN Wb, Wb[u].v
                 PROVE  Wb[u].seq < d + 1
      OBVIOUS
    <3>1. Wb[u].seq < d /\ Wb[u].seq \in Nat
      BY <1>1, <1>12 DEF WbOK, Holder
    <3> QED BY <3>1, <1>2
  <2> QED BY <2>1, <1>1 DEF WbOK
<1>20. NothingLost(Tags, d + 1, IqTags' \cup ExcTags')
  <2> SUFFICES ASSUME NEW t \in Tags.held, Tags.seq[t] < d + 1
               PROVE  t \in Tags.ready \cup Tags.wb \cup IqTags' \cup ExcTags'
    BY DEF NothingLost
  <2>1. CASE Tags.seq[t] = d
    <3>1. t = reg.dst
      BY <2>1, <1>4, HeldIs
    <3> QED BY <3>1, <1>17
  <2>2. CASE Tags.seq[t] /= d
    <3>1. Tags.seq[t] < d
      BY <2>2, <1>2, <1>12
    <3> QED BY <3>1, <1>1, <1>17, <1>18 DEF NothingLost
  <2> QED BY <2>1, <2>2
<1>21. BackEndOK'
  BY <1>1, <1>9, <1>10, <1>15, <1>16, <1>17, <1>18, <1>19, <1>20 DEF BackEndOK
<1> QED BY <1>8, <1>9, <1>21

(* Enqueue preserves the invariant: the queue has a free entry for every   *)
(* slot of the bundle.                                                     *)
LEMMA EnqueueKeeps ==
  ASSUME NEW rd \in 0 .. Len(prog), NEW rn \in 0 .. Len(prog),
         NEW de \in 0 .. Len(prog), NEW fe \in 0 .. Len(prog),
         CoreAt(rd, rn, de, fe), Enqueue
  PROVE  CoreFor(rn)'
<1> DEFINE d == Dispatched
<1>1. /\ CpuTypeOK /\ IqIsRecord
      /\ FrontAt(rn, de, fe) /\ MiddleAt(rd, rn) /\ RobAt(rd, rn, de)
      /\ TagsOK /\ IqHasRoom /\ UnitsSuffice
  BY CoreIs
<1>2. /\ stage = "Enqueue" /\ TurnThen("RegRead")
      /\ \/ Di[slot].seq = None /\ Iq' = Iq
         \/ /\ Di[slot].seq /= None
            /\ \E i \in Entry : IsFirstInv(Iq, i) /\ Iq' = Insert(Iq, i, IqEntry(Di[slot]))
      /\ UNCHANGED <<mainVars, frontVars, Rr, Di, Rmt, Rob, Exc, Wb,
                     RN, RR, DI, IS, empty, done_flag>>
  BY DEF Enqueue
<1>3. /\ params' = params /\ Width' = Width /\ RobSize' = RobSize /\ IqSize' = IqSize
      /\ Slot' = Slot
      /\ prog' = prog /\ last' = last /\ loop' = loop /\ inst_input' = inst_input
      /\ De' = De /\ Rn' = Rn /\ FE' = FE /\ DE' = DE
  BY <1>2, SameMachine DEF mainVars, frontVars
<1>4. /\ params \in Params /\ Width \in Nat \ {0} /\ Slot = 0 .. Width - 1
      /\ slot \in Slot /\ rn \in Nat /\ rd \in Nat /\ d \in Nat
      /\ stage \in Stages /\ "RegRead" \in Stages
      /\ IqSize \in Nat /\ Len(prog) \in Nat /\ MaxTrace \in Nat
      /\ Len(prog) <= MaxTrace /\ slot \in Nat
  BY <1>1, Numbers, Types, Sizes, StagesIs, TableIs DEF RobAt
<1>5. /\ stage' \in Stages /\ slot' \in Slot
      /\ \/ slot < Width - 1 /\ stage' = "Enqueue" /\ slot' = slot + 1
         \/ slot = Width - 1 /\ stage' = "RegRead" /\ slot' = 0
  BY <1>2, <1>4, TurnIs
<1>6. Tags' = Tags
  BY <1>2, <1>3, SameTags
<1>7. /\ InOrder(Di, slot, Width, d, rd) /\ InOrder(Rr, 0, Width, rd, rn)
      /\ DI /\ Iq.cnt + (Width - slot) <= IqSize /\ Iq.cnt = Cardinality(ValidIq)
      /\ Iq.cnt \in Nat
  <2>1. DiFrom = slot /\ RrTo = Width
    BY <1>2 DEF DiFrom, RrTo
  <2> QED BY <2>1, <1>1, <1>2, AllTypes DEF MiddleAt, IqHasRoom
<1>8. Di[slot].seq = IF d < rd THEN d ELSE None
  <2>1. slot \in slot .. Width - 1 /\ d + (slot - slot) = d
    BY <1>4
  <2>2. Di[slot].seq = IF d + (slot - slot) < rd THEN d + (slot - slot) ELSE None
    BY <2>1, <1>7 DEF InOrder
  <2> QED BY <2>1, <2>2
<1>9. /\ BackEndOK' /\ IqIsRecord'
      /\ Iq'.queue \in [Entry -> IqReg]
      /\ Iq'.cnt \in 0 .. IqSize /\ Iq'.cnt = Cardinality(ValidIq')
      /\ Iq'.cnt + (Width - (slot + 1)) <= IqSize
      /\ Iq'.seq_max \in 1 .. MaxTrace + 1
      /\ Dispatched' = (IF d < rd THEN d + 1 ELSE d)
  <2>1. CASE ~(d < rd)
    <3>1. Iq' = Iq
      BY <2>1, <1>2, <1>4, <1>8, CpuAssumption
    <3>2. BackEndOK' /\ Dispatched' = d
      BY <3>1, <1>1, <1>2, <1>3, <1>5, BackEndSame DEF TagsOK
    <3>3. /\ IqIsRecord' /\ Iq'.queue \in [Entry -> IqReg] /\ Iq'.cnt \in 0 .. IqSize
          /\ Iq'.seq_max \in 1 .. MaxTrace + 1
      BY <3>1, <1>1, QueueIs, AllTypes DEF IqIsRecord
    <3>4. Iq'.cnt = Cardinality(ValidIq')
      BY <3>1, <1>3, <1>7, SameMachine DEF ValidIq
    <3>5. Iq'.cnt + (Width - (slot + 1)) <= IqSize
      <4> DEFINE c == Iq.cnt
      <4>1. c + (Width - slot) <= IqSize /\ c \in Nat
        BY <1>7
      <4> HIDE DEF c
      <4>2. c + (Width - (slot + 1)) <= IqSize
        BY <4>1, <1>4
      <4> QED BY <4>2, <3>1 DEF c
    <3> QED BY <2>1, <3>2, <3>3, <3>4, <3>5
  <2>2. CASE d < rd
    <3>1. Di[slot].seq = d /\ d /= None
      BY <2>2, <1>4, <1>8, CpuAssumption
    <3>2. PICK i \in Entry : IsFirstInv(Iq, i) /\ Iq' = Insert(Iq, i, IqEntry(Di[slot]))
      BY <3>1, <1>2
    <3>3. /\ BackEndOK' /\ IqIsRecord'
          /\ Iq'.queue \in [Entry -> IqReg]
          /\ Iq'.seq_max = Iq.seq_max + 1 /\ Dispatched' = d + 1
          /\ Iq'.cnt = Iq.cnt + 1 /\ Iq'.cnt = Cardinality(ValidIq')
      BY <3>1, <3>2, <1>1, <1>2, <1>3, <1>4, <1>5, <1>7, EnqueuedOne DEF RobAt
    <3>4. Iq'.cnt \in 0 .. IqSize /\ Iq'.cnt + (Width - (slot + 1)) <= IqSize
      <4> DEFINE c == Iq.cnt
                 c2 == Iq'.cnt
      <4>1. c + (Width - slot) <= IqSize /\ c \in Nat /\ c2 = c + 1 /\ slot <= Width - 1
        BY <3>3, <1>4, <1>7
      <4> HIDE DEF c, c2
      <4>2. c2 \in 0 .. IqSize /\ c2 + (Width - (slot + 1)) <= IqSize
        BY <4>1, <1>4
      <4> QED BY <4>2 DEF c2
    <3>5. Iq'.seq_max \in 1 .. MaxTrace + 1
      <4>1. Iq.seq_max = d + 1
        BY <1>1, AllTypes DEF Dispatched
      <4> HIDE DEF d
      <4>2. rd <= MaxTrace
        BY <1>4
      <4> QED BY <4>1, <4>2, <3>3, <2>2, <1>4
    <3> QED BY <2>2, <3>3, <3>4, <3>5
  <2> QED BY <2>1, <2>2
<1>10. CpuTypeOK'
  <2>1. Iq'.queue \in [Entry -> IqRegOf(Seq0, Op, Tag, Reg \cup Tag \cup {None})]
    BY <1>9 DEF IqReg
  <2> QED BY <2>1, <1>1, <1>2, <1>3, <1>5, <1>9, TypeKept, Types, AllTypes
<1>11. PICK d2 \in Nat : d2 = Dispatched'
  BY <1>4, <1>9
<1>12. d2 = IF d < rd THEN d + 1 ELSE d
  BY <1>9, <1>11
<1> HIDE DEF d
<1>13. InOrder(Di, slot + 1, Width, d2, rd)
  <2>1. /\ d <= rd /\ rd <= d + (Width - slot)
        /\ \A k \in slot .. Width - 1 :
             Di[k].seq = IF d + (k - slot) < rd THEN d + (k - slot) ELSE None
    BY <1>7 DEF InOrder
  <2>2. d2 <= rd /\ rd <= d2 + (Width - (slot + 1))
    <3>1. slot <= Width - 1
      BY <1>4
    <3> QED BY <2>1, <3>1, <1>4, <1>11, <1>12
  <2>3. ASSUME NEW k \in slot + 1 .. Width - 1
        PROVE  Di[k].seq = IF d2 + (k - (slot + 1)) < rd
                           THEN d2 + (k - (slot + 1)) ELSE None
    <3>1. k \in slot .. Width - 1 /\ k - slot >= 1 /\ k \in Nat
      BY <1>4
    <3>2. Di[k].seq = IF d + (k - slot) < rd THEN d + (k - slot) ELSE None
      BY <2>1, <3>1
    <3>3. CASE d < rd
      <4>1. d2 + (k - (slot + 1)) = d + (k - slot)
        BY <3>3, <3>1, <1>4, <1>12
      <4> QED BY <3>2, <4>1
    <3>4. CASE ~(d < rd)
      <4>1. ~(d2 + (k - (slot + 1)) < rd) /\ ~(d + (k - slot) < rd)
        BY <3>4, <3>1, <1>4, <1>12
      <4> QED BY <3>2, <4>1
    <3> QED BY <3>3, <3>4
  <2> QED BY <2>2, <2>3 DEF InOrder
<1>14. MiddleAt(rd, rn)'
  <2>1. RrTo' = Width /\ DiFrom' = IF stage' = "Enqueue" THEN slot + 1 ELSE Width
    BY <1>2, <1>3, <1>5, <1>7 DEF RrTo, DiFrom
  <2>2. stage' /= "Enqueue" => slot + 1 = Width
    BY <1>4, <1>5
  <2>3. InOrder(Di, DiFrom', Width, d2, rd)
    BY <2>1, <2>2, <1>13
  <2> QED BY <2>1, <2>3, <1>2, <1>3, <1>7, <1>11 DEF MiddleAt
<1>15. FrontAt(rn, de, fe)'
  BY <1>1, <1>2, <1>3, <1>4, <1>5, FrontSame DEF Behind, Settled
<1>16. RobAt(rd, rn, de)'
  <2>1. RobInOrder(prog, Tags, Dispatched, rn)'
    <3>1. RobInOrder(prog, Tags, d, rn) /\ Tags.size \in Nat
          /\ \A t \in Tags.held : Tags.seq[t] \in Nat
      BY <1>1, TagsIs, HeldIs DEF RobAt, d
    <3>2. rn <= Tags.size + d2 /\ \A q \in Nat : d2 <= q => d <= q
      <4>1. d <= d2
        BY <1>4, <1>12
      <4>2. rn <= Tags.size + d
        BY <3>1 DEF RobInOrder
      <4> QED BY <3>1, <4>1, <4>2, <1>4, <1>11
    <3>3. RobInOrder(prog, Tags, d2, rn)
      BY <3>1, <3>2 DEF RobInOrder
    <3> QED BY <3>3, <1>3, <1>6, <1>11
  <2>2. RobHasRoom(rn)' /\ StageOK(rd, rn, de)'
    BY <1>1, <1>2, <1>3, <1>5, <1>6 DEF RobAt, RobHasRoom, StageOK
  <2>3. RobRunsEmpty(rn, de)'
    BY <1>1, <1>2, <1>3, <1>5, <1>6 DEF RobAt, RobRunsEmpty
  <2>4. Refilled(rd, rn, de)'
    BY <1>1, <1>2, <1>3, <1>5, <1>6 DEF RobAt, Refilled
  <2> QED BY <2>1, <2>2, <2>3, <2>4 DEF RobAt
<1>17. TagsOK'
  <2>1. MapExact(Tags, Rmt)'
    BY <1>1, <1>2, <1>6 DEF TagsOK
  <2>2. /\ LatchOK(prog, Tags, Rr, FALSE) /\ LatchOK(prog, Tags, Di, TRUE)
        /\ \A k \in Slot :
             /\ Di[k].rob1 => Di[k].src1 \notin Tags.ready \cup Tags.wb
             /\ Di[k].rob2 => Di[k].src2 \notin Tags.ready \cup Tags.wb
    BY <1>1, <1>2 DEF TagsOK, LatchesOK, BackToRegRead, BackToDispatch
  <2>3. LatchesOK'
    BY <2>2, <1>2, <1>3, <1>5, <1>6 DEF LatchesOK, BackToRegRead, BackToDispatch
  <2> QED BY <2>1, <2>3, <1>9 DEF TagsOK
<1>18. IqHasRoom'
  <2>1. stage' = "Enqueue" => Iq'.cnt + (Width - slot') <= IqSize
    BY <1>5, <1>9
  <2>2. Width <= IqSize
    BY <1>1, <1>2 DEF IqHasRoom
  <2> QED BY <2>1, <2>2, <1>2, <1>3, <1>5, <1>7, <1>9 DEF IqHasRoom
<1>19. UnitsSuffice'
  <2>1. \A k : UnitsFrom(k)' = UnitsFrom(k)
    BY <1>2, <1>3, SameMachine DEF UnitsFrom
  <2> QED BY <2>1, <1>1, <1>2, <1>3, <1>5 DEF UnitsSuffice
<1>20. CoreAt(rd, rn, de, fe)'
  BY <1>9, <1>10, <1>14, <1>15, <1>16, <1>17, <1>18, <1>19
     DEF CoreAt, TraceOrder, LatchesInOrder, FrontAt, MiddleAt, RobAt, TagsOK, IqIsRecord
<1> QED BY <1>3, <1>20 DEF CoreFor

(***************************************************************************)
(* RegRead.                                                                *)
(***************************************************************************)
LEMMA RegReadKeeps ==
  ASSUME NEW rd \in 0 .. Len(prog), NEW rn \in 0 .. Len(prog),
         NEW de \in 0 .. Len(prog), NEW fe \in 0 .. Len(prog),
         CoreAt(rd, rn, de, fe), RegRead
  PROVE  CoreFor(rn)'
<1>0. PICK rd2 \in 0 .. Len(prog) : rd2 = IF DI THEN rn ELSE rd
  OBVIOUS
<1>1. /\ CpuTypeOK /\ IqIsRecord
      /\ FrontAt(rn, de, fe) /\ MiddleAt(rd, rn) /\ RobAt(rd, rn, de)
      /\ TagsOK /\ IqHasRoom /\ UnitsSuffice
  BY CoreIs
<1>2. /\ stage = "RegRead" /\ stage' = "Rename" /\ slot' = 0
      /\ Rr' = [k \in Slot |-> Checked(Rr[k])]
      /\ Di' = (IF DI THEN Rr' ELSE Di) /\ RR' = (IF DI THEN TRUE ELSE IsBubbles(Rr))
      /\ UNCHANGED <<mainVars, frontVars, Rmt, Rob, Iq, Exc, Wb,
                     RN, DI, IS, empty, done_flag>>
  BY DEF RegRead, GoTo
<1>3. /\ params' = params /\ Width' = Width /\ RobSize' = RobSize /\ Slot' = Slot
      /\ prog' = prog /\ last' = last /\ loop' = loop /\ inst_input' = inst_input
      /\ De' = De /\ Rn' = Rn /\ FE' = FE /\ DE' = DE
  BY <1>2, SameMachine DEF mainVars, frontVars
<1>4. /\ params \in Params /\ Width \in Nat \ {0} /\ Slot = 0 .. Width - 1
      /\ slot \in Slot /\ rn \in Nat /\ rd \in Nat /\ Dispatched \in Nat
      /\ DI \in BOOLEAN
  BY <1>1, Numbers, Types, TableIs DEF RobAt
<1>5. /\ \A k \in Slot : Rr'[k] \in PipeReg /\ Rr'[k].seq = Rr[k].seq
      /\ Rr' \in [Slot -> PipeReg] /\ Di' \in [Slot -> PipeReg]
  <2>1. \A k \in Slot : Rr[k] \in PipeReg /\ Rr'[k] = Checked(Rr[k])
    BY <1>1, <1>2, Types
  <2>2. \A k \in Slot : Rr'[k] \in PipeReg /\ Rr'[k].seq = Rr[k].seq
    BY <2>1, CheckedIs
  <2>3. Rr' \in [Slot -> PipeReg]
    BY <2>1, <2>2, <1>2
  <2> QED BY <2>2, <2>3, <1>1, <1>2, Types
<1>6. CpuTypeOK'
  <2>1. stage' \in Stages /\ slot' \in Slot
    BY <1>2, <1>4, StagesIs
  <2>2. RR' \in BOOLEAN
    BY <1>2 DEF IsBubbles
  <2> QED BY <2>1, <2>2, <1>1, <1>2, <1>3, <1>5, TypeKept, Types, AllTypes
<1>7. BackEndOK' /\ Tags' = Tags /\ Dispatched' = Dispatched
  BY <1>1, <1>2, <1>3, BackEndSame DEF TagsOK
<1>8. FrontAt(rn, de, fe)'
  BY <1>1, <1>2, <1>3, <1>4, FrontSame DEF Behind, Settled
<1>9. /\ InOrder(Di, IF DI THEN Width ELSE 0, Width, Dispatched, rd)
      /\ InOrder(Rr, 0, Width, rd, rn) /\ rd <= rn
  <2>1. DiFrom = (IF DI THEN Width ELSE 0) /\ RrTo = Width
    BY <1>2, <1>4 DEF DiFrom, RrTo
  <2> QED BY <2>1, <1>1 DEF MiddleAt, InOrder
<1>10. DI => Dispatched = rd
  BY <1>4, <1>9, HandedOver
<1>11. ~DI => (IsBubbles(Rr) <=> rd = rn)
  <2>1. IsBubbles(Rr) => rd = rn
    BY <1>4, <1>9, EmptyBundle
  <2>2. ASSUME rd = rn
        PROVE  IsBubbles(Rr)
    <3>1. \A k \in 0 .. Width - 1 : Rr[k].seq = None \/ Rr[k].seq \in rd .. rn - 1
      <4> DEFINE w == Width
      <4>1. w \in Nat /\ 0 \in Nat /\ InOrder(Rr, 0, w, rd, rn)
        BY <1>4, <1>9
      <4> HIDE DEF w
      <4>2. \A k \in 0 .. w - 1 : Rr[k].seq = None \/ Rr[k].seq \in rd .. rn - 1
        BY <4>1, <1>4, InOrderIs
      <4> QED BY <4>2 DEF w
    <3>2. rd .. rn - 1 = {}
      BY <2>2, <1>4
    <3> QED BY <3>1, <3>2, <1>4 DEF IsBubbles
  <2> QED BY <2>1, <2>2
<1>12. MiddleAt(rd2, rn)'
  <2>1. DiFrom' = 0 /\ RrTo' = IF RR' THEN 0 ELSE Width
    BY <1>2, <1>3 DEF DiFrom, RrTo
  <2>2. InOrder(Rr', 0, Width, rd, rn)
    BY <1>4, <1>5, <1>9 DEF InOrder
  <2>3. InOrder(Di', 0, Width, Dispatched, rd2)
    BY <2>2, <1>0, <1>2, <1>9, <1>10
  <2>4. InOrder(Rr', 0, 0, rn, rn)
    BY <1>4 DEF InOrder
  <2>5. InOrder(Rr', 0, RrTo', rd2, rn)
    <3>1. CASE DI
      BY <3>1, <2>1, <2>4, <1>0, <1>2
    <3>2. CASE ~DI
      BY <3>2, <2>1, <2>2, <2>4, <1>0, <1>2, <1>11
    <3> QED BY <3>1, <3>2
  <2> QED BY <2>1, <2>3, <2>5, <1>3, <1>7 DEF MiddleAt
<1>13. RobAt(rd2, rn, de)'
  <2>1. StageOK(rd2, rn, de)'
    <3>1. ~RR' => rd2 < rn
      BY <1>0, <1>2, <1>4, <1>9, <1>11
    <3> QED BY <3>1, <1>2 DEF StageOK
  <2>2. RobInOrder(prog, Tags, Dispatched, rn)' /\ RobHasRoom(rn)'
    BY <1>1, <1>2, <1>3, <1>7 DEF RobAt, RobHasRoom
  <2>3. RobRunsEmpty(rn, de)'
    BY <1>1, <1>2, <1>3, <1>7 DEF RobAt, RobRunsEmpty
  <2>4. Refilled(rd2, rn, de)'
    BY <1>1, <1>2, <1>3, <1>7 DEF RobAt, Refilled
  <2> QED BY <2>1, <2>2, <2>3, <2>4 DEF RobAt
<1>14. TagsOK'
  <2>1. MapExact(Tags, Rmt)'
    BY <1>1, <1>2, <1>7 DEF TagsOK
  <2>2. LatchOK(prog, Tags, Rr, FALSE) /\ LatchOK(prog, Tags, Di, TRUE)
    BY <1>1, <1>2 DEF TagsOK, LatchesOK, BackToRegRead, BackToDispatch
  <2>3. LatchOK(prog, Tags, Rr', TRUE)
    <3>1. ASSUME NEW k \in Slot
          PROVE  EntryOK(prog, Tags, Rr'[k], TRUE)
      <4>1. EntryOK(prog, Tags, Rr[k], FALSE) /\ Rr[k] \in PipeReg
        BY <2>2, <1>1, Types DEF LatchOK
      <4>2. Rr'[k] = Checked(Rr[k])
        BY <1>2
      <4> QED BY <4>1, <4>2, <1>1, LookedAt DEF RobAt
    <3> QED BY <3>1, <1>5 DEF LatchOK
  <2>4. LatchesOK'
    BY <2>2, <2>3, <1>2, <1>3, <1>7 DEF LatchesOK, BackToRegRead, BackToDispatch
  <2> QED BY <2>1, <2>4, <1>7 DEF TagsOK
<1>15. IqHasRoom' /\ UnitsSuffice'
  BY <1>1, <1>2, <1>3, RoomSame
<1>16. IqIsRecord'
  BY <1>1, <1>2 DEF IqIsRecord
<1>17. CoreAt(rd2, rn, de, fe)'
  BY <1>6, <1>8, <1>12, <1>13, <1>14, <1>15, <1>16
     DEF CoreAt, TraceOrder, LatchesInOrder, FrontAt, MiddleAt, RobAt, TagsOK, IqIsRecord
<1> QED BY <1>3, <1>17 DEF CoreFor

(***************************************************************************)
(* Rename.                                                                 *)
(***************************************************************************)
LEMMA RenameKeeps ==
  ASSUME NEW rd \in 0 .. Len(prog), NEW rn \in 0 .. Len(prog),
         NEW de \in 0 .. Len(prog), NEW fe \in 0 .. Len(prog),
         CoreAt(rd, rn, de, fe), Rename
  PROVE  CoreFor(rn)'
<1> DEFINE full == RobIsFull(Rob)
<1>1. /\ CpuTypeOK /\ IqIsRecord
      /\ FrontAt(rn, de, fe) /\ MiddleAt(rd, rn) /\ RobAt(rd, rn, de)
      /\ TagsOK /\ IqHasRoom /\ UnitsSuffice
  BY CoreIs
<1>2. /\ stage = "Rename" /\ RN' = (RR /\ ~full) /\ slot' = 0
      /\ stage' = IF RN' THEN "RenameInst" ELSE "Decode"
      /\ Rr' = IF RR /\ full THEN NoBundle ELSE Rr
      /\ UNCHANGED <<mainVars, frontVars, Di, Rmt, Rob, Iq, Exc, Wb,
                     RR, DI, IS, empty, done_flag>>
  BY DEF Rename, GoTo
<1>3. /\ params' = params /\ Width' = Width /\ RobSize' = RobSize /\ Slot' = Slot
      /\ prog' = prog /\ last' = last /\ loop' = loop /\ inst_input' = inst_input
      /\ De' = De /\ Rn' = Rn /\ FE' = FE /\ DE' = DE
  BY <1>2, SameMachine DEF mainVars, frontVars
<1>4. /\ params \in Params /\ Width \in Nat \ {0} /\ Slot = 0 .. Width - 1
      /\ rn \in Nat /\ rd \in Nat /\ de \in Nat /\ fe \in Nat /\ Len(prog) \in Nat
      /\ Dispatched \in Nat /\ RR \in BOOLEAN /\ RobSize \in Nat
      /\ Tags.size \in Nat
  BY <1>1, Numbers, Types, Sizes, TagsIs, TableIs DEF RobAt
<1>5. full <=> RobSize < Tags.size + Width
  BY <1>1, FullIs
<1> HIDE DEF full
<1>6. CpuTypeOK'
  <2>1. stage' \in Stages /\ slot' \in Slot
    BY <1>2, <1>4, StagesIs
  <2>2. Rr' \in [Slot -> PipeReg] /\ RN' \in BOOLEAN
    <3>1. NoBundle \in [Slot -> PipeReg]
      BY DEF NoBundle, Bubble, PipeReg, Op
    <3> QED BY <3>1, <1>1, <1>2, Types
  <2> QED BY <2>1, <2>2, <1>1, <1>2, <1>3, TypeKept, Types, AllTypes
<1>7. Tags' = Tags /\ Dispatched' = Dispatched
  BY <1>2, <1>3, SameTags DEF Dispatched
<1>8. FrontAt(rn, de, fe)'
  BY <1>1, <1>2, <1>3, <1>4, FrontSame DEF Behind, Settled
<1>9. /\ InOrder(Di, 0, Width, Dispatched, rd) /\ Dispatched <= rd
      /\ InOrder(Rr, 0, IF RR THEN 0 ELSE Width, rd, rn)
      /\ RR => rd = rn
  <2>1. DiFrom = 0 /\ RrTo = IF RR THEN 0 ELSE Width
    BY <1>2, <1>4 DEF DiFrom, RrTo
  <2>2. InOrder(Di, 0, Width, Dispatched, rd)
        /\ InOrder(Rr, 0, IF RR THEN 0 ELSE Width, rd, rn)
    BY <2>1, <1>1 DEF MiddleAt
  <2>3. RR => InOrder(Rr, 0, 0, rd, rn)
    BY <2>2
  <2> QED BY <2>2, <2>3, <1>4, HandedOver DEF InOrder
<1>10. MiddleAt(rd, rn)'
  <2>1. DiFrom' = 0 /\ RrTo' = IF RN' THEN 0 ELSE Width
    BY <1>2, <1>3 DEF DiFrom, RrTo
  <2>2. InOrder(Rr', 0, RrTo', rd, rn)
    <3>1. CASE RN'
      BY <3>1, <2>1, <1>2, <1>9
    <3>2. CASE ~RR
      BY <3>2, <2>1, <1>2, <1>9
    <3>3. CASE RR /\ full
      <4>1. InOrder(NoBundle, 0, Width, rd, rd)
        BY <1>4 DEF InOrder, NoBundle, Bubble
      <4> QED BY <3>3, <4>1, <2>1, <1>2, <1>9
    <3> QED BY <3>1, <3>2, <3>3, <1>2
  <2> QED BY <2>1, <2>2, <1>2, <1>3, <1>7, <1>9 DEF MiddleAt
<1>11. /\ RobInOrder(prog, Tags, Dispatched, rn) /\ RobHasRoom(rn)
       /\ RobRunsEmpty(rn, de) /\ StageOK(rd, rn, de) /\ Refilled(rd, rn, de)
       /\ NoGaps(rn, de, fe) /\ rn <= de /\ de <= fe /\ fe <= Len(prog)
  <2>1. RnFrom = 0 /\ DeFrom = 0 /\ InFrom = 0
    BY <1>2, FromsIs DEF Behind
  <2> QED BY <2>1, <1>1 DEF RobAt, FrontAt, InOrder
<1>12. ~RnMoves /\ ~DeMoves /\ InFrom = 0
  BY <1>2, FromsIs DEF Behind
<1>13. RN' /\ rn = de /\ 0 < rn => rn = Len(prog) /\ loop /= "trace"
  <2>1. rn = de /\ 0 < rn => rn = Len(prog)
    BY <1>4, <1>11, <1>12 DEF NoGaps
  <2>2. rn = de /\ 0 < rn /\ rn = Len(prog) => fe = de
    BY <1>4, <1>11
  <2>3. fe = de /\ 0 < de => loop /= "trace"
    BY <1>4, <1>11, <1>12 DEF NoGaps
  <2> QED BY <2>1, <2>2, <2>3
<1>14. ~RN' => Tags.size > 0 \/ rn = 0
  <2>1. CASE ~RR
    <3>1. rd < rn
      BY <2>1, <1>2, <1>11 DEF StageOK
    <3>2. rn <= Tags.size + Dispatched
      BY <1>11 DEF RobInOrder
    <3> QED BY <3>1, <3>2, <1>4, <1>9
  <2>2. CASE full
    <3>1. rn > 0 => Width <= RobSize
      BY <1>11 DEF RobHasRoom
    <3> QED BY <3>1, <2>2, <1>4, <1>5
  <2> QED BY <2>1, <2>2, <1>2
<1>15. RobAt(rd, rn, de)'
  <2>1. RobHasRoom(rn)'
    <3>1. RN' => Width <= RobSize /\ Tags.size + (Width - 0) <= RobSize
      <4> DEFINE c == Tags.size
      <4>1. c \in Nat /\ (RN' => ~(RobSize < c + Width))
        BY <1>2, <1>4, <1>5
      <4> HIDE DEF c
      <4>2. RN' => Width <= RobSize /\ c + (Width - 0) <= RobSize
        BY ONLY <4>1, <1>4
      <4> QED BY <4>2 DEF c
    <3>2. /\ stage' = "RenameInst" => RN'
          /\ slot' = 0 /\ Rob' = Rob
      BY <1>2
    <3>3. Rob.Full => Rob.Head = Rob.Tail
      BY <1>11 DEF RobHasRoom
    <3>4. rn > 0 => Width <= RobSize
      BY <1>11 DEF RobHasRoom
    <3> QED BY <3>1, <3>2, <3>3, <3>4, <1>3, <1>7 DEF RobHasRoom
  <2>2. RobRunsEmpty(rn, de)'
    <3>1. RN' /\ 0 < rn /\ loop = "trace" => rn < de
      BY <1>4, <1>11, <1>13
    <3>2. Tags.size = 0 /\ rn > 0 => RN' /\ empty
      BY <1>2, <1>4, <1>11, <1>14 DEF RobRunsEmpty
    <3> QED BY <3>1, <3>2, <1>2, <1>3, <1>4, <1>7, <1>11 DEF RobRunsEmpty
  <2>3. StageOK(rd, rn, de)'
    BY <1>2, <1>4, <1>9 DEF StageOK
  <2>4. Refilled(rd, rn, de)'
    <3>1. ~RN' => rd < rn \/ RobSize < Tags.size + 0 + Width
      BY <1>2, <1>4, <1>5, <1>11 DEF StageOK
    <3>2. RN' /\ rn = de /\ 0 < rn => ~(rn < Len(prog))
      BY <1>4, <1>13
    <3> QED BY <3>1, <3>2, <1>2, <1>3, <1>7, <1>11 DEF Refilled
  <2> QED BY <2>1, <2>2, <2>3, <2>4, <1>3, <1>7, <1>11 DEF RobAt
<1>16. TagsOK'
  BY <1>1, <1>2, <1>3, TagsSame DEF RobAt, BackToRegRead, BackToDispatch
<1>17. IqHasRoom' /\ UnitsSuffice'
  BY <1>1, <1>2, <1>3, RoomSame
<1>18. IqIsRecord'
  BY <1>1, <1>2 DEF IqIsRecord
<1>19. CoreAt(rd, rn, de, fe)'
  BY <1>6, <1>8, <1>10, <1>15, <1>16, <1>17, <1>18
     DEF CoreAt, TraceOrder, LatchesInOrder, FrontAt, MiddleAt, RobAt, TagsOK, IqIsRecord
<1> QED BY <1>3, <1>19 DEF CoreFor

(***************************************************************************)
(* RenameInst: an instruction enters the table behind all it holds.        *)
(***************************************************************************)
Grown(tb, tb2, new) ==
  /\ new \notin tb.held /\ tb2.held = tb.held \cup {new}
  /\ \A t \in tb.held : tb2.seq[t] = tb.seq[t] /\ tb2.dst[t] = tb.dst[t]
  /\ tb2.ready = tb.ready \ {new} /\ tb2.wb = tb.wb
  /\ \A t \in tb.held : tb.seq[t] \in Nat /\ tb.seq[t] < tb2.seq[new]
  /\ tb2.seq[new] \in Nat

(* A younger instruction in the table does not change what an older one    *)
(* knows of its producer.                                                  *)
LEMMA KnownGrows ==
  ASSUME NEW prg, NEW tb, NEW tb2, NEW new, Grown(tb, tb2, new),
         NEW q, ~(tb2.seq[new] < q), NEW r, Known(prg, tb, q, r)
  PROVE  Known(prg, tb2, q, r)
<1> SUFFICES ASSUME NEW t \in tb2.held, Producer(prg, tb2.seq[t], q, r)
             PROVE  t \in tb2.ready \cup tb2.wb
  BY DEF Known
<1>1. t /= new
  BY DEF Producer
<1>2. t \in tb.held /\ Producer(prg, tb.seq[t], q, r)
  BY <1>1 DEF Grown
<1> QED BY <1>1, <1>2 DEF Known, Grown

(* KnownGrows, for everything in a latch.                                  *)
LEMMA LatchGrows ==
  ASSUME NEW prg, NEW tb, NEW tb2, NEW new, Grown(tb, tb2, new),
         NEW latch \in [Slot -> PipeReg], LatchOK(prg, tb, latch, TRUE)
  PROVE  LatchOK(prg, tb2, latch, TRUE)
<1> SUFFICES ASSUME NEW k \in Slot
             PROVE  EntryOK(prg, tb2, latch[k], TRUE)
  BY DEF LatchOK
<1> DEFINE e == latch[k]
<1>1. EntryOK(prg, tb, e, TRUE) /\ e.rob1 \in BOOLEAN /\ e.rob2 \in BOOLEAN
  BY DEF LatchOK, PipeReg
<1> HIDE DEF e
<1>2. CASE e.seq = None
  BY <1>1, <1>2 DEF EntryOK, e
<1>3. CASE e.seq /= None
  <2> DEFINE q == e.seq
  <2>1. /\ Holder(tb, e.dst, q)
        /\ SourceOK(prg, tb, q, prg[q + 1].src1, e.rob1, e.src1, TRUE)
        /\ SourceOK(prg, tb, q, prg[q + 1].src2, e.rob2, e.src2, TRUE)
    BY <1>1, <1>3 DEF EntryOK
  <2> HIDE DEF q
  <2>2. ~(tb2.seq[new] < q) /\ Holder(tb2, e.dst, q)
    BY <2>1 DEF Holder, Grown
  <2>3. \A r, tag : \A waits \in BOOLEAN :
          SourceOK(prg, tb, q, r, waits, tag, TRUE) =>
            SourceOK(prg, tb2, q, r, waits, tag, TRUE)
    <3> SUFFICES ASSUME NEW r, NEW tag, NEW waits \in BOOLEAN,
                        SourceOK(prg, tb, q, r, waits, tag, TRUE)
                 PROVE  SourceOK(prg, tb2, q, r, waits, tag, TRUE)
      OBVIOUS
    <3>1. CASE waits
      <4>1. r /= None /\ Producer(prg, tb.seq[tag], q, r) /\ tag \in tb.held
        BY <3>1 DEF SourceOK
      <4>2. tb2.seq[tag] = tb.seq[tag] /\ tag \in tb2.held
        BY <4>1 DEF Grown
      <4> QED BY <3>1, <4>1, <4>2 DEF SourceOK
    <3>2. CASE ~waits
      <4>1. r = None \/ Known(prg, tb, q, r)
        BY <3>2 DEF SourceOK
      <4> QED BY <3>2, <4>1, <2>2, KnownGrows DEF SourceOK
    <3> QED BY <3>1, <3>2
  <2> QED BY <1>1, <1>3, <2>1, <2>2, <2>3 DEF EntryOK, q, e
<1> QED BY <1>2, <1>3

(* KnownGrows, for everything in the issue queue, the units and Wb.        *)
LEMMA QueueGrows ==
  ASSUME NEW prg, NEW tb, NEW tb2, NEW new, Grown(tb, tb2, new),
         NEW d, ~(tb2.seq[new] < d),
         NEW queue, NEW valid, NEW exc, NEW busy, NEW wb, NEW tags,
         IqOK(prg, tb, d, queue, valid), ExcOK(tb, d, exc, busy),
         WbOK(tb, d, wb, FALSE), NothingLost(tb, d, tags)
  PROVE  /\ IqOK(prg, tb2, d, queue, valid) /\ ExcOK(tb2, d, exc, busy)
         /\ WbOK(tb2, d, wb, FALSE) /\ NothingLost(tb2, d, tags)
<1>1. \A q, tag : Holder(tb, tag, q) =>
        Holder(tb2, tag, q) /\ tag /= new /\ ~(tb2.seq[new] < q)
  BY DEF Holder, Grown
<1>2. \A q, tag : Pending(tb, d, q, tag) => Pending(tb2, d, q, tag)
  BY <1>1 DEF Pending, Grown
<1>3. ExcOK(tb2, d, exc, busy)
  BY <1>2 DEF ExcOK
<1>4. ASSUME NEW q, ~(tb2.seq[new] < q), NEW r, NEW ready, NEW tag,
             WaitsForTag(prg, tb, q, r, ready, tag)
      PROVE  WaitsForTag(prg, tb2, q, r, ready, tag)
  <2>1. Known(prg, tb, q, r) => Known(prg, tb2, q, r)
    BY <1>4, KnownGrows
  <2>2. tag \in tb.held \ (tb.ready \cup tb.wb) =>
          tag \in tb2.held \ (tb2.ready \cup tb2.wb) /\ tb2.seq[tag] = tb.seq[tag]
    BY DEF Grown
  <2> QED BY <1>4, <2>1, <2>2 DEF WaitsForTag
<1>5. ASSUME NEW x \in valid
      PROVE  IqEntryOK(prg, tb2, d, queue[x])
  <2> DEFINE e == queue[x]
  <2>1. IqEntryOK(prg, tb, d, e)
    BY DEF IqOK
  <2> HIDE DEF e
  <2>2. ~(tb2.seq[new] < e.seq)
    BY <2>1, <1>1 DEF IqEntryOK, Pending
  <2>3. /\ WaitsForTag(prg, tb2, e.seq, prg[e.seq + 1].src1, e.rs1_rdy, e.rs1_tag)
        /\ WaitsForTag(prg, tb2, e.seq, prg[e.seq + 1].src2, e.rs2_rdy, e.rs2_tag)
    BY <2>1, <2>2, <1>4 DEF IqEntryOK
  <2> QED BY <2>1, <2>3, <1>2 DEF IqEntryOK, e
<1>6. IqOK(prg, tb2, d, queue, valid)
  BY <1>5 DEF IqOK
<1>7. WbOK(tb2, d, wb, FALSE)
  BY <1>1 DEF WbOK, Grown
<1>8. NothingLost(tb2, d, tags)
  BY DEF NothingLost, Grown
<1> QED BY <1>3, <1>6, <1>7, <1>8

(* Its sources wait for the youngest writers that are held, or for none.   *)
LEMMA SourceRenamed ==
  ASSUME CpuTypeOK, NEW rn \in 0 .. Len(prog),
         RobInOrder(prog, Tags, Dispatched, rn), MapExact(Tags, Rmt),
         NEW tb2, NEW new, Grown(Tags, tb2, new), tb2.seq[new] = rn,
         NEW r \in Reg \cup {None}
  PROVE  SourceOK(prog, tb2, rn, r, IsMapped(r), IF IsMapped(r) THEN Rmt[r] ELSE r, TRUE)
<1>1. /\ rn - Tags.size \in Nat /\ rn \in Nat
      /\ \A t \in Tags.held :
           /\ t \in Tag /\ Tags.seq[t] \in Nat /\ Tags.pos[t] \in Nat
           /\ Tags.seq[t] = (rn - Tags.size) + Tags.pos[t] /\ Tags.seq[t] < rn
      /\ \A q \in rn - Tags.size .. rn - 1 : \E t \in Tags.held : Tags.seq[t] = q
  BY HeldIs, TableIs
<1>2. \A t \in Tags.held : Tags.dst[t] = prog[Tags.seq[t] + 1].dst
  BY DEF RobInOrder
<1>3. CASE IsMapped(r)
  <2> DEFINE tag == Rmt[r]
  <2>1. r \in Reg /\ r /= None /\ tag /= None
    BY <1>3 DEF IsMapped
  <2>2. /\ tag \in Tags.held /\ Tags.dst[tag] = r
        /\ \A t \in Tags.held : Tags.pos[t] > Tags.pos[tag] => Tags.dst[t] /= r
    BY <2>1 DEF MapExact
  <2> HIDE DEF tag
  <2> DEFINE p == Tags.seq[tag]
             c == rn - Tags.size
  <2>3. /\ p \in Nat /\ p < rn /\ p = c + Tags.pos[tag] /\ c \in Nat
        /\ Tags.pos[tag] \in Nat
    BY <1>1, <2>2
  <2>4. prog[p + 1].dst = r
    BY <1>2, <2>2
  <2>5. ASSUME NEW m \in p + 1 .. rn - 1
        PROVE  prog[m + 1].dst /= r
    <3>1. m \in c .. rn - 1 /\ m > p
      <4>1. m \in p + 1 .. rn - 1 /\ rn \in Nat
        BY <2>5, <1>1
      <4> HIDE DEF c, p
      <4> QED BY ONLY <4>1, <2>3
    <3>2. PICK t \in Tags.held : Tags.seq[t] = m
      BY <3>1, <1>1
    <3>3. m = c + Tags.pos[t] /\ Tags.pos[t] \in Nat
      BY <3>2, <1>1
    <3>4. Tags.pos[t] > Tags.pos[tag]
      <4> DEFINE x == Tags.pos[t]
                 y == Tags.pos[tag]
      <4>1. m > p /\ m = c + x /\ p = c + y /\ c \in Nat /\ x \in Nat /\ y \in Nat
        BY <3>1, <3>3, <2>3
      <4> HIDE DEF c, p, x, y
      <4>2. x > y
        BY ONLY <4>1
      <4> QED BY <4>2 DEF x, y
    <3> QED BY <3>2, <3>4, <2>2, <1>2
  <2>6. Producer(prog, p, rn, r)
    BY <2>3, <2>4, <2>5 DEF Producer
  <2>7. tb2.seq[tag] = p /\ tag \in tb2.held
    BY <2>2 DEF Grown
  <2> QED BY <1>3, <2>1, <2>6, <2>7 DEF SourceOK, tag
<1>4. CASE ~IsMapped(r)
  <2> SUFFICES ASSUME r /= None
               PROVE  Known(prog, tb2, rn, r)
    BY <1>4 DEF SourceOK
  <2>1. r \in Reg /\ Rmt[r] = None
    BY <1>4 DEF IsMapped
  <2>2. \A t \in Tags.held : Tags.dst[t] /= r
    BY <2>1 DEF MapExact
  <2>3. Known(prog, Tags, rn, r)
    BY <1>2, <2>2 DEF Known, Producer
  <2>4. ~(tb2.seq[new] < rn)
    BY <1>1
  <2> QED BY <2>3, <2>4, KnownGrows
<1> QED BY <1>3, <1>4

(* The map names the youngest writers of the table with the new            *)
(* instruction in it.                                                      *)
LEMMA MapGrows ==
  ASSUME CpuTypeOK, NEW rn \in 0 .. Len(prog),
         RobInOrder(prog, Tags, Dispatched, rn), MapExact(Tags, Rmt),
         NEW tb2, NEW new \in Tag, Grown(Tags, tb2, new),
         tb2.pos = Tags.pos, Tags.pos[new] = Tags.size,
         NEW dst \in Reg \cup {None}, tb2.dst[new] = dst,
         NEW rmt2, rmt2 = IF dst = None THEN Rmt ELSE [Rmt EXCEPT ![dst] = new]
  PROVE  MapExact(tb2, rmt2)
<1>1. /\ tb2.held = Tags.held \cup {new} /\ new \notin Tags.held
      /\ \A t \in Tags.held : tb2.dst[t] = Tags.dst[t]
  BY DEF Grown
<1>2. /\ Tags.size \in Nat
      /\ \A t \in Tags.held : Tags.pos[t] \in Nat /\ Tags.pos[t] < Tags.size
  BY TagsIs, HeldIs
<1>3. None \notin Reg /\ new /= None /\ Rmt \in [Reg -> Tag \cup {None}]
  BY Types, Sizes, SMTT(30) DEF Reg
<1> SUFFICES ASSUME NEW r \in Reg
             PROVE  /\ rmt2[r] = None => \A t \in tb2.held : tb2.dst[t] /= r
                    /\ rmt2[r] /= None =>
                         /\ rmt2[r] \in tb2.held /\ tb2.dst[rmt2[r]] = r
                         /\ \A t \in tb2.held : tb2.pos[t] > tb2.pos[rmt2[r]]
                                                  => tb2.dst[t] /= r
  BY DEF MapExact
<1>4. CASE r = dst
  <2>1. rmt2[r] = new
    BY <1>3, <1>4
  <2>2. \A t \in tb2.held : ~(Tags.pos[t] > Tags.size)
    BY <1>1, <1>2
  <2> QED BY <2>1, <2>2, <1>1, <1>3, <1>4
<1>5. CASE r /= dst
  <2>1. rmt2[r] = Rmt[r]
    BY <1>3, <1>5
  <2>2. /\ Rmt[r] = None => \A t \in Tags.held : Tags.dst[t] /= r
        /\ Rmt[r] /= None =>
             /\ Rmt[r] \in Tags.held /\ Tags.dst[Rmt[r]] = r
             /\ \A t \in Tags.held : Tags.pos[t] > Tags.pos[Rmt[r]] => Tags.dst[t] /= r
    BY DEF MapExact
  <2> QED BY <2>1, <2>2, <1>1, <1>5
<1> QED BY <1>4, <1>5

(* One instruction is renamed: what becomes of the tags.                   *)
LEMMA RenamedOne ==
  ASSUME CpuTypeOK, NEW rn \in 0 .. Len(prog), rn < Len(prog),
         RobInOrder(prog, Tags, Dispatched, rn), Dispatched <= rn, TagsOK, ~Rob.Full,
         stage = "RenameInst", stage' \in {"RenameInst", "Decode"},
         UNCHANGED <<params, prog, Di, Iq, Exc, Wb>>,
         slot \in Slot, Rn[slot] = Fetched(prog[rn + 1], rn),
         Rr' = [Rr EXCEPT ![slot] = Renamed(Rn[slot])],
         Rmt' = IF prog[rn + 1].dst = None THEN Rmt
                ELSE [Rmt EXCEPT ![prog[rn + 1].dst] = Rob.Tail],
         Rob' = Allocate(Rob, rn, prog[rn + 1].dst)
  PROVE  /\ TagsOK' /\ RobInOrder(prog', Tags', Dispatched', rn + 1)
         /\ Tags'.size = Tags.size + 1
         /\ Rob'.Full => Rob'.Head = Rob'.Tail
         /\ Renamed(Rn[slot]) \in PipeReg /\ Renamed(Rn[slot]).seq = rn
         /\ Rmt' \in [Reg -> Tag \cup {None}]
         /\ Rob' \in RobOf(Seq0, Reg \cup {None})
<1> DEFINE i == prog[rn + 1]
           e == Renamed(Rn[slot])
           new == Rob.Tail
           d == Dispatched
<1>1. /\ i \in InstrType /\ rn \in Nat /\ rn \in Seq0 /\ d \in Nat
      /\ Len(prog) \in Nat
  <2>1. rn \in Nat /\ Len(prog) \in Nat /\ d \in Nat
    BY TableIs
  <2>2. rn + 1 \in 1 .. Len(prog) /\ rn \in Seq0
    BY <2>1, Types, CpuAssumption DEF Seq0
  <2>3. i \in Instr
    BY <2>2, Types
  <2> QED BY <2>1, <2>2, <2>3, InstrAssumption
<1>2. /\ i.op \in Op /\ i.src1 \in Reg \cup {None} /\ i.src2 \in Reg \cup {None}
      /\ i.dst \in Reg \cup {None}
  BY <1>1 DEF InstrType
<1>3. new \in Tag
  BY RobTypes
<1> HIDE DEF i, new, d
<1>4. /\ e.seq = rn /\ e.dst = new /\ e \in PipeReg
      /\ e.rob1 = IsMapped(i.src1) /\ e.rob2 = IsMapped(i.src2)
      /\ e.src1 = IF IsMapped(i.src1) THEN Rmt[i.src1] ELSE i.src1
      /\ e.src2 = IF IsMapped(i.src2) THEN Rmt[i.src2] ELSE i.src2
  <2> DEFINE a == IsMapped(i.src1)
             b == IsMapped(i.src2)
             s1 == IF a THEN Rmt[i.src1] ELSE i.src1
             s2 == IF b THEN Rmt[i.src2] ELSE i.src2
  <2>1. e = [seq |-> rn, op |-> i.op, src1 |-> s1, src2 |-> s2, dst |-> new,
             rob1 |-> a, rob2 |-> b]
    <3>1. Rn[slot] = Fetched(i, rn)
      BY DEF i
    <3> DEFINE f == Rn[slot]
    <3>2. f = [seq |-> rn, op |-> i.op, src1 |-> i.src1, src2 |-> i.src2,
               dst |-> i.dst, rob1 |-> FALSE, rob2 |-> FALSE]
      BY <3>1 DEF Fetched
    <3>3. e = [f EXCEPT !.src1 = IF IsMapped(f.src1) THEN Rmt[f.src1] ELSE f.src1,
                        !.rob1 = IsMapped(f.src1),
                        !.src2 = IF IsMapped(f.src2) THEN Rmt[f.src2] ELSE f.src2,
                        !.rob2 = IsMapped(f.src2), !.dst = new]
      BY DEF Renamed, new
    <3>4. f.src1 = i.src1 /\ f.src2 = i.src2
      BY <3>2
    <3> HIDE DEF e, f
    <3>5. e = [f EXCEPT !.src1 = s1, !.rob1 = a, !.src2 = s2, !.rob2 = b, !.dst = new]
      BY <3>3, <3>4
    <3> HIDE DEF s1, s2, a, b
    <3> QED BY <3>2, <3>5
  <2>2. s1 \in Reg \cup Tag \cup {None} /\ s2 \in Reg \cup Tag \cup {None}
    BY <1>2, Types DEF IsMapped
  <2>3. a \in BOOLEAN /\ b \in BOOLEAN
    BY DEF IsMapped
  <2> HIDE DEF e, s1, s2, a, b
  <2>4. e \in PipeReg
    BY <2>1, <2>2, <2>3, <1>1, <1>2, <1>3 DEF PipeReg
  <2> QED BY <2>1, <2>4 DEF s1, s2, a, b
<1> HIDE DEF e
<1>5. PICK tb2 : tb2 = Tags'
  OBVIOUS
<1>6. /\ tb2.size = Tags.size + 1
      /\ tb2.held = Tags.held \cup {new} /\ new \notin Tags.held
      /\ tb2.pos = Tags.pos /\ Tags.pos[new] = Tags.size
      /\ \A t \in Tag \ {new} : tb2.seq[t] = Tags.seq[t] /\ tb2.dst[t] = Tags.dst[t]
      /\ tb2.seq[new] = rn /\ tb2.dst[new] = i.dst
      /\ tb2.ready = Tags.ready \ {new} /\ tb2.wb = Tags.wb
      /\ Rob'.Full => Rob'.Head = Rob'.Tail
  BY <1>5, AllocateTags DEF i, new
<1>7. /\ rn - Tags.size \in Nat /\ Tags.size \in Nat
      /\ \A t \in Tags.held :
           /\ t \in Tag /\ Tags.seq[t] \in Nat /\ Tags.pos[t] \in Nat
           /\ Tags.seq[t] = (rn - Tags.size) + Tags.pos[t] /\ Tags.seq[t] < rn
  BY HeldIs, TagsIs
<1>8. Grown(Tags, tb2, new)
  BY <1>1, <1>6, <1>7 DEF Grown
<1>9. MapExact(tb2, Rmt')
  BY <1>2, <1>3, <1>6, <1>8, MapGrows DEF TagsOK, i, new
<1>10. /\ SourceOK(prog, tb2, rn, i.src1, e.rob1, e.src1, TRUE)
       /\ SourceOK(prog, tb2, rn, i.src2, e.rob2, e.src2, TRUE)
  <2>1. \A r \in Reg \cup {None} :
          SourceOK(prog, tb2, rn, r, IsMapped(r), IF IsMapped(r) THEN Rmt[r] ELSE r, TRUE)
    BY <1>6, <1>8, SourceRenamed DEF TagsOK
  <2> QED BY <2>1, <1>2, <1>4
<1>11. EntryOK(prog, tb2, e, TRUE)
  BY <1>1, <1>4, <1>6, <1>10, CpuAssumption DEF EntryOK, Holder, i
<1>12. LatchOK(prog, Tags, Rr, TRUE) /\ LatchOK(prog, Tags, Di, TRUE)
  BY DEF TagsOK, LatchesOK, BackToRegRead, BackToDispatch
<1>13. LatchOK(prog, tb2, Rr, TRUE) /\ LatchOK(prog, tb2, Di, TRUE)
  BY <1>8, <1>12, LatchGrows, Types
<1>14. LatchOK(prog, tb2, Rr', TRUE)
  <2>1. Rr' = [Rr EXCEPT ![slot] = e] /\ Rr \in [Slot -> PipeReg]
    BY Types DEF e
  <2>2. DOMAIN Rr' = DOMAIN Rr
        /\ \A k \in DOMAIN Rr : Rr'[k] = e \/ Rr'[k] = Rr[k]
    BY <2>1
  <2> QED BY <2>2, <1>11, <1>13 DEF LatchOK
<1>15. LatchesOK'
  BY <1>5, <1>13, <1>14 DEF LatchesOK, BackToRegRead, BackToDispatch
<1>16. /\ IqOK(prog, tb2, d, Iq.queue, ValidIq) /\ ExcOK(tb2, d, Exc, BusyUnits)
       /\ WbOK(tb2, d, Wb, FALSE) /\ NothingLost(tb2, d, IqTags \cup ExcTags)
  <2>1. ~(tb2.seq[new] < d)
    BY <1>1, <1>6 DEF d
  <2>2. /\ IqOK(prog, Tags, d, Iq.queue, ValidIq) /\ ExcOK(Tags, d, Exc, BusyUnits)
        /\ WbOK(Tags, d, Wb, FALSE) /\ NothingLost(Tags, d, IqTags \cup ExcTags)
    BY DEF TagsOK, BackEndOK, d
  <2> QED BY <2>1, <2>2, <1>8, QueueGrows
<1>17. BackEndOK'
  <2>1. /\ Dispatched' = d /\ ValidIq' = ValidIq /\ BusyUnits' = BusyUnits
        /\ IqTags' = IqTags /\ ExcTags' = ExcTags
    BY SameMachine DEF Dispatched, ValidIq, BusyUnits, IqTags, ExcTags, d
  <2> QED BY <2>1, <1>5, <1>16 DEF BackEndOK, TagsOK
<1>18. TagsOK'
  BY <1>5, <1>9, <1>15, <1>17 DEF TagsOK
<1>19. RobInOrder(prog, tb2, d, rn + 1)
  <2>1. /\ Tags.size <= rn /\ rn <= Tags.size + d
        /\ \A t \in Tags.held : /\ Tags.dst[t] = prog[Tags.seq[t] + 1].dst
                                /\ d <= Tags.seq[t] => t \notin Tags.ready
    BY DEF RobInOrder, d
  <2>2. tb2.size <= rn + 1 /\ rn + 1 <= tb2.size + d /\ (rn + 1) - tb2.size = rn - Tags.size
    BY <2>1, <1>1, <1>6, <1>7
  <2>3. \A t \in Tags.held : /\ tb2.seq[t] = (rn - Tags.size) + tb2.pos[t]
                             /\ tb2.dst[t] = prog[tb2.seq[t] + 1].dst
                             /\ d <= tb2.seq[t] => t \notin tb2.ready
    BY <2>1, <1>6, <1>7, ZenonT(60)
  <2>4. /\ tb2.seq[new] = (rn - Tags.size) + tb2.pos[new]
        /\ tb2.dst[new] = prog[tb2.seq[new] + 1].dst /\ new \notin tb2.ready
    BY <1>1, <1>6, <1>7 DEF i
  <2>5. rn + 1 /= 0
    BY <1>1
  <2> QED BY <2>2, <2>3, <2>4, <2>5, <1>6 DEF RobInOrder
<1>20. RobInOrder(prog', Tags', Dispatched', rn + 1)
  BY <1>5, <1>19 DEF Dispatched, d
<1>21. Rmt' \in [Reg -> Tag \cup {None}]
  BY <1>2, <1>3, Types DEF i, new
<1>22. Rob' \in RobOf(Seq0, Reg \cup {None})
  <2> DEFINE entry == [rdy |-> FALSE, seq |-> rn, dst |-> i.dst]
             next == NextIdx(new)
  <2>1. /\ Rob' = [Rob EXCEPT !.cqueue[new] = entry, !.Tail = next,
                              !.Full = next = Rob.Head]
    BY DEF Allocate, i, new
  <2>2. entry \in [rdy : BOOLEAN, seq : Seq0, dst : Reg \cup {None}]
    BY <1>1, <1>2
  <2>3. next \in Tag
    BY <1>3, Types, NextIdxIs
  <2> HIDE DEF entry, next
  <2> DEFINE queue == [Rob.cqueue EXCEPT ![new] = entry]
             full == next = Rob.Head
  <2>4. Rob' = [Rob EXCEPT !.cqueue = queue, !.Tail = next, !.Full = full]
    BY <2>1
  <2>5. /\ queue \in [Tag -> [rdy : BOOLEAN, seq : Seq0, dst : Reg \cup {None}]]
        /\ full \in BOOLEAN /\ Rob.Head \in Tag
    BY <2>2, <1>3, RobTypes
  <2> HIDE DEF queue, full
  <2>6. Rob' = [cqueue |-> queue, Head |-> Rob.Head, Tail |-> next, Full |-> full]
    BY <2>4, RobTypes
  <2> QED BY <2>3, <2>5, <2>6 DEF RobOf
<1> QED BY <1>4, <1>5, <1>6, <1>18, <1>20, <1>21, <1>22 DEF e

(* The turn of RenameInst's loop as a whole.                               *)
LEMMA RenameTurn ==
  ASSUME CpuTypeOK, NEW rn \in 0 .. Len(prog), NEW de \in 0 .. Len(prog),
         RobInOrder(prog, Tags, Dispatched, rn), Dispatched <= rn, TagsOK,
         stage' \in {"RenameInst", "Decode"}, RenameInst,
         Raw(prog, Rn, slot, Width), slot \in slot .. Width - 1,
         Rn[slot].seq = IF rn < de THEN rn ELSE None,
         Tags.size < RobSize, Rob.Full => Rob.Head = Rob.Tail
  PROVE  LET rn2 == IF rn < de THEN rn + 1 ELSE rn
         IN  /\ TagsOK' /\ RobInOrder(prog', Tags', Dispatched', rn2)
             /\ Tags'.size = IF rn < de THEN Tags.size + 1 ELSE Tags.size
             /\ Rob'.Full => Rob'.Head = Rob'.Tail
             /\ Rmt' \in [Reg -> Tag \cup {None}]
             /\ Rob' \in RobOf(Seq0, Reg \cup {None})
             /\ \E e \in PipeReg :
                  /\ e.seq = Rn[slot].seq /\ Rr' = [Rr EXCEPT ![slot] = e]
                  /\ Rn' = [Rn EXCEPT ![slot] = e]
<1> DEFINE reg == Rn[slot]
<1>1. /\ stage = "RenameInst" /\ UNCHANGED <<params, prog, Di, Iq, Exc, Wb>>
      /\ \/ /\ reg.seq = None /\ Rr' = [Rr EXCEPT ![slot] = reg]
            /\ UNCHANGED <<Rn, Rmt, Rob>>
         \/ /\ reg.seq /= None
            /\ Rn' = [Rn EXCEPT ![slot] = Renamed(reg)]
            /\ Rr' = [Rr EXCEPT ![slot] = Renamed(reg)]
            /\ Rmt' = IF reg.dst = None THEN Rmt ELSE [Rmt EXCEPT ![reg.dst] = Rob.Tail]
            /\ Rob' = Allocate(Rob, reg.seq, reg.dst)
  BY DEF RenameInst, mainVars
<1>2. /\ rn \in Nat /\ de \in Nat /\ Len(prog) \in Nat /\ rn /= None
      /\ slot \in Slot /\ Rn \in [Slot -> PipeReg] /\ Rr \in [Slot -> PipeReg]
      /\ Rmt \in [Reg -> Tag \cup {None}] /\ Rob \in RobOf(Seq0, Reg \cup {None})
      /\ reg \in PipeReg
  <2>1. /\ rn \in Nat /\ Len(prog) \in Nat
        /\ slot \in Slot /\ Rn \in [Slot -> PipeReg] /\ Rr \in [Slot -> PipeReg]
        /\ Rmt \in [Reg -> Tag \cup {None}] /\ Rob \in RobOf(Seq0, Reg \cup {None})
    BY TableIs, Types, AllTypes
  <2>2. de \in Nat
    BY <2>1
  <2>3. rn /= None
    BY <2>1, CpuAssumption
  <2> QED BY <2>1, <2>2, <2>3
<1>3. reg = IF reg.seq = None THEN Bubble ELSE Fetched(prog[reg.seq + 1], reg.seq)
  BY DEF Raw
<1>4. CASE ~(rn < de)
  <2>1. reg.seq = None /\ reg = Bubble /\ Rr' = [Rr EXCEPT ![slot] = reg]
        /\ UNCHANGED <<Rn, Rmt, Rob>>
    BY <1>1, <1>2, <1>3, <1>4
  <2>2. Tags' = Tags /\ Dispatched' = Dispatched
    BY <1>1, <2>1, SameTags DEF Dispatched
  <2>3. EntryOK(prog, Tags, reg, TRUE)
    <3>1. Bubble.seq = None /\ ~Bubble.rob1 /\ ~Bubble.rob2
      BY DEF Bubble
    <3>2. EntryOK(prog, Tags, Bubble, TRUE)
      BY <3>1 DEF EntryOK
    <3> QED BY <3>2, <2>1
  <2>4. LatchOK(prog, Tags, Rr, TRUE) /\ LatchOK(prog, Tags, Di, TRUE)
    BY <1>1 DEF TagsOK, LatchesOK, BackToRegRead, BackToDispatch
  <2>5. DOMAIN Rr' = DOMAIN Rr /\ \A k \in DOMAIN Rr : Rr'[k] = reg \/ Rr'[k] = Rr[k]
    BY <2>1
  <2>6. LatchOK(prog, Tags, Rr', TRUE)
    BY <2>3, <2>4, <2>5 DEF LatchOK
  <2>7. LatchesOK'
    BY <1>1, <2>2, <2>4, <2>6 DEF LatchesOK, BackToRegRead, BackToDispatch
  <2>8. BackEndOK'
    BY <1>1, <2>1, BackEndSame DEF TagsOK
  <2>9. TagsOK'
    BY <2>1, <2>2, <2>7, <2>8 DEF TagsOK
  <2>10. Rn' = [Rn EXCEPT ![slot] = reg]
    BY <2>1, <1>2
  <2>11. RobInOrder(prog', Tags', Dispatched', rn)
    BY <1>1, <2>2
  <2> QED BY <1>2, <1>4, <2>1, <2>2, <2>9, <2>10, <2>11
<1>5. CASE rn < de
  <2>1. /\ reg.seq = rn /\ reg = Fetched(prog[rn + 1], rn)
        /\ Rn' = [Rn EXCEPT ![slot] = Renamed(reg)]
        /\ Rr' = [Rr EXCEPT ![slot] = Renamed(reg)]
        /\ Rmt' = IF reg.dst = None THEN Rmt ELSE [Rmt EXCEPT ![reg.dst] = Rob.Tail]
        /\ Rob' = Allocate(Rob, reg.seq, reg.dst)
    BY <1>1, <1>2, <1>3, <1>5
  <2>2. reg.dst = prog[rn + 1].dst
    BY <2>1 DEF Fetched
  <2>3. ~Rob.Full
    <3>1. Rob.Full => Tags.size = RobSize
      BY CountIs, TagsIs, Zenon
    <3>2. Tags.size \in Nat /\ RobSize \in Nat
      BY TagsIs, Types, Sizes
    <3> QED BY <3>1, <3>2
  <2>4. rn < Len(prog)
    BY <1>2, <1>5
  <2>5. /\ TagsOK' /\ RobInOrder(prog', Tags', Dispatched', rn + 1)
        /\ Tags'.size = Tags.size + 1
        /\ Rob'.Full => Rob'.Head = Rob'.Tail
        /\ Renamed(reg) \in PipeReg /\ Renamed(reg).seq = rn
        /\ Rmt' \in [Reg -> Tag \cup {None}]
        /\ Rob' \in RobOf(Seq0, Reg \cup {None})
    BY <1>1, <1>2, <2>1, <2>2, <2>3, <2>4, RenamedOne
  <2> HIDE DEF reg
  <2> QED BY <1>5, <2>1, <2>5 DEF reg
<1> QED BY <1>4, <1>5

(* RenameInst preserves the invariant, with one more instruction renamed   *)
(* or a bubble passed.                                                     *)
LEMMA RenameInstKeeps ==
  ASSUME NEW rd \in 0 .. Len(prog), NEW rn \in 0 .. Len(prog),
         NEW de \in 0 .. Len(prog), NEW fe \in 0 .. Len(prog),
         CoreAt(rd, rn, de, fe), RenameInst
  PROVE  \E rn2 \in 0 .. Len(prog') :
           CoreFor(rn2)' /\ rn2 - Tags'.size = rn - Tags.size
<1>1. /\ CpuTypeOK /\ IqIsRecord
      /\ FrontAt(rn, de, fe) /\ MiddleAt(rd, rn) /\ RobAt(rd, rn, de)
      /\ TagsOK /\ IqHasRoom /\ UnitsSuffice
  BY CoreIs
<1>2. /\ stage = "RenameInst" /\ TurnThen("Decode")
      /\ UNCHANGED <<mainVars, De, FE, DE, Di, Iq, Exc, Wb,
                     RN, RR, DI, IS, empty, done_flag>>
  BY DEF RenameInst
<1>3. /\ params' = params /\ Width' = Width /\ RobSize' = RobSize /\ Slot' = Slot
      /\ prog' = prog /\ last' = last /\ loop' = loop /\ inst_input' = inst_input
  BY <1>2, SameMachine DEF mainVars
<1>4. /\ params \in Params /\ Width \in Nat \ {0} /\ Slot = 0 .. Width - 1
      /\ slot \in Slot /\ slot \in Nat /\ slot < Width
      /\ rn \in Nat /\ rd \in Nat /\ de \in Nat /\ fe \in Nat /\ Len(prog) \in Nat
      /\ Dispatched \in Nat /\ RobSize \in Nat /\ Tags.size \in Nat
      /\ de <= Len(prog)
      /\ stage \in Stages /\ "Decode" \in Stages
  <2>1. /\ params \in Params /\ Width \in Nat \ {0} /\ Slot = 0 .. Width - 1
        /\ slot \in Slot
        /\ rn \in Nat /\ rd \in Nat /\ de \in Nat /\ fe \in Nat /\ Len(prog) \in Nat
        /\ Dispatched \in Nat /\ RobSize \in Nat /\ Tags.size \in Nat
        /\ stage \in Stages /\ "Decode" \in Stages
    BY <1>1, Numbers, Types, Sizes, StagesIs, TagsIs, TableIs DEF RobAt
  <2>2. slot \in Nat /\ slot < Width /\ de <= Len(prog)
    BY <2>1
  <2> QED BY <2>1, <2>2
<1>5. PICK rn2 \in 0 .. Len(prog) : rn2 = IF rn < de THEN rn + 1 ELSE rn
  BY <1>4
<1>6. /\ stage' \in Stages /\ slot' \in Slot
      /\ \/ slot < Width - 1 /\ stage' = "RenameInst" /\ slot' = slot + 1
         \/ slot = Width - 1 /\ stage' = "Decode" /\ slot' = 0
  BY <1>2, <1>4, TurnIs
<1>7. /\ DiFrom = 0 /\ RrTo = slot /\ RnFrom = slot /\ DeFrom = 0 /\ InFrom = 0
      /\ RnMoves /\ ~DeMoves
  BY <1>2 DEF DiFrom, RrTo, RnFrom, DeFrom, InFrom, RnMoves, DeMoves
<1>8. /\ InOrder(Di, 0, Width, Dispatched, rd) /\ InOrder(Rr, 0, slot, rd, rn)
      /\ InOrder(Rn, slot, Width, rn, de) /\ InOrder(De, 0, Width, de, fe)
      /\ InOrder(inst_input, 0, Width, fe, Len(prog))
      /\ NoGaps(rn, de, fe) /\ HandedOn
      /\ Raw(prog, Rn, slot, Width) /\ Raw(prog, De, 0, Width)
      /\ Raw(prog, inst_input, 0, Width)
  BY <1>1, <1>7 DEF FrontAt, MiddleAt, AsFetched
<1>9. /\ RobInOrder(prog, Tags, Dispatched, rn)
      /\ RN /\ Width <= RobSize /\ Tags.size + (Width - slot) <= RobSize
      /\ Rob.Full => Rob.Head = Rob.Tail
      /\ RobRunsEmpty(rn, de) /\ Refilled(rd, rn, de)
      /\ rn < de => rn = rd + slot
  BY <1>1, <1>2 DEF RobAt, RobHasRoom, StageOK
<1>10. /\ Dispatched <= rd /\ rd <= rn /\ rn <= rd + slot
       /\ rn <= de /\ de <= rn + (Width - slot) /\ Tags.size < RobSize
       /\ slot \in slot .. Width - 1
  <2>1. /\ Dispatched <= rd /\ rd <= rn /\ rn <= rd + (slot - 0)
        /\ rn <= de /\ de <= rn + (Width - slot)
    BY <1>8 DEF InOrder
  <2> DEFINE c == Tags.size
  <2>2. c + (Width - slot) <= RobSize /\ c \in Nat
    BY <1>4, <1>9
  <2> HIDE DEF c
  <2>3. c < RobSize /\ slot \in slot .. Width - 1 /\ slot - 0 = slot
    BY <2>2, <1>4
  <2> QED BY <2>1, <2>3 DEF c
<1>11. Rn[slot].seq = IF rn < de THEN rn ELSE None
  <2>1. rn + (slot - slot) = rn
    BY <1>4
  <2>2. Rn[slot].seq = IF rn + (slot - slot) < de THEN rn + (slot - slot) ELSE None
    BY <1>8, <1>10 DEF InOrder
  <2> QED BY <2>1, <2>2
<1>12. /\ TagsOK' /\ RobInOrder(prog', Tags', Dispatched', rn2)
       /\ Tags'.size = IF rn < de THEN Tags.size + 1 ELSE Tags.size
       /\ Rob'.Full => Rob'.Head = Rob'.Tail
       /\ Rmt' \in [Reg -> Tag \cup {None}]
       /\ Rob' \in RobOf(Seq0, Reg \cup {None})
       /\ \E e \in PipeReg :
            /\ e.seq = Rn[slot].seq /\ Rr' = [Rr EXCEPT ![slot] = e]
            /\ Rn' = [Rn EXCEPT ![slot] = e]
  <2>1. Dispatched <= rn
    BY <1>4, <1>10
  <2>2. stage' \in {"RenameInst", "Decode"}
    BY <1>6
  <2> QED BY <2>1, <2>2, <1>1, <1>5, <1>8, <1>9, <1>10, <1>11, RenameTurn
<1>13. /\ Rr' \in [Slot -> PipeReg] /\ Rn' \in [Slot -> PipeReg]
       /\ Rr'[slot].seq = Rn[slot].seq /\ Rn'[slot].seq = Rn[slot].seq
       /\ \A k \in Slot \ {slot} : Rr'[k] = Rr[k] /\ Rn'[k] = Rn[k]
  <2>1. PICK e \in PipeReg :
          /\ e.seq = Rn[slot].seq /\ Rr' = [Rr EXCEPT ![slot] = e]
          /\ Rn' = [Rn EXCEPT ![slot] = e]
    BY <1>12
  <2>2. Rr \in [Slot -> PipeReg] /\ Rn \in [Slot -> PipeReg]
    BY <1>1, Types
  <2> QED BY <2>1, <2>2, <1>4
<1>14. CpuTypeOK'
  BY <1>1, <1>2, <1>3, <1>6, <1>12, <1>13, TypeKept, Types, AllTypes
<1>15. /\ DiFrom' = 0 /\ RrTo' = slot + 1 /\ RnFrom' = slot + 1
       /\ DeFrom' = 0 /\ InFrom' = 0 /\ RnMoves' /\ ~DeMoves'
  <2>1. RN'
    BY <1>2, <1>9
  <2>2. slot = Width - 1 => Width = slot + 1
    BY <1>4
  <2> QED BY <2>1, <2>2, <1>3, <1>6 DEF DiFrom, RrTo, RnFrom, DeFrom, InFrom, RnMoves, DeMoves
<1>16. InOrder(Rn', slot + 1, Width, rn2, de)
  <2>1. \A k \in slot .. Width - 1 :
          Rn[k].seq = IF rn + (k - slot) < de THEN rn + (k - slot) ELSE None
    BY <1>8 DEF InOrder
  <2>2. rn2 <= de /\ de <= rn2 + (Width - (slot + 1))
    BY <1>4, <1>5, <1>10
  <2>3. ASSUME NEW k \in slot + 1 .. Width - 1
        PROVE  Rn'[k].seq = IF rn2 + (k - (slot + 1)) < de
                            THEN rn2 + (k - (slot + 1)) ELSE None
    <3>1. k \in slot .. Width - 1 /\ k - slot >= 1 /\ k \in Nat /\ k \in Slot \ {slot}
      BY <1>4
    <3>2. Rn'[k].seq = IF rn + (k - slot) < de THEN rn + (k - slot) ELSE None
      BY <2>1, <3>1, <1>13
    <3>3. CASE rn < de
      <4>1. rn2 + (k - (slot + 1)) = rn + (k - slot)
        BY <3>3, <3>1, <1>4, <1>5
      <4> QED BY <3>2, <4>1
    <3>4. CASE ~(rn < de)
      <4>1. ~(rn2 + (k - (slot + 1)) < de) /\ ~(rn + (k - slot) < de)
        BY <3>4, <3>1, <1>4, <1>5
      <4> QED BY <3>2, <4>1
    <3> QED BY <3>3, <3>4
  <2> QED BY <2>2, <2>3 DEF InOrder
<1>17. InOrder(Rr', 0, slot + 1, rd, rn2)
  <2>1. \A k \in 0 .. slot - 1 :
          Rr[k].seq = IF rd + (k - 0) < rn THEN rd + (k - 0) ELSE None
    BY <1>8 DEF InOrder
  <2>2. rd <= rn2 /\ rn2 <= rd + ((slot + 1) - 0)
    BY <1>4, <1>5, <1>10
  <2>3. ASSUME NEW k \in 0 .. (slot + 1) - 1
        PROVE  Rr'[k].seq = IF rd + (k - 0) < rn2 THEN rd + (k - 0) ELSE None
    <3>1. CASE k = slot
      <4>1. rn < de => rd + (k - 0) < rn2 /\ rd + (k - 0) = rn
        BY <3>1, <1>4, <1>5, <1>9
      <4>2. ~(rn < de) => ~(rd + (k - 0) < rn2)
        BY <3>1, <1>4, <1>5, <1>10
      <4> QED BY <3>1, <4>1, <4>2, <1>11, <1>13
    <3>2. CASE k /= slot
      <4>1. k \in 0 .. slot - 1 /\ k \in Slot \ {slot} /\ k \in Nat
        BY <3>2, <1>4
      <4>2. rd + (k - 0) < rn2 <=> rd + (k - 0) < rn
        BY <4>1, <1>4, <1>5, <1>9
      <4> QED BY <4>1, <4>2, <2>1, <1>13
    <3> QED BY <3>1, <3>2
  <2> QED BY <2>2, <2>3 DEF InOrder
<1>18. FrontAt(rn2, de, fe)'
  <2>1. InOrder(Rn, RnFrom, Width, rn2, de)' /\ InOrder(De, DeFrom, Width, de, fe)'
        /\ InOrder(inst_input, InFrom, Width, fe, Len(prog))'
    BY <1>2, <1>3, <1>8, <1>15, <1>16
  <2>2. NoGaps(rn2, de, fe)'
    <3>1. IsBubbles(inst_input)' <=> IsBubbles(inst_input)
      BY <1>3 DEF IsBubbles
    <3> QED BY <3>1, <1>2, <1>3, <1>6, <1>7, <1>8, <1>15 DEF NoGaps
  <2>3. AsFetched'
    <3>1. \A k \in slot + 1 .. Width - 1 :
            k \in slot .. Width - 1 /\ k \in Slot \ {slot}
      BY <1>4
    <3>2. Raw(prog, Rn', slot + 1, Width)
      BY <3>1, <1>8, <1>13 DEF Raw
    <3>3. Raw(prog', Rn', RnFrom', Width') /\ Raw(prog', De', 0, Width')
          /\ Raw(prog', inst_input', 0, Width')
      BY <3>2, <1>2, <1>3, <1>8, <1>15
    <3> QED BY <3>3 DEF AsFetched
  <2>4. HandedOn'
    <3>1. \A k \in 0 .. slot - 1 : Rn[k].seq = Rr[k].seq /\ k \in Slot \ {slot}
      BY <1>4, <1>7, <1>8 DEF HandedOn
    <3>2. \A k \in 0 .. (slot + 1) - 1 : k = slot \/ k \in 0 .. slot - 1
      BY <1>4
    <3>3. \A k \in 0 .. (slot + 1) - 1 : Rn'[k].seq = Rr'[k].seq
      BY <3>1, <3>2, <1>13
    <3> QED BY <3>3, <1>15 DEF HandedOn
  <2> QED BY <2>1, <2>2, <2>3, <2>4 DEF FrontAt
<1>19. MiddleAt(rd, rn2)'
  <2>1. Dispatched' = Dispatched
    BY <1>2 DEF Dispatched
  <2> QED BY <2>1, <1>2, <1>3, <1>8, <1>15, <1>17 DEF MiddleAt
<1>20. PICK c2 \in Nat : c2 = Tags'.size /\ c2 = IF rn < de THEN Tags.size + 1 ELSE Tags.size
  BY <1>4, <1>12
<1>21. RobAt(rd, rn2, de)'
  <2> DEFINE c == Tags.size
  <2>1. RobHasRoom(rn2)'
    <3>1. c2 + (Width - (slot + 1)) <= RobSize
      <4>1. c \in Nat /\ c + (Width - slot) <= RobSize
            /\ c2 = IF rn < de THEN c + 1 ELSE c
        BY <1>4, <1>9, <1>20
      <4> HIDE DEF c
      <4> QED BY <4>1, <1>4
    <3>2. stage' = "RenameInst" => slot' = slot + 1
      BY <1>6
    <3> QED BY <3>1, <3>2, <1>2, <1>3, <1>9, <1>12, <1>20 DEF RobHasRoom
  <2>2. RobRunsEmpty(rn2, de)'
    <3>1. /\ c = 0 /\ rn > 0 => empty /\ (loop = "trace" => rn < de)
          /\ empty => done_flag
          /\ done_flag => c < rn
      BY <1>2, <1>9 DEF RobRunsEmpty
    <3>2. c \in Nat /\ c2 = IF rn < de THEN c + 1 ELSE c
      BY <1>4, <1>20
    <3> HIDE DEF c
    <3>3. /\ c2 = 0 /\ rn2 > 0 => empty /\ loop /= "trace"
          /\ done_flag => c2 < rn2
      BY <3>1, <3>2, <1>4, <1>5
    <3>4. loop = "trace" \/ loop = "drain"
      BY <1>1, Types
    <3>5. stage' = "RenameInst" \/ stage' = "Decode"
      BY <1>6
    <3> QED BY <3>1, <3>3, <3>4, <3>5, <1>2, <1>3, <1>20 DEF RobRunsEmpty
  <2>3. StageOK(rd, rn2, de)'
    <3>1. rn2 < de => rn2 = rd + (slot + 1)
      BY <1>4, <1>5, <1>9
    <3> QED BY <3>1, <1>6 DEF StageOK
  <2>4. Refilled(rd, rn2, de)'
    <3>1. rn < de => rd < rn2
      BY <1>4, <1>5, <1>10
    <3>2. ~(rn < de) => rn = de /\ rn2 = rn /\ c2 = c
      BY <1>4, <1>5, <1>10, <1>20
    <3>3. 2 * Width <= RobSize =>
            /\ rn = de /\ 0 < rn /\ rn < Len(prog) => rd < rn
            /\ done_flag => loop = "drain" /\ rn = Len(prog) /\ c = 0
      BY <1>2, <1>9 DEF Refilled
    <3> HIDE DEF c
    <3>4. 2 * Width <= RobSize =>
            /\ 0 < rn2 /\ rn2 < Len(prog) => rd < rn2
            /\ done_flag => loop = "drain" /\ rn2 = Len(prog) /\ c2 = 0
      BY <3>1, <3>2, <3>3, <1>4
    <3>5. stage' = "RenameInst" \/ stage' = "Decode"
      BY <1>6
    <3> QED BY <3>4, <3>5, <1>2, <1>3, <1>20 DEF Refilled
  <2> QED BY <2>1, <2>2, <2>3, <2>4, <1>12 DEF RobAt
<1>22. IqHasRoom' /\ UnitsSuffice'
  BY <1>1, <1>2, <1>3, <1>6, RoomSame
<1>23. IqIsRecord'
  BY <1>1, <1>2 DEF IqIsRecord
<1>24. CoreAt(rd, rn2, de, fe)'
  BY <1>12, <1>14, <1>18, <1>19, <1>21, <1>22, <1>23
     DEF CoreAt, TraceOrder, LatchesInOrder, FrontAt, MiddleAt, RobAt, TagsOK, IqIsRecord
<1>25. rn2 - Tags'.size = rn - Tags.size
  <2>1. PICK size \in Nat : size = Tags.size
    BY <1>4
  <2>2. c2 = (IF rn < de THEN size + 1 ELSE size) /\ Tags'.size = c2
    BY <1>20, <2>1, Zenon
  <2>3. rn2 - c2 = rn - size
    BY <1>4, <1>5, <2>2
  <2> QED BY <2>1, <2>2, <2>3, Zenon
<1> QED BY <1>3, <1>24, <1>25 DEF CoreFor

(***************************************************************************)
(* The end, the beginning, and every step.                                 *)
(***************************************************************************)
LEMMA StutterKeeps ==
  ASSUME NEW rd \in 0 .. Len(prog), NEW rn \in 0 .. Len(prog),
         NEW de \in 0 .. Len(prog), NEW fe \in 0 .. Len(prog),
         CoreAt(rd, rn, de, fe), UNCHANGED vars
  PROVE  CoreFor(rn)'
<1>1. /\ CpuTypeOK /\ IqIsRecord
      /\ FrontAt(rn, de, fe) /\ MiddleAt(rd, rn) /\ RobAt(rd, rn, de)
      /\ TagsOK /\ IqHasRoom /\ UnitsSuffice
  BY CoreIs
<1>2. /\ params' = params /\ prog' = prog /\ last' = last /\ loop' = loop
      /\ inst_input' = inst_input /\ stage' = stage /\ slot' = slot
      /\ De' = De /\ Rn' = Rn /\ Rr' = Rr /\ Di' = Di /\ Rmt' = Rmt
      /\ Rob' = Rob /\ Iq' = Iq /\ Exc' = Exc /\ Wb' = Wb
      /\ FE' = FE /\ DE' = DE /\ RN' = RN /\ RR' = RR /\ DI' = DI /\ IS' = IS
      /\ empty' = empty /\ done_flag' = done_flag
  BY DEF vars
<1>3. /\ Width' = Width /\ RobSize' = RobSize /\ IqSize' = IqSize /\ Slot' = Slot
      /\ Unit' = Unit /\ Entry' = Entry /\ Tags' = Tags /\ Dispatched' = Dispatched
  BY <1>2, SameMachine, SameTags DEF Dispatched
<1>4. CpuTypeOK'
  BY <1>1, <1>2, TypeKept, Types, AllTypes
<1>5. /\ DiFrom' = DiFrom /\ RrTo' = RrTo /\ RnFrom' = RnFrom /\ DeFrom' = DeFrom
      /\ InFrom' = InFrom /\ RnMoves' = RnMoves /\ DeMoves' = DeMoves
  BY <1>2, <1>3 DEF DiFrom, RrTo, RnFrom, DeFrom, InFrom, RnMoves, DeMoves
<1>6. FrontAt(rn, de, fe)'
  <2>1. NoGaps(rn, de, fe)'
    <3>1. IsBubbles(inst_input)' <=> IsBubbles(inst_input)
      BY <1>2, <1>3 DEF IsBubbles
    <3> QED BY <3>1, <1>1, <1>2, <1>5 DEF FrontAt, NoGaps
  <2>2. AsFetched' /\ HandedOn'
    BY <1>1, <1>2, <1>3, <1>5 DEF FrontAt, AsFetched, HandedOn, Raw
  <2> QED BY <2>1, <2>2, <1>1, <1>2, <1>3, <1>5 DEF FrontAt
<1>7. MiddleAt(rd, rn)'
  BY <1>1, <1>2, <1>3, <1>5 DEF MiddleAt
<1>8. RobAt(rd, rn, de)'
  BY <1>1, <1>2, <1>3 DEF RobAt, RobHasRoom, RobRunsEmpty, StageOK, Refilled
<1>9. TagsOK'
  <2>1. ValidIq' = ValidIq /\ BusyUnits' = BusyUnits
        /\ IqTags' = IqTags /\ ExcTags' = ExcTags
    BY <1>2, <1>3 DEF ValidIq, BusyUnits, IqTags, ExcTags
  <2> QED BY <2>1, <1>1, <1>2, <1>3 DEF TagsOK, LatchesOK, BackEndOK
<1>10. IqHasRoom' /\ UnitsSuffice'
  <2>1. ValidIq' = ValidIq /\ \A k : UnitsFrom(k)' = UnitsFrom(k)
    BY <1>2, <1>3 DEF ValidIq, UnitsFrom
  <2> QED BY <2>1, <1>1, <1>2, <1>3 DEF IqHasRoom, UnitsSuffice
<1>11. IqIsRecord'
  BY <1>1, <1>2 DEF IqIsRecord
<1>12. CoreAt(rd, rn, de, fe)'
  BY <1>4, <1>6, <1>7, <1>8, <1>9, <1>10, <1>11
     DEF CoreAt, TraceOrder, LatchesInOrder, FrontAt, MiddleAt, RobAt, TagsOK, IqIsRecord
<1> QED BY <1>2, <1>12 DEF CoreFor

(* The core starts with its variables in shape.                            *)
LEMMA InitTypes == Init => CpuTypeOK
<1> SUFFICES ASSUME Init
             PROVE  CpuTypeOK
  OBVIOUS
<1>1. params \in Params
  BY DEF Init
<1>2. /\ RobSize \in Nat \ {0} /\ IqSize \in Nat /\ Width \in Nat \ {0}
      /\ Tag = 0 .. RobSize - 1 /\ Slot = 0 .. Width - 1
      /\ None \notin Nat /\ NReg \in Nat \ {0} /\ MaxTrace \in Nat \ {0}
  BY <1>1, Sizes
<1>3. 0 \in Slot /\ 0 \in Tag /\ RobSize - 1 \in Tag /\ 0 \in Reg /\ 0 \in Seq0
      /\ 0 \in Op
  BY <1>2 DEF Reg, Seq0, Op
<1>4. /\ prog \in Seq(Instr) /\ Len(prog) <= MaxTrace
      /\ last \in BOOLEAN /\ loop \in {"trace", "drain"}
      /\ stage \in Stages /\ slot \in Slot
      /\ {FE, DE, RN, RR, DI, IS, empty, done_flag} \subseteq BOOLEAN
  <2>1. prog = <<>> /\ last = FALSE /\ loop = "trace" /\ stage = "Read" /\ slot = 0
    BY DEF Init
  <2>2. {FE, DE, RN, RR, DI, IS, empty, done_flag} \subseteq BOOLEAN
    BY DEF Init
  <2>3. <<>> \in Seq(Instr) /\ Len(<<>>) = 0 /\ 0 <= MaxTrace
    BY <1>2
  <2> QED BY <2>1, <2>2, <2>3, <1>3, StagesIs
<1>5. {inst_input, De, Rn, Rr, Di} \subseteq [Slot -> PipeReg]
  <2>1. Bubble \in PipeReg
    BY <1>3 DEF Bubble, PipeReg
  <2> QED BY <2>1 DEF Init, NoBundle
<1>6. Rmt \in [Reg -> Tag \cup {None}]
  BY DEF Init
<1>7. Rob \in RobOf(Seq0, Reg \cup {None})
  BY <1>3 DEF Init, RobOf, EmptyRob
<1>8. /\ Iq.queue \in [Entry -> IqRegOf(Seq0, Op, Tag, Reg \cup Tag \cup {None})]
      /\ Iq.cnt \in 0 .. IqSize /\ Iq.seq_max \in 1 .. MaxTrace + 1
  <2>1. InvEntry \in IqRegOf(Seq0, Op, Tag, Reg \cup Tag \cup {None})
    BY <1>3 DEF InvEntry, IqRegOf
  <2> QED BY <2>1, <1>2 DEF Init, EmptyIq
<1>9. Exc \in ExcOf(Seq0, Tag)
  BY <1>3 DEF Init, ExcOf, IdleUnits
<1>10. Wb \in [Unit -> WbReg]
  BY <1>3 DEF Init, WbReg
<1> QED BY <1>1, <1>4, <1>5, <1>6, <1>7, <1>8, <1>9, <1>10 DEF CpuTypeOK

(* The core starts with nothing read, nothing renamed and everything       *)
(* empty.                                                                  *)
LEMMA InitCore == Init => CoreInv
<1> SUFFICES ASSUME Init
             PROVE  CoreAt(0, 0, 0, 0) /\ Len(prog) = 0
  BY DEF CoreInv
<1>1. CpuTypeOK
  BY InitTypes
<1>2. /\ prog = <<>> /\ last = FALSE /\ loop = "trace" /\ inst_input = NoBundle
      /\ stage = "Read" /\ slot = 0
      /\ De = NoBundle /\ Rn = NoBundle /\ Rr = NoBundle /\ Di = NoBundle
      /\ Rmt = [r \in Reg |-> None] /\ Rob = EmptyRob(0) /\ Iq = EmptyIq
      /\ Exc = IdleUnits /\ Wb = [u \in Unit |-> [v |-> FALSE, seq |-> 0, Rob_tag |-> 0]]
      /\ DE = FALSE /\ RN = FALSE /\ empty = FALSE /\ done_flag = FALSE
      /\ params \in Params
  BY DEF Init
<1>3. Len(prog) = 0 /\ Width \in Nat \ {0} /\ Slot = 0 .. Width - 1 /\ None \notin Nat
      /\ RobSize \in Nat \ {0}
  BY <1>2, Sizes
<1>4. /\ RnFrom = 0 /\ DeFrom = 0 /\ InFrom = Width /\ ~RnMoves /\ ~DeMoves
      /\ DiFrom = 0 /\ RrTo = Width
  BY <1>2 DEF DiFrom, RrTo, RnFrom, DeFrom, InFrom, RnMoves, DeMoves
<1>5. /\ Iq.queue = [i \in Entry |-> InvEntry] /\ Iq.cnt = 0 /\ Iq.seq_max = 1
      /\ Dispatched = 0 /\ IqIsRecord
  BY <1>2 DEF EmptyIq, Dispatched, IqIsRecord
<1>6. \A k \in Slot : NoBundle[k] = Bubble /\ NoBundle[k].seq = None
  BY DEF NoBundle, Bubble
<1>7. \A lo \in {0, Width} : InOrder(NoBundle, lo, Width, 0, 0)
  BY <1>3, <1>6 DEF InOrder
<1>8. FrontAt(0, 0, 0)
  <2>1. NoGaps(0, 0, 0)
    BY <1>2, <1>3, <1>4 DEF NoGaps
  <2>2. AsFetched
    BY <1>2, <1>3, <1>4, <1>6 DEF AsFetched, Raw
  <2>3. HandedOn
    BY <1>2, <1>4, <1>6 DEF HandedOn
  <2> QED BY <2>1, <2>2, <2>3, <1>2, <1>3, <1>4, <1>7 DEF FrontAt
<1>9. MiddleAt(0, 0)
  BY <1>2, <1>4, <1>5, <1>7 DEF MiddleAt
<1>10. /\ Tags.size = 0 /\ Tags.held = {} /\ Tags.ready = {} /\ Rob.Full = FALSE
  <2>1. Rob.Full = FALSE /\ Rob.Head = Rob.Tail
        /\ \A t \in Tag : ~Rob.cqueue[t].rdy
    BY <1>2 DEF EmptyRob
  <2>2. Tags.size = 0
    <3>1. RobCount(Rob) = Rob.Tail - Rob.Head /\ Rob.Head \in Nat
      BY <2>1, <1>1, <1>3, CountIs, RobTypes
    <3> QED BY <3>1, <2>1, <1>1, TagsIs
  <2>3. \A t \in Tag : Pos(t) \in 0 .. RobSize - 1
    BY <1>1, PosIs
  <2>4. Tags.held = {}
    BY <2>2, <2>3, <1>1, <1>3, TagsIs
  <2>5. Tags.ready = {}
    BY <2>1, <1>1, TagsIs
  <2> QED BY <2>1, <2>2, <2>4, <2>5
<1>11. RobAt(0, 0, 0)
  <2>1. RobInOrder(prog, Tags, Dispatched, 0)
    BY <1>5, <1>10 DEF RobInOrder
  <2>2. RobHasRoom(0) /\ RobRunsEmpty(0, 0) /\ StageOK(0, 0, 0) /\ Refilled(0, 0, 0)
    BY <1>2, <1>3, <1>10 DEF RobHasRoom, RobRunsEmpty, StageOK, Refilled
  <2> QED BY <2>1, <2>2 DEF RobAt
<1>12. ValidIq = {} /\ BusyUnits = {} /\ \A k \in 1 .. 5 : UnitsFrom(k) = {}
  <2>1. \A i \in Entry : Iq.queue[i].v = "INV"
    BY <1>5 DEF InvEntry
  <2>2. \A u \in Unit : Exc[u].cnt = None
    BY <1>2 DEF IdleUnits
  <2>3. ValidIq = {}
    BY <2>1 DEF ValidIq
  <2>4. BusyUnits = {}
    BY <2>2 DEF BusyUnits
  <2>5. \A k \in 1 .. 5 : None \notin k .. 5
    BY <1>3
  <2> QED BY <2>2, <2>3, <2>4, <2>5 DEF UnitsFrom
<1>13. TagsOK
  <2>1. MapExact(Tags, Rmt)
    BY <1>2, <1>10 DEF MapExact
  <2>2. \A looked : EntryOK(prog, Tags, Bubble, looked)
    BY DEF EntryOK, Bubble
  <2>3. LatchesOK
    BY <2>2, <1>2, <1>6 DEF LatchesOK, LatchOK, NoBundle
  <2>4. \A u \in DOMAIN Wb : ~Wb[u].v
    BY <1>2
  <2>5. BackEndOK
    BY <2>4, <1>10, <1>12
       DEF BackEndOK, IqOK, ExcOK, IqTags, ExcTags, TagsOf, WbOK, NothingLost
  <2> QED BY <2>1, <2>3, <2>5 DEF TagsOK
<1>14. IqHasRoom /\ UnitsSuffice
  <2>1. Cardinality({}) = 0
    BY FS_EmptySet
  <2>2. \A k \in 1 .. 5 : 0 <= (6 - k) * Width
    <3>1. \A k \in 1 .. 5 : (6 - k) * Width \in Nat
      BY <1>3
    <3> QED BY <3>1
  <2>3. IqHasRoom
    BY <2>1, <1>2, <1>5, <1>12 DEF IqHasRoom
  <2>4. UnitsSuffice
    BY <2>1, <2>2, <1>2, <1>12 DEF UnitsSuffice
  <2> QED BY <2>3, <2>4
<1> QED BY <1>1, <1>3, <1>5, <1>8, <1>9, <1>11, <1>13, <1>14, CoreIs

(* The invariant: every instruction read is where program order puts it,   *)
(* and every tag stands for what its holders take it to be.                *)
THEOREM CoreInductive == Spec => []CoreInv
<1>1. Init => CoreInv
  BY InitCore
<1>2. CoreInv /\ [Next]_vars => CoreInv'
  <2> SUFFICES ASSUME CoreInv, [Next]_vars
               PROVE  CoreInv'
    OBVIOUS
  <2>1. PICK rd \in 0 .. Len(prog), rn \in 0 .. Len(prog),
             de \in 0 .. Len(prog), fe \in 0 .. Len(prog) : CoreAt(rd, rn, de, fe)
    BY DEF CoreInv
  <2>2. \A n : CoreFor(n)' => CoreInv'
    BY DEF CoreFor, CoreInv
  <2>3. CASE BeginCycle
    BY <2>1, <2>3, BeginCycleKeeps, <2>2
  <2>4. CASE Read
    <3>1. CASE ReadNothing
      BY <3>1, <2>1, ReadNothingKeeps, <2>2
    <3>2. ASSUME NEW n \in 0 .. Width, NEW bundle \in [1 .. n -> Instr],
                 ReadTrace(n, bundle)
          PROVE  CoreInv'
      BY <3>2, <2>1, ReadTraceKeeps, <2>2
    <3> QED BY <3>1, <3>2, <2>4 DEF Read
  <2>5. CASE Retire
    BY <2>1, <2>5, RetireKeeps, <2>2
  <2>6. CASE Writeback
    BY <2>1, <2>6, WritebackKeeps, <2>2
  <2>7. CASE Execute
    BY <2>1, <2>7, ExecuteKeeps, <2>2
  <2>8. CASE Issue
    BY <2>1, <2>8, IssueKeeps, <2>2
  <2>9. CASE Dispatch
    BY <2>1, <2>9, DispatchKeeps, <2>2
  <2>10. CASE Enqueue
    BY <2>1, <2>10, EnqueueKeeps, <2>2
  <2>11. CASE RegRead
    BY <2>1, <2>11, RegReadKeeps, <2>2
  <2>12. CASE Rename
    BY <2>1, <2>12, RenameKeeps, <2>2
  <2>13. CASE RenameInst
    BY <2>1, <2>13, RenameInstKeeps, <2>2
  <2>14. CASE Decode
    BY <2>1, <2>14, DecodeKeeps, <2>2
  <2>15. CASE Fetch
    BY <2>1, <2>15, FetchKeeps, <2>2
  <2>16. CASE Advance_Cycle
    BY <2>1, <2>16, AdvanceKeeps, <2>2
  <2>17. CASE UNCHANGED vars
    BY <2>1, <2>17, StutterKeeps, <2>2
  <2> QED BY <2>3, <2>4, <2>5, <2>6, <2>7, <2>8, <2>9, <2>10, <2>11, <2>12, <2>13,
             <2>14, <2>15, <2>16, <2>17 DEF Next, BackEnd, FrontEnd, End
<1> QED BY <1>1, <1>2, PTL DEF Spec

(***************************************************************************)
(* What follows from the invariant.                                        *)
(***************************************************************************)

(* Latches, queues and tables keep their shape, and tags and sequence      *)
(* numbers stay in range, through every stage of every cycle.              *)
THEOREM CpuTypesKept == Spec => []CpuTypeOK
<1>1. CoreInv => CpuTypeOK
  BY DEF CoreInv, CoreAt
<1> QED BY <1>1, CoreInductive, PTL

(* The ring by distance from the head, as OutOfOrderProps counts it.       *)
LEMMA RobTagIs ==
  ASSUME CpuTypeOK
  PROVE  /\ \A j \in 1 .. Tags.size : /\ RobTag(Rob, j) \in Tags.held
                                      /\ Tags.pos[RobTag(Rob, j)] = j - 1
         /\ \A t \in Tags.held : /\ Tags.pos[t] + 1 \in 1 .. Tags.size
                                 /\ t = RobTag(Rob, Tags.pos[t] + 1)
         /\ InRob = Tags.held /\ Tags.size = RobCount(Rob) /\ Tags.size \in Nat
<1>1. /\ RobSize \in Nat \ {0} /\ Tag = 0 .. RobSize - 1
      /\ Rob.Head \in 0 .. RobSize - 1
      /\ Tags.size \in 0 .. RobSize /\ Tags.size = RobCount(Rob)
  BY Types, Sizes, RobTypes, TagsIs
<1>2. ASSUME NEW j \in 1 .. Tags.size
      PROVE  RobTag(Rob, j) \in Tags.held /\ Tags.pos[RobTag(Rob, j)] = j - 1
  <2> DEFINE a == Rob.Head + j - 1
  <2>1. a \in 0 .. 2 * RobSize - 1
    BY <1>1
  <2>2. a % RobSize = IF a >= RobSize THEN a - RobSize ELSE a
    <3> HIDE DEF a
    <3> QED BY <1>1, <2>1, Wrap
  <2>3. RobTag(Rob, j) = IF a >= RobSize THEN a - RobSize ELSE a
    BY <2>2 DEF RobTag
  <2>4. RobTag(Rob, j) \in Tag /\ Pos(RobTag(Rob, j)) = j - 1
    BY <2>3, <1>1 DEF Pos
  <2> QED BY <2>4, <1>1, TagsIs
<1>3. ASSUME NEW t \in Tags.held
      PROVE  Tags.pos[t] + 1 \in 1 .. Tags.size /\ t = RobTag(Rob, Tags.pos[t] + 1)
  <2>1. t \in Tag /\ Tags.pos[t] \in 0 .. RobSize - 1 /\ Tags.pos[t] < Tags.size
    BY TagsIs
  <2> DEFINE j == Tags.pos[t] + 1
  <2>2. j \in 1 .. Tags.size /\ j - 1 = Tags.pos[t]
    BY <2>1, <1>1
  <2> HIDE DEF j
  <2>3. RobTag(Rob, j) \in Tag /\ Tags.pos[RobTag(Rob, j)] = Tags.pos[t]
    BY <2>2, <1>2, TagsIs
  <2>4. t = RobTag(Rob, j)
    BY <2>1, <2>3, TagsIs
  <2> QED BY <2>2, <2>4 DEF j
<1>4. InRob = Tags.held
  BY <1>1, <1>2, <1>3 DEF InRob
<1> QED BY <1>1, <1>2, <1>3, <1>4

(* The instructions in the reorder buffer are consecutive, and end with    *)
(* the youngest renamed.                                                   *)
LEMMA RobSeqsAre ==
  ASSUME CpuTypeOK, NEW rn \in 0 .. Len(prog),
         RobInOrder(prog, Tags, Dispatched, rn)
  PROVE  RobSeqs = rn - Tags.size .. rn - 1
<1>1. RobSeqs = {Tags.seq[t] : t \in Tags.held}
  <2>1. \A t \in Tags.held : Rob.cqueue[t].seq = Tags.seq[t]
    BY TagsIs
  <2> QED BY <2>1, RobTagIs DEF RobSeqs
<1>2. /\ rn - Tags.size \in Nat /\ rn \in Nat
      /\ \A t \in Tags.held : Tags.seq[t] \in rn - Tags.size .. rn - 1
      /\ \A q \in rn - Tags.size .. rn - 1 : \E t \in Tags.held : Tags.seq[t] = q
  <2>1. rn \in Nat
    BY Types
  <2>2. /\ rn - Tags.size \in Nat
        /\ \A t \in Tags.held : /\ Tags.seq[t] \in Nat /\ rn - Tags.size <= Tags.seq[t]
                                /\ Tags.seq[t] < rn
        /\ \A q \in rn - Tags.size .. rn - 1 : \E t \in Tags.held : Tags.seq[t] = q
    BY HeldIs
  <2>3. ASSUME NEW t \in Tags.held
        PROVE  Tags.seq[t] \in rn - Tags.size .. rn - 1
    <3> DEFINE s == Tags.seq[t]
               o == rn - Tags.size
    <3>1. s \in Nat /\ o \in Nat /\ o <= s /\ s < rn
      BY <2>2
    <3> HIDE DEF s, o
    <3>2. s \in o .. rn - 1
      BY <3>1, <2>1
    <3> QED BY <3>2 DEF s, o
  <2> QED BY <2>1, <2>2, <2>3
<1> QED BY <1>1, <1>2

(* In the reorder buffer are consecutive instructions of the trace, and    *)
(* the rename map names the youngest writer of each register among them.   *)
(* Retire clears a mapping only where it still names the instruction that  *)
(* leaves, and Rename overwrites it with the younger writer: both keep it. *)
LEMMA RmtIsExact ==
  ASSUME NEW rd \in 0 .. Len(prog), NEW rn \in 0 .. Len(prog),
         NEW de \in 0 .. Len(prog), NEW fe \in 0 .. Len(prog),
         CoreAt(rd, rn, de, fe)
  PROVE  RmtExact
<1>1. /\ CpuTypeOK /\ RobInOrder(prog, Tags, Dispatched, rn) /\ MapExact(Tags, Rmt)
  BY CoreIs DEF RobAt, TagsOK
<1>2. /\ \A j \in 1 .. Tags.size : /\ RobTag(Rob, j) \in Tags.held
                                   /\ Tags.pos[RobTag(Rob, j)] = j - 1
      /\ \A t \in Tags.held : /\ Tags.pos[t] + 1 \in 1 .. Tags.size
                              /\ t = RobTag(Rob, Tags.pos[t] + 1)
      /\ InRob = Tags.held /\ Tags.size = RobCount(Rob) /\ Tags.size \in Nat
  BY <1>1, RobTagIs
<1>3. \A t \in Tags.held : /\ Rob.cqueue[t].seq = Tags.seq[t]
                           /\ Rob.cqueue[t].dst = Tags.dst[t]
  BY <1>1, TagsIs
<1>4. /\ rn - Tags.size \in Nat
      /\ \A t \in Tags.held : /\ Tags.pos[t] \in Nat
                              /\ Tags.seq[t] = (rn - Tags.size) + Tags.pos[t]
  BY <1>1, HeldIs
<1>5. ASSUME NEW j \in 2 .. RobCount(Rob)
      PROVE  Rob.cqueue[RobTag(Rob, j)].seq = Rob.cqueue[RobTag(Rob, j - 1)].seq + 1
  <2>1. j \in 1 .. Tags.size /\ j - 1 \in 1 .. Tags.size /\ j \in Nat
    BY <1>2
  <2>2. /\ RobTag(Rob, j) \in Tags.held /\ Tags.pos[RobTag(Rob, j)] = j - 1
        /\ RobTag(Rob, j - 1) \in Tags.held /\ Tags.pos[RobTag(Rob, j - 1)] = (j - 1) - 1
    BY <2>1, <1>2
  <2> DEFINE o == rn - Tags.size
  <2>3. /\ Tags.seq[RobTag(Rob, j)] = o + (j - 1)
        /\ Tags.seq[RobTag(Rob, j - 1)] = o + ((j - 1) - 1)
    BY <2>2, <1>4
  <2>4. o \in Nat
    BY <1>4
  <2> HIDE DEF o
  <2> QED BY <2>1, <2>2, <2>3, <2>4, <1>3
<1>6. ASSUME NEW t \in InRob
      PROVE  Rob.cqueue[t].dst = prog[Rob.cqueue[t].seq + 1].dst
  BY <1>1, <1>2, <1>3 DEF RobInOrder
<1>7. ASSUME NEW r \in Reg
      PROVE  LET writers == {j \in 1 .. RobCount(Rob) : Rob.cqueue[RobTag(Rob, j)].dst = r}
             IN  IF writers = {} THEN Rmt[r] = None
                 ELSE \E j \in writers : /\ \A i \in writers : i <= j
                                         /\ Rmt[r] = RobTag(Rob, j)
  <2> DEFINE writers == {j \in 1 .. RobCount(Rob) : Rob.cqueue[RobTag(Rob, j)].dst = r}
  <2>1. \A j \in 1 .. Tags.size : j \in writers <=> Tags.dst[RobTag(Rob, j)] = r
    BY <1>2, <1>3
  <2>2. \A j \in writers : j \in 1 .. Tags.size
    BY <1>2
  <2>3. CASE Rmt[r] = None
    <3>1. \A t \in Tags.held : Tags.dst[t] /= r
      BY <2>3, <1>1 DEF MapExact
    <3>2. writers = {}
      BY <3>1, <2>1, <2>2, <1>2
    <3> QED BY <3>2, <2>3
  <2>4. CASE Rmt[r] /= None
    <3>1. /\ Rmt[r] \in Tags.held /\ Tags.dst[Rmt[r]] = r
          /\ \A t \in Tags.held : Tags.pos[t] > Tags.pos[Rmt[r]] => Tags.dst[t] /= r
      BY <2>4, <1>1 DEF MapExact
    <3> DEFINE j == Tags.pos[Rmt[r]] + 1
    <3>2. j \in 1 .. Tags.size /\ Rmt[r] = RobTag(Rob, j)
      BY <3>1, <1>2
    <3>3. j \in writers
      BY <3>1, <3>2, <2>1
    <3>4. \A i \in writers : i <= j
      <4> TAKE i \in writers
      <4>1. i \in 1 .. Tags.size /\ RobTag(Rob, i) \in Tags.held
            /\ Tags.pos[RobTag(Rob, i)] = i - 1 /\ Tags.dst[RobTag(Rob, i)] = r
        BY <2>1, <2>2, <1>2
      <4>2. ~(i - 1 > Tags.pos[Rmt[r]])
        BY <4>1, <3>1
      <4>3. Tags.pos[Rmt[r]] \in Nat
        BY <3>1, <1>4
      <4> QED BY <4>1, <4>2, <4>3
    <3> HIDE DEF j
    <3> QED BY <3>2, <3>3, <3>4
  <2> QED BY <2>3, <2>4
<1> QED BY <1>5, <1>6, <1>7 DEF RmtExact

(* The rename map names, for each register, the youngest writer that the   *)
(* reorder buffer holds, and nothing when it holds none.                   *)
THEOREM MapNamesYoungest == Spec => []RmtExact
<1>1. CoreInv => RmtExact
  BY RmtIsExact DEF CoreInv
<1> QED BY <1>1, CoreInductive, PTL

(* No wake-up is lost.  A tag is only an index of the reorder buffer and   *)
(* is used again, yet a source that is still awaited, in a latch or in the *)
(* issue queue, carries the tag of its own producer; and in the issue      *)
(* queue, where only that producer's completion (IQ::Update) wakes it, the *)
(* producer is not done yet.                                               *)
LEMMA WakeupIsNotLost ==
  ASSUME NEW rd \in 0 .. Len(prog), NEW rn \in 0 .. Len(prog),
         NEW de \in 0 .. Len(prog), NEW fe \in 0 .. Len(prog),
         CoreAt(rd, rn, de, fe)
  PROVE  WakeupNotLost
<1>1. /\ CpuTypeOK /\ LatchesOK
      /\ IqOK(prog, Tags, Dispatched, Iq.queue, ValidIq)
  BY CoreIs DEF TagsOK, BackEndOK
<1>2. \A q, r, tag : tag \in Tag => (Waits(q, r, tag) <=> Producer(prog, Tags.seq[tag], q, r))
  <2>1. \A tag \in Tag : Tags.seq[tag] = Rob.cqueue[tag].seq
    BY <1>1, TagsIs
  <2> QED BY <2>1 DEF Waits, IsProducer, Producer
<1>3. Tags.held \subseteq Tag /\ Tags.ready \subseteq Tag /\ Tags.wb = WbTags
      /\ \A t \in Tag : t \in Tags.ready <=> Rob.cqueue[t].rdy
  BY <1>1, TagsIs
<1>4. ASSUME NEW latch, NEW looked \in BOOLEAN, LatchOK(prog, Tags, latch, looked),
             NEW k \in DOMAIN latch, latch[k].seq /= None
      PROVE  /\ latch[k].rob1 =>
                  Waits(latch[k].seq, prog[latch[k].seq + 1].src1, latch[k].src1)
             /\ latch[k].rob2 =>
                  Waits(latch[k].seq, prog[latch[k].seq + 1].src2, latch[k].src2)
  <2>1. EntryOK(prog, Tags, latch[k], looked)
    BY <1>4 DEF LatchOK
  <2>2. \A q, r, tag : SourceOK(prog, Tags, q, r, TRUE, tag, looked) =>
          tag \in Tag /\ Producer(prog, Tags.seq[tag], q, r)
    BY <1>3 DEF SourceOK, Retired
  <2>3. /\ latch[k].rob1 => SourceOK(prog, Tags, latch[k].seq,
                              prog[latch[k].seq + 1].src1, TRUE, latch[k].src1, looked)
        /\ latch[k].rob2 => SourceOK(prog, Tags, latch[k].seq,
                              prog[latch[k].seq + 1].src2, TRUE, latch[k].src2, looked)
    BY <2>1, <1>4 DEF EntryOK, SourceOK
  <2> QED BY <2>2, <2>3, <1>2
<1>5. ASSUME NEW k \in Slot, NEW latch \in {Rr, Di}, latch[k].seq /= None
      PROVE  LET i == prog[latch[k].seq + 1]
             IN  /\ latch[k].rob1 => Waits(latch[k].seq, i.src1, latch[k].src1)
                 /\ latch[k].rob2 => Waits(latch[k].seq, i.src2, latch[k].src2)
  <2>1. DOMAIN Rr = Slot /\ DOMAIN Di = Slot
    BY <1>1, Types
  <2>2. /\ LatchOK(prog, Tags, Rr, stage \notin BackToRegRead)
        /\ LatchOK(prog, Tags, Di, stage \notin BackToDispatch)
    BY <1>1 DEF LatchesOK
  <2> QED BY <2>1, <2>2, <1>4, <1>5
<1>6. ASSUME NEW n \in Entry, Iq.queue[n].v = "NRDY"
      PROVE  LET e == Iq.queue[n]
                 i == prog[e.seq + 1]
             IN  /\ ~e.rs1_rdy => Waits(e.seq, i.src1, e.rs1_tag) /\ Awaited(e.rs1_tag)
                 /\ ~e.rs2_rdy => Waits(e.seq, i.src2, e.rs2_tag) /\ Awaited(e.rs2_tag)
                 /\ ~(e.rs1_rdy /\ e.rs2_rdy)
  <2> DEFINE e == Iq.queue[n]
  <2>1. IqEntryOK(prog, Tags, Dispatched, e) /\ e.v = "NRDY"
    BY <1>1, <1>6 DEF IqOK, ValidIq
  <2> HIDE DEF e
  <2>2. \A q, r, ready, tag : WaitsForTag(prog, Tags, q, r, ready, tag) /\ ~ready =>
          Waits(q, r, tag) /\ Awaited(tag)
    BY <1>2, <1>3 DEF WaitsForTag, Awaited, FindWb, GetRdy
  <2>3. /\ WaitsForTag(prog, Tags, e.seq, prog[e.seq + 1].src1, e.rs1_rdy, e.rs1_tag)
        /\ WaitsForTag(prog, Tags, e.seq, prog[e.seq + 1].src2, e.rs2_rdy, e.rs2_tag)
        /\ ~(e.rs1_rdy /\ e.rs2_rdy)
    BY <2>1 DEF IqEntryOK
  <2> QED BY <2>2, <2>3 DEF e
<1> QED BY <1>5, <1>6 DEF WakeupNotLost

(* Every source that is awaited carries the tag of its own producer, which *)
(* is not done yet when the source stands in the issue queue: IQ::Update   *)
(* will wake it.                                                           *)
THEOREM NoWakeupIsLost == Spec => []WakeupNotLost
<1>1. CoreInv => WakeupNotLost
  BY WakeupIsNotLost DEF CoreInv
<1> QED BY <1>1, CoreInductive, PTL

(***************************************************************************)
(* Room.                                                                   *)
(***************************************************************************)
LEMMA RoomIsThere ==
  ASSUME NEW rd \in 0 .. Len(prog), NEW rn \in 0 .. Len(prog),
         NEW de \in 0 .. Len(prog), NEW fe \in 0 .. Len(prog),
         CoreAt(rd, rn, de, fe)
  PROVE  QueuesSuffice
<1>1. /\ CpuTypeOK /\ RobHasRoom(rn) /\ IqHasRoom /\ UnitsSuffice
      /\ IqOK(prog, Tags, Dispatched, Iq.queue, ValidIq)
  BY CoreIs DEF RobAt, TagsOK, BackEndOK
<1>2. /\ params \in Params /\ Width \in Nat \ {0} /\ slot \in 0 .. Width - 1
      /\ RobSize \in Nat /\ IqSize \in Nat /\ Entry = 0 .. IqSize - 1
      /\ Unit = 0 .. 5 * Width - 1
  BY <1>1, Types, Sizes
<1>3. ASSUME stage = "RenameInst", Rob.Full
      PROVE  FALSE
  <2>1. Tags.size = RobSize
    BY <1>1, <1>3, CountIs, TagsIs
  <2>2. Tags.size + (Width - slot) <= RobSize
    BY <1>1, <1>3 DEF RobHasRoom
  <2>3. RobSize + (Width - slot) <= RobSize
    BY <2>1, <2>2
  <2> QED BY <2>3, <1>2
<1>4. ASSUME stage = "Enqueue", ValidIq = Entry
      PROVE  FALSE
  <2>1. Cardinality(Entry) = IqSize
    <3> DEFINE n == IqSize
    <3>1. n \in Nat /\ Entry = 0 .. n - 1
      BY <1>2
    <3> HIDE DEF n
    <3>2. Cardinality(0 .. n - 1) = IF 0 > n - 1 THEN 0 ELSE (n - 1) - 0 + 1
      BY <3>1, FS_Interval
    <3>3. Cardinality(0 .. n - 1) = n
      BY <3>1, <3>2
    <3> QED BY <3>1, <3>3 DEF n
  <2>2. Iq.cnt + (Width - slot) <= IqSize /\ Iq.cnt = IqSize
    BY <1>1, <1>4, <2>1 DEF IqHasRoom
  <2>3. IqSize + (Width - slot) <= IqSize
    BY <2>2
  <2> QED BY <2>3, <1>2
<1>5. ASSUME stage = "Issue", \A u \in Unit : ~Available(Exc, u)
      PROVE  FALSE
  <2>1. \A u \in Unit : Exc[u].cnt \in (0 .. 5) \cup {None}
    BY <1>1, AllTypes DEF ExcOf
  <2>2. \A u \in Unit : Exc[u].cnt \in 1 .. 5
    BY <2>1, <1>5 DEF Available
  <2>3. UnitsFrom(1) = Unit
    BY <2>2 DEF UnitsFrom
  <2>4. Cardinality(Unit) = 5 * Width
    <3> DEFINE n == 5 * Width
    <3>1. n \in Nat /\ Unit = 0 .. n - 1
      BY <1>2
    <3> HIDE DEF n
    <3>2. Cardinality(0 .. n - 1) = IF 0 > n - 1 THEN 0 ELSE (n - 1) - 0 + 1
      BY <3>1, FS_Interval
    <3>3. Cardinality(0 .. n - 1) = n
      BY <3>1, <3>2
    <3> QED BY <3>1, <3>3 DEF n
  <2>5. Cardinality(UnitsFrom(1)) <= (5 - 1) * Width + slot
    BY <1>1, <1>5 DEF UnitsSuffice
  <2>6. 5 * Width <= (5 - 1) * Width + slot
    BY <2>3, <2>4, <2>5
  <2> QED BY <2>6, <1>2
<1>6. ASSUME NEW i \in ValidIq
      PROVE  Iq.queue[i].seq < Iq.seq_max
  <2>1. Iq.queue[i].seq < Dispatched /\ Iq.queue[i].seq /= None
    BY <1>1 DEF IqOK, IqEntryOK, Pending
  <2>2. Iq.queue[i].seq \in Nat /\ Iq.seq_max \in Nat
    <3>1. i \in Entry
      BY DEF ValidIq
    <3>2. Iq.queue[i] \in IqReg
      BY <3>1, <1>1, QueueIs
    <3>3. Iq.queue[i].seq \in Seq0 \cup {None}
      BY <3>2 DEF IqReg, IqRegOf
    <3>4. Iq.seq_max \in 1 .. MaxTrace + 1 /\ MaxTrace \in Nat
      BY <1>1, <1>2, AllTypes, Sizes
    <3> QED BY <3>3, <3>4, <2>1 DEF Seq0
  <2> DEFINE s == Iq.queue[i].seq
  <2>3. s < Iq.seq_max - 1
    BY <2>1 DEF Dispatched
  <2> HIDE DEF s
  <2> QED BY <2>2, <2>3 DEF s
<1> QED BY <1>1, <1>3, <1>4, <1>5, <1>6 DEF QueuesSuffice, IqHasRoom

(* The queues never fail the stage that relies on them, though it asked    *)
(* for room once and for the whole bundle, a turn before, by a flag: Rename *)
(* and Dispatch find an entry for each instruction, and Issue finds a unit *)
(* for each ready one ("stage never stall", cpu.cc:222), whatever          *)
(* rob_size, iq_size and width are.                                        *)
THEOREM QueuesAlwaysSuffice == Spec => []QueuesSuffice
<1>1. CoreInv => QueuesSuffice
  BY RoomIsThere DEF CoreInv
<1> QED BY <1>1, CoreInductive, PTL

(***************************************************************************)
(* The trace from the oldest instruction on.                               *)
(***************************************************************************)
LEMMA LatchSeqs ==
  ASSUME CpuTypeOK, NEW latch, NEW lo \in Nat, NEW from \in Nat, NEW upto \in Nat,
         InOrder(latch, lo, Width, from, upto)
  PROVE  /\ from .. upto - 1 \subseteq Seqs(latch)
         /\ \A k \in lo .. Width - 1 :
              latch[k].seq = None \/ latch[k].seq \in from .. upto - 1
         /\ from <= upto
<1> DEFINE w == Width
<1>1. w \in Nat /\ Slot = 0 .. w - 1 /\ None \notin Nat
  BY Types, Sizes
<1>2. InOrder(latch, lo, w, from, upto)
  OBVIOUS
<1> HIDE DEF w
<1>3. /\ from <= upto /\ upto <= from + (w - lo)
      /\ \A k \in lo .. w - 1 : latch[k].seq = None \/ latch[k].seq \in from .. upto - 1
  BY <1>1, <1>2, InOrderIs, ZenonT(60)
<1>4. ASSUME NEW q \in from .. upto - 1
      PROVE  q \in Seqs(latch)
  <2> DEFINE k == lo + (q - from)
  <2>1. k \in lo .. w - 1 /\ k \in Slot /\ from + (k - lo) = q /\ q < upto /\ q \in Nat
    BY <1>1, <1>3
  <2> HIDE DEF k
  <2>2. latch[k].seq = q
    BY <2>1, <1>2 DEF InOrder
  <2> QED BY <2>1, <2>2, <1>1 DEF Seqs
<1> QED BY <1>3, <1>4 DEF w

(* A latch that was handed on holds nothing that is not further on.        *)
LEMMA UnretiredIs ==
  ASSUME NEW rd \in 0 .. Len(prog), NEW rn \in 0 .. Len(prog),
         NEW de \in 0 .. Len(prog), NEW fe \in 0 .. Len(prog),
         CoreAt(rd, rn, de, fe)
  PROVE  /\ Unretired = rn - Tags.size .. Len(prog) - 1
         /\ rn - Tags.size \in Nat
         /\ RobSeqs = rn - Tags.size .. rn - 1
<1>1. /\ CpuTypeOK /\ RobInOrder(prog, Tags, Dispatched, rn)
      /\ InOrder(Rn, RnFrom, Width, rn, de) /\ InOrder(De, DeFrom, Width, de, fe)
      /\ InOrder(inst_input, InFrom, Width, fe, Len(prog))
      /\ HandedOn /\ LatchesOK
  BY CoreIs DEF FrontAt, RobAt, TagsOK
<1>2. /\ rn \in Nat /\ de \in Nat /\ fe \in Nat /\ Len(prog) \in Nat
      /\ Width \in Nat /\ Slot = 0 .. Width - 1 /\ slot \in Slot /\ None \notin Nat
  BY <1>1, Numbers, Types, Sizes
<1>3. rn - Tags.size \in Nat /\ RobSeqs = rn - Tags.size .. rn - 1
  BY <1>1, HeldIs, RobSeqsAre
<1>4. RnFrom \in Nat /\ DeFrom \in Nat /\ InFrom \in Nat
  BY <1>2 DEF RnFrom, DeFrom, InFrom
<1>5. /\ rn .. de - 1 \subseteq Seqs(Rn) /\ rn <= de
      /\ \A k \in RnFrom .. Width - 1 : Rn[k].seq = None \/ Rn[k].seq \in rn .. de - 1
  BY <1>1, <1>2, <1>4, LatchSeqs
<1>6. /\ de .. fe - 1 \subseteq Seqs(De) /\ de <= fe
      /\ \A k \in DeFrom .. Width - 1 : De[k].seq = None \/ De[k].seq \in de .. fe - 1
  BY <1>1, <1>2, <1>4, LatchSeqs
<1>7. /\ fe .. Len(prog) - 1 \subseteq Seqs(inst_input) /\ fe <= Len(prog)
      /\ \A k \in InFrom .. Width - 1 :
           inst_input[k].seq = None \/ inst_input[k].seq \in fe .. Len(prog) - 1
  BY <1>1, <1>2, <1>4, LatchSeqs
<1> DEFINE o == rn - Tags.size
           All == o .. Len(prog) - 1
<1>8. o \in Nat /\ o <= rn
  <2>1. Tags.size \in Nat
    BY <1>1, TagsIs
  <2> DEFINE s == Tags.size
  <2>2. s \in Nat /\ o = rn - s /\ o \in Nat
    BY <2>1, <1>3
  <2> HIDE DEF s, o
  <2> QED BY <2>2, <1>2
<1>9. \A k \in Slot : Rr[k].seq = None \/ Rr[k].seq \in RobSeqs
  <2>1. DOMAIN Rr = Slot
    BY <1>1, Types
  <2>2. \A k \in Slot : Rr[k].seq = None \/ \E t \in Tags.held : Tags.seq[t] = Rr[k].seq
    BY <2>1, <1>1 DEF LatchesOK, LatchOK, EntryOK, Holder
  <2>3. InRob = Tags.held /\ \A t \in Tags.held : Tags.seq[t] = Rob.cqueue[t].seq
    BY <1>1, RobTagIs, TagsIs
  <2> QED BY <2>2, <2>3 DEF RobSeqs
<1>10. o .. Len(prog) - 1 \subseteq Unretired
  <2> SUFFICES ASSUME NEW q \in o .. Len(prog) - 1
               PROVE  q \in Unretired
    OBVIOUS
  <2>1. \/ q \in o .. rn - 1 \/ q \in rn .. de - 1 \/ q \in de .. fe - 1
        \/ q \in fe .. Len(prog) - 1
    <3> HIDE DEF o
    <3> QED BY <1>2, <1>5, <1>6, <1>7, <1>8
  <2> QED BY <2>1, <1>3, <1>5, <1>6, <1>7 DEF Unretired
<1>11. \A k \in Slot : Rn[k].seq = None \/ Rn[k].seq \in All
  <2> TAKE k \in Slot
  <2>1. CASE k \in RnFrom .. Width - 1
    <3>1. \A q \in rn .. de - 1 : q \in All
      <4> HIDE DEF o
      <4> QED BY <1>2, <1>8
    <3> QED BY <2>1, <3>1, <1>5
  <2>2. CASE k \notin RnFrom .. Width - 1
    <3>1. k \in 0 .. RnFrom - 1 /\ RnFrom /= 0
      BY <2>2, <1>2, <1>4
    <3>2. RnMoves
      BY <3>1 DEF RnFrom, RnMoves
    <3>3. Rn[k].seq = Rr[k].seq
      BY <3>1, <3>2, <1>1 DEF HandedOn
    <3>4. \A q \in RobSeqs : q \in All
      <4>1. \A q \in o .. rn - 1 : q \in All
        <5> HIDE DEF o
        <5> QED BY <1>2, <1>8
      <4> QED BY <4>1, <1>3
    <3> HIDE DEF All
    <3> QED BY <3>3, <3>4, <1>9
  <2> QED BY <2>1, <2>2
<1>12. \A k \in Slot : De[k].seq = None \/ De[k].seq \in All
  <2> TAKE k \in Slot
  <2>1. CASE ~DeMoves
    <3>1. k \in DeFrom .. Width - 1
      BY <2>1, <1>2 DEF DeFrom
    <3>2. \A q \in de .. fe - 1 : q \in All
      <4> HIDE DEF o
      <4> QED BY <1>2, <1>5, <1>8
    <3> QED BY <3>1, <3>2, <1>6
  <2>2. CASE DeMoves
    <3>1. De[k].seq = Rn[k].seq
      BY <2>2, <1>1 DEF HandedOn
    <3> HIDE DEF All
    <3> QED BY <3>1, <1>11
  <2> QED BY <2>1, <2>2
<1>13. \A k \in Slot : inst_input[k].seq = None \/ inst_input[k].seq \in All
  <2> TAKE k \in Slot
  <2>1. CASE InFrom = 0
    <3>1. k \in InFrom .. Width - 1
      BY <2>1, <1>2
    <3>2. \A q \in fe .. Len(prog) - 1 : q \in All
      <4> HIDE DEF o
      <4> QED BY <1>2, <1>5, <1>6, <1>8
    <3> QED BY <3>1, <3>2, <1>7
  <2>2. CASE InFrom /= 0
    <3>1. inst_input[k].seq \in {None, De[k].seq}
      BY <2>2, <1>1 DEF HandedOn
    <3> HIDE DEF All
    <3> QED BY <3>1, <1>12
  <2> QED BY <2>1, <2>2
<1>14. Unretired \subseteq All
  <2>1. RobSeqs \subseteq All
    <3>1. \A q \in o .. rn - 1 : q \in All
      <4> HIDE DEF o
      <4> QED BY <1>2, <1>8
    <3> QED BY <3>1, <1>3
  <2> HIDE DEF All
  <2> QED BY <2>1, <1>11, <1>12, <1>13 DEF Unretired, Seqs
<1> QED BY <1>3, <1>10, <1>14

(***************************************************************************)
(* The end.                                                                *)
(***************************************************************************)
LEMMA StarvedIsIdle ==
  ASSUME NEW rd \in 0 .. Len(prog), NEW rn \in 0 .. Len(prog),
         NEW de \in 0 .. Len(prog), NEW fe \in 0 .. Len(prog),
         CoreAt(rd, rn, de, fe)
  PROVE  StarvedForever
<1>1. /\ CpuTypeOK /\ RobInOrder(prog, Tags, Dispatched, rn) /\ RobHasRoom(rn)
      /\ RobRunsEmpty(rn, de) /\ IqHasRoom
      /\ IqOK(prog, Tags, Dispatched, Iq.queue, ValidIq)
      /\ ExcOK(Tags, Dispatched, Exc, BusyUnits)
  BY CoreIs DEF RobAt, TagsOK, BackEndOK
<1>2. /\ rn \in Nat /\ Tags.size \in Nat /\ RobSize \in Nat /\ IqSize \in Nat
      /\ Width \in Nat /\ Dispatched \in Nat
  BY <1>1, Numbers, Types, Sizes, TagsIs, TableIs
<1>3. /\ Tags.size <= rn /\ rn <= Tags.size + Dispatched
      /\ done_flag => Tags.size < rn
      /\ stage = "End" => done_flag
  BY <1>1 DEF RobInOrder, RobRunsEmpty
<1>4. RobSize < Width => rn = 0
  <2>1. rn > 0 => Width <= RobSize
    BY <1>1 DEF RobHasRoom
  <2> QED BY <2>1, <1>2
<1>5. IqSize < Width => Dispatched = 0
  <2>1. Dispatched > 0 => Width <= IqSize
    BY <1>1 DEF IqHasRoom
  <2> QED BY <2>1, <1>2
<1>6. last /\ prog = <<>> => rn = 0
  BY <1>2
<1>7. Starved => ~done_flag
  <2> DEFINE s == Tags.size
  <2>1. s \in Nat /\ s <= rn /\ rn <= s + Dispatched /\ (done_flag => s < rn)
    BY <1>2, <1>3
  <2> HIDE DEF s
  <2> QED BY <2>1, <1>2, <1>4, <1>5, <1>6 DEF Starved
<1>8. RobSize < Width => RobSeqs = {}
  <2>1. ASSUME rn = 0
        PROVE  RobSeqs = {}
    <3> DEFINE s == Tags.size
    <3>1. RobSeqs = rn - s .. rn - 1 /\ s \in Nat /\ s <= rn
      BY <1>1, <1>2, <1>3, RobSeqsAre
    <3> HIDE DEF s
    <3>2. s = 0 /\ 0 - 0 .. 0 - 1 = {}
      BY <3>1, <2>1
    <3> QED BY <3>1, <3>2, <2>1
  <2> QED BY <2>1, <1>4
<1>9. Dispatched = 0 => ValidIq = {} /\ BusyUnits = {}
  <2>1. \A q, tag : ~Pending(Tags, 0, q, tag)
    <3> SUFFICES ASSUME NEW q, NEW tag, Pending(Tags, 0, q, tag)
                 PROVE  FALSE
      OBVIOUS
    <3>1. tag \in Tags.held /\ Tags.seq[tag] = q /\ q < 0
      BY DEF Pending, Holder
    <3>2. \A t \in Tags.held : Tags.seq[t] \in Nat
      BY <1>1, HeldIs
    <3> QED BY <3>1, <3>2
  <2> QED BY <2>1, <1>1 DEF IqOK, IqEntryOK, ExcOK
<1> QED BY <1>3, <1>5, <1>7, <1>8, <1>9 DEF StarvedForever

(* A machine without room for a bundle in one of its queues, or with an    *)
(* empty trace, never ends and never reports that it could not go on:      *)
(* nothing gets past the stage in front of the queue that is too small.    *)
THEOREM StarvedNeverEnds == Spec => []StarvedForever
<1>1. CoreInv => StarvedForever
  BY StarvedIsIdle DEF CoreInv
<1> QED BY <1>1, CoreInductive, PTL

(* When main's second loop ends nothing is in flight and every instruction *)
(* read has retired.                                                       *)
LEMMA DrainedIs ==
  ASSUME NEW rd \in 0 .. Len(prog), NEW rn \in 0 .. Len(prog),
         NEW de \in 0 .. Len(prog), NEW fe \in 0 .. Len(prog),
         CoreAt(rd, rn, de, fe)
  PROVE  DrainedAtEnd
<1> SUFFICES ASSUME stage = "End", RobSize >= 2 * Width
             PROVE  Unretired = {}
  BY DEF DrainedAtEnd
<1>1. CpuTypeOK /\ RobRunsEmpty(rn, de) /\ Refilled(rd, rn, de)
  BY CoreIs DEF RobAt
<1>2. RobSize \in Nat /\ Width \in Nat /\ Len(prog) \in Nat
  BY <1>1, Types, Sizes
<1>3. rn = Len(prog) /\ Tags.size = 0
  <2>1. 2 * Width <= RobSize
    BY <1>2
  <2> QED BY <2>1, <1>1 DEF RobRunsEmpty, Refilled
<1>4. Unretired = Len(prog) - 0 .. Len(prog) - 1
  BY <1>3, UnretiredIs
<1> QED BY <1>2, <1>4

(* done_flag says whether the latest retirement emptied the reorder        *)
(* buffer, and main ends on it once the trace was read: if the buffer has  *)
(* room for two bundles, it is true only when every instruction retired.   *)
THEOREM EndsDrained == Spec => []DrainedAtEnd
<1>1. CoreInv => DrainedAtEnd
  BY DrainedIs DEF CoreInv
<1> QED BY <1>1, CoreInductive, PTL

(***************************************************************************)
(* The core implements DataflowCore.  What has retired is rn - Tags.size;  *)
(* what is done is what DoneTags hold.                                     *)
(***************************************************************************)
DoneTags(tb) == tb.held \cap (tb.ready \cup tb.wb)

(* The instructions that are done, read off the table.                     *)
LEMMA DoneSeqsAre ==
  ASSUME CpuTypeOK
  PROVE  DoneSeqs = {Tags.seq[t] : t \in DoneTags(Tags)}
<1>1. /\ InRob = Tags.held /\ Tags.held \subseteq Tag /\ Tags.wb = WbTags
      /\ \A t \in Tag : /\ Tags.seq[t] = Rob.cqueue[t].seq
                        /\ t \in Tags.ready <=> Rob.cqueue[t].rdy
  BY RobTagIs, TagsIs
<1>2. {s \in InRob : GetRdy(Rob, s) \/ FindWb(s)} = DoneTags(Tags)
  BY <1>1 DEF DoneTags, GetRdy, FindWb
<1>3. \A t \in DoneTags(Tags) : Tags.seq[t] = Rob.cqueue[t].seq
  BY <1>1 DEF DoneTags
<1> QED BY <1>2, <1>3 DEF DoneSeqs

(* The oldest instruction in flight is the one at the head of the ring.    *)
LEMMA OldestIs ==
  ASSUME NEW rd \in 0 .. Len(prog), NEW rn \in 0 .. Len(prog),
         NEW de \in 0 .. Len(prog), NEW fe \in 0 .. Len(prog),
         CoreAt(rd, rn, de, fe)
  PROVE  Oldest = rn - Tags.size /\ Oldest \in Nat
<1> DEFINE o == rn - Tags.size
           n == Len(prog)
<1>1. Unretired = o .. n - 1 /\ o \in Nat
  BY UnretiredIs
<1>2. n \in Nat /\ o <= n
  <2>1. CpuTypeOK
    BY CoreIs
  <2>2. n \in Nat /\ rn \in Nat /\ Tags.size \in Nat
    BY <2>1, Types, TagsIs
  <2> DEFINE s == Tags.size
  <2>3. s \in Nat /\ o = rn - s /\ rn <= n
    BY <2>2
  <2> HIDE DEF s, o, n
  <2> QED BY <1>1, <2>2, <2>3 DEF n
<1> HIDE DEF o, n
<1>3. CASE o = n
  <2>1. Unretired = {}
    BY <1>1, <1>2, <1>3
  <2> QED BY <2>1, <1>2, <1>3 DEF Oldest, n, o
<1>4. CASE o < n
  <2>1. o \in Unretired /\ \A p \in Unretired : p \in Nat /\ o <= p
    BY <1>1, <1>2, <1>4
  <2> DEFINE Least(q) == q \in Unretired /\ \A p \in Unretired : q <= p
  <2>2. Unretired /= {} /\ \E q : Least(q)
    BY <2>1
  <2>3. Oldest = CHOOSE q \in Unretired : \A p \in Unretired : q <= p
    BY <2>2 DEF Oldest
  <2>4. Oldest \in Unretired /\ \A p \in Unretired : Oldest <= p
    BY <2>1, <2>3
  <2>5. Oldest <= o /\ o <= Oldest /\ Oldest \in Nat
    BY <2>1, <2>4
  <2>6. Oldest = o
    BY <2>5, <1>1
  <2> QED BY <2>6, <1>1 DEF o
<1> QED BY <1>1, <1>2, <1>3, <1>4

(* What DataflowCore sees of a state.                                      *)
View(rn) ==
  /\ CpuTypeOK /\ Oldest = rn - Tags.size /\ Oldest \in Nat
  /\ DoneSeqs = {Tags.seq[t] : t \in DoneTags(Tags)}

(* What the abstract core sees of a state that the invariant describes.    *)
LEMMA ViewIs == \A rn : CoreFor(rn) => View(rn)
<1> SUFFICES ASSUME NEW rn, CoreFor(rn)
             PROVE  View(rn)
  OBVIOUS
<1>1. PICK rd \in 0 .. Len(prog), de \in 0 .. Len(prog), fe \in 0 .. Len(prog) :
        CoreAt(rd, rn, de, fe)
  BY DEF CoreFor
<1>2. rn \in 0 .. Len(prog)
  BY DEF CoreFor
<1> QED BY <1>1, <1>2, OldestIs, DoneSeqsAre, CoreIs DEF View

(* A step that leaves the tags, the units and the trace as they are is one *)
(* that DataflowCore does not see.                                         *)
LEMMA NotSeen ==
  ASSUME NEW rn, View(rn), View(rn)', prog' = prog, Tags' = Tags,
         ExecSeqs' = ExecSeqs
  PROVE  UNCHANGED Dataflow!dfVars
  BY DEF View, Dataflow!dfVars

(* Fetching: the trace grows at its end.                                   *)
LEMMA ReadSeen ==
  ASSUME NEW rn, View(rn), View(rn)', Read
  PROVE  Dataflow!ReadProgram
<1>1. UNCHANGED <<params, Rob, Exc, Wb>>
  BY DEF Read, ReadNothing, ReadTrace
<1>2. Tags' = Tags /\ ExecSeqs' = ExecSeqs
  BY <1>1, SameTags, SameMachine DEF ExecSeqs, BusyUnits
<1>3. Oldest' = Oldest /\ DoneSeqs' = DoneSeqs
  BY <1>2 DEF View
<1>4. prog \in Seq(Instr) /\ prog' \in Seq(Instr) /\ Len(prog) \in Nat
  <2>1. CpuTypeOK /\ CpuTypeOK'
    BY DEF View
  <2> QED BY <2>1, Types DEF CpuTypeOK
<1>5. Len(prog') \in Nat /\ Len(prog') >= Len(prog)
      /\ \A m \in 1 .. Len(prog) : prog'[m] = prog[m]
  <2>1. CASE ReadNothing
    BY <2>1, <1>4 DEF ReadNothing
  <2>2. ASSUME NEW n \in 0 .. Width, NEW bundle \in [1 .. n -> Instr],
               ReadTrace(n, bundle)
        PROVE  Len(prog') \in Nat /\ Len(prog') >= Len(prog)
               /\ \A m \in 1 .. Len(prog) : prog'[m] = prog[m]
    <3>1. prog' = prog \o bundle /\ n \in Nat
      BY <2>2 DEF ReadTrace
    <3>2. /\ Len(prog') = Len(prog) + n
          /\ \A m \in 1 .. Len(prog) : prog'[m] = prog[m]
      BY <3>1, <1>4, Appended
    <3>3. Len(prog') \in Nat /\ Len(prog') >= Len(prog)
      BY <3>1, <3>2, <1>4
    <3> QED BY <3>2, <3>3
  <2> QED BY <2>1, <2>2 DEF Read
<1>6. SubSeq(prog', 1, Len(prog)) = prog
  <2> DEFINE s == SubSeq(prog', 1, Len(prog))
             n == Len(prog)
  <2>1. \A i \in 1 .. n : prog'[i] \in Instr /\ prog'[i] = prog[i]
    BY <1>4, <1>5, ElementOfSeq
  <2>2. n \in Int /\ 1 \in Int
    BY <1>4
  <2>3. /\ s \in Seq(Instr) /\ Len(s) = IF 1 <= n THEN n - 1 + 1 ELSE 0
        /\ \A i \in 1 .. n - 1 + 1 : s[i] = prog'[1 + i - 1]
    BY <2>1, <2>2, SubSeqProperties
  <2> HIDE DEF s
  <2>4. Len(s) = n
    BY <2>3, <1>4
  <2>5. \A i \in 1 .. n : i \in 1 .. n - 1 + 1 /\ 1 + i - 1 = i
    BY <1>4
  <2>6. \A i \in 1 .. n : s[i] = prog[i]
    BY <2>1, <2>3, <2>5
  <2>7. s = prog
    BY <2>3, <2>4, <2>6, <1>4, SeqEqual
  <2> QED BY <2>7 DEF s
<1> QED BY <1>2, <1>3, <1>4, <1>5, <1>6 DEF Dataflow!ReadProgram

(* Retiring: the oldest instruction leaves, done.                          *)
LEMMA RetireSeen ==
  ASSUME NEW rd \in 0 .. Len(prog), NEW rn \in 0 .. Len(prog),
         NEW de \in 0 .. Len(prog), NEW fe \in 0 .. Len(prog),
         CoreAt(rd, rn, de, fe), View(rn), View(rn)', Retire, Retiring
  PROVE  Dataflow!Retire
<1> DEFINE h == Rob.Head
<1>1. CpuTypeOK /\ RobAt(rd, rn, de) /\ RobHasRoom(rn)
      /\ RobInOrder(prog, Tags, Dispatched, rn)
  BY CoreIs DEF RobAt
<1>2. /\ UNCHANGED <<params, prog, Exc, Wb>> /\ Rob' = RemoveHead(Rob)
      /\ stage = "Retire"
  BY DEF Retire, mainVars
<1>3. h \in Tags.ready /\ Tags.size > 0
  BY <1>1, <1>2, SomethingToRetire
<1>4. /\ Tags'.size = Tags.size - 1 /\ Tags'.held = Tags.held \ {h}
      /\ Tags'.seq = Tags.seq
      /\ Tags'.ready = Tags.ready /\ Tags'.wb = Tags.wb
      /\ h \in Tags.held /\ Tags.pos[h] = 0
  BY <1>1, <1>2, <1>3, RetireTags DEF RobHasRoom
<1>5. Oldest = rn - Tags.size /\ Oldest' = rn - Tags'.size
      /\ DoneSeqs = {Tags.seq[t] : t \in DoneTags(Tags)}
      /\ DoneSeqs' = {Tags'.seq[t] : t \in DoneTags(Tags')}
  BY DEF View
<1>6. Oldest' = Oldest + 1
  <2> DEFINE s == Tags.size
             s2 == Tags'.size
  <2>1. s \in Nat /\ rn \in Nat /\ s2 = s - 1 /\ Oldest = rn - s /\ Oldest' = rn - s2
    BY <1>1, <1>4, <1>5, TagsIs, Types
  <2> HIDE DEF s, s2
  <2> QED BY <2>1
<1>7. Tags.seq[h] = Oldest
  <2> DEFINE o == rn - Tags.size
  <2>1. o \in Nat /\ Tags.seq[h] = o + Tags.pos[h]
    BY <1>1, <1>4, HeldIs
  <2> HIDE DEF o
  <2>2. Tags.seq[h] = o
    BY <2>1, <1>4
  <2> QED BY <2>2, <1>5 DEF o
<1>8. h \in DoneTags(Tags) /\ DoneTags(Tags') = DoneTags(Tags) \ {h}
  BY <1>3, <1>4 DEF DoneTags
<1>9. \A t \in DoneTags(Tags) : Tags.seq[t] = Tags.seq[h] => t = h
  <2>1. \A t, u \in Tags.held : Tags.seq[t] = Tags.seq[u] => t = u
    BY <1>1, HeldIs
  <2> QED BY <2>1, <1>4 DEF DoneTags
<1>10. DoneSeqs' = DoneSeqs \ {Oldest} /\ Oldest \in DoneSeqs
  BY <1>4, <1>5, <1>7, <1>8, <1>9
<1>11. ExecSeqs' = ExecSeqs
  BY <1>2, SameMachine DEF ExecSeqs, BusyUnits
<1> QED BY <1>2, <1>6, <1>10, <1>11 DEF Dataflow!Retire

(* Writing back: what stood in Wb is ready now, and done as before.        *)
LEMMA WritebackSeen ==
  ASSUME NEW rn, View(rn), View(rn)', Writeback
  PROVE  UNCHANGED Dataflow!dfVars
<1>1. UNCHANGED <<params, prog, Exc, Wb>> /\ Rob' = SetRdy(Rob, WbTags)
  BY DEF Writeback, mainVars
<1>2. /\ Tags'.size = Tags.size /\ Tags'.held = Tags.held /\ Tags'.seq = Tags.seq
      /\ Tags'.ready = Tags.ready \cup Tags.wb /\ Tags'.wb = Tags.wb
  BY <1>1, WritebackTags DEF View
<1>3. DoneTags(Tags') = DoneTags(Tags)
  BY <1>2 DEF DoneTags
<1>4. Oldest' = Oldest /\ DoneSeqs' = DoneSeqs
  BY <1>2, <1>3 DEF View
<1>5. ExecSeqs' = ExecSeqs
  BY <1>1, SameMachine DEF ExecSeqs, BusyUnits
<1> QED BY <1>1, <1>4, <1>5 DEF Dataflow!dfVars

(* Executing: the units that count down to 0 announce their instructions   *)
(* in Wb.                                                                  *)
LEMMA ExecuteSeen ==
  ASSUME NEW rd \in 0 .. Len(prog), NEW rn \in 0 .. Len(prog),
         NEW de \in 0 .. Len(prog), NEW fe \in 0 .. Len(prog),
         CoreAt(rd, rn, de, fe), View(rn), View(rn)', Execute
  PROVE  Dataflow!Finish
<1>1. /\ CpuTypeOK /\ RobInOrder(prog, Tags, Dispatched, rn)
      /\ ExcOK(Tags, Dispatched, Exc, BusyUnits)
      /\ WbOK(Tags, Dispatched, Wb, stage = "Execute")
  BY CoreIs DEF RobAt, TagsOK, BackEndOK
<1>2. /\ UNCHANGED <<params, prog, Rob>> /\ stage = "Execute"
      /\ Exc' = DecCnt(Exc)
      /\ Wb' = [u \in Unit |->
                  IF u \in Done(Exc')
                  THEN [v |-> TRUE, seq |-> Exc'[u].seq, Rob_tag |-> Exc'[u].dst_tag]
                  ELSE [v |-> FALSE, seq |-> 0, Rob_tag |-> 0]]
  BY DEF Execute, mainVars
<1>3. /\ \A u \in Unit : Exc'[u].seq = Exc[u].seq /\ Exc'[u].dst_tag = Exc[u].dst_tag
      /\ Done(Exc') = {u \in Unit : Exc[u].cnt = 1}
      /\ BusyUnits' = {u \in Unit : Exc[u].cnt \in 2 .. 5}
  BY <1>1, <1>2, CountedDown
<1>4. \A u \in Unit : u \in BusyUnits <=> Exc[u].cnt \in 1 .. 5
  BY <1>1, UnitsAre
<1>5. /\ BusyUnits \subseteq Unit /\ Done(Exc') \subseteq BusyUnits
      /\ BusyUnits' = BusyUnits \ Done(Exc')
  <2>1. \A c : c \in 1 .. 5 <=> c = 1 \/ c \in 2 .. 5
    OBVIOUS
  <2>2. ~(1 \in 2 .. 5)
    OBVIOUS
  <2> QED BY <2>1, <2>2, <1>3, <1>4 DEF BusyUnits
<1>6. \A u \in BusyUnits : Holder(Tags, Exc[u].dst_tag, Exc[u].seq)
  BY <1>1 DEF ExcOK, Pending
<1>7. \A u, w \in BusyUnits : Exc[u].seq = Exc[w].seq => u = w
  <2>1. \A t, u \in Tags.held : Tags.seq[t] = Tags.seq[u] => t = u
    BY <1>1, HeldIs
  <2>2. \A u, w \in BusyUnits : Exc[u].dst_tag = Exc[w].dst_tag => u = w
    BY <1>1 DEF ExcOK
  <2> QED BY <2>1, <2>2, <1>6 DEF Holder
<1>8. /\ ExecSeqs = {Exc[u].seq : u \in BusyUnits}
      /\ ExecSeqs' = {Exc[u].seq : u \in BusyUnits'}
  BY <1>3, <1>5 DEF ExecSeqs
<1>9. ExecSeqs' \subseteq ExecSeqs
      /\ ExecSeqs \ ExecSeqs' = {Exc[u].seq : u \in Done(Exc')}
  BY <1>5, <1>7, <1>8
<1>10. /\ Tags'.size = Tags.size /\ Tags'.held = Tags.held /\ Tags'.seq = Tags.seq
       /\ Tags'.ready = Tags.ready
       /\ Tags'.wb = {Exc[u].dst_tag : u \in Done(Exc')}
  <2>1. Unit' = Unit
    BY <1>2, SameMachine
  <2>2. {w \in Unit : Wb'[w].v} = Done(Exc')
    BY <1>2, <1>3
  <2>3. \A u \in Done(Exc') : Wb'[u].Rob_tag = Exc[u].dst_tag
    BY <1>2, <1>3
  <2>4. WbTags' = {Exc[u].dst_tag : u \in Done(Exc')}
    BY <2>1, <2>2, <2>3 DEF WbTags
  <2> QED BY <2>4, <1>2, ExecuteTags
<1>11. Tags.wb \subseteq Tags.ready
  BY <1>1, <1>2, WbIs
<1>12. DoneTags(Tags') = DoneTags(Tags) \cup {Exc[u].dst_tag : u \in Done(Exc')}
  <2>1. \A u \in Done(Exc') : Exc[u].dst_tag \in Tags.held
    BY <1>5, <1>6 DEF Holder
  <2> QED BY <2>1, <1>10, <1>11 DEF DoneTags
<1>13. DoneSeqs' = DoneSeqs \cup {Exc[u].seq : u \in Done(Exc')}
  <2>1. \A u \in Done(Exc') : Tags.seq[Exc[u].dst_tag] = Exc[u].seq
    BY <1>5, <1>6 DEF Holder
  <2>2. DoneSeqs' = {Tags.seq[t] : t \in DoneTags(Tags')}
    BY <1>10 DEF View
  <2>3. DoneSeqs = {Tags.seq[t] : t \in DoneTags(Tags)}
    BY DEF View
  <2> QED BY <2>1, <2>2, <2>3, <1>12
<1>14. Oldest' = Oldest
  BY <1>10 DEF View
<1> QED BY <1>2, <1>9, <1>13, <1>14 DEF Dataflow!Finish

(* Renaming: a tag is given to an instruction that is not done.            *)
LEMMA RenameInstSeen ==
  ASSUME NEW rd \in 0 .. Len(prog), NEW rn \in 0 .. Len(prog),
         NEW de \in 0 .. Len(prog), NEW fe \in 0 .. Len(prog),
         CoreAt(rd, rn, de, fe), View(rn), RenameInst,
         NEW rn2, View(rn2)', rn2 - Tags'.size = rn - Tags.size
  PROVE  UNCHANGED Dataflow!dfVars
<1>1. /\ CpuTypeOK /\ RobHasRoom(rn) /\ stage = "RenameInst" /\ QueuesSuffice
      /\ WbOK(Tags, Dispatched, Wb, stage = "Execute")
  BY CoreIs, RoomIsThere DEF RobAt, TagsOK, BackEndOK, RenameInst
<1>2. UNCHANGED <<params, prog, Exc, Wb>>
  BY DEF RenameInst, mainVars
<1>3. ExecSeqs' = ExecSeqs
  BY <1>2, SameMachine DEF ExecSeqs, BusyUnits
<1>4. Oldest' = Oldest
  BY DEF View
<1>5. CASE Rn[slot].seq = None
  <2>1. Rob' = Rob
    BY <1>5 DEF RenameInst
  <2>2. Tags' = Tags
    BY <2>1, <1>2, SameTags
  <2> QED BY <2>2, <1>2, <1>3, <1>4 DEF View, Dataflow!dfVars
<1>6. CASE Rn[slot].seq /= None
  <2> DEFINE t0 == Rob.Tail
  <2>1. ~Rob.Full
    BY <1>1, <1>6 DEF QueuesSuffice
  <2>2. Rob' = Allocate(Rob, Rn[slot].seq, Rn[slot].dst)
    BY <1>6 DEF RenameInst
  <2>3. /\ Tags'.held = Tags.held \cup {t0} /\ t0 \notin Tags.held
        /\ \A t \in Tag \ {t0} : Tags'.seq[t] = Tags.seq[t]
        /\ Tags'.ready = Tags.ready \ {t0} /\ Tags'.wb = Tags.wb
    BY <2>1, <2>2, <1>1, <1>2, AllocateTags
  <2>4. Tags.wb \subseteq Tags.held /\ Tags.held \subseteq Tag
    BY <1>1, WbIs, TagsIs
  <2> HIDE DEF t0
  <2>5. DoneTags(Tags') = DoneTags(Tags)
        /\ \A t \in DoneTags(Tags) : Tags'.seq[t] = Tags.seq[t]
    BY <2>3, <2>4 DEF DoneTags
  <2>6. DoneSeqs' = {Tags'.seq[t] : t \in DoneTags(Tags')}
        /\ DoneSeqs = {Tags.seq[t] : t \in DoneTags(Tags)}
    BY DEF View
  <2>7. DoneSeqs' = DoneSeqs
    BY <2>5, <2>6
  <2> QED BY <2>7, <1>2, <1>3, <1>4 DEF Dataflow!dfVars
<1> QED BY <1>5, <1>6

(* Issuing: a ready entry's sources are known, by program order.           *)
LEMMA IssueSeen ==
  ASSUME NEW rd \in 0 .. Len(prog), NEW rn \in 0 .. Len(prog),
         NEW de \in 0 .. Len(prog), NEW fe \in 0 .. Len(prog),
         CoreAt(rd, rn, de, fe), View(rn), View(rn)', Issue,
         NEW i \in Entry, NEW u \in Unit, IssueTo(i, u)
  PROVE  \E q \in Dataflow!InFlight : Dataflow!Start(q)
<1> DEFINE q   == Iq.queue[i].seq
           op  == Iq.queue[i].op
           tag == Iq.queue[i].dst_tag
<1>1. /\ CpuTypeOK /\ RobInOrder(prog, Tags, Dispatched, rn)
      /\ IqOK(prog, Tags, Dispatched, Iq.queue, ValidIq)
      /\ ExcOK(Tags, Dispatched, Exc, BusyUnits) /\ IqTags \cap ExcTags = {}
  BY CoreIs DEF RobAt, TagsOK, BackEndOK
<1>2. UNCHANGED <<params, prog, Rob, Wb>> /\ Tags' = Tags
  BY SameTags DEF Issue, mainVars
<1>3. /\ i \in ValidIq /\ Iq.queue[i].v = "RDY" /\ Available(Exc, u)
      /\ Exc' = Load(Exc, u, q, op, tag)
  BY DEF IssueTo, IsOldestRdy, IsFirstEmpty, Candidates, ValidIq
<1>4. IqEntryOK(prog, Tags, Dispatched, Iq.queue[i])
  BY <1>1, <1>3 DEF IqOK
<1>5. /\ tag \in Tags.held /\ Tags.seq[tag] = q
      /\ tag \notin Tags.ready \cup Tags.wb
  BY <1>4 DEF IqEntryOK, Pending, Holder
<1>6. /\ \A t \in Tags.held : /\ t \in Tag /\ Tags.seq[t] \in Nat
                              /\ rn - Tags.size <= Tags.seq[t] /\ Tags.seq[t] < rn
      /\ \A t, w \in Tags.held : Tags.seq[t] = Tags.seq[w] => t = w
      /\ \A p \in rn - Tags.size .. rn - 1 : \E t \in Tags.held : Tags.seq[t] = p
  BY <1>1, HeldIs
<1>7. Oldest = rn - Tags.size /\ Oldest \in Nat /\ rn \in Nat /\ Len(prog) \in Nat
      /\ rn <= Len(prog) /\ DoneSeqs = {Tags.seq[t] : t \in DoneTags(Tags)}
  <2>1. rn \in Nat /\ Len(prog) \in Nat /\ rn <= Len(prog)
    BY <1>1, Types
  <2> QED BY <2>1 DEF View
<1>8. q \in Nat /\ Oldest <= q /\ q < rn /\ q \in Seq0 /\ tag \in Tag
  <2>1. q \in Nat /\ Oldest <= q /\ q < rn /\ tag \in Tag
    BY <1>5, <1>6, <1>7
  <2>2. q \in Seq0
    BY <2>1, <1>1, <1>5, TagsIs
  <2> QED BY <2>1, <2>2
<1>9. q \in Dataflow!InFlight
  <2>1. q \in Oldest .. Len(prog) - 1
    <3> HIDE DEF q
    <3> QED BY <1>7, <1>8
  <2> QED BY <2>1 DEF Dataflow!InFlight
<1>10. q \notin ExecSeqs
  <2> SUFFICES ASSUME NEW w \in BusyUnits, Exc[w].seq = q
               PROVE  FALSE
    BY DEF ExecSeqs
  <2>1. Exc[w].dst_tag \in Tags.held /\ Tags.seq[Exc[w].dst_tag] = q
    BY <1>1 DEF ExcOK, Pending, Holder
  <2>2. Exc[w].dst_tag = tag
    BY <2>1, <1>5, <1>6
  <2>3. Exc[w].dst_tag \in ExcTags /\ tag \in IqTags
    BY <1>3 DEF ExcTags, IqTags, TagsOf
  <2> QED BY <2>2, <2>3, <1>1
<1>11. q \notin DoneSeqs
  <2> SUFFICES ASSUME NEW t \in DoneTags(Tags), Tags.seq[t] = q
               PROVE  FALSE
    BY <1>7
  <2>1. t = tag
    BY <1>5, <1>6 DEF DoneTags
  <2> QED BY <2>1, <1>5 DEF DoneTags
<1>12. \A r \in {prog[q + 1].src1, prog[q + 1].src2} \ {None} : Known(prog, Tags, q, r)
  BY <1>3, <1>4 DEF IqEntryOK, WaitsForTag
<1>13. Dataflow!OperandsKnown(q)
  <2> SUFFICES ASSUME NEW r \in {prog[q + 1].src1, prog[q + 1].src2} \ {None},
                      NEW p \in Oldest .. q - 1, Dataflow!Produces(p, q, r)
               PROVE  p \in DoneSeqs
    BY DEF Dataflow!OperandsKnown
  <2>1. p \in rn - Tags.size .. rn - 1 /\ p < q
    <3> HIDE DEF q
    <3>1. p \in Oldest .. rn - 1 /\ p < q
      BY <1>7, <1>8
    <3> QED BY <3>1, <1>7
  <2>2. PICK t \in Tags.held : Tags.seq[t] = p
    BY <2>1, <1>6
  <2>3. Producer(prog, Tags.seq[t], q, r)
    BY <2>1, <2>2 DEF Producer, Dataflow!Produces
  <2>4. t \in Tags.ready \cup Tags.wb
    BY <2>3, <1>12 DEF Known
  <2>5. t \in DoneTags(Tags)
    BY <2>4 DEF DoneTags
  <2> QED BY <2>2, <2>5, <1>7
<1>14. ExecSeqs' = ExecSeqs \cup {q}
  <2>1. op \in Op
    BY <1>1, QueueIs DEF IqReg, IqRegOf
  <2>2. /\ Exc'[u].seq = q /\ \A w \in Unit \ {u} : Exc'[w] = Exc[w]
        /\ BusyUnits' = BusyUnits \cup {u} /\ u \notin BusyUnits
    <3> HIDE DEF q, op, tag
    <3> QED BY <2>1, <1>1, <1>2, <1>3, <1>8, Loaded
  <2>3. \A w \in BusyUnits : Exc'[w].seq = Exc[w].seq
    BY <2>2 DEF BusyUnits
  <2> HIDE DEF q
  <2> QED BY <2>2, <2>3 DEF ExecSeqs
<1>15. Oldest' = Oldest /\ DoneSeqs' = DoneSeqs
  BY <1>2 DEF View
<1> HIDE DEF q
<1>16. Dataflow!Start(q)
  BY <1>2, <1>10, <1>11, <1>13, <1>14, <1>15 DEF Dataflow!Start
<1> QED BY <1>9, <1>16

(* The core starts as the abstract one does.                               *)
LEMMA InitSeen == Init => Dataflow!Init
<1> SUFFICES ASSUME Init
             PROVE  Dataflow!Init
  OBVIOUS
<1>1. prog = <<>> /\ Exc = IdleUnits
  BY DEF Init
<1>2. PICK rd \in 0 .. Len(prog), rn \in 0 .. Len(prog),
           de \in 0 .. Len(prog), fe \in 0 .. Len(prog) : CoreAt(rd, rn, de, fe)
  BY InitCore DEF CoreInv
<1>3. CpuTypeOK /\ RobInOrder(prog, Tags, Dispatched, rn)
  BY <1>2, CoreIs DEF RobAt
<1>4. rn = 0 /\ Tags.size \in Nat /\ Tags.size <= rn
  BY <1>1, <1>3, TagsIs DEF RobInOrder
<1>5. Tags.size = 0
  BY <1>4
<1>6. Oldest = 0
  BY <1>2, <1>4, <1>5, OldestIs
<1>7. Tags.held = {}
  <2>1. \A t \in Tags.held : Tags.seq[t] \in Nat /\ Tags.seq[t] < rn
    BY <1>3, HeldIs
  <2> QED BY <2>1, <1>4
<1>8. DoneSeqs = {}
  BY <1>3, <1>7, DoneSeqsAre DEF DoneTags
<1>9. ExecSeqs = {}
  BY <1>1 DEF ExecSeqs, BusyUnits, IdleUnits
<1> QED BY <1>1, <1>6, <1>8, <1>9 DEF Dataflow!Init

(* A step of the core is a step of the abstract one, or leaves what it     *)
(* sees as it is.                                                          *)
LEMMA StepSeen ==
  ASSUME CoreInv, \A n : CoreFor(n)' => View(n)', [Next]_vars
  PROVE  [Dataflow!Next]_Dataflow!dfVars
<1>1. PICK rd \in 0 .. Len(prog), rn \in 0 .. Len(prog),
           de \in 0 .. Len(prog), fe \in 0 .. Len(prog) : CoreAt(rd, rn, de, fe)
  BY DEF CoreInv
<1>2. View(rn)
  BY <1>1, ViewIs DEF CoreFor
<1>3. ASSUME View(rn)', UNCHANGED <<params, prog, Rob, Exc, Wb>>
      PROVE  UNCHANGED Dataflow!dfVars
  BY <1>2, <1>3, NotSeen, SameTags, SameMachine DEF ExecSeqs, BusyUnits
<1>4. CASE BeginCycle
  BY <1>1, <1>3, <1>4, BeginCycleKeeps DEF BeginCycle, mainVars
<1>5. CASE Read
  <2>1. CASE ReadNothing
    BY <2>1, <1>1, <1>2, <1>5, ReadNothingKeeps, ReadSeen DEF Dataflow!Next
  <2>2. ASSUME NEW n \in 0 .. Width, NEW bundle \in [1 .. n -> Instr],
               ReadTrace(n, bundle)
        PROVE  Dataflow!Next
    BY <2>2, <1>1, <1>2, <1>5, ReadTraceKeeps, ReadSeen DEF Dataflow!Next
  <2> QED BY <2>1, <2>2, <1>5 DEF Read
<1>6. CASE Retire
  <2>1. View(rn)'
    BY <1>1, <1>6, RetireKeeps
  <2>2. CASE Retiring
    BY <2>1, <2>2, <1>1, <1>2, <1>6, RetireSeen DEF Dataflow!Next
  <2>3. CASE ~Retiring
    BY <2>1, <2>3, <1>3, <1>6 DEF Retire, mainVars
  <2> QED BY <2>2, <2>3
<1>7. CASE Writeback
  BY <1>1, <1>2, <1>7, WritebackKeeps, WritebackSeen
<1>8. CASE Execute
  BY <1>1, <1>2, <1>8, ExecuteKeeps, ExecuteSeen DEF Dataflow!Next
<1>9. CASE Issue
  <2>1. View(rn)'
    BY <1>1, <1>9, IssueKeeps
  <2>2. CASE NothingToIssue
    BY <2>1, <2>2, <1>3, <1>9 DEF Issue, NothingToIssue, mainVars
  <2>3. ASSUME NEW i \in Entry, NEW u \in Unit, IssueTo(i, u)
        PROVE  Dataflow!Next
    BY <2>1, <2>3, <1>1, <1>2, <1>9, IssueSeen DEF Dataflow!Next
  <2> QED BY <2>2, <2>3, <1>9 DEF Issue
<1>10. CASE Dispatch
  BY <1>1, <1>3, <1>10, DispatchKeeps DEF Dispatch, mainVars
<1>11. CASE Enqueue
  BY <1>1, <1>3, <1>11, EnqueueKeeps DEF Enqueue, mainVars
<1>12. CASE RegRead
  BY <1>1, <1>3, <1>12, RegReadKeeps DEF RegRead, mainVars
<1>13. CASE Rename
  BY <1>1, <1>3, <1>13, RenameKeeps DEF Rename, mainVars
<1>14. CASE RenameInst
  BY <1>1, <1>2, <1>14, RenameInstKeeps, RenameInstSeen
<1>15. CASE Decode
  BY <1>1, <1>3, <1>15, DecodeKeeps DEF Decode, mainVars
<1>16. CASE Fetch
  BY <1>1, <1>3, <1>16, FetchKeeps DEF Fetch, mainVars
<1>17. CASE Advance_Cycle
  BY <1>1, <1>3, <1>17, AdvanceKeeps DEF Advance_Cycle
<1>18. CASE UNCHANGED vars
  BY <1>1, <1>3, <1>18, StutterKeeps DEF vars
<1> QED BY <1>4, <1>5, <1>6, <1>7, <1>8, <1>9, <1>10, <1>11, <1>12, <1>13, <1>14,
           <1>15, <1>16, <1>17, <1>18 DEF Next, BackEnd, FrontEnd, End

(* The core implements DataflowCore: whatever tags, latches and stalls it  *)
(* met, an instruction starts once, when the results it reads by program   *)
(* order are there, and leaves in program order after it executed.         *)
THEOREM CoreIsDataflow == Spec => DataflowSpec
<1>1. \A n : CoreFor(n) => View(n)
  BY ViewIs
<1>2. CoreInv /\ [Next]_vars => [Dataflow!Next]_Dataflow!dfVars
  <2>1. (\A n : CoreFor(n) => View(n))'
    BY <1>1, PTL
  <2> QED BY <2>1, StepSeen
<1> QED BY <1>2, InitSeen, CoreInductive, PTL DEF Spec, DataflowSpec, Dataflow!Spec

(***************************************************************************)
(* Where an instruction is, when a cycle begins.                           *)
(***************************************************************************)
RrAt(q)  == {x \in Slot : Rr[x].seq = q}
DiAt(q)  == {x \in Slot : Di[x].seq = q}
IqAt(q)  == {x \in ValidIq : Iq.queue[x].seq = q}
ExcAt(q) == {x \in BusyUnits : Exc[x].seq = q}

(* The latches without entries that were handed on.                        *)
LEMMA AtUpdInfo ==
  ASSUME NEW rd \in 0 .. Len(prog), NEW rn \in 0 .. Len(prog),
         NEW de \in 0 .. Len(prog), NEW fe \in 0 .. Len(prog),
         CoreAt(rd, rn, de, fe), stage = "UpdInfo"
  PROVE  /\ InOrder(Di, 0, Width, Dispatched, rd) /\ InOrder(Rr, 0, Width, rd, rn)
         /\ InOrder(Rn, 0, Width, rn, de) /\ InOrder(De, 0, Width, de, fe)
         /\ InOrder(inst_input, 0, Width, fe, Len(prog))
  BY CoreIs, FromsIs DEF FrontAt, MiddleAt, Calm, Behind, Settled

(* In one place at most, and nowhere if it is not in the reorder buffer.   *)
LEMMA PlacesAre ==
  ASSUME NEW rd \in 0 .. Len(prog), NEW rn \in 0 .. Len(prog),
         NEW de \in 0 .. Len(prog), NEW fe \in 0 .. Len(prog),
         CoreAt(rd, rn, de, fe), stage = "UpdInfo", NEW q \in Nat
  PROVE  /\ \A x, y \in RrAt(q) : x = y
         /\ \A x, y \in DiAt(q) : x = y
         /\ \A x, y \in IqAt(q) : x = y
         /\ \A x, y \in ExcAt(q) : x = y
         /\ RrAt(q) /= {} => DiAt(q) = {} /\ IqAt(q) = {} /\ ExcAt(q) = {}
         /\ DiAt(q) /= {} => IqAt(q) = {} /\ ExcAt(q) = {}
         /\ IqAt(q) /= {} => ExcAt(q) = {}
         /\ q \notin RobSeqs => /\ RrAt(q) = {} /\ DiAt(q) = {}
                                /\ IqAt(q) = {} /\ ExcAt(q) = {}
         /\ q \in DoneSeqs => /\ RrAt(q) = {} /\ DiAt(q) = {}
                              /\ IqAt(q) = {} /\ ExcAt(q) = {}
         /\ q \in RobSeqs \ DoneSeqs => \/ RrAt(q) /= {} \/ DiAt(q) /= {}
                                        \/ IqAt(q) /= {} \/ ExcAt(q) /= {}
<1> DEFINE d == Dispatched
           w == Width
<1>1. /\ CpuTypeOK /\ RobInOrder(prog, Tags, Dispatched, rn) /\ LatchesOK
      /\ IqOK(prog, Tags, Dispatched, Iq.queue, ValidIq)
      /\ ExcOK(Tags, Dispatched, Exc, BusyUnits) /\ IqTags \cap ExcTags = {}
      /\ WbOK(Tags, Dispatched, Wb, stage = "Execute")
      /\ NothingLost(Tags, Dispatched, IqTags \cup ExcTags)
  BY CoreIs DEF RobAt, TagsOK, BackEndOK
<1>2. /\ w \in Nat /\ Slot = 0 .. w - 1 /\ d \in Nat /\ rd \in Nat /\ rn \in Nat
      /\ None \notin Nat
  BY <1>1, Numbers, Sizes, TableIs
<1>3. /\ InOrder(Di, 0, w, d, rd) /\ InOrder(Rr, 0, w, rd, rn)
  BY AtUpdInfo
<1>4. d <= rd /\ rd <= rn
  BY <1>3 DEF InOrder
<1>5. \A k \in Slot : /\ Rr[k].seq = q => k = q - rd /\ rd <= q /\ q < rn
                      /\ Di[k].seq = q => k = q - d /\ d <= q /\ q < rd
  <2> TAKE k \in Slot
  <2> HIDE DEF d, w
  <2>1. /\ Rr[k].seq = IF rd + (k - 0) < rn THEN rd + (k - 0) ELSE None
        /\ Di[k].seq = IF d + (k - 0) < rd THEN d + (k - 0) ELSE None
    BY <1>2, <1>3 DEF InOrder
  <2> QED BY <2>1, <1>2
<1>6. /\ rd <= q /\ q < rn => RrAt(q) /= {}
      /\ d <= q /\ q < rd => DiAt(q) /= {}
  <2> HIDE DEF d, w
  <2>1. ASSUME rd <= q, q < rn
        PROVE  RrAt(q) /= {}
    <3> DEFINE k == q - rd
    <3>1. k \in 0 .. w - 1 /\ rd + (k - 0) = q
      BY <2>1, <1>2, <1>3 DEF InOrder
    <3> HIDE DEF k
    <3>2. Rr[k].seq = q
      BY <3>1, <2>1, <1>3 DEF InOrder
    <3> QED BY <3>1, <3>2, <1>2 DEF RrAt
  <2>2. ASSUME d <= q, q < rd
        PROVE  DiAt(q) /= {}
    <3> DEFINE k == q - d
    <3>1. k \in 0 .. w - 1 /\ d + (k - 0) = q
      BY <2>2, <1>2, <1>3 DEF InOrder
    <3> HIDE DEF k
    <3>2. Di[k].seq = q
      BY <3>1, <2>2, <1>3 DEF InOrder
    <3> QED BY <3>1, <3>2, <1>2 DEF DiAt
  <2> QED BY <2>1, <2>2
<1>7. \A t, u \in Tags.held : Tags.seq[t] = Tags.seq[u] => t = u
  BY <1>1, HeldIs
<1>8. RobSeqs = {Tags.seq[t] : t \in Tags.held}
      /\ DoneSeqs = {Tags.seq[t] : t \in DoneTags(Tags)}
  <2>1. InRob = Tags.held /\ \A t \in Tags.held : Tags.seq[t] = Rob.cqueue[t].seq
    BY <1>1, RobTagIs, TagsIs
  <2> QED BY <2>1, <1>1, DoneSeqsAre DEF RobSeqs
<1>9. ASSUME NEW t \in Tags.held, Tags.seq[t] = q, d <= q
      PROVE  t \notin Tags.ready \cup Tags.wb
  <2>1. t \notin Tags.ready
    BY <1>1, <1>9 DEF RobInOrder
  <2>2. t \in Tags.wb => q < d
    BY <1>1, <1>9, WbIs
  <2> HIDE DEF d
  <2> QED BY <2>1, <2>2, <1>9, <1>2
<1>10. ASSUME NEW x \in IqAt(q)
       PROVE  /\ x \in ValidIq /\ q < d /\ Iq.queue[x].dst_tag \in IqTags
              /\ Iq.queue[x].dst_tag \in Tags.held
              /\ Tags.seq[Iq.queue[x].dst_tag] = q
              /\ Iq.queue[x].dst_tag \notin Tags.ready \cup Tags.wb
  BY <1>1 DEF IqAt, IqOK, IqEntryOK, Pending, Holder, IqTags, TagsOf
<1>11. ASSUME NEW x \in ExcAt(q)
       PROVE  /\ x \in BusyUnits /\ q < d /\ Exc[x].dst_tag \in ExcTags
              /\ Exc[x].dst_tag \in Tags.held
              /\ Tags.seq[Exc[x].dst_tag] = q
              /\ Exc[x].dst_tag \notin Tags.ready \cup Tags.wb
  BY <1>1 DEF ExcAt, ExcOK, Pending, Holder, ExcTags, TagsOf
<1>12. /\ RrAt(q) /= {} => rd <= q /\ q < rn
       /\ DiAt(q) /= {} => d <= q /\ q < rd
  BY <1>5 DEF RrAt, DiAt
<1>13. /\ \A x, y \in RrAt(q) : x = y
       /\ \A x, y \in DiAt(q) : x = y
  BY <1>5 DEF RrAt, DiAt
<1>14. \A x, y \in IqAt(q) : x = y
  BY <1>1, <1>7, <1>10 DEF IqOK
<1>15. \A x, y \in ExcAt(q) : x = y
  BY <1>1, <1>7, <1>11 DEF ExcOK
<1>16. IqAt(q) /= {} => ExcAt(q) = {}
  BY <1>1, <1>7, <1>10, <1>11
<1>17. /\ RrAt(q) /= {} => DiAt(q) = {} /\ IqAt(q) = {} /\ ExcAt(q) = {}
       /\ DiAt(q) /= {} => IqAt(q) = {} /\ ExcAt(q) = {}
  <2>1. (IqAt(q) /= {} \/ ExcAt(q) /= {}) => q < d
    BY <1>10, <1>11
  <2> HIDE DEF d
  <2> QED BY <2>1, <1>2, <1>4, <1>12
<1>18. RrAt(q) /= {} \/ DiAt(q) /= {} => q \in RobSeqs
  <2>1. DOMAIN Rr = Slot /\ DOMAIN Di = Slot
    BY <1>1, Types
  <2>2. \A k \in Slot : /\ Rr[k].seq = None \/ Holder(Tags, Rr[k].dst, Rr[k].seq)
                        /\ Di[k].seq = None \/ Holder(Tags, Di[k].dst, Di[k].seq)
    BY <2>1, <1>1 DEF LatchesOK, LatchOK, EntryOK
  <2> QED BY <2>2, <1>2, <1>8 DEF RrAt, DiAt, Holder
<1>19. IqAt(q) /= {} \/ ExcAt(q) /= {} => q \in RobSeqs
  BY <1>8, <1>10, <1>11
<1>20. ASSUME q \in DoneSeqs
       PROVE  RrAt(q) = {} /\ DiAt(q) = {} /\ IqAt(q) = {} /\ ExcAt(q) = {}
  <2>1. PICK t \in DoneTags(Tags) : Tags.seq[t] = q
    BY <1>8, <1>20
  <2>2. t \in Tags.held /\ t \in Tags.ready \cup Tags.wb
    BY DEF DoneTags
  <2>3. ~(d <= q)
    BY <2>1, <2>2, <1>9
  <2>4. RrAt(q) = {} /\ DiAt(q) = {}
    <3> HIDE DEF d
    <3> QED BY <2>3, <1>2, <1>4, <1>12
  <2>5. IqAt(q) = {} /\ ExcAt(q) = {}
    BY <2>1, <2>2, <1>7, <1>10, <1>11
  <2> QED BY <2>4, <2>5
<1>21. ASSUME q \in RobSeqs \ DoneSeqs
       PROVE  RrAt(q) /= {} \/ DiAt(q) /= {} \/ IqAt(q) /= {} \/ ExcAt(q) /= {}
  <2>1. PICK t \in Tags.held : Tags.seq[t] = q
    BY <1>8, <1>21
  <2>2. t \notin Tags.ready \cup Tags.wb
    BY <2>1, <1>8, <1>21 DEF DoneTags
  <2>3. q < rn
    BY <2>1, <1>1, HeldIs
  <2>4. CASE q < d
    <3>1. t \in IqTags \cup ExcTags
      BY <2>1, <2>2, <2>4, <1>1 DEF NothingLost
    <3>2. CASE t \in IqTags
      <4>1. PICK x \in ValidIq : Iq.queue[x].dst_tag = t
        BY <3>2 DEF IqTags, TagsOf
      <4>2. Tags.seq[t] = Iq.queue[x].seq
        BY <4>1, <1>1 DEF IqOK, IqEntryOK, Pending, Holder
      <4>3. x \in IqAt(q)
        BY <4>1, <4>2, <2>1 DEF IqAt
      <4> QED BY <4>3
    <3>3. CASE t \in ExcTags
      <4>1. PICK x \in BusyUnits : Exc[x].dst_tag = t
        BY <3>3 DEF ExcTags, TagsOf
      <4>2. Tags.seq[t] = Exc[x].seq
        BY <4>1, <1>1 DEF ExcOK, Pending, Holder
      <4>3. x \in ExcAt(q)
        BY <4>1, <4>2, <2>1 DEF ExcAt
      <4> QED BY <4>3
    <3> QED BY <3>1, <3>2, <3>3
  <2>5. CASE ~(q < d)
    <3> HIDE DEF d
    <3> QED BY <2>3, <2>5, <1>2, <1>6
  <2> QED BY <2>4, <2>5
<1> QED BY <1>13, <1>14, <1>15, <1>16, <1>17, <1>18, <1>19, <1>20, <1>21

Places(q) == {<<"Rr", k>> : k \in RrAt(q)} \cup {<<"Di", k>> : k \in DiAt(q)}
             \cup {<<"Iq", i>> : i \in IqAt(q)} \cup {<<"Exc", u>> : u \in ExcAt(q)}

(* Between two cycles an instruction that is in the reorder buffer and not *)
(* done is in one place behind it; one that is done, or not renamed, is in *)
(* none.                                                                   *)
LEMMA OneAtMost ==
  ASSUME NEW rd \in 0 .. Len(prog), NEW rn \in 0 .. Len(prog),
         NEW de \in 0 .. Len(prog), NEW fe \in 0 .. Len(prog),
         CoreAt(rd, rn, de, fe), stage = "UpdInfo", NEW q \in Nat
  PROVE  /\ q \in RobSeqs => Cardinality(Places(q)) = IF q \in DoneSeqs THEN 0 ELSE 1
         /\ q \notin RobSeqs => Places(q) = {}
<1>1. \A x, y \in Places(q) : x = y
  <2>1. /\ \A x, y \in RrAt(q) : x = y
        /\ \A x, y \in DiAt(q) : x = y
        /\ \A x, y \in IqAt(q) : x = y
        /\ \A x, y \in ExcAt(q) : x = y
        /\ RrAt(q) /= {} => DiAt(q) = {} /\ IqAt(q) = {} /\ ExcAt(q) = {}
        /\ DiAt(q) /= {} => IqAt(q) = {} /\ ExcAt(q) = {}
        /\ IqAt(q) /= {} => ExcAt(q) = {}
    BY PlacesAre
  <2> QED BY <2>1 DEF Places
<1>2. q \notin RobSeqs \/ q \in DoneSeqs => Places(q) = {}
  BY PlacesAre DEF Places
<1>3. q \in RobSeqs \ DoneSeqs => Places(q) /= {}
  <2>1. q \in RobSeqs \ DoneSeqs => \/ RrAt(q) /= {} \/ DiAt(q) /= {}
                                    \/ IqAt(q) /= {} \/ ExcAt(q) /= {}
    BY PlacesAre
  <2> QED BY <2>1 DEF Places
<1>4. Places(q) /= {} => Cardinality(Places(q)) = 1
  <2> DEFINE S == Places(q)
  <2> HIDE DEF S
  <2>1. ASSUME S /= {}, \A x, y \in S : x = y
        PROVE  Cardinality(S) = 1
    <3>1. PICK x : x \in S
      BY <2>1
    <3>2. S = {x}
      BY <2>1, <3>1
    <3> QED BY <3>2, FS_Singleton
  <2> QED BY <2>1, <1>1 DEF S
<1> QED BY <1>2, <1>3, <1>4, FS_EmptySet

(* The three latches before Rename, as one row.                            *)
LEMMA RunCard ==
  ASSUME NEW x \in Nat, NEW y \in Nat, x <= y
  PROVE  IsFiniteSet(x .. y - 1) /\ Cardinality(x .. y - 1) = y - x
<1>1. /\ IsFiniteSet(x .. y - 1)
      /\ Cardinality(x .. y - 1) = IF x > y - 1 THEN 0 ELSE (y - 1) - x + 1
  BY FS_Interval
<1> QED BY <1>1

Runs(x1, y1, x2, y2, x3, y3) ==
  (x1 .. y1 - 1) \cup (x2 .. y2 - 1) \cup (x3 .. y3 - 1)

Ordered(x1, y1, x2, y2, x3, y3) ==
  /\ x1 \in Nat /\ y1 \in Nat /\ x2 \in Nat /\ y2 \in Nat /\ x3 \in Nat /\ y3 \in Nat
  /\ x1 <= y1 /\ y1 <= x2 /\ x2 <= y2 /\ y2 <= x3 /\ x3 <= y3

RunsLength(x1, y1, x2, y2, x3, y3) == (y1 - x1) + (y2 - x2) + (y3 - x3)

(* The size of three runs of slots.                                        *)
LEMMA RunsCard ==
  \A x1, y1, x2, y2, x3, y3 :
    Ordered(x1, y1, x2, y2, x3, y3) =>
      Cardinality(Runs(x1, y1, x2, y2, x3, y3)) = RunsLength(x1, y1, x2, y2, x3, y3)
<1> SUFFICES ASSUME NEW x1 \in Nat, NEW y1 \in Nat, NEW x2 \in Nat, NEW y2 \in Nat,
                    NEW x3 \in Nat, NEW y3 \in Nat,
                    x1 <= y1, y1 <= x2, x2 <= y2, y2 <= x3, x3 <= y3
             PROVE  Cardinality(Runs(x1, y1, x2, y2, x3, y3)) =
                      (y1 - x1) + (y2 - x2) + (y3 - x3)
  BY DEF Ordered, RunsLength
<1> DEFINE A == x1 .. y1 - 1
           B == x2 .. y2 - 1
           C == x3 .. y3 - 1
<1>1. /\ IsFiniteSet(A) /\ Cardinality(A) = y1 - x1
      /\ IsFiniteSet(B) /\ Cardinality(B) = y2 - x2
      /\ IsFiniteSet(C) /\ Cardinality(C) = y3 - x3
  BY RunCard
<1>2. A \cap B = {} /\ (A \cup B) \cap C = {}
  OBVIOUS
<1> HIDE DEF A, B, C
<1>3. Cardinality({}) = 0
  BY FS_EmptySet
<1>4. IsFiniteSet(A \cup B) /\ Cardinality(A \cup B) = (y1 - x1) + (y2 - x2)
  <2>1. /\ IsFiniteSet(A \cup B)
        /\ Cardinality(A \cup B) = Cardinality(A) + Cardinality(B) - Cardinality(A \cap B)
    BY <1>1, FS_Union
  <2>2. Cardinality(A \cup B) = (y1 - x1) + (y2 - x2) - 0
    BY <2>1, <1>1, <1>2, <1>3
  <2> QED BY <2>1, <2>2
<1>5. Cardinality((A \cup B) \cup C) = (y1 - x1) + (y2 - x2) + (y3 - x3)
  <2>1. Cardinality((A \cup B) \cup C) =
          Cardinality(A \cup B) + Cardinality(C) - Cardinality((A \cup B) \cap C)
    BY <1>1, <1>4, FS_Union
  <2>2. Cardinality((A \cup B) \cup C) = (y1 - x1) + (y2 - x2) + (y3 - x3) - 0
    BY <2>1, <1>1, <1>2, <1>3, <1>4
  <2> QED BY <2>2
<1> QED BY <1>5 DEF Runs, A, B, C

(* Three latches of w slots, the first a, b and c of them filled, as one   *)
(* row, and how much of it is left from slot k on.                         *)
FilledFrom(In, w, a, b, c) ==
  /\ w \in Nat /\ a \in 0 .. w /\ b \in 0 .. w /\ c \in 0 .. w
  /\ In = Runs(0, a, w, w + b, 2 * w, 2 * w + c)

LeftFrom(In, w, a, b, c, k) ==
  /\ k < w => Cardinality({j \in In : j >= k}) = (a - k) + b + c
  /\ w <= k /\ k < 2 * w => Cardinality({j \in In : j >= k}) = ((w + b) - k) + c
  /\ 2 * w <= k => Cardinality({j \in In : j >= k}) = (2 * w + c) - k

(* How many slots of a row are filled from the k-th on.                    *)
LEMMA RowLeft ==
  \A In, w, a, b, c : \A k \in In : FilledFrom(In, w, a, b, c) => LeftFrom(In, w, a, b, c, k)
<1> SUFFICES ASSUME NEW In, NEW w \in Nat, NEW a \in 0 .. w, NEW b \in 0 .. w,
                    NEW c \in 0 .. w, NEW k \in Nat, k \in In,
                    In = Runs(0, a, w, w + b, 2 * w, 2 * w + c)
             PROVE  LeftFrom(In, w, a, b, c, k)
  BY DEF FilledFrom, Runs
<1>1. /\ k < a => Cardinality(Runs(k, a, w, w + b, 2 * w, 2 * w + c)) = (a - k) + b + c
      /\ k \in w .. (w + b) - 1 =>
           Cardinality(Runs(0, 0, k, w + b, 2 * w, 2 * w + c)) = ((w + b) - k) + c
      /\ k \in 2 * w .. (2 * w + c) - 1 =>
           Cardinality(Runs(0, 0, 0, 0, k, 2 * w + c)) = (2 * w + c) - k
  <2> DEFINE y2 == w + b
             x3 == 2 * w
             y3 == 2 * w + c
  <2>1. /\ y2 \in Nat /\ x3 \in Nat /\ y3 \in Nat /\ a \in Nat /\ 0 \in Nat
        /\ a <= w /\ w <= y2 /\ y2 <= x3 /\ x3 <= y3
    OBVIOUS
  <2>2. y2 - w = b /\ y3 - x3 = c
    OBVIOUS
  <2> HIDE DEF y2, x3, y3
  <2>3. ASSUME k < a
        PROVE  Cardinality(Runs(k, a, w, y2, x3, y3)) = (a - k) + (y2 - w) + (y3 - x3)
    <3>1. Ordered(k, a, w, y2, x3, y3)
      BY <2>1, <2>3 DEF Ordered
    <3>2. Cardinality(Runs(k, a, w, y2, x3, y3)) = RunsLength(k, a, w, y2, x3, y3)
      BY <3>1, RunsCard
    <3> QED BY <3>2 DEF RunsLength
  <2>4. ASSUME w <= k, k <= y2
        PROVE  Cardinality(Runs(0, 0, k, y2, x3, y3)) = (0 - 0) + (y2 - k) + (y3 - x3)
    <3>1. Ordered(0, 0, k, y2, x3, y3)
      BY <2>1, <2>4 DEF Ordered
    <3>2. Cardinality(Runs(0, 0, k, y2, x3, y3)) = RunsLength(0, 0, k, y2, x3, y3)
      BY <3>1, RunsCard
    <3> QED BY <3>2 DEF RunsLength
  <2>5. ASSUME x3 <= k, k <= y3
        PROVE  Cardinality(Runs(0, 0, 0, 0, k, y3)) = (0 - 0) + (0 - 0) + (y3 - k)
    <3>1. Ordered(0, 0, 0, 0, k, y3)
      BY <2>1, <2>5 DEF Ordered
    <3>2. Cardinality(Runs(0, 0, 0, 0, k, y3)) = RunsLength(0, 0, 0, 0, k, y3)
      BY <3>1, RunsCard
    <3> QED BY <3>2 DEF RunsLength
  <2>6. k < a => Cardinality(Runs(k, a, w, y2, x3, y3)) = (a - k) + b + c
    BY <2>2, <2>3
  <2>7. w <= k /\ k <= y2 => Cardinality(Runs(0, 0, k, y2, x3, y3)) = (y2 - k) + c
    BY <2>1, <2>2, <2>4
  <2>8. x3 <= k /\ k <= y3 => Cardinality(Runs(0, 0, 0, 0, k, y3)) = y3 - k
    BY <2>1, <2>5
  <2>9. /\ k \in w .. y2 - 1 => w <= k /\ k <= y2
        /\ k \in x3 .. y3 - 1 => x3 <= k /\ k <= y3
    BY <2>1
  <2> QED BY <2>6, <2>7, <2>8, <2>9 DEF y2, x3, y3
<1>2. /\ k < w => k < a /\ {j \in In : j >= k} = Runs(k, a, w, w + b, 2 * w, 2 * w + c)
      /\ w <= k /\ k < 2 * w => 
           /\ k \in w .. (w + b) - 1
           /\ {j \in In : j >= k} = Runs(0, 0, k, w + b, 2 * w, 2 * w + c)
      /\ 2 * w <= k =>
           /\ k \in 2 * w .. (2 * w + c) - 1
           /\ {j \in In : j >= k} = Runs(0, 0, 0, 0, k, 2 * w + c)
  BY DEF Runs
<1> QED BY <1>1, <1>2 DEF LeftFrom

Row == [k \in 0 .. 3 * Width - 1 |->
          CASE k < Width -> Rn[k].seq
            [] k \in Width .. 2 * Width - 1 -> De[k - Width].seq
            [] OTHER -> inst_input[k - 2 * Width].seq]

InRow == {k \in DOMAIN Row : Row[k] /= None}

(* An instruction in a latch of the front end is not renamed, and its      *)
(* place in the row gives its number.                                      *)
LEMMA RowIs ==
  ASSUME NEW rd \in 0 .. Len(prog), NEW rn \in 0 .. Len(prog),
         NEW de \in 0 .. Len(prog), NEW fe \in 0 .. Len(prog),
         CoreAt(rd, rn, de, fe), stage = "UpdInfo", NEW k \in Nat, k \in InRow
  PROVE  /\ Row[k] \notin RobSeqs
         /\ Row[k] = Len(prog) - Cardinality({j \in InRow : j >= k})
<1>1. /\ CpuTypeOK /\ RobInOrder(prog, Tags, Dispatched, rn)
  BY CoreIs DEF RobAt
<1>0. Len(prog) \in Nat /\ Width \in Nat
  BY <1>1, Numbers, Sizes
<1> PICK n \in Nat : n = Len(prog)
  BY <1>0
<1> PICK w \in Nat : w = Width
  BY <1>0
<1> DEFINE a == de - rn
           b == fe - de
           c == n - fe
<1>2. /\ w \in Nat \ {0} /\ n \in Nat /\ rn \in Nat /\ de \in Nat /\ fe \in Nat
      /\ None \notin Nat
  BY <1>1, Numbers, Sizes
<1>3. /\ InOrder(Rn, 0, w, rn, de) /\ InOrder(De, 0, w, de, fe)
      /\ InOrder(inst_input, 0, w, fe, n)
  BY AtUpdInfo
<1>4. DOMAIN Row = 0 .. 3 * w - 1
      /\ \A j \in 0 .. 3 * w - 1 :
           Row[j] = CASE j < w -> Rn[j].seq
                      [] j \in w .. 2 * w - 1 -> De[j - w].seq
                      [] OTHER -> inst_input[j - 2 * w].seq
  BY DEF Row
<1>5. a \in 0 .. w /\ b \in 0 .. w /\ c \in 0 .. w
  BY <1>2, <1>3 DEF InOrder
<1>6. \A j \in 0 .. w - 1 : Row[j] = IF j < a THEN rn + j ELSE None
  <2> TAKE j \in 0 .. w - 1
  <2>1. Row[j] = Rn[j].seq
    BY <1>2, <1>4
  <2>2. Rn[j].seq = IF rn + (j - 0) < de THEN rn + (j - 0) ELSE None
    BY <1>3 DEF InOrder
  <2> QED BY <2>1, <2>2, <1>2
<1>7. \A j \in w .. 2 * w - 1 : Row[j] = IF j < w + b THEN de + (j - w) ELSE None
  <2> TAKE j \in w .. 2 * w - 1
  <2> DEFINE i == j - w
  <2>1. i \in 0 .. w - 1 /\ j \in 0 .. 3 * w - 1 /\ ~(j < w)
    BY <1>2
  <2>2. Row[j] = De[i].seq
    BY <2>1, <1>4
  <2> HIDE DEF i
  <2>3. De[i].seq = IF de + (i - 0) < fe THEN de + (i - 0) ELSE None
    BY <2>1, <1>3 DEF InOrder
  <2>4. de + (i - 0) = de + (j - w) /\ (de + (i - 0) < fe <=> j < w + b)
    BY <1>2 DEF i
  <2> QED BY <2>2, <2>3, <2>4
<1>8. \A j \in 2 * w .. 3 * w - 1 :
        Row[j] = IF j < 2 * w + c THEN fe + (j - 2 * w) ELSE None
  <2> TAKE j \in 2 * w .. 3 * w - 1
  <2> DEFINE i == j - 2 * w
  <2>1. i \in 0 .. w - 1 /\ j \in 0 .. 3 * w - 1 /\ ~(j < w) /\ j \notin w .. 2 * w - 1
    BY <1>2
  <2>2. Row[j] = inst_input[i].seq
    BY <2>1, <1>4
  <2> HIDE DEF i
  <2>3. inst_input[i].seq = IF fe + (i - 0) < n THEN fe + (i - 0) ELSE None
    BY <2>1, <1>3 DEF InOrder
  <2>4. fe + (i - 0) = fe + (j - 2 * w) /\ (fe + (i - 0) < n <=> j < 2 * w + c)
    BY <1>2 DEF i
  <2> QED BY <2>2, <2>3, <2>4
<1> HIDE DEF a, b, c
<1>9. \A j : j \in InRow <=> \/ j \in 0 .. a - 1 \/ j \in w .. (w + b) - 1
                            \/ j \in 2 * w .. (2 * w + c) - 1
  <2>1. a \in Nat /\ b \in Nat /\ c \in Nat /\ a <= w /\ b <= w /\ c <= w
    BY <1>2, <1>5
  <2>2. \A j : j \in 0 .. 3 * w - 1 <=> \/ j \in 0 .. w - 1 \/ j \in w .. 2 * w - 1
                                       \/ j \in 2 * w .. 3 * w - 1
    BY <1>2
  <2>3. \A j \in 0 .. w - 1 : Row[j] /= None <=> j \in 0 .. a - 1
    BY <2>1, <1>2, <1>6
  <2>4. \A j \in w .. 2 * w - 1 : Row[j] /= None <=> j \in w .. (w + b) - 1
    BY <2>1, <1>2, <1>7
  <2>5. \A j \in 2 * w .. 3 * w - 1 : Row[j] /= None <=> j \in 2 * w .. (2 * w + c) - 1
    BY <2>1, <1>2, <1>8
  <2>6. \A j : /\ j \in 0 .. a - 1 => j \in 0 .. w - 1
               /\ j \in w .. (w + b) - 1 => j \in w .. 2 * w - 1
               /\ j \in 2 * w .. (2 * w + c) - 1 => j \in 2 * w .. 3 * w - 1
    BY <2>1, <1>2
  <2>7. \A j : ~(j \in 0 .. w - 1 /\ j \in w .. 2 * w - 1)
               /\ ~(j \in 0 .. w - 1 /\ j \in 2 * w .. 3 * w - 1)
               /\ ~(j \in w .. 2 * w - 1 /\ j \in 2 * w .. 3 * w - 1)
    BY <1>2
  <2>8. \A j : j \in InRow <=> j \in 0 .. 3 * w - 1 /\ Row[j] /= None
    BY <1>4 DEF InRow
  <2> QED BY <2>2, <2>3, <2>4, <2>5, <2>6, <2>7, <2>8
<1>10. a = de - rn /\ b = fe - de /\ c = n - fe
  BY DEF a, b, c
<1>11. RobSeqs = rn - Tags.size .. rn - 1
  BY <1>1, RobSeqsAre
<1>12. \A q \in Nat : rn <= q => q \notin RobSeqs
  BY <1>2, <1>11
<1>13. FilledFrom(InRow, w, a, b, c)
  BY <1>5, <1>9 DEF FilledFrom, Runs
<1>14. LeftFrom(InRow, w, a, b, c, k)
  BY <1>13, RowLeft
<1> DEFINE s == Cardinality({j \in InRow : j >= k})
<1>15. /\ k < w => s = (a - k) + b + c
       /\ w <= k /\ k < 2 * w => s = ((w + b) - k) + c
       /\ 2 * w <= k => s = (2 * w + c) - k
  BY <1>14 DEF LeftFrom
<1> HIDE DEF s
<1>16. CASE k \in 0 .. a - 1
  <2>1. k \in 0 .. w - 1 /\ k < a /\ k < w
    BY <1>16, <1>2, <1>5
  <2>2. Row[k] = rn + k
    BY <2>1, <1>6
  <2>3. Row[k] = n - s /\ Row[k] \in Nat /\ rn <= Row[k]
    BY <2>1, <2>2, <1>15, <1>2, <1>5, <1>10
  <2> QED BY <2>3, <1>12 DEF s
<1>17. CASE k \in w .. (w + b) - 1
  <2>1. k \in w .. 2 * w - 1 /\ k < w + b /\ w <= k /\ k < 2 * w
    BY <1>17, <1>2, <1>5
  <2>2. Row[k] = de + (k - w)
    BY <2>1, <1>7
  <2>3. Row[k] = n - s /\ Row[k] \in Nat /\ rn <= Row[k]
    BY <2>1, <2>2, <1>15, <1>2, <1>5, <1>10
  <2> QED BY <2>3, <1>12 DEF s
<1>18. CASE k \in 2 * w .. (2 * w + c) - 1
  <2>1. k \in 2 * w .. 3 * w - 1 /\ k < 2 * w + c /\ 2 * w <= k
    BY <1>18, <1>2, <1>5
  <2>2. Row[k] = fe + (k - 2 * w)
    BY <2>1, <1>8
  <2>3. Row[k] = n - s /\ Row[k] \in Nat /\ rn <= Row[k]
    BY <2>1, <2>2, <1>15, <1>2, <1>5, <1>10
  <2> QED BY <2>3, <1>12 DEF s
<1> QED BY <1>9, <1>16, <1>17, <1>18

(* The invariant says where each instruction is.                           *)
LEMMA InOnePlace ==
  ASSUME NEW rd \in 0 .. Len(prog), NEW rn \in 0 .. Len(prog),
         NEW de \in 0 .. Len(prog), NEW fe \in 0 .. Len(prog),
         CoreAt(rd, rn, de, fe)
  PROVE  OnePlace
<1> SUFFICES ASSUME stage = "UpdInfo"
             PROVE  /\ \A q \in RobSeqs : Cardinality(Places(q)) =
                                            IF q \in DoneSeqs THEN 0 ELSE 1
                    /\ \A q \in Seq0 \ RobSeqs : Places(q) = {}
                    /\ \A k \in InRow :
                         /\ Row[k] \notin RobSeqs
                         /\ Row[k] = Len(prog) - Cardinality({j \in InRow : j >= k})
  BY DEF OnePlace, Places, RrAt, DiAt, IqAt, ExcAt, Row, InRow
<1>1. CpuTypeOK
  BY CoreIs
<1>2. \A q \in RobSeqs : q \in Nat
  <2>1. \A t \in InRob : t \in Tag
    BY <1>1, RobTagIs, TagsIs
  <2>2. \A t \in Tag : Rob.cqueue[t].seq \in Seq0
    BY <1>1, RobTypes
  <2> QED BY <2>1, <2>2 DEF RobSeqs, Seq0
<1>3. \A q \in Seq0 : q \in Nat
  BY DEF Seq0
<1>4. \A q \in Nat : /\ q \in RobSeqs => Cardinality(Places(q)) =
                                            IF q \in DoneSeqs THEN 0 ELSE 1
                     /\ q \notin RobSeqs => Places(q) = {}
  BY OneAtMost
<1>5. \A k \in InRow : /\ Row[k] \notin RobSeqs
                       /\ Row[k] = Len(prog) - Cardinality({j \in InRow : j >= k})
  <2>1. CpuTypeOK /\ DOMAIN Row = 0 .. 3 * Width - 1
    BY <1>1 DEF Row
  <2>2. \A k \in InRow : k \in Nat
    BY <2>1, Numbers, Sizes DEF InRow
  <2> QED BY <2>2, RowIs
<1> QED BY <1>2, <1>3, <1>4, <1>5

(* When a cycle begins every instruction read and not retired is in        *)
(* exactly one place, however Retire, Dispatch, RegRead, Rename, Decode    *)
(* and Fetch stalled or passed a latch on: before Rename in order, or in   *)
(* one latch, queue entry or unit behind it, or done.                      *)
THEOREM InstructionInOnePlace == Spec => []OnePlace
<1>1. CoreInv => OnePlace
  BY InOnePlace DEF CoreInv
<1> QED BY <1>1, CoreInductive, PTL
=============================================================================
