-------------------------- MODULE OutOfOrderProps --------------------------
(***************************************************************************)
(* What makes the out-of-order core of Project03 correct.                  *)
(***************************************************************************)
EXTENDS OutOfOrderCpu

(* Latches, queues and tables keep their shape; tags and sequence numbers  *)
(* stay in range.                                                          *)
CpuTypeOK ==
  /\ params \in Params
  /\ prog \in Seq(Instr) /\ Len(prog) <= MaxTrace
  /\ last \in BOOLEAN /\ loop \in {"trace", "drain"}
  /\ stage \in Stages /\ slot \in Slot
  /\ {inst_input, De, Rn, Rr, Di} \subseteq [Slot -> PipeReg]
  /\ Rmt \in [Reg -> Tag \cup {None}]
  /\ Rob \in RobOf(Seq0, Reg \cup {None})
  /\ Iq.queue \in [Entry -> IqRegOf(Seq0, Op, Tag, Reg \cup Tag \cup {None})]
  /\ Iq.cnt \in 0 .. IqSize /\ Iq.seq_max \in 1 .. MaxTrace + 1
  /\ Exc \in ExcOf(Seq0, Tag)
  /\ Wb \in [Unit -> WbReg]
  /\ {FE, DE, RN, RR, DI, IS, empty, done_flag} \subseteq BOOLEAN

(***************************************************************************)
(* Where an instruction is.                                                *)
(***************************************************************************)
Seqs(latch) == {latch[k].seq : k \in Slot} \ {None}
InRob       == {RobTag(Rob, j) : j \in 1 .. RobCount(Rob)}
RobSeqs     == {Rob.cqueue[t].seq : t \in InRob}
DoneSeqs    == {Rob.cqueue[t].seq : t \in {s \in InRob : GetRdy(Rob, s) \/ FindWb(s)}}
BusyUnits   == {u \in Unit : Exc[u].cnt \notin {None, 0}}
ExecSeqs    == {Exc[u].seq : u \in BusyUnits}
ValidIq     == {i \in Entry : Iq.queue[i].v /= "INV"}
Unretired   == RobSeqs \cup Seqs(Rn) \cup Seqs(De) \cup Seqs(inst_input)

Oldest ==
  IF Unretired = {} THEN Len(prog)
  ELSE CHOOSE q \in Unretired : \A p \in Unretired : q <= p

(* In the reorder buffer are consecutive instructions of the trace, oldest *)
(* at the head, with their own destinations, and the rename map names, for *)
(* each register, the youngest of them that writes it: a retiring          *)
(* instruction clears the mapping only if no younger writer took it over.  *)
RmtExact ==
  /\ \A j \in 2 .. RobCount(Rob) :
       Rob.cqueue[RobTag(Rob, j)].seq = Rob.cqueue[RobTag(Rob, j - 1)].seq + 1
  /\ \A t \in InRob : Rob.cqueue[t].dst = prog[Rob.cqueue[t].seq + 1].dst
  /\ \A r \in Reg :
       LET writers == {j \in 1 .. RobCount(Rob) : Rob.cqueue[RobTag(Rob, j)].dst = r}
       IN  IF writers = {} THEN Rmt[r] = None
           ELSE \E j \in writers : /\ \A i \in writers : i <= j
                                   /\ Rmt[r] = RobTag(Rob, j)

(* The number of the instruction whose result q reads in r.                *)
IsProducer(p, q, r) ==
  /\ p < q /\ prog[p + 1].dst = r
  /\ \A m \in p + 1 .. q - 1 : prog[m + 1].dst /= r

Waits(q, r, tag) == IsProducer(Rob.cqueue[tag].seq, q, r)

(* No wake-up is lost.  A tag is only an index and is used again, yet a    *)
(* source that is still awaited, in a latch or in the issue queue, carries *)
(* the tag of its own producer; and in the issue queue, where nothing but  *)
(* that producer's completion will wake it, the producer is not done yet.  *)
WakeupNotLost ==
  /\ \A k \in Slot, latch \in {Rr, Di} : latch[k].seq /= None =>
       LET i == prog[latch[k].seq + 1]
       IN  /\ latch[k].rob1 => Waits(latch[k].seq, i.src1, latch[k].src1)
           /\ latch[k].rob2 => Waits(latch[k].seq, i.src2, latch[k].src2)
  /\ \A n \in Entry : Iq.queue[n].v = "NRDY" =>
       LET e == Iq.queue[n]
           i == prog[e.seq + 1]
       IN  /\ ~e.rs1_rdy => Waits(e.seq, i.src1, e.rs1_tag) /\ Awaited(e.rs1_tag)
           /\ ~e.rs2_rdy => Waits(e.seq, i.src2, e.rs2_tag) /\ Awaited(e.rs2_tag)
           /\ ~(e.rs1_rdy /\ e.rs2_rdy)

(* When a cycle begins every instruction read and not retired is in        *)
(* exactly one place, however the stages stalled: before rename (in order, *)
(* none missing), or in one latch, queue entry or unit behind it, or done. *)
OnePlace ==
  stage = "UpdInfo" =>
    LET places(q) ==
          {<<"Rr", k>> : k \in {x \in Slot : Rr[x].seq = q}}
          \cup {<<"Di", k>> : k \in {x \in Slot : Di[x].seq = q}}
          \cup {<<"Iq", i>> : i \in {x \in ValidIq : Iq.queue[x].seq = q}}
          \cup {<<"Exc", u>> : u \in {x \in BusyUnits : Exc[x].seq = q}}
        front == [k \in 0 .. 3 * Width - 1 |->
                    CASE k < Width -> Rn[k].seq
                      [] k \in Width .. 2 * Width - 1 -> De[k - Width].seq
                      [] OTHER -> inst_input[k - 2 * Width].seq]
        unrenamed == {k \in DOMAIN front : front[k] /= None}
    IN  /\ \A q \in RobSeqs :
             Cardinality(places(q)) = IF q \in DoneSeqs THEN 0 ELSE 1
        /\ \A q \in Seq0 \ RobSeqs : places(q) = {}
        /\ \A k \in unrenamed :
             /\ front[k] \notin RobSeqs
             /\ front[k] = Len(prog) - Cardinality({j \in unrenamed : j >= k})

(* The queues never fail the stage that relies on them, though it asked    *)
(* for room once and for the whole bundle (a turn before, by a flag): the  *)
(* reorder buffer and the issue queue have an entry for each instruction,  *)
(* a ready instruction always finds a unit ("stage never stall",           *)
(* cpu.cc:222), the issue queue's count is that of its valid entries, and  *)
(* no ready instruction is too young for the search to see.                *)
QueuesSuffice ==
  /\ stage = "RenameInst" /\ Rn[slot].seq /= None => ~Rob.Full
  /\ stage = "Enqueue" /\ Di[slot].seq /= None => ValidIq /= Entry
  /\ stage = "Issue" => \E u \in Unit : Available(Exc, u)
  /\ Iq.cnt = Cardinality(ValidIq)
  /\ \A i \in ValidIq : Iq.queue[i].seq < Iq.seq_max

(***************************************************************************)
(* The core as a DataflowCore: what is in a unit executes, what is in Wb   *)
(* or ready in the reorder buffer is done.                                 *)
(***************************************************************************)
Dataflow == INSTANCE DataflowCore WITH
  retired   <- Oldest,
  executing <- ExecSeqs,
  done      <- DoneSeqs

(* The core implements DataflowCore: an instruction starts once, when the  *)
(* results it reads by program order are there, and leaves in program      *)
(* order after it executed, whatever tags, latches and stalls it met.      *)
DataflowSpec == Dataflow!Spec

(***************************************************************************)
(* The end.                                                                *)
(***************************************************************************)
(* A machine without room for a bundle in one of its queues calls it full  *)
(* when it is empty, and an empty trace never makes the reorder buffer run *)
(* empty: then main's loops have nothing to end them.                      *)
Starved == IqSize < Width \/ RobSize < Width \/ (last /\ prog = <<>>)

(* The simulation ends unless it is starved: no trace makes the stages of  *)
(* any other machine, however small, wait for each other.                  *)
SimulationEnds == <>(Starved \/ stage = "End")

(* A starved one does not: no instruction gets past the stage in front of  *)
(* the queue that has no room, and main neither ends nor stops with an     *)
(* error, it repeats its cycle.                                            *)
StarvedForever ==
  Starved => /\ stage /= "End" /\ ~done_flag
             /\ RobSize < Width => RobSeqs = {}
             /\ IqSize < Width => ValidIq = {} /\ BusyUnits = {}

(* It ends with every instruction retired.  done_flag says no more than    *)
(* that the latest retirement emptied the reorder buffer; a buffer of at   *)
(* least two bundles is emptied by the last instruction only.              *)
DrainedAtEnd == stage = "End" /\ RobSize >= 2 * Width => Unretired = {}
=============================================================================
