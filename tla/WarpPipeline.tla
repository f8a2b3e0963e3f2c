---------------------------- MODULE WarpPipeline ----------------------------
(***************************************************************************)
(* The warps of one scheduler of a core in the sub-core model, where every *)
(* scheduler has one ID_OC register per execution unit, as operators on a  *)
(* record:                                                                 *)
(*   code   : the program of every warp, a sequence of instructions        *)
(*   warp   : shd_warp_t, the top of its SIMT stack and its registers on   *)
(*            the scoreboard                                               *)
(*   flight : issued instructions; inID while in the ID_OC register        *)
(*   queue  : per queue the entries reserved and not consumed: the load    *)
(*            and the words of its lanes; an entry is READY when its load  *)
(*            is no longer in flight                                       *)
(*   bars   : the barriers of the CTA                                      *)
(* An instruction is a record [op, unit, dst, src, to]; one of a queue has *)
(* the queue, its active lanes, the length of its vector and, for a load,  *)
(* the address of every word. Programs only branch forward, so a warp and  *)
(* a pc name an issued instruction.                                        *)
(***************************************************************************)
EXTENDS BarrierSet, Sequences, SequencesExt, TLC

CONSTANTS
  Producers,   \* warps 0 .. Producers - 1 produce, the others consume
  Depth,       \* entries of a queue
  Lanes        \* of a warp

Cta == 0

IsProducer(w) == w < Producers
PairOf(w)     == IF IsProducer(w) THEN w ELSE w - Producers

\* The register-file queue and the shared-memory queue. shader.cc and
\* cuda-sim.cc have one copy of every function below for each.
QueueKinds == {"rfq", "smemq"}

\* smemq_key_for_warp: the producer and the consumer of a pair share a queue.
KeyOf(kind, w) == <<kind, PairOf(w)>>

Keys == QueueKinds \X Warps

UsesQueue(i) == i.op \in {"qload", "qmov"}

IdleWarp == [pc |-> 0, next |-> 0, ibuf |-> <<0, 0>>, slot |-> 1, inPipe |-> 0,
             imiss |-> 0, busy |-> {}, done |-> TRUE, exited |-> TRUE]

EmptyCore == [code |-> [w \in Warps |-> <<>>], warp |-> [w \in Warps |-> IdleWarp],
              flight |-> {}, queue |-> [k \in Keys |-> <<>>],
              bars |-> NoBarriers]

\* shd_warp_t::reset and init, and the warp's part of init_warps. What they
\* do not touch stays as the last CTA left it.
InitWarp(r) ==
  [r EXCEPT !.pc = 1, !.next = 1, !.slot = 1, !.imiss = 0, !.done = FALSE,
            !.exited = FALSE]

\* reinit and init_warps.
StartCta(s, code) ==
  [s EXCEPT
    !.code = code,
    !.warp = [w \in Warps |-> InitWarp(@[w])],
    !.bars = AllocateBarrier(@, Cta, Warps)]

NextPc(s, w)  == s.warp[w].ibuf[s.warp[w].slot]
Inst(s, w)    == s.code[w][NextPc(s, w)]
Buffered(s, w) == {i \in 1 .. 2 : s.warp[w].ibuf[i] # 0}

\* The scheduler looks at the next instruction of the warp, if there is one.
Visible(s, w) ==
  /\ w \in Warps
  /\ ~ s.warp[w].exited
  /\ ~ s.warp[w].done
  /\ w \notin s.bars.waiting
  /\ Buffered(s, w) # {}

\* Control hazard: the buffer holds what the branch jumped over.
Hazard(s, w) == Visible(s, w) /\ NextPc(s, w) # s.warp[w].pc

\* Mutant: only the registers the instruction reads are looked up.
MutCollides(s, w) == Inst(s, w).src \cap s.warp[w].busy # {}

\* checkCollision: a register of the instruction waits to be written.
Collides(s, w) == (Inst(s, w).src \cup Inst(s, w).dst) \cap s.warp[w].busy # {}

\* No response of the load is to come: head_ready, as the marks of the
\* responses leave it.
EntryReady(s, w, e) ==
  \A f \in s.flight : f.warp = PairOf(w) => f.pc # e.pc

\* A load needs a free slot, a MOV a READY head.
Lets(s, w, q) ==
  /\ Inst(s, w).op = "qload" => Len(q) < Depth
  /\ Inst(s, w).op = "qmov" => q # <<>> /\ EntryReady(s, w, Head(q))

\* wasp_rfq_can_issue.
RfqReady(s, w) ==
  UsesQueue(Inst(s, w)) /\ Inst(s, w).queue = "rfq" =>
    Lets(s, w, s.queue[KeyOf("rfq", w)])

\* smemq_can_issue.
SmemqReady(s, w) ==
  UsesQueue(Inst(s, w)) /\ Inst(s, w).queue = "smemq" =>
    Lets(s, w, s.queue[KeyOf("smemq", w)])

UnitFree(s, u) == \A f \in s.flight : f.inID => f.unit # u

Issuable(s, w) ==
  /\ Visible(s, w)
  /\ NextPc(s, w) = s.warp[w].pc
  /\ ~ Collides(s, w)
  /\ RfqReady(s, w) /\ SmemqReady(s, w)
  /\ UnitFree(s, Inst(s, w).unit)

\* A candidate for co-issue goes to a unit, which a barrier does not.
Candidate(s, w) == Issuable(s, w) /\ Inst(s, w).op # "bar"

\* Mutant: the buffer is emptied, the pipeline count is left alone.
MutFlushed(r) == [r EXCEPT !.ibuf = <<0, 0>>]

\* ibuffer_flush.
Flushed(r) ==
  [r EXCEPT !.ibuf = <<0, 0>>,
            !.inPipe = @ - Cardinality({i \in 1 .. 2 : r.ibuf[i] # 0})]

\* The control hazard is resolved for the warps ws.
Refetch(s, ws) ==
  [s EXCEPT !.warp = [w \in Warps |->
     IF w \in ws THEN [Flushed(@[w]) EXCEPT !.next = s.warp[w].pc] ELSE @[w]]]

-----------------------------------------------------------------------------
(* The queue instructions. prepare_issue, the execution of every lane and  *)
(* after_func_exec run within the issue.                                   *)

\* Only a vector of three carries more than one word.
PayloadWords(i) == IF i.vector = 3 THEN 3 ELSE 1

Zero == <<0, 0>>

\* prepare_issue: reserve_tail fills the payload with zeroes.
Reserve(i, pc) ==
  [pc |-> pc, lanes |-> [l \in Lanes |-> [k \in 1 .. PayloadWords(i) |-> Zero]]]

\* What a lane of a load reads: word k is at the address of operand k + 1.
LoadedWords(i, l) == [k \in 1 .. PayloadWords(i) |-> <<i.addr[k], l>>]

\* functional_store_lane, for every lane that executes the load.
StoreLanes(e, i) ==
  [e EXCEPT !.lanes = [l \in Lanes |->
     IF l \in i.mask THEN LoadedWords(i, l) ELSE @[l]]]

\* functional_read_lane, for all four values a MOV may set.
ReadWords(e, i, l) ==
  [k \in 1 .. 4 |-> IF k <= PayloadWords(i) THEN e.lanes[l][k] ELSE Zero]

\* A vector destination takes as many values as it has elements, a scalar one
\* the first.
MovedWords(e, i) == [l \in i.mask |-> SubSeq(ReadWords(e, i, l), 1, i.vector)]

\* The queues and what the instruction found in its queue.
QueuesAfter(s, i, w, pc) ==
  LET k == KeyOf(i.queue, w) IN
  IF i.op = "qload"
  THEN [s.queue EXCEPT ![k] = Append(@, StoreLanes(Reserve(i, pc), i))]
  ELSE [s.queue EXCEPT ![k] = Tail(@)]

Found(s, i, w) ==
  IF i.op = "qmov" THEN MovedWords(Head(s.queue[KeyOf(i.queue, w)]), i) ELSE <<>>
-----------------------------------------------------------------------------
Outcomes(s, w) == IF Inst(s, w).op = "branch" THEN BOOLEAN ELSE {FALSE}

\* issue_warp and ibuffer_step. The functional execution moves the top of the
\* SIMT stack, works on queue and barriers, and flushes the buffer when
\* threads exit: all of them ("exit") or some ("pexit").
Issue(s, w, taken) ==
  LET r    == s.warp[w]
      i    == Inst(s, w)
      free == [r EXCEPT !.ibuf = [@ EXCEPT ![r.slot] = 0]]
      kept == IF i.op \in {"exit", "pexit"} THEN Flushed(free) ELSE free
  IN [s EXCEPT
       !.warp = [@ EXCEPT ![w] =
         [kept EXCEPT !.pc = IF taken THEN i.to ELSE r.pc + 1,
                      !.next = NextPc(s, w) + 1,
                      !.slot = 3 - r.slot,
                      !.busy = @ \cup i.dst,
                      !.done = i.op = "exit"]],
       !.flight = @ \cup {[warp |-> w, pc |-> NextPc(s, w), unit |-> i.unit,
                           inID |-> TRUE, got |-> Found(s, i, w)]},
       !.queue = IF UsesQueue(i) THEN QueuesAfter(s, i, w, NextPc(s, w)) ELSE @,
       !.bars = CASE i.op = "bar"  -> WarpReaches(@, Cta, w, [type |-> "SYNC",
                                                    bar |-> 0, count |-> All])
                  [] i.op = "exit" -> WarpExit(@, Cta, w)
                  [] OTHER         -> @]

\* Mutant: the ID_OC register is not cleared, and never free again.
MutDispatched(s, f) == s

\* The operand collector takes an instruction out of its ID_OC register.
Dispatched(s, f) ==
  [s EXCEPT !.flight = (@ \ {f}) \cup {[f EXCEPT !.inID = FALSE]}]

\* writeback: registers are released, the instruction leaves the pipeline.
Completed(s, f) ==
  [s EXCEPT !.flight = @ \ {f},
            !.warp[f.warp].busy = @ \ s.code[f.warp][f.pc].dst,
            !.warp[f.warp].inPipe = @ - 1]

\* hardware_done, and nothing on the scoreboard.
Reclaimable(s, w) ==
  LET r == s.warp[w] IN r.done /\ r.inPipe = 0 /\ r.busy = {} /\ ~ r.exited

\* The threads of the warps ws leave; with the last warp the CTA ends.
Reclaimed(s, ws) ==
  LET t == [s EXCEPT !.warp = [w \in Warps |->
                         IF w \in ws THEN [@[w] EXCEPT !.exited = TRUE] ELSE @[w]]]
  IN  IF ws # {} /\ \A w \in Warps : t.warp[w].exited
      THEN [t EXCEPT !.bars = DeallocateBarrier(@, Cta),
                     !.queue = [k \in Keys |-> <<>>]]
      ELSE t

\* Mutant: a warp may wait for two misses.
MutNeedsFetch(s, w) ==
  LET r == s.warp[w] IN ~ r.done /\ Buffered(s, w) = {}

\* fetch asks the cache for a warp that has an empty buffer and no miss.
NeedsFetch(s, w) ==
  LET r == s.warp[w] IN ~ r.done /\ r.imiss = 0 /\ Buffered(s, w) = {}

\* decode fills the buffer with the instruction at pc and the next, if any.
Decoded(s, w, pc) ==
  LET r   == s.warp[w]
      two == pc < Len(s.code[w])
  IN  [s EXCEPT !.warp[w] =
         [r EXCEPT !.ibuf = <<pc, IF two THEN pc + 1 ELSE 0>>,
                   !.slot = 1,
                   !.inPipe = @ + (IF two THEN 2 ELSE 1)]]
=============================================================================
