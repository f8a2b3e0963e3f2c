--------------------------- MODULE QueuePipeline ---------------------------
(***************************************************************************)
(* The warp-specialised queue path of one streaming multiprocessor: the    *)
(* producer warp of a pair issues queue loads, the LDST unit sends their   *)
(* memory accesses, responses come back in any order, the consumer warp    *)
(* of the pair pops the queue with MOVs, and the CTA's queues are erased   *)
(* when its last warp is reclaimed, so that the hardware CTA slot can be   *)
(* given to the next CTA of the grid.                                      *)
(*                                                                         *)
(* The same model serves the RFQ and the SMEM queue: shader.cc has one     *)
(* copy of every function below for each (wasp_rfq_xxx and smemq_xxx).     *)
(*                                                                         *)
(* A step of this module is what happens to one instruction, one memory    *)
(* access or one warp within a core cycle.  issue_warp runs prepare_issue, *)
(* the functional execution and after_func_exec without interruption, so   *)
(* an issue is a single step.                                              *)
(***************************************************************************)
EXTENDS WaspQueue, FiniteSets

CONSTANTS
  Ctas,          \* hardware CTA slots of the core (cta_hw_id)
  Pairs,         \* producer/consumer warp pairs of a CTA (original_warp_id)
  QueueIds,      \* queue ids a pair uses (queue_id)
  Program,       \* queue loads, and as many queue MOVs, a pair runs per queue
  Grid,          \* CTAs the kernel launches on this core
  AccessCounts,  \* how many memory accesses one queue load may generate
  L1Latency      \* whether the L1 latency queue is in use (l1_latency > 0)

ASSUME ParameterAssumption ==
  /\ Program \in Nat
  /\ Grid \in Nat
  /\ AccessCounts \subseteq Nat
  /\ L1Latency \in BOOLEAN

VARIABLES
  table,      \* the queue table: a function whose domain is the existing keys
  loads,      \* every queue load issued so far, with where it has got to
  loadsLeft,  \* per key: loads the producer warp still has to issue
  movesLeft,  \* per key: MOVs the consumer warp still has to issue
  movesBusy,  \* per key: MOVs issued and not yet written back
  warps,      \* the warps resident and not yet reclaimed
  gridLeft,   \* CTAs of the kernel not yet launched
  launch      \* per CTA slot: how many CTAs have run there

vars == <<table, loads, loadsLeft, movesLeft, movesBusy, warps, gridLeft,
          launch>>

-----------------------------------------------------------------------------
(* Keys, warps and loads.                                                  *)

\* wasp_rfq_key: producer warp p and consumer warp p + producer_warps of a
\* CTA compute the same key; the stage ids are the constants 0 and 1.
Keys == Ctas \X Pairs \X QueueIds

CtaOf(k) == k[1]

Roles == {"producer", "consumer"}
Warps == Ctas \X Pairs \X Roles

WarpOf(k, role) == <<k[1], k[2], role>>

CtaWarps(c) == {c} \X Pairs \X Roles
Running(c)  == CtaWarps(c) \cap warps # {}

\* A queue load in the pipeline. token is what prepare_issue wrote into the
\* instruction; todo counts the accesses still in its access queue, l1 the
\* ones in the L1 latency queue, mem the ones in the L1 MSHRs, the
\* interconnect or a response queue, and wb is 1 while the instruction's
\* copy sits in m_next_wb. completions counts the calls of warp_inst_complete.
Stages == {"collector", "dispatch", "left"}

Outstanding(l) == l.todo + l.l1 + l.mem + l.wb

InFlight(l) == l.stage # "left" \/ Outstanding(l) > 0

\* get_or_create: the queue of a key, empty if the table has none yet.
QueueAt(k) == IF k \in DOMAIN table THEN table[k] ELSE EmptyQueue

WithQueue(k, q) == [j \in DOMAIN table \cup {k} |->
                      IF j = k THEN q ELSE table[j]]

Replace(l, m) == (loads \ {l}) \cup {m}

\* mark_mem_response: one access of load l has been answered.
Marked(l) == MarkResponse(table[l.key], l.token)

\* The instruction completes when mark_response reports the last response.
Completing(l) == IF table[l.key].storage[l.token.slot].pending = 1
                 THEN l.completions + 1 ELSE l.completions

-----------------------------------------------------------------------------
Init ==
  /\ table     = [k \in {} |-> EmptyQueue]
  /\ loads     = {}
  /\ loadsLeft = [k \in Keys |-> 0]
  /\ movesLeft = [k \in Keys |-> 0]
  /\ movesBusy = [k \in Keys |-> 0]
  /\ warps     = {}
  /\ gridLeft  = Grid
  /\ launch    = [c \in Ctas |-> 0]

\* issue_block2core puts the next CTA on a free hardware slot.
LaunchCta(c) ==
  /\ gridLeft > 0
  /\ ~Running(c)
  /\ gridLeft'  = gridLeft - 1
  /\ launch'    = [launch EXCEPT ![c] = @ + 1]
  /\ warps'     = warps \cup CtaWarps(c)
  /\ loadsLeft' = [k \in Keys |-> IF CtaOf(k) = c THEN Program ELSE loadsLeft[k]]
  /\ movesLeft' = [k \in Keys |-> IF CtaOf(k) = c THEN Program ELSE movesLeft[k]]
  /\ UNCHANGED <<table, loads, movesBusy>>

\* can_issue runs for a warp that does not issue this cycle: all it changes
\* is that the queue now exists.
CheckIssue(k) ==
  /\ loadsLeft[k] > 0 \/ movesLeft[k] > 0
  /\ k \notin DOMAIN table
  /\ table' = WithQueue(k, EmptyQueue)
  /\ UNCHANGED <<loads, loadsLeft, movesLeft, movesBusy, warps, gridLeft,
                 launch>>

\* The tag of the i-th load of the CTA now on slot c; it stands for the
\* lane values the functional execution stores.
Tag(c, i) == <<launch[c], i>>

\* The producer issues a load: reserve_tail with no response pending, the
\* functional execution stores the lanes, after_func_exec sets the number
\* of responses to the number of accesses generated. A load whose lanes are
\* all predicated off generates no access and stores nothing.
IssueLoad(k, n) ==
  LET q     == QueueAt(k)
      token == TailToken(q)
      data  == IF n = 0 THEN NoData
               ELSE Tag(CtaOf(k), Program - loadsLeft[k] + 1)
  IN
  /\ loadsLeft[k] > 0
  /\ ~Full(q)
  /\ table' = WithQueue(k,
       SetPendingResponses(SetLaneValue(ReserveTail(q, 0), token, data),
                           token, n))
  /\ loads' = loads \cup
       {[key |-> k, launch |-> launch[CtaOf(k)], token |-> token,
         stage |-> "collector", todo |-> n, l1 |-> 0, mem |-> 0, wb |-> 0,
         completions |-> 0]}
  /\ loadsLeft' = [loadsLeft EXCEPT ![k] = @ - 1]
  /\ UNCHANGED <<movesLeft, movesBusy, warps, gridLeft, launch>>

\* The consumer issues a MOV: can_issue found the head READY, the functional
\* execution reads the head, after_func_exec consumes it.
IssueMove(k) ==
  /\ movesLeft[k] > 0
  /\ HeadReady(QueueAt(k))
  /\ table' = WithQueue(k, ConsumeHead(QueueAt(k)))
  /\ movesLeft' = [movesLeft EXCEPT ![k] = @ - 1]
  /\ movesBusy' = [movesBusy EXCEPT ![k] = @ + 1]
  /\ UNCHANGED <<loads, loadsLeft, warps, gridLeft, launch>>

\* writeback: the MOV leaves its SIMD pipeline and releases its register.
RetireMove(k) ==
  /\ movesBusy[k] > 0
  /\ movesBusy' = [movesBusy EXCEPT ![k] = @ - 1]
  /\ UNCHANGED <<table, loads, loadsLeft, movesLeft, warps, gridLeft, launch>>

-----------------------------------------------------------------------------
(* The LDST unit.                                                          *)

\* The operand collector hands loads over in any order; the dispatch
\* register of the LDST unit holds one of them.
EnterLdst(l) ==
  /\ l.stage = "collector"
  /\ \A m \in loads : m.stage # "dispatch"
  /\ loads' = Replace(l, [l EXCEPT !.stage = "dispatch"])
  /\ UNCHANGED <<table, loadsLeft, movesLeft, movesBusy, warps, gridLeft,
                 launch>>

\* Mutant: the end of the dispatch completes a load that waits for responses.
MutDispatched(l, q) ==
  IF l.todo > 0 THEN l
  ELSE [l EXCEPT !.stage = "left", !.completions = @ + 1]

\* The end of ldst_unit::cycle for the dispatch register: once the access
\* queue is empty the load leaves it, completing here if nothing is pending.
Dispatched(l, q) ==
  IF l.todo > 0 THEN l
  ELSE [l EXCEPT !.stage = "left",
                 !.completions = IF HasPendingResponses(q, l.token)
                                 THEN @ ELSE @ + 1]

\* memory_cycle for a load without accesses.  Its entry may be consumed by now
\* and reserved again: then the assertion of entry_for_token ends the program.
NoAccess(l) ==
  /\ l.stage = "dispatch"
  /\ l.todo = 0
  /\ Owns(table[l.key], l.token)
  /\ loads' = Replace(l, Dispatched(l, table[l.key]))
  /\ UNCHANGED <<table, loadsLeft, movesLeft, movesBusy, warps, gridLeft,
                 launch>>

\* memory_cycle puts an access into the L1 latency queue.
AccessLatencyQueue(l) ==
  /\ L1Latency
  /\ l.stage = "dispatch"
  /\ l.todo > 0
  /\ loads' = Replace(l, Dispatched([l EXCEPT !.todo = @ - 1, !.l1 = @ + 1],
                                    table[l.key]))
  /\ UNCHANGED <<table, loadsLeft, movesLeft, movesBusy, warps, gridLeft,
                 launch>>

\* memory_cycle sends an access to memory: the L1 is bypassed, or it is
\* looked up at once (l1_latency = 0) and misses.
AccessMemory(l) ==
  /\ l.stage = "dispatch"
  /\ l.todo > 0
  /\ loads' = Replace(l, Dispatched([l EXCEPT !.todo = @ - 1, !.mem = @ + 1],
                                    table[l.key]))
  /\ UNCHANGED <<table, loadsLeft, movesLeft, movesBusy, warps, gridLeft,
                 launch>>

\* memory_cycle looks the L1 up at once and hits: process_cache_access marks
\* the response and leaves completion to the end of the cycle.
AccessHit(l) ==
  /\ ~L1Latency
  /\ l.stage = "dispatch"
  /\ l.todo > 0
  /\ table' = WithQueue(l.key, Marked(l))
  /\ loads' = Replace(l, Dispatched([l EXCEPT !.todo = @ - 1], Marked(l)))
  /\ UNCHANGED <<loadsLeft, movesLeft, movesBusy, warps, gridLeft, launch>>

\* L1_latency_queue_cycle: the access at the end of the queue hits.
LatencyHit(l) ==
  /\ l.l1 > 0
  /\ table' = WithQueue(l.key, Marked(l))
  /\ loads' = Replace(l, [l EXCEPT !.l1 = @ - 1, !.completions = Completing(l)])
  /\ UNCHANGED <<loadsLeft, movesLeft, movesBusy, warps, gridLeft, launch>>

\* L1_latency_queue_cycle: it misses and waits for memory.
LatencyMiss(l) ==
  /\ l.l1 > 0
  /\ loads' = Replace(l, [l EXCEPT !.l1 = @ - 1, !.mem = @ + 1])
  /\ UNCHANGED <<table, loadsLeft, movesLeft, movesBusy, warps, gridLeft,
                 launch>>

\* A response reaches the writeback stage, when m_next_wb is free.
Respond(l) ==
  /\ l.mem > 0
  /\ \A m \in loads : m.wb = 0
  /\ loads' = Replace(l, [l EXCEPT !.mem = @ - 1, !.wb = 1])
  /\ UNCHANGED <<table, loadsLeft, movesLeft, movesBusy, warps, gridLeft,
                 launch>>

\* ldst_unit::writeback of a queue load: mark the response, complete the
\* instruction with the last one, clear m_next_wb and return.
Writeback(l) ==
  /\ l.wb = 1
  /\ table' = WithQueue(l.key, Marked(l))
  /\ loads' = Replace(l, [l EXCEPT !.wb = 0, !.completions = Completing(l)])
  /\ UNCHANGED <<loadsLeft, movesLeft, movesBusy, warps, gridLeft, launch>>

-----------------------------------------------------------------------------
(* The end of a warp and of a CTA.                                         *)

\* Mutant: a warp is done with instructions still to issue.
MutHardwareDone(w) ==
  \A k \in Keys :
    /\ w = WarpOf(k, "producer") => \A l \in loads : l.key = k => l.stage = "left"
    /\ w = WarpOf(k, "consumer") => movesBusy[k] = 0

\* hardware_done: the warp has executed its exit and none of its
\* instructions is in a pipeline. Responses that are still outstanding for
\* a load that has left the LDST pipeline do not hold the warp back.
HardwareDone(w) ==
  \A k \in Keys :
    /\ w = WarpOf(k, "producer") =>
         /\ loadsLeft[k] = 0
         /\ \A l \in loads : l.key = k => l.stage = "left"
    /\ w = WarpOf(k, "consumer") =>
         /\ movesLeft[k] = 0
         /\ movesBusy[k] = 0

\* erase_cta drops every queue of a CTA.
EraseCta(c) == [k \in {j \in DOMAIN table : CtaOf(j) # c} |-> table[k]]

\* fetch reclaims a finished warp; with the last one of the CTA
\* register_cta_thread_exit erases the CTA's queues and frees the slot.
ReclaimWarp(w) ==
  /\ w \in warps
  /\ HardwareDone(w)
  /\ warps' = warps \ {w}
  /\ table' = IF CtaWarps(w[1]) \cap warps = {w} THEN EraseCta(w[1]) ELSE table
  /\ UNCHANGED <<loads, loadsLeft, movesLeft, movesBusy, gridLeft, launch>>

GridDone == gridLeft = 0 /\ warps = {}

Terminated == GridDone /\ UNCHANGED vars

-----------------------------------------------------------------------------
LdstStep(l) ==
  \/ EnterLdst(l)
  \/ NoAccess(l)
  \/ AccessLatencyQueue(l)
  \/ AccessMemory(l)
  \/ AccessHit(l)
  \/ LatencyHit(l)
  \/ LatencyMiss(l)
  \/ Respond(l)
  \/ Writeback(l)

IssueStep(k) ==
  \/ CheckIssue(k)
  \/ \E n \in AccessCounts : IssueLoad(k, n)
  \/ IssueMove(k)
  \/ RetireMove(k)

Next ==
  \/ \E c \in Ctas : LaunchCta(c)
  \/ \E k \in Keys : IssueStep(k)
  \/ \E l \in loads : LdstStep(l)
  \/ \E w \in warps : ReclaimWarp(w)
  \/ Terminated

Spec == Init /\ [][Next]_vars

\* Every unit of the core is clocked every core cycle, the interconnect and
\* the memory answer every request, and the issue schedulers reach every
\* warp that stays able to issue: a program is finite, so even the greedy
\* scheduler runs out of other warps to prefer.
Fairness ==
  /\ WF_vars(\E c \in Ctas : LaunchCta(c))
  /\ WF_vars(\E l \in loads : LdstStep(l))
  /\ WF_vars(\E w \in warps : ReclaimWarp(w))
  /\ \A k \in Keys :
       /\ WF_vars(\E n \in AccessCounts : IssueLoad(k, n))
       /\ WF_vars(IssueMove(k))
       /\ WF_vars(RetireMove(k))

FairSpec == Spec /\ Fairness
-----------------------------------------------------------------------------
(* Properties.                                                             *)

Tokens  == [slot : Slots, sequence : Nat \ {0}]
Entries == [state : States, sequence : Nat, pending : Nat,
            data : Nat \X Nat]
Queues  == [head : Slots, tail : Slots, occupancy : 0 .. Depth,
            next : Nat \ {0}, storage : [Slots -> Entries]]
Loads   == [key : Keys, launch : Nat, token : Tokens, stage : Stages,
            todo : Nat, l1 : Nat, mem : Nat, wb : {0, 1}, completions : Nat]

\* The type of every variable: the queue table is a partial function from
\* keys to queues.
TypeOK ==
  /\ DOMAIN table \subseteq Keys
  /\ \A k \in DOMAIN table : table[k] \in Queues
  /\ loads \subseteq Loads
  /\ loadsLeft \in [Keys -> 0 .. Program]
  /\ movesLeft \in [Keys -> 0 .. Program]
  /\ movesBusy \in [Keys -> Nat]
  /\ warps \subseteq Warps
  /\ gridLeft \in 0 .. Grid
  /\ launch \in [Ctas -> Nat]

\* While a load is anywhere between issue and its last response, its queue
\* is in the table and its slot still carries its sequence number, so
\* assert(queue) and assert(e.sequence == token.sequence) never fire. The
\* slot is reused, the responses are out of order and the CTA slot is given
\* to other CTAs, so this is not a matter of one assignment.
TokensOwned ==
  \A l \in loads : InFlight(l) =>
    /\ l.key \in DOMAIN table
    /\ Owns(table[l.key], l.token)
    /\ l.launch = launch[CtaOf(l.key)]

\* An entry waits for exactly the accesses of its load that have not been
\* answered yet: mark_response never finds pending_responses at zero, and
\* no entry waits for an answer that will not come.
PendingMatchesAccesses ==
  \A l \in loads : Outstanding(l) > 0 =>
    LET e == table[l.key].storage[l.token.slot]
    IN  e.state = "RESERVED" /\ e.pending = Outstanding(l)

\* A queue load completes exactly once, whichever way its last access was
\* answered: at dispatch after L1 hits, in the L1 latency queue, or at
\* writeback. Completing twice or never would corrupt the instruction
\* statistics and the core's progress accounting.
CompletesOnce ==
  \A l \in loads : /\ l.completions <= 1
                   /\ InFlight(l) \/ l.completions = 1
                   /\ Outstanding(l) > 0 => l.completions = 0

\* erase_cta never throws away an entry that was not consumed, and no load
\* of that CTA is still waiting for memory: a response that came later
\* would find no queue, or the queue of the slot's next CTA.
EraseIsClean ==
  [][\A k \in DOMAIN table : k \notin DOMAIN table' =>
       /\ Empty(table[k])
       /\ \A l \in loads : l.key = k => ~InFlight(l)
    ]_vars

\* The chain of ring slots of a queue, oldest first, as the abstract FIFO
\* sees it; a key without a queue is an empty FIFO.
FifoView(q) ==
  [i \in 1 .. q.occupancy |->
     LET e == q.storage[(q.head + i - 1) % Depth]
     IN  [value |-> e.data, ready |-> e.state = "READY"]]

Fifo == INSTANCE QueueFifo
          WITH Values   <- {NoData} \cup (1 .. Grid) \X (1 .. Program),
               Capacity <- Depth,
               buf      <- [k \in Keys |-> FifoView(QueueAt(k))]

\* Seen from the kernel the ring, the tokens and the responses are a FIFO
\* per warp pair and queue id that loses nothing, not even when erase_cta
\* drops the queues of a CTA.
ImplementsFifo == Fifo!Spec

\* A load without accesses is READY at issue, so its entry may be consumed
\* before the load uses its token, in load_pending at the end of its LDST
\* dispatch.  The queue is there, whatever the CTAs on the other slots do, and
\* entry_for_token's assertion finds the load's own sequence number exactly
\* until the producer has issued as many further loads as the ring has slots.
TokenLastsOneRound ==
  \A l \in loads : l.stage = "dispatch" /\ l.todo = 0 =>
    /\ l.key \in DOMAIN table
    /\ Owns(table[l.key], l.token)
         <=> table[l.key].next <= l.token.sequence + Depth

\* The grid ends: every load is answered and consumed, every warp is
\* reclaimed and every CTA has run.
Terminates == <>GridDone
-----------------------------------------------------------------------------
(* The inductive invariant behind TokensOwned and PendingMatchesAccesses,   *)
(* for programs in which every queue load has at least one access.          *)

\* The occupied part of the ring: occupancy slots from head on, wrapping.
InRing(q, i) ==
  IF q.head + q.occupancy <= Depth
  THEN q.head <= i /\ i < q.head + q.occupancy
  ELSE q.head <= i \/ i < q.head + q.occupancy - Depth

\* The ring is consistent: the tail is occupancy slots after the head, the
\* slots in between are exactly those in use, and none of their sequence
\* numbers is still to be given out.
RingOK(q) ==
  /\ q.tail = IF q.head + q.occupancy < Depth
              THEN q.head + q.occupancy ELSE q.head + q.occupancy - Depth
  /\ \A i \in Slots : q.storage[i].state # "FREE" <=> InRing(q, i)
  /\ \A i \in Slots : q.storage[i].sequence < q.next

\* Loads are told apart by key, CTA and sequence number.
LoadsDistinct ==
  \A l, m \in loads :
    l.key = m.key /\ l.launch = m.launch /\ l.token.sequence = m.token.sequence
      => l = m

\* No load carries a sequence number its queue is yet to give out.
SequencesFresh ==
  \A l \in loads :
    /\ l.launch <= launch[CtaOf(l.key)]
    /\ l.launch = launch[CtaOf(l.key)] =>
         IF l.key \in DOMAIN table THEN l.token.sequence < table[l.key].next
                                   ELSE loadsLeft[l.key] = 0

\* With at least one access per load, a load is in the pipeline as long as
\* it has an access to send.
PipelineMeansAccesses ==
  \A l \in loads : l.stage # "left" <=> l.todo > 0

\* A reclaimed warp has nothing left to issue.
ReclaimedIsDone ==
  \A k \in Keys :
    /\ WarpOf(k, "producer") \notin warps => loadsLeft[k] = 0
    /\ WarpOf(k, "consumer") \notin warps => movesLeft[k] = 0

\* What the producer is ahead of the consumer is what the queue holds.
Balanced ==
  \A k \in Keys : movesLeft[k] = loadsLeft[k] + QueueAt(k).occupancy

\* A queue exists only while its CTA runs.
QueueMeansRunning == \A k \in DOMAIN table : Running(CtaOf(k))

IInv ==
  /\ TypeOK
  /\ \A k \in DOMAIN table : RingOK(table[k])
  /\ LoadsDistinct
  /\ SequencesFresh
  /\ PipelineMeansAccesses
  /\ ReclaimedIsDone
  /\ Balanced
  /\ QueueMeansRunning
  /\ TokensOwned
  /\ PendingMatchesAccesses
=============================================================================
