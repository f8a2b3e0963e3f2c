------------------------------ MODULE LdstUnit ------------------------------
(***************************************************************************)
(* The memory unit of a core, ldst_unit: loads and stores to shared,       *)
(* constant and global memory, the latency queue in front of L1D, the      *)
(* responses from the cluster, and the arbitration for the one writeback   *)
(* register. The caches L1D and L1C, the interconnect and the scoreboard   *)
(* are modelled by what this unit asks of them: an access hits or misses   *)
(* unless its block is already on the way, in which case it waits for it.  *)
(*                                                                         *)
(* An access is a pair of an instruction and the position of its block.    *)
(***************************************************************************)
EXTENDS SimdUnits

CONSTANTS
  SmemLatency,   \* stages of the shared memory pipeline
  L1Latency,     \* l1_latency
  L1Banks,       \* l1_banks; block b is in bank b % L1Banks
  NetCapacity    \* requests the interconnect takes before it is full

ASSUME LdstAssumption ==
  /\ SmemLatency \in Nat \ {0, 1} /\ L1Latency \in Nat \ {0}
  /\ L1Banks \in Nat \ {0} /\ NetCapacity \in Nat \ {0}

VARIABLES
  dispatch,    \* m_dispatch_reg: instruction, delay, accesses left
  smem,        \* m_pipeline_reg: the shared memory pipeline
  nextWb,      \* m_next_wb: instruction and destinations still to write
  arb,         \* m_writeback_arb
  nextGlobal,  \* m_next_global
  responses,   \* m_response_fifo
  latencyQ,    \* l1_latency_queue, by bank and stage
  mshr,        \* accesses waiting in each cache for their block
  filled,      \* accesses of each cache whose block has come
  net,         \* requests of the cluster in the interconnect
  pending,     \* m_pending_writes, by warp and register
  entry,       \* pending_responses of the queue entry of each queue load
  reserved,    \* the scoreboard: registers with a write on the way
  inPipe,      \* m_inst_in_pipeline of each warp, fetch buffer left out
  stores,      \* m_stores_outstanding of each warp
  completed    \* calls of warp_inst_complete for each instruction

unitVars  == <<dispatch, smem, nextWb, arb, nextGlobal, responses, latencyQ>>
cacheVars == <<mshr, filled, net>>
countVars == <<pending, entry, reserved, inPipe, stores, completed>>
ldstVars  == <<unitVars, cacheVars, countVars>>

NoAccess == <<>>
Empty    == [inst |-> NoInst, delay |-> 0, left |-> 0]
NothingToWrite == [inst |-> NoInst, regs |-> <<>>]

Caches     == {"L1C", "L1D"}
L1BankIds  == 0 .. L1Banks - 1
Insts      == UNION {{w} \X DOMAIN program[w] : w \in Warps}
Registers  == UNION {ToSet(Ops[k].src) \cup ToSet(Ops[k].dst) : k \in DOMAIN Ops}
AccessesOf(i) == {i} \X DOMAIN Op(i).blocks
Block(a)   == Op(a[1]).blocks[a[2]]
IsLoad(i)  == Op(i).load
L1Bank(a)  == Block(a) % L1Banks
CacheOf(i) == IF Op(i).space = "const" THEN "L1C" ELSE "L1D"

LdstInit ==
  /\ dispatch = Empty /\ nextWb = NothingToWrite /\ arb = 0
  /\ smem = [n \in 0 .. SmemLatency - 1 |-> NoInst]
  /\ nextGlobal = NoAccess /\ responses = <<>>
  /\ latencyQ = [b \in L1BankIds |-> [n \in 0 .. L1Latency - 1 |-> NoAccess]]
  /\ mshr = [c \in Caches |-> <<>>] /\ filled = [c \in Caches |-> <<>>]
  /\ net = <<>>
  /\ pending = [w \in Warps |-> [r \in Registers |-> 0]]
  /\ entry = [i \in Insts |-> 0]
  /\ reserved = {}
  /\ inPipe = [w \in Warps |-> 0] /\ stores = [w \in Warps |-> 0]
  /\ completed = [i \in Insts |-> 0]

-----------------------------------------------------------------------------
(* One access answered.                                                    *)

DstSet(i) == ToSet(Op(i).dst)

OneLess(i) ==
  [pending EXCEPT ![WarpOf(i)] =
     [r \in Registers |-> IF r \in DstSet(i) THEN @[r] - 1 ELSE @[r]]]

\* The registers of a load that wait for no other access of it.
LastOf(i) == {r \in DstSet(i) : pending[WarpOf(i)][r] = 1}

Released(i, regs) == reserved \ ({WarpOf(i)} \X regs)

Completions(i, n) == [completed EXCEPT ![i] = @ + n]

\* Mutant: the first answer releases all registers.
MutReleaseFirst(i) ==
  /\ pending' = OneLess(i)
  /\ reserved' = Released(i, DstSet(i))
  /\ completed' = Completions(i, IF LastOf(i) = {} THEN 0 ELSE 1)

\* writeback: a register whose last access is written is released, and the
\* instruction completes with the first such register.
AnswerLoad(i) ==
  /\ pending' = OneLess(i)
  /\ reserved' = Released(i, LastOf(i))
  /\ completed' = Completions(i, IF LastOf(i) = {} THEN 0 ELSE 1)

\* L1_latency_queue_cycle completes it with every such register.
AnswerHit(i) ==
  /\ pending' = OneLess(i)
  /\ reserved' = Released(i, LastOf(i))
  /\ completed' = Completions(i, Cardinality(LastOf(i)))

\* wasp_rfq_mark_mem_response, and the completion with the last response.
AnswerQueueLoad(i) ==
  /\ entry' = [entry EXCEPT ![i] = @ - 1]
  /\ completed' = Completions(i, IF entry[i] = 1 THEN 1 ELSE 0)

-----------------------------------------------------------------------------
(* ldst_unit::writeback.                                                   *)

\* The clients of the writeback register: shared memory, texture, constant,
\* uncached global, L1D. Texture is not modelled and never asks.
Asks(client) ==
  CASE client = 0 -> smem[0] # NoInst
    [] client = 2 -> filled["L1C"] # <<>>
    [] client = 3 -> nextGlobal # NoAccess
    [] client = 4 -> filled["L1D"] # <<>>
    [] OTHER -> FALSE

InOrder == [n \in 1 .. 5 |-> (arb + n - 1) % 5]
Asking  == {n \in 1 .. 5 : Asks(InOrder[n])}

WriteNext(i) == nextWb' = [inst |-> i, regs |-> Op(i).dst]

Serve(client) ==
  /\ CASE client = 0 -> /\ WriteNext(smem[0])
                        /\ smem' = [smem EXCEPT ![0] = NoInst]
                        /\ inPipe' = [inPipe EXCEPT ![WarpOf(smem[0])] = @ - 1]
                        /\ UNCHANGED <<filled, nextGlobal>>
       [] client \in {2, 4} ->
            LET c == IF client = 2 THEN "L1C" ELSE "L1D" IN
                        /\ WriteNext(Head(filled[c])[1])
                        /\ filled' = [filled EXCEPT ![c] = Tail(@)]
                        /\ UNCHANGED <<smem, inPipe, nextGlobal>>
       [] client = 3 -> /\ WriteNext(nextGlobal[1])
                        /\ nextGlobal' = NoAccess
                        /\ UNCHANGED <<smem, inPipe, filled>>
  /\ arb' = (client + 1) % 5

\* The round robin starts with the client after the one served last.
Arbitrate ==
  IF Asking = {}
  THEN nextWb' = NothingToWrite /\ UNCHANGED <<smem, inPipe, filled, nextGlobal, arb>>
  ELSE Serve(InOrder[Min(Asking)])

\* A shared memory load completes with its one writeback.
AnswerShared(i) ==
  /\ reserved' = Released(i, DstSet(i))
  /\ completed' = Completions(i, IF DstSet(i) = {} THEN 0 ELSE 1)
  /\ UNCHANGED pending

LdstWriteback ==
  LET i == nextWb.inst
      w == Written(i, nextWb.regs, writing)
  IN
  /\ IF i = NoInst
     THEN Arbitrate /\ UNCHANGED <<writing, pending, entry, reserved, completed>>
     ELSE IF Op(i).queue
     THEN /\ AnswerQueueLoad(i)
          /\ nextWb' = NothingToWrite
          /\ UNCHANGED <<writing, pending, reserved, arb, smem, inPipe, filled,
                         nextGlobal>>
     ELSE /\ writing' = w.busy
          /\ UNCHANGED entry
          /\ IF w.left # <<>>
             THEN /\ nextWb' = [nextWb EXCEPT !.regs = w.left]
                  /\ UNCHANGED <<pending, reserved, completed, arb, smem, inPipe,
                                 filled, nextGlobal>>
             ELSE /\ IF Op(i).space = "shared" THEN AnswerShared(i)
                     ELSE AnswerLoad(i)
                  /\ Arbitrate
  /\ UNCHANGED <<dispatch, responses, latencyQ, mshr, net, stores>>

-----------------------------------------------------------------------------
(* ldst_unit::cycle after the writeback: the shared memory pipeline moves, *)
(* and the oldest response is applied if its place is free.                *)

\* A block has come to a cache: the accesses that waited for it are ready.
Fill(c, a) ==
  LET same(x) == Block(x) = Block(a)
      other(x) == ~same(x)
  IN  /\ filled' = [filled EXCEPT ![c] = @ \o SelectSeq(mshr[c], same)]
      /\ mshr'   = [mshr EXCEPT ![c] = SelectSeq(@, other)]

\* The pipeline moves from its front, so each instruction moves a stage at
\* most; one that is not taken holds up those behind it.
MovedSmem ==
  LET blocked(n) == \A k \in 0 .. n : smem[k] # NoInst
  IN  [n \in DOMAIN smem |->
         IF blocked(n) THEN smem[n]
         ELSE IF n + 1 \in DOMAIN smem THEN smem[n + 1] ELSE NoInst]

\* The response at the head of m_response_fifo, if it can be applied.
CanApply(a) == IsLoad(a[1]) /\ Op(a[1]).bypass => nextGlobal = NoAccess

\* store_ack.
StoreAck(w) == stores' = [stores EXCEPT ![w] = @ - 1]

Apply(a) ==
  IF ~IsLoad(a[1])
  THEN StoreAck(WarpOf(a[1]))
       /\ UNCHANGED <<nextGlobal, mshr, filled>>
  ELSE IF Op(a[1]).bypass
  THEN nextGlobal' = a /\ UNCHANGED <<stores, mshr, filled>>
  ELSE Fill(CacheOf(a[1]), a) /\ UNCHANGED <<stores, nextGlobal>>

LdstRespond ==
  /\ smem' = MovedSmem
  /\ IF responses # <<>> /\ CanApply(Head(responses))
     THEN Apply(Head(responses)) /\ responses' = Tail(responses)
     ELSE UNCHANGED <<responses, stores, nextGlobal, mshr, filled>>
  /\ UNCHANGED <<dispatch, nextWb, arb, latencyQ, net, pending, entry, reserved,
                 inPipe, completed>>

-----------------------------------------------------------------------------
(* The caches.                                                             *)

\* icnt_injection_buffer_full, whatever the size of the packet.
Full == Len(net) >= NetCapacity

\* icnt_inject_request_packet.
Injected(a) == Append(net, a)

OnTheWay(c, a) == \E n \in DOMAIN mshr[c] : Block(mshr[c][n]) = Block(a)

\* A load that does not hit waits in the cache; the first one for a block
\* asks for it.
Miss(c, a) ==
  /\ mshr' = [mshr EXCEPT ![c] = Append(@, a)]
  /\ net' = IF OnTheWay(c, a) THEN net ELSE Injected(a)

\* A stage moves on when the one before it is empty.
MovedQueue(q) ==
  LET blocked(n) == \A k \in 0 .. n : q[k] # NoAccess
  IN  [n \in DOMAIN q |-> IF blocked(n) THEN q[n]
                          ELSE IF n + 1 \in DOMAIN q THEN q[n + 1] ELSE NoAccess]

\* The cache has no room for the request (RESERVATION_FAIL).
Stays(a) == Full /\ ~(IsLoad(a[1]) /\ OnTheWay(CacheOf(a[1]), a))

\* L1_latency_queue_cycle for one bank. L1D writes stores through; they are
\* acknowledged from memory.
LatencyQueue(b) ==
  LET a == latencyQ[b][0]
      i == a[1]
      gone == [latencyQ EXCEPT ![b] = MovedQueue([@ EXCEPT ![0] = NoAccess])]
  IN
  /\ IF a = NoAccess \/ Stays(a)
     THEN /\ latencyQ' = [latencyQ EXCEPT ![b] = MovedQueue(@)]
          /\ UNCHANGED <<cacheVars, countVars>>
     ELSE /\ latencyQ' = gone
          /\ IF ~IsLoad(i)
             THEN net' = Injected(a) /\ UNCHANGED <<mshr, filled, countVars>>
             ELSE \/ /\ Miss("L1D", a)
                     /\ UNCHANGED <<filled, countVars>>
                  \/ /\ ~OnTheWay("L1D", a)
                     /\ IF Op(i).queue
                        THEN AnswerQueueLoad(i) /\ UNCHANGED <<pending, reserved>>
                        ELSE AnswerHit(i) /\ UNCHANGED entry
                     /\ UNCHANGED <<cacheVars, inPipe, stores>>
  /\ UNCHANGED <<dispatch, smem, nextWb, arb, nextGlobal, responses>>

-----------------------------------------------------------------------------
(* The dispatch register.                                                  *)

Left(d, n) == [d EXCEPT !.left = n]

\* process_memory_access_queue_l1cache: the accesses enter the latency queue
\* from the last to the first, at most l1_banks in a cycle, up to the first
\* whose bank has no room.
Entering(d) ==
  LET acc(n) == <<d.inst, d.left + 1 - n>>
      room(n) == /\ latencyQ[L1Bank(acc(n))][L1Latency - 1] = NoAccess
                 /\ \A k \in 1 .. n - 1 : L1Bank(acc(k)) # L1Bank(acc(n))
      ok == {n \in 1 .. Min({d.left, L1Banks}) : \A k \in 1 .. n : room(k)}
  IN  {acc(n) : n \in ok}

EnterL1(d) ==
  LET in == Entering(d)
      w  == WarpOf(d.inst)
  IN  /\ latencyQ' = [b \in L1BankIds |->
           IF \E a \in in : L1Bank(a) = b
           THEN [latencyQ[b] EXCEPT ![L1Latency - 1] =
                   CHOOSE a \in in : L1Bank(a) = b]
           ELSE latencyQ[b]]
      /\ stores' = IF IsLoad(d.inst) THEN stores
                   ELSE [stores EXCEPT ![w] = @ + Cardinality(in)]
      /\ dispatch' = Left(d, d.left - Cardinality(in))
      /\ UNCHANGED <<cacheVars, pending>>

\* memory_cycle when the access bypasses L1D: one request a cycle.
Bypass(d) ==
  /\ IF Full THEN dispatch' = d /\ UNCHANGED <<net, stores>>
     ELSE /\ net' = Injected(<<d.inst, d.left>>)
          /\ stores' = IF IsLoad(d.inst) THEN stores
                       ELSE [stores EXCEPT ![WarpOf(d.inst)] = @ + 1]
          /\ dispatch' = Left(d, d.left - 1)
  /\ UNCHANGED <<latencyQ, mshr, filled, pending>>

\* constant_cycle and process_cache_access: one access a cycle; a hit is
\* answered at once.
Constant(d) ==
  LET a == <<d.inst, d.left>> IN
  /\ UNCHANGED <<latencyQ, stores, filled>>
  /\ \/ /\ Stays(a)
        /\ dispatch' = d /\ UNCHANGED <<mshr, net, pending>>
     \/ /\ ~Stays(a)
        /\ Miss("L1C", a)
        /\ dispatch' = Left(d, d.left - 1) /\ UNCHANGED pending
     \/ /\ ~Stays(a) /\ ~OnTheWay("L1C", a)
        /\ pending' = OneLess(d.inst)
        /\ dispatch' = Left(d, d.left - 1) /\ UNCHANGED <<mshr, net>>

\* shared_cycle: bank conflicts delay the access, dispatch_delay.
Delayed(d) == [d EXCEPT !.delay = IF @ > 0 THEN @ - 1 ELSE 0]

Access(d) ==
  CASE Op(d.inst).space = "const" /\ d.left > 0 -> Constant(d)
    [] Op(d.inst).space = "global" /\ d.left > 0 /\ Op(d.inst).bypass -> Bypass(d)
    [] Op(d.inst).space = "global" /\ d.left > 0 /\ ~Op(d.inst).bypass -> EnterL1(d)
    [] Op(d.inst).space = "shared" ->
         dispatch' = Delayed(d) /\ UNCHANGED <<latencyQ, cacheVars, pending, stores>>
    [] OTHER -> dispatch' = d /\ UNCHANGED <<latencyQ, cacheVars, pending, stores>>

\* The instruction in the dispatch register gets on with its accesses.
LdstAccess ==
  /\ IF dispatch.inst = NoInst
     THEN UNCHANGED <<dispatch, latencyQ, cacheVars, pending, stores>>
     ELSE Access(dispatch)
  /\ UNCHANGED <<smem, nextWb, arb, nextGlobal, responses, entry, reserved, inPipe,
                 completed>>

\* Every stage of the unit is done with it.
AccessesDone(d) == d.inst # NoInst /\ d.left = 0 /\ d.delay = 0

\* Accesses of a load that are still to be answered.
PendingRequests(i) ==
  IF Op(i).queue THEN entry[i] > 0
  ELSE \E r \in DstSet(i) : pending[WarpOf(i)][r] > 0

Leave(i) ==
  /\ dispatch' = Empty
  /\ inPipe' = [inPipe EXCEPT ![WarpOf(i)] = @ - 1]

\* The end of ldst_unit::cycle: an instruction without accesses left leaves
\* the dispatch register. A shared memory load goes on to its pipeline; a
\* store is complete; so is another load, unless an answer is due.
LdstRetire ==
  LET i == dispatch.inst
      last == SmemLatency - 1
  IN
  /\ IF ~AccessesDone(dispatch)
     THEN UNCHANGED <<dispatch, smem, countVars>>
     ELSE IF IsLoad(i) /\ Op(i).space = "shared"
     THEN /\ IF smem[last] = NoInst
             THEN smem' = [smem EXCEPT ![last] = i] /\ dispatch' = Empty
             ELSE UNCHANGED <<smem, dispatch>>
          /\ UNCHANGED countVars
     ELSE /\ Leave(i)
          /\ IF IsLoad(i) /\ PendingRequests(i)
             THEN UNCHANGED <<reserved, completed>>
             ELSE /\ completed' = Completions(i, 1)
                  /\ reserved' = IF IsLoad(i) THEN Released(i, DstSet(i)) ELSE reserved
          /\ UNCHANGED <<smem, pending, entry, stores>>
  /\ UNCHANGED <<nextWb, arb, nextGlobal, responses, latencyQ, cacheVars>>

\* execute() issues the oldest memory instruction of all schedulers;
\* ldst_unit::issue counts the accesses its registers wait for.
LdstIssue ==
  LET i == GetReady(ocEx["MEM"])
      w == WarpOf(i)
      n == Len(Op(i).blocks)
  IN
  /\ IF dispatch.inst # NoInst \/ Waiting(ocEx["MEM"]) = {}
     THEN UNCHANGED <<dispatch, pending, ocEx, age>>
     ELSE /\ dispatch' = [inst |-> i, left |-> n,
                          delay |-> IF Op(i).space = "shared" THEN Op(i).interval ELSE 0]
          /\ pending' = IF IsLoad(i) /\ Op(i).space # "shared"
                        THEN [pending EXCEPT ![w] = [r \in Registers |->
                                IF r \in DstSet(i) THEN @[r] + n ELSE @[r]]]
                        ELSE pending
          /\ ocEx' = [ocEx EXCEPT !["MEM"][SchedOf(i)] = NoInst]
          /\ age' = Younger(i)
  /\ UNCHANGED <<smem, nextWb, arb, nextGlobal, responses, latencyQ, cacheVars, entry,
                 reserved, inPipe, stores, completed>>
=============================================================================
