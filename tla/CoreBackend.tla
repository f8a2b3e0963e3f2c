---------------------------- MODULE CoreBackend ----------------------------
(***************************************************************************)
(* gpgpu_sim::cycle with the cycle of a core behind the instruction        *)
(* buffers: the clock domains, simt_core_cluster::icnt_cycle, the memory   *)
(* side, then shader_core_ctx::cycle with writeback, execute,              *)
(* read_operands and issue. Every part of the cycle is an action; `part`   *)
(* counts through those of the domains that tick, in the order of the code.*)
(***************************************************************************)
EXTENDS MemorySystem

CONSTANTS
  EjectionBuffer,   \* n_simt_ejection_buffer_size
  ResponseQueue     \* ldst_unit_response_queue_size

ASSUME PortAssumption == EjectionBuffer \in Nat \ {0} /\ ResponseQueue \in Nat \ {0}

VARIABLES
  part,         \* the part of the cycle that is next
  nextInst,     \* the next instruction of each warp
  membar,       \* warps with m_membar set
  clusterFifo   \* m_response_fifo of the cluster

clusterVars == <<clusterFifo>>
coreVars == <<program, nextInst, membar, collectorVars, simdVars, ldstVars>>
vars == <<part, clusterVars, coreVars, memoryVars>>

\* What the parts of a cycle are about: function units are taken in the
\* order of m_fu, the memory unit last.
SimdOrder ==
  [k \in 1 .. Len(SimdPorts) * Schedulers |->
     [does |-> "simd",
      unit |-> <<SimdPorts[((k - 1) \div Schedulers) + 1], (k - 1) % Schedulers>>]]

Step(name) == <<[does |-> name, unit |-> <<>>]>>
ForEach(name, n) == [k \in 1 .. n |-> [does |-> name, unit |-> <<k - 1>>]]

\* Every input port of the collectors is offered the registers of all kinds.
InputTurns ==
  [k \in 1 .. InPorts * Len(InputOrder) |->
     [does |-> "allocate", unit |-> <<InputOrder[((k - 1) % Len(InputOrder)) + 1]>>]]

CoreOrder ==
  Step("writeback") \o SimdOrder \o
  Step("ldst_writeback") \o Step("ldst_respond") \o
  ForEach("latency_queue", L1Banks) \o
  Step("ldst_access") \o Step("ldst_retire") \o Step("ldst_issue") \o
  ForEach("dispatch", OutPorts) \o Step("reads") \o InputTurns \o
  Step("banks") \o Step("issue")

\* gpgpu_sim::cycle; the domain of each part follows from its place.
CycleOrder ==
  Step("clock") \o Step("icnt") \o ForEach("reply", SubPartitions) \o
  ForEach("request", SubPartitions) \o CoreOrder

DomainOf(n) == CASE CycleOrder[n].does = "reply" -> "ICNT"
                 [] CycleOrder[n].does = "request" -> "L2"
                 [] OTHER -> "CORE"

At(name) == CycleOrder[part].does = name
Unit     == CycleOrder[part].unit
Runs(mask) == {n \in 2 .. Len(CycleOrder) : DomainOf(n) \in mask}
Follows(mask) ==
  LET later == {n \in Runs(mask) : n > part}
  IN  IF later = {} THEN 1 ELSE Min(later)
NextPart == part' = Follows(ticks)

Init ==
  /\ program \in Programs
  /\ part = 1
  /\ nextInst = [w \in Warps |-> 1]
  /\ membar = {}
  /\ clusterFifo = <<>>
  /\ CollectorInit /\ SimdInit /\ LdstInit /\ MemoryInit

-----------------------------------------------------------------------------
NextDomains ==
  /\ At("clock")
  /\ NextClockDomain
  /\ part' = Follows(Due)
  /\ UNCHANGED <<clusterVars, coreVars>>

\* top() of a sub-partition has an answer, or nothing in this turn.
Reply ==
  /\ At("reply")
  /\ \E a \in partition[Unit[1]] : ReplyOf(Unit[1], a)
  /\ NextPart
  /\ UNCHANGED <<clusterVars, coreVars>>

NoReply ==
  /\ At("reply")
  /\ NextPart
  /\ UNCHANGED <<clusterVars, coreVars, memoryVars>>

Request ==
  /\ At("request")
  /\ RequestTo(Unit[1])
  /\ NextPart
  /\ UNCHANGED <<clusterVars, program, nextInst, membar, collectorVars, simdVars,
                 unitVars, mshr, filled, countVars>>

\* The cluster hands its oldest response to the core while there is room in
\* the core's queue; those behind it wait.
Room == Len(responses) < ResponseQueue

Hand == clusterFifo # <<>> /\ Room

AfterHand == IF Hand THEN Tail(clusterFifo) ELSE clusterFifo

\* ldst_unit::fill.
Accepted == IF Hand THEN Append(responses, Head(clusterFifo)) ELSE responses

\* simt_core_cluster::icnt_cycle.
IcntCycle ==
  /\ At("icnt")
  /\ responses' = Accepted
  /\ IF Arriving = {} \/ Len(AfterHand) >= EjectionBuffer
     THEN clusterFifo' = AfterHand /\ UNCHANGED replies
     ELSE \E a \in Arriving : /\ clusterFifo' = Append(AfterHand, a)
                             /\ replies' = Popped(a)
  /\ UNCHANGED <<clock, ticks, partition>>
  /\ NextPart
  /\ UNCHANGED <<program, nextInst, membar, collectorVars, simdVars, dispatch,
                 smem, nextWb, arb, nextGlobal, latencyQ, cacheVars, countVars>>

\* The banks taken by the results of a sequence of instructions.
WrittenBanks(order) ==
  FoldLeft(LAMBDA busy, i : Written(i, Op(i).dst, busy).busy, {}, order)

\* get_ready takes the oldest instruction of EX_WB. Those of a warp are in
\* its order; which of two warps issued first is left open.
ByAge(insts) ==
  {order \in SetToSeqs(insts) :
     \A m, n \in DOMAIN order :
       m < n /\ WarpOf(order[m]) = WarpOf(order[n]) => order[m][2] < order[n][2]}

\* shader_core_ctx::writeback drains EX_WB: the results are written, one
\* after the other, as far as their banks are free (what writeback returns
\* is ignored), and all their registers are released. execute() then moves
\* the bookings of the result buses on.
Writeback ==
  LET done == exWb IN
  /\ At("writeback")
  /\ exWb' = {}
  /\ \E order \in ByAge(done) : writing' = WrittenBanks(order)
  /\ reserved' = reserved \ UNION {{WarpOf(i)} \X DstSet(i) : i \in done}
  /\ inPipe' = [w \in Warps |->
                  inPipe[w] - Cardinality({i \in done : WarpOf(i) = w})]
  /\ completed' = [i \in Insts |->
                     IF i \in done THEN completed[i] + 1 ELSE completed[i]]
  /\ bus' = ShiftBuses
  /\ NextPart
  /\ UNCHANGED <<memoryVars, program, nextInst, membar, clusterFifo, age, idOc, collector,
                 requests, lastCu, ocEx, fu, unitVars, cacheVars, pending, entry,
                 stores>>

Execute ==
  /\ At("simd")
  /\ SimdCycle(Unit)
  /\ NextPart
  /\ UNCHANGED <<memoryVars, program, nextInst, membar, clusterFifo, idOc, collector, requests,
                 writing, lastCu, ldstVars>>

UnitWriteback ==
  /\ At("ldst_writeback")
  /\ LdstWriteback
  /\ NextPart
  /\ UNCHANGED <<memoryVars, program, nextInst, membar, clusterFifo, age, idOc, collector,
                 requests, lastCu, ocEx, simdVars>>

\* The rest of ldst_unit::cycle leaves the register file alone.
UnitStep(name, step) ==
  /\ At(name)
  /\ step
  /\ NextPart
  /\ UNCHANGED <<memoryVars, program, nextInst, membar, clusterFifo, collectorVars, simdVars>>

UnitRespond == UnitStep("ldst_respond", LdstRespond)
UnitLatency == At("latency_queue") /\ UnitStep("latency_queue", LatencyQueue(Unit[1]))
UnitAccess  == UnitStep("ldst_access", LdstAccess)
UnitRetire  == UnitStep("ldst_retire", LdstRetire)

UnitIssue ==
  /\ At("ldst_issue")
  /\ LdstIssue
  /\ NextPart
  /\ UNCHANGED <<memoryVars, program, nextInst, membar, clusterFifo, idOc, collector, requests,
                 writing, lastCu, simdVars>>

\* read_operands: the parts of a step of the operand collectors.
CollectorStep(name, step) ==
  /\ At(name)
  /\ step
  /\ NextPart
  /\ UNCHANGED <<memoryVars, program, nextInst, membar, clusterFifo, simdVars, ldstVars>>

DispatchCu  == At("dispatch") /\ CollectorStep("dispatch", DispatchReadyCu(Unit[1] + 1))
ReadBanks   == CollectorStep("reads", AllocateReads)
TakeIn      == At("allocate") /\ CollectorStep("allocate", AllocateCu(Unit[1]))
FreeBanks   == CollectorStep("banks", ProcessBanks)

-----------------------------------------------------------------------------
(* Issue.                                                                  *)

NextOf(w) == <<w, nextInst[w]>>
Over(w)   == nextInst[w] > Len(program[w])

PendingWrites(w) == \E r \in Registers : <<w, r>> \in reserved

\* warp_waiting_at_mem_barrier.
AtMembar(w) == w \in membar /\ PendingWrites(w)

\* The scoreboard finds no register of the instruction in use, and its
\* pipeline register is free.
Issuable(w) ==
  /\ ~Over(w) /\ ~AtMembar(w)
  /\ LET o == Op(NextOf(w)) IN
     /\ ({w} \X (ToSet(o.src) \cup ToSet(o.dst))) \cap reserved = {}
     /\ idOc[o.port][w % Schedulers] = NoInst

\* Every scheduler issues one instruction of one of its warps, if it can;
\* it has looked at all of them then, and waiting() has cleared the barriers
\* that are over.
IssueChoices ==
  {S \in SUBSET {w \in Warps : Issuable(w)} :
     \A s \in SchedIds :
       LET mine == {w \in Warps : w % Schedulers = s /\ Issuable(w)}
       IN  IF mine = {} THEN S \cap mine = {} ELSE Cardinality(S \cap mine) = 1}

IssueSet(S) ==
  LET insts == {NextOf(w) : w \in S} IN
  /\ At("issue")
  /\ idOc' = [p \in Ports |-> [s \in SchedIds |->
                IF \E i \in insts : Op(i).port = p /\ SchedOf(i) = s
                THEN CHOOSE i \in insts : Op(i).port = p /\ SchedOf(i) = s
                ELSE idOc[p][s]]]
  /\ \E new \in SetToSeqs(insts) :
       /\ \A n \in 1 .. Len(new) - 1 : SchedOf(new[n]) < SchedOf(new[n + 1])
       /\ age' = age \o new
  /\ reserved' = reserved \cup UNION {{WarpOf(i)} \X DstSet(i) : i \in insts}
  /\ entry' = [i \in Insts |->
                 IF i \in insts /\ Op(i).queue THEN Len(Op(i).blocks) ELSE entry[i]]
  /\ inPipe' = [w \in Warps |-> IF w \in S THEN inPipe[w] + 1 ELSE inPipe[w]]
  /\ nextInst' = [w \in Warps |-> IF w \in S THEN nextInst[w] + 1 ELSE nextInst[w]]
  /\ membar' = {w \in membar : AtMembar(w)} \cup
               {w \in S : Op(NextOf(w)).space = "membar"}
  /\ NextPart
  /\ UNCHANGED <<memoryVars, program, clusterFifo, collector, requests, writing, lastCu, ocEx,
                 simdVars, unitVars, cacheVars, pending, stores, completed>>

Issue == \E S \in IssueChoices : IssueSet(S)

Next ==
  \/ NextDomains \/ Reply \/ NoReply \/ Request \/ IcntCycle
  \/ Writeback \/ Execute
  \/ UnitWriteback \/ UnitRespond \/ UnitLatency \/ UnitAccess \/ UnitRetire \/ UnitIssue
  \/ DispatchCu \/ ReadBanks \/ TakeIn \/ FreeBanks \/ Issue

Spec == Init /\ [][Next]_vars

\* The clock ticks for ever (Next is always enabled), and a sub-partition
\* that can answer again and again answers some time, in whatever order.
FairSpec ==
  /\ Spec
  /\ []<><<Next>>_vars
  /\ SF_vars(Reply)

-----------------------------------------------------------------------------
(* Properties.                                                             *)

Cycling == part = 1

InCollector == {collector[c].inst : c \in Units} \ {NoInst}
InRegisters(regs) == UNION {Waiting(regs[p]) : p \in Ports}
InSimd == UNION {InUnit(fu[u]) : u \in SimdUnitIds}

\* The instructions that dec_inst_in_pipeline was not called for.
InPipeline ==
  (InRegisters(idOc) \cup InCollector \cup InRegisters(ocEx) \cup InSimd \cup
   exWb \cup {dispatch.inst} \cup {smem[n] : n \in DOMAIN smem}) \ {NoInst}

\* The accesses that were sent off and not written back yet.
InLatencyQ == UNION {{latencyQ[b][n] : n \in 0 .. L1Latency - 1} : b \in L1BankIds}
Unanswered ==
  (InLatencyQ \cup ToSet(net) \cup InMemory \cup ToSet(clusterFifo) \cup ToSet(responses) \cup {nextGlobal}
    \cup UNION {ToSet(mshr[c]) \cup ToSet(filled[c]) : c \in Caches}) \ {NoAccess}

\* Accesses that instruction i still waits for: those counted since it was
\* issued, sent or not, up to the one in the writeback register.
WaitsFor(i) ==
  Cardinality({a \in Unanswered : a[1] = i})
  + (IF dispatch.inst = i THEN dispatch.left ELSE 0)
  + (IF nextWb.inst = i /\ Op(i).space # "shared" THEN 1 ELSE 0)

\* Every result has its place. At the start of each cycle the result buses
\* are booked exactly for the cycles in which instructions in the units
\* arrive at EX_WB; so move_in finds a free register (register_set::get_free
\* asserts it) although nothing stalls a unit any more.
WritebackBooked ==
  /\ Cardinality(exWb) <= WbWidth
  /\ Cycling => \A t \in 0 .. MaxLatency :
       Cardinality({b \in Buses : t \in bus[b]})
       = Cardinality({u \in SimdUnitIds :
                        \E i \in InUnit(fu[u]) : CyclesLeft(fu[u], i) = t})

\* Every operand a collector waits for is asked for exactly once, at the bank
\* where its register is (allocate_reads computes the bank again, from the
\* warp that is in the collector by then); no collector is given an
\* instruction of another scheduler.
OperandsRequestedOnce ==
  \A c \in Units :
    LET i == collector[c].inst
        asked(r) == {p \in UNION {{b} \X DOMAIN requests[b] : b \in Banks} :
                       requests[p[1]][p[2]] = Operand(c, r)}
    IN  /\ i # NoInst => SchedOf(i) = SchedOfUnit(c)
        /\ \A r \in Registers :
             IF i # NoInst /\ r \in collector[c].missing
             THEN \E n \in 1 .. Len(requests[BankOf(i, r)]) :
                    asked(r) = {<<BankOf(i, r), n>>}
             ELSE asked(r) = {}

\* What the core counts is what there is: instructions in the pipeline,
\* accesses per register (the asserts m_pending_writes > 0), responses per
\* queue load, stores without an acknowledgement, and the registers of the
\* scoreboard. So hardware_done and the scoreboard together are right when
\* fetch reclaims a warp: nothing of it is left anywhere.
CountsExact ==
  \A w \in Warps :
    LET mine == {i \in Insts : WarpOf(i) = w}
        sum(S) == SumFunctionOnSet([i \in Insts |-> WaitsFor(i)], S)
    IN  /\ inPipe[w] = Cardinality({i \in InPipeline : WarpOf(i) = w})
        /\ \A r \in Registers :
             /\ pending[w][r] = sum({i \in mine : r \in DstSet(i) /\ IsLoad(i)})
             /\ <<w, r>> \in reserved <=>
                  \E i \in mine : r \in DstSet(i) /\ i[2] < nextInst[w] /\ completed[i] = 0
        /\ \A i \in mine : Op(i).queue =>
             entry[i] = WaitsFor(i) + (IF i \in ToSet(age) THEN Len(Op(i).blocks) ELSE 0)
        /\ stores[w] = Cardinality({a \in Unanswered : WarpOf(a[1]) = w /\ ~IsLoad(a[1])})

\* The instructions of every warp complete, all stores are acknowledged, and
\* the core is empty, although responses queue up behind each other in the
\* cluster, results compete for banks and buses, and collectors wait for
\* registers that only other instructions free.
Drains ==
  <>( /\ \A w \in Warps : Over(w) /\ inPipe[w] = 0 /\ stores[w] = 0
      /\ \A i \in Insts : completed[i] > 0
      /\ reserved = {} /\ Unanswered = {} )
=============================================================================
