----------------------------- MODULE PairIssue -----------------------------
(***************************************************************************)
(* One scheduler of a core with its warps: each cycle it orders them by    *)
(* its policy and co-issues a producer and a consumer, or else issues from *)
(* the first warp that can; fetch and decode feed the instruction buffers  *)
(* and reclaim warps. The stages are actions of their own: how many cycles *)
(* pass between them depends on the latencies of caches and pipelines.     *)
(***************************************************************************)
EXTENDS SchedulerPolicies

CONSTANTS
  Programs,   \* what the warps of a CTA run: functions to sequences
  Modes,      \* scheduler configurations [policy, coissue, maxIssue]
  Grid        \* CTAs, one after the other

\* try_pc_coissue hands the two-level scheduler iterators into a list that it
\* replaces: that combination is left out.
ASSUME SchedulerAssumption ==
  /\ Depth \in Nat \ {0} /\ Grid \in Nat
  /\ Modes \subseteq [policy : Policies, coissue : BOOLEAN, maxIssue : 1 .. 2]
  /\ \A m \in Modes : m.policy = "two_level_active" => ~ m.coissue /\ m.maxIssue = 1

\* A program ends with its exit, and branches go forward.
Forward(code) ==
  /\ Len(code) \in Nat \ {0}
  /\ code[Len(code)].op = "exit"
  /\ \A k \in 1 .. Len(code) :
       code[k].op = "branch" => code[k].to \in k + 1 .. Len(code)

ASSUME ProgramAssumption == \A p \in Programs : \A w \in Warps : Forward(p[w])

\* Producers load into the queues, consumers take out of them.
ASSUME RoleAssumption ==
  \A p \in Programs : \A w \in Warps : \A k \in 1 .. Len(p[w]) :
    UsesQueue(p[w][k]) =>
      /\ p[w][k].queue \in QueueKinds
      /\ p[w][k].op = "qload" <=> IsProducer(w)

\* Where a program has an instruction op of a queue of the kind.
UsesOf(code, op, kind) ==
  {k \in 1 .. Len(code) : code[k].op = op /\ code[k].queue = kind}

\* The how manieth of them is at pc.
Rank(code, op, kind, pc) == Cardinality({k \in UsesOf(code, op, kind) : k <= pc})

\* What a MOV expects of the load whose entry it takes.
Match(mov, load) ==
  /\ mov.mask \subseteq load.mask /\ load.mask \subseteq Lanes
  /\ mov.vector = PayloadWords(load)

\* No branch jumps over an instruction of a queue, and the n-th MOV out of a
\* queue matches the n-th load into it.
ASSUME PairAssumption ==
  \A p \in Programs : \A w \in Warps :
    /\ \A k \in 1 .. Len(p[w]) : p[w][k].op = "branch" =>
         \A j \in k .. p[w][k].to - 1 : ~ UsesQueue(p[w][j])
    /\ \A kind \in QueueKinds :
         \A k \in UsesOf(p[w], "qmov", kind), j \in UsesOf(p[PairOf(w)], "qload", kind) :
           Rank(p[w], "qmov", kind, k) = Rank(p[PairOf(w)], "qload", kind, j) =>
             Match(p[w][k], p[PairOf(w)][j])

VARIABLES
  core,       \* the warps and what they share
  mode,       \* the configuration of this simulation
  sched,      \* what the scheduler remembers
  fetchBuf,   \* m_inst_fetch_buffer, or NoFetch
  lastFetch,  \* m_last_warp_fetched
  gridLeft    \* CTAs still to come

vars == <<core, mode, sched, fetchBuf, lastFetch, gridLeft>>

NoFetch == [warp |-> -1, pc |-> 0]

Init ==
  /\ core = EmptyCore
  /\ mode \in Modes
  /\ sched \in InitialScheds(mode.policy)
  /\ fetchBuf = NoFetch
  /\ lastFetch = 0
  /\ gridLeft = Grid

\* A warp that finds its queue full or empty is not waiting() and keeps its
\* place, so the schedulers that look at some of the warps only may wait for it
\* for ever: they are checked on programs that use no queue.
LooksAtAll == mode.policy \in {"lrr", "gto", "old"}

Runnable(p) ==
  LooksAtAll \/ \A w \in Warps : \A k \in DOMAIN p[w] :
    p[w][k].op \notin {"qload", "qmov"}

LaunchCta ==
  /\ gridLeft > 0
  /\ \A w \in Warps : core.warp[w].exited
  /\ gridLeft' = gridLeft - 1
  /\ \E p \in Programs : Runnable(p) /\ core' = StartCta(core, p)
  /\ UNCHANGED <<mode, sched, fetchBuf, lastFetch>>
-----------------------------------------------------------------------------
(* The scheduler.                                                          *)

\* The list the loops of the cycle run over.
Order == Prioritized(mode.policy, sched, core)

\* Mutant: the units of the two instructions are not compared.
MutPairs(list) ==
  LET fit == {i \in DOMAIN list : Candidate(core, list[i])} IN
  {p \in fit \X fit : IsProducer(list[p[1]]) /\ ~ IsProducer(list[p[2]])}

\* Places of a producer and a consumer that can issue to different units.
Pairs(list) ==
  LET fit == {i \in DOMAIN list : Candidate(core, list[i])} IN
  {p \in fit \X fit :
     /\ IsProducer(list[p[1]]) /\ ~ IsProducer(list[p[2]])
     /\ Inst(core, list[p[1]]).unit # Inst(core, list[p[2]]).unit}

\* The loops run over the producers and, inside, over the consumers.
Before(p, q) == p[1] < q[1] \/ (p[1] = q[1] /\ p[2] <= q[2])

\* try_pc_coissue succeeds.
CoIssue ==
  /\ mode.coissue
  /\ \E list \in {Order} : \E pairs \in {Pairs(list)} : \E p \in pairs :
       LET prod == list[p[1]]
           cons == list[p[2]]
       IN
       /\ \A q \in pairs : Before(p, q)
       /\ \E t \in Outcomes(core, prod), u \in Outcomes(core, cons) :
            \E s \in {Issue(core, prod, t)} : core' = Issue(s, cons, u)
       /\ sched' = Served(mode.policy, sched, core, cons)
  /\ UNCHANGED <<mode, fetchBuf, lastFetch, gridLeft>>

NoPair(list) == mode.coissue => Pairs(list) = {}

\* The second turn of the loop over the warp that has just issued.
SecondTurn(s, w) ==
  IF mode.maxIssue = 1 THEN {s}
  ELSE CASE Hazard(s, w) -> {Refetch(s, {w})}
         [] ~ Hazard(s, w) /\ Issuable(s, w) -> {Issue(s, w, t) : t \in Outcomes(s, w)}
         [] OTHER -> {s}

\* The scan without a pair: on the way to the first warp that issues, those
\* with a control hazard are flushed.
SingleIssue ==
  /\ \E list \in {Order} : NoPair(list) /\ \E i \in DOMAIN list :
       LET w      == list[i]
           passed == {list[j] : j \in 1 .. i - 1}
       IN
       /\ Issuable(core, w)
       /\ \A v \in passed : ~ Issuable(core, v)
       /\ \E s \in {Refetch(core, {v \in passed : Hazard(core, v)})} :
            \E t \in Outcomes(s, w) : \E s2 \in {Issue(s, w, t)} :
              core' \in SecondTurn(s2, w)
       /\ sched' = Served(mode.policy, sched, core, w)
  /\ UNCHANGED <<mode, fetchBuf, lastFetch, gridLeft>>

\* A cycle without an issue flushes all the same, and reorders the warps.
IssueNothing ==
  /\ \E list \in {Order} :
       LET seen == {list[i] : i \in DOMAIN list} IN
       /\ NoPair(list)
       /\ \A w \in seen : ~ Issuable(core, w)
       /\ core' = Refetch(core, {w \in seen : Hazard(core, w)})
  /\ sched' = Turned(mode.policy, sched, core)
  /\ core' # core \/ sched' # sched
  /\ UNCHANGED <<mode, fetchBuf, lastFetch, gridLeft>>

Dispatch(f) ==
  /\ f.inID
  /\ core' = Dispatched(core, f)
  /\ UNCHANGED <<mode, sched, fetchBuf, lastFetch, gridLeft>>

Complete(f) ==
  /\ ~ f.inID
  /\ core' = Completed(core, f)
  /\ UNCHANGED <<mode, sched, fetchBuf, lastFetch, gridLeft>>
-----------------------------------------------------------------------------
(* Fetch and decode.                                                       *)

\* A missed line arrives; the buffer takes the pc of the warp.
FetchResponse(w) ==
  /\ fetchBuf = NoFetch
  /\ core.warp[w].imiss # 0
  /\ fetchBuf' = [warp |-> w, pc |-> core.warp[w].next]
  /\ core' = [core EXCEPT !.warp[w].imiss = 0]
  /\ UNCHANGED <<mode, sched, lastFetch, gridLeft>>

\* The order in which fetch scans the warps.
Ring == [i \in 1 .. N |-> (lastFetch + i) % N]

\* The scan for a warp to fetch for reclaims the warps it passes. The cache
\* hits, misses, or refuses the access while other misses are outstanding.
FetchScan ==
  /\ fetchBuf = NoFetch
  /\ \E i \in 1 .. N :
       LET w      == Ring[i]
           pc     == core.warp[w].next
           passed == {Ring[j] : j \in 1 .. i - 1}
       IN
       /\ NeedsFetch(core, w)
       /\ \A v \in passed : ~ NeedsFetch(core, v)
       /\ lastFetch' = w
       /\ \E s \in {Reclaimed(core, {v \in passed : Reclaimable(core, v)})} :
            \/ core' = s /\ fetchBuf' = [warp |-> w, pc |-> pc]
            \/ core' = [s EXCEPT !.warp[w].imiss = pc] /\ UNCHANGED fetchBuf
            \/ /\ \E v \in Warps : core.warp[v].imiss # 0
               /\ core' = s /\ UNCHANGED fetchBuf
  /\ UNCHANGED <<mode, sched, gridLeft>>

\* A scan that finds no warp to fetch for reclaims all the same.
ReclaimOnly ==
  /\ fetchBuf = NoFetch
  /\ \A w \in Warps : ~ NeedsFetch(core, w)
  /\ \E w \in Warps : Reclaimable(core, w)
  /\ core' = Reclaimed(core, {w \in Warps : Reclaimable(core, w)})
  /\ UNCHANGED <<mode, sched, fetchBuf, lastFetch, gridLeft>>

Decode ==
  /\ fetchBuf # NoFetch
  /\ core' = Decoded(core, fetchBuf.warp, fetchBuf.pc)
  /\ fetchBuf' = NoFetch
  /\ UNCHANGED <<mode, sched, lastFetch, gridLeft>>
-----------------------------------------------------------------------------
GridDone == gridLeft = 0 /\ \A w \in Warps : core.warp[w].exited

Terminated == GridDone /\ UNCHANGED vars

Next ==
  \/ LaunchCta
  \/ CoIssue
  \/ SingleIssue
  \/ IssueNothing
  \/ \E f \in core.flight : Dispatch(f) \/ Complete(f)
  \/ \E w \in Warps : FetchResponse(w)
  \/ FetchScan
  \/ ReclaimOnly
  \/ Decode
  \/ Terminated

Spec == Init /\ [][Next]_vars

\* Every stage is clocked in every cycle, every miss is answered.
Fairness ==
  /\ WF_vars(LaunchCta)
  /\ WF_vars(CoIssue \/ SingleIssue \/ IssueNothing)
  /\ WF_vars(\E f \in core.flight : Dispatch(f) \/ Complete(f))
  /\ WF_vars(\E w \in Warps : FetchResponse(w))
  /\ WF_vars(FetchScan \/ ReclaimOnly)
  /\ WF_vars(Decode)

FairSpec == Spec /\ Fairness
-----------------------------------------------------------------------------
(* Properties.                                                             *)

InFlight(w) == {f \in core.flight : f.warp = w}

\* pcs stay in the program of their warp, buffer and configuration keep types.
TypeOK ==
  /\ \A w \in Warps :
       LET r == core.warp[w] IN
       /\ {r.pc, r.next} \subseteq 0 .. Len(core.code[w]) + 1
       /\ r.ibuf[1] \in 0 .. Len(core.code[w]) /\ r.ibuf[2] \in 0 .. Len(core.code[w])
       /\ r.slot \in 1 .. 2 /\ r.inPipe \in Nat /\ r.imiss \in Nat
       /\ {r.done, r.exited} \subseteq BOOLEAN
  /\ mode \in Modes /\ lastFetch \in Warps
  /\ gridLeft \in 0 .. Grid

\* m_inst_in_pipeline counts the buffered and the issued instructions, through
\* flushes by control hazards and by exits. A count that is too low reclaims a
\* warp that still runs, one that is too high never lets it go.
PipelineCountExact ==
  \A w \in Warps :
    core.warp[w].inPipe = Cardinality(Buffered(core, w)) + Cardinality(InFlight(w))

\* The valid entries of the buffer are next in program order, the first at
\* m_next_pc: what the assert(valid) in scheduler_unit::cycle relies on.
BufferFollowsPc ==
  \A w \in Warps : Buffered(core, w) # {} =>
    /\ NextPc(core, w) = core.warp[w].next
    /\ core.warp[w].ibuf[3 - core.warp[w].slot] \in {0, core.warp[w].next + 1}

\* The scoreboard: the registers on it are those that issued instructions of
\* the warp still have to write, and no instruction is in flight together
\* with an earlier one that writes what it reads or writes.
NoHazardInFlight ==
  \A w \in Warps :
    /\ core.warp[w].busy = UNION {core.code[w][f.pc].dst : f \in InFlight(w)}
    /\ \A f, g \in InFlight(w) :
         LET i == core.code[w][f.pc]
             j == core.code[w][g.pc]
         IN  f.pc < g.pc => i.dst \cap (j.src \cup j.dst) = {}

\* Two issues of a cycle never want the same ID_OC register: the
\* assert(pipe_reg) of issue_warp. The units were seen free before either.
OnePerUnit ==
  \A f, g \in core.flight : f.inID /\ g.inID /\ f.unit = g.unit => f = g

\* A queue load issues only into a free slot, as reserve asserts, also when it
\* issues in the cycle of the MOV that pops the queue; and no MOV takes the
\* entry of a load that is still in flight.
QueueKept ==
  /\ \A k \in Keys : Len(core.queue[k]) <= Depth
  /\ \A f \in core.flight :
       LET i == core.code[f.warp][f.pc] IN
       i.op = "qload" =>
         \E e \in ToSet(core.queue[KeyOf(i.queue, f.warp)]) : e.pc = f.pc

\* The load whose entry the MOV at pc is to find.
LoadOf(code, w, pc) ==
  LET kind == code[w][pc].queue
      p    == PairOf(w)
  IN  code[p][CHOOSE k \in UsesOf(code[p], "qload", kind) :
                Rank(code[p], "qload", kind, k) = Rank(code[w], "qmov", kind, pc)]

\* Every lane of a MOV gets all the words that the same lane of its load has
\* read from memory, in order, whatever else was issued between the two.
MovesReadTheirLoad ==
  \A f \in core.flight :
    LET i == core.code[f.warp][f.pc] IN
    i.op = "qmov" =>
      \A l \in i.mask : f.got[l] = LoadedWords(LoadOf(core.code, f.warp, f.pc), l)

\* An instruction on its way from the cache is the one its warp needs: the
\* buffer is empty and the pc is m_next_pc, as fetch asserts; a reclaimed
\* warp waits for none, so its successor gets no instruction of its.
FetchIsCurrent ==
  /\ \A w \in Warps : core.warp[w].imiss # 0 =>
       /\ Buffered(core, w) = {} /\ ~ core.warp[w].done
       /\ core.warp[w].imiss = core.warp[w].next
       /\ fetchBuf.warp # w
  /\ fetchBuf # NoFetch =>
       LET r == core.warp[fetchBuf.warp] IN
       /\ Buffered(core, fetchBuf.warp) = {} /\ ~ r.done
       /\ fetchBuf.pc = r.next

\* The second issue of a cycle takes nothing the first one needed, and what
\* goes through a queue arrives.
IssuesStaySafe == OnePerUnit /\ QueueKept /\ MovesReadTheirLoad

\* Whatever the policy, the list of the cycle has warps of the core only. The
\* two-level scheduler loses no warp when it demotes and promotes: each is in
\* one of its lists, as the assert(num_promoted == num_demoted) wants it.
WarpsScheduled ==
  /\ sched.last \in -1 .. N - 1 /\ sched.turn \in Warps
  /\ ToSet(Order) \subseteq Warps
  /\ mode.policy = "two_level_active" =>
       LET all == sched.active \o sched.pending IN
       /\ Len(sched.active) = MaxActive
       /\ Len(all) = N /\ \A w \in Warps : \E i \in DOMAIN all : all[i] = w

\* Fetch, buffer and the pc of a warp agree, the scheduler knows every warp,
\* and all keep their types.
FrontEndInStep == TypeOK /\ WarpsScheduled /\ BufferFollowsPc /\ FetchIsCurrent

\* Every warp runs to its exit and is reclaimed, whatever is paired with what.
Terminates == <>GridDone
=============================================================================
