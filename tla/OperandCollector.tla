-------------------------- MODULE OperandCollector --------------------------
(***************************************************************************)
(* The register file of a core in the sub-core model: opndcoll_rfu_t.      *)
(* An issued instruction waits in the pipeline register of its unit kind   *)
(* and scheduler (ID_OC), is taken into a collector unit of its scheduler, *)
(* reads its source registers from the banks, one register per bank and    *)
(* cycle, and moves on to the unit's input register (OC_EX). Results are   *)
(* written to the banks as they leave the units; writes go first.          *)
(*                                                                         *)
(* An instruction in flight is a pair <<warp, position in its program>>.   *)
(***************************************************************************)
EXTENDS Integers, Sequences, FiniteSets, SequencesExt

CONSTANTS
  Warps,          \* 0 .. n - 1; warp w belongs to scheduler w % Schedulers
  Schedulers,     \* gpgpu_num_sched_per_core
  Ops,            \* the kinds of instruction: a record of static data each
                  \*   port    : the unit kind it issues to
                  \*   src, dst: its registers, sequences
                  \*   latency, interval: of the SIMD units
                  \*   space   : where a memory instruction goes
                  \*   load    : it is a load
                  \*   queue   : it is a queue load
                  \*   bypass  : its cache operator bypasses L1D
                  \*   blocks  : the memory blocks it accesses, a sequence
  Programs,       \* what the warps may run: functions from warps to
                  \* sequences of kinds
  SimdPorts,      \* kinds of SIMD units, a sequence: their order in m_fu
  BanksPerSched,  \* m_num_banks_per_sched
  UnitsPerSched,  \* collector units of each scheduler
  InPorts,        \* gpgpu_operand_collector_num_in_ports_gen
  OutPorts        \* gpgpu_operand_collector_num_out_ports_gen

ASSUME CollectorAssumption ==
  /\ Schedulers \in Nat \ {0} /\ BanksPerSched \in Nat \ {0}
  /\ UnitsPerSched \in Nat \ {0}
  /\ InPorts \in Nat /\ OutPorts \in Nat
  /\ Warps \subseteq Nat /\ IsFiniteSet(Warps)
  /\ SimdPorts \in Seq(ToSet(SimdPorts)) /\ IsInjective(SimdPorts)
  /\ "MEM" \notin ToSet(SimdPorts)
  /\ \A k \in DOMAIN Ops : /\ Ops[k].port \in ToSet(SimdPorts) \cup {"MEM"}
                           /\ Ops[k].src \in Seq(Nat) /\ IsInjective(Ops[k].src)
  /\ Programs \subseteq [Warps -> Seq(DOMAIN Ops)]

VARIABLES
  program,    \* the program of each warp
  age,        \* instructions issued and not yet in a unit, oldest first: the
              \* order of their uids
  idOc,       \* ID_OC_ registers, by port and scheduler
  collector,  \* m_cu: what each unit holds and the operands it waits for
  requests,   \* m_queue: read requests of each bank, oldest first
  writing,    \* banks allocated for a write in this cycle
  lastCu,     \* m_last_cu of each dispatch unit
  ocEx        \* OC_EX_ registers, by port and scheduler

collectorVars == <<age, idOc, collector, requests, writing, lastCu, ocEx>>

NoInst == <<>>

SchedIds == 0 .. Schedulers - 1
Ports    == ToSet(SimdPorts) \cup {"MEM"}
Banks    == 0 .. Schedulers * BanksPerSched - 1
NumUnits == Schedulers * UnitsPerSched
Units    == 0 .. NumUnits - 1
OutPortIds == 1 .. OutPorts

WarpOf(inst)  == inst[1]
SchedOf(inst) == WarpOf(inst) % Schedulers
Op(inst)      == Ops[program[inst[1]][inst[2]]]

\* The older of two instructions has the smaller uid.
Place(i) == CHOOSE n \in DOMAIN age : age[n] = i
Oldest(insts) == CHOOSE i \in insts : \A j \in insts : Place(i) <= Place(j)

\* The instructions that wait, when i has entered a unit.
Younger(i) == RemoveAt(age, Place(i))

\* register_set::get_ready: the oldest instruction of the registers.
Waiting(regs) == {regs[s] : s \in SchedIds} \ {NoInst}
GetReady(regs) == Oldest(Waiting(regs))

\* register_bank in the sub-core model.
BankOf(inst, reg) ==
  ((reg + WarpOf(inst)) % BanksPerSched) + SchedOf(inst) * BanksPerSched

FreeUnit == [inst |-> NoInst, missing |-> {}]

\* op_t: a register that collector c asks for.
Operand(c, reg) == [cu |-> c, reg |-> reg]

\* allocation_t: a bank is idle unless a write has it; reads are granted
\* after the writes of a cycle.
BankIdle(b) == b \notin writing

SchedOfUnit(c) == c \div UnitsPerSched

CollectorInit ==
  /\ age       = <<>>
  /\ idOc      = [p \in Ports |-> [s \in SchedIds |-> NoInst]]
  /\ collector = [c \in Units |-> FreeUnit]
  /\ requests  = [b \in Banks |-> <<>>]
  /\ writing   = {}
  /\ lastCu    = [d \in OutPortIds |-> 0]
  /\ ocEx      = [p \in Ports |-> [s \in SchedIds |-> NoInst]]

-----------------------------------------------------------------------------
(* Writing results.                                                        *)

\* Mutant: a result that finds a bank taken is written again from the start.
MutWritten(inst, regs, busy) ==
  LET banks == [n \in DOMAIN regs |-> BankOf(inst, regs[n])]
      ok    == /\ {banks[n] : n \in DOMAIN regs} \cap busy = {}
               /\ \A k, n \in DOMAIN regs : k # n => banks[k] # banks[n]
  IN  [busy |-> busy \cup {banks[n] : n \in DOMAIN regs},
       left |-> IF ok THEN <<>> ELSE regs]

\* opndcoll_rfu_t::writeback: the destinations are written in their order
\* until one finds its bank taken; those after it are left.
Written(inst, regs, busy) ==
  LET banks == [n \in DOMAIN regs |-> BankOf(inst, regs[n])]
      clash(n) == banks[n] \in busy \/ \E k \in 1 .. n - 1 : banks[k] = banks[n]
      ok    == {n \in DOMAIN regs : \A k \in 1 .. n : ~clash(k)}
  IN  [busy |-> busy \cup {banks[n] : n \in ok},
       left |-> SubSeq(regs, Cardinality(ok) + 1, Len(regs))]

-----------------------------------------------------------------------------
(* opndcoll_rfu_t::step, part by part.                                     *)

\* collector_unit_t::ready.
Ready(c) ==
  LET i == collector[c].inst
  IN  /\ i # NoInst
      /\ collector[c].missing = {}
      /\ ocEx[Op(i).port][SchedOfUnit(c)] = NoInst

\* dispatch_unit_t::find_ready: the round robin starts with the first unit
\* of the next scheduler.
RoundRobin(d) ==
  LET first == lastCu[d] + UnitsPerSched - (lastCu[d] % UnitsPerSched)
  IN  [n \in 1 .. NumUnits |-> (first + n - 1) % NumUnits]

\* collector_unit_t::dispatch: the unit is free again.
Dispatched(c) ==
  /\ collector' = [collector EXCEPT ![c] = FreeUnit]
  /\ ocEx' = [ocEx EXCEPT ![Op(collector[c].inst).port][SchedOfUnit(c)] =
                collector[c].inst]

\* dispatch_ready_cu for one dispatch unit.
DispatchReadyCu(d) ==
  LET turns == {n \in 1 .. NumUnits : Ready(RoundRobin(d)[n])}
      c     == RoundRobin(d)[Min(turns)]
  IN  /\ IF turns = {} THEN UNCHANGED <<collector, ocEx, lastCu>>
         ELSE Dispatched(c) /\ lastCu' = [lastCu EXCEPT ![d] = c]
      /\ UNCHANGED <<age, idOc, requests, writing>>

\* arbiter_t::allocate_reads: its diagonals meet every bank with its oldest
\* request once, and nothing but a write stands in the way of a grant.
Granted == {b \in Banks : requests[b] # <<>> /\ BankIdle(b)}

AfterGrants == [b \in Banks |-> IF b \in Granted THEN Tail(requests[b])
                                ELSE requests[b]]

\* Mutant: the first operand read makes the collector ready.
MutAllocateReads ==
  /\ requests' = AfterGrants
  /\ collector' = [c \in Units |->
                     IF \E b \in Granted : Head(requests[b]).cu = c
                     THEN [collector[c] EXCEPT !.missing = {}] ELSE collector[c]]
  /\ UNCHANGED <<age, idOc, writing, lastCu, ocEx>>

\* allocate_reads: the granted registers are collected.
ReadFor(c) ==
  {Head(requests[b]).reg : b \in {g \in Granted : Head(requests[g]).cu = c}}

AllocateReads ==
  /\ requests' = AfterGrants
  /\ collector' = [c \in Units |-> [collector[c] EXCEPT !.missing = @ \ ReadFor(c)]]
  /\ UNCHANGED <<age, idOc, writing, lastCu, ocEx>>

\* add_read_requests: the operands queue up at their banks, in their order.
Requested(b, c, i) ==
  LET src == Op(i).src
      queue[n \in 0 .. Len(src)] ==
        IF n = 0 THEN requests[b]
        ELSE IF BankOf(i, src[n]) = b THEN Append(queue[n - 1], Operand(c, src[n]))
        ELSE queue[n - 1]
  IN  queue[Len(src)]

\* allocate_cu for one kind of input register: the oldest instruction goes
\* to a free unit of its scheduler; when there is none, the instructions of
\* the other schedulers wait behind it.
AllocateCu(port) ==
  LET i    == GetReady(idOc[port])
      free == {c \in Units : /\ SchedOfUnit(c) = SchedOf(i)
                             /\ collector[c].inst = NoInst}
      c    == Min(free)
  IN  /\ IF Waiting(idOc[port]) = {} \/ free = {}
         THEN UNCHANGED <<idOc, collector, requests>>
         ELSE /\ idOc' = [idOc EXCEPT ![port][SchedOf(i)] = NoInst]
              /\ collector' = [collector EXCEPT ![c] =
                                 [inst |-> i, missing |-> ToSet(Op(i).src)]]
              /\ requests' = [b \in Banks |-> Requested(b, c, i)]
      /\ UNCHANGED <<age, writing, lastCu, ocEx>>

\* The input registers in the order of allocate_cu.
InputOrder == SimdPorts \o <<"MEM">>

\* process_banks: every bank is idle again.
ProcessBanks ==
  /\ writing' = {}
  /\ UNCHANGED <<age, idOc, collector, requests, lastCu, ocEx>>
=============================================================================
