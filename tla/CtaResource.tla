---------------------------- MODULE CtaResource ----------------------------
(***************************************************************************)
(* How one streaming multiprocessor admits CTAs, as pure operators on the  *)
(* record of a core: how many CTAs of a kernel fit (max_cta), which        *)
(* hardware CTA slot and hardware threads a CTA gets (issue_block2core),   *)
(* what it occupies when kernels share a core (occupy_ and                 *)
(* release_shader_resource_1block), and which warps share a queue          *)
(* (wasp_rfq_key_for_warp).                                                *)
(*                                                                         *)
(* The code has two modes. Without gpgpu_concurrent_kernel_sm a core runs  *)
(* one kernel at a time and a CTA's threads follow from its slot. With it, *)
(* CTAs of several kernels are packed wherever the thread bitmap is free.  *)
(***************************************************************************)
EXTENDS CacheConfig, Functions

CONSTANTS
  Kernels,       \* the kernels of the workload
  Threads,       \* Threads[k]: threads per CTA
  SharedMem,     \* SharedMem[k]: shared memory bytes per CTA
  Regs,          \* Regs[k]: registers per thread
  Blocks,        \* Blocks[k]: CTAs of the grid
  Preference,    \* what cudaFuncSetCacheConfig was given, for some kernels
  WarpSize,
  CoreThreads,   \* n_thread_per_shader
  CoreRegs,      \* gpgpu_shader_registers
  CoreCtas,      \* max_cta_per_core
  NumCores,      \* num_shader()
  ProducerWarps, \* the queue metadata: producer warps per CTA; 0: half
  WordsPerLane,  \* its payload words per lane, and queues per original warp;
  QueuesPerWarp, \*   0: not given
  Options,       \* the configurations, records with
                 \*   concurrent : gpgpu_concurrent_kernel_sm
                 \*   ctaLimit   : gpgpu_max_cta; 0: no limit
                 \*   rfqDepth   : entries of an RFQ; 0: none
                 \*   smemqDepth : entries of an SMEM queue; 0: none
                 \*   shmem      : the shared memory sizes
  Garbage        \* what uninitialised memory may hold

VARIABLES
  option,        \* the configuration of this simulation
  l1             \* gpgpu_shmem_size and m_L1D_config, shared by the cores

ASSUME ShapeAssumption ==
  /\ None \notin Kernels
  /\ WarpSize \in Nat \ {0} /\ NumCores \in Nat \ {0} /\ CoreCtas \in Nat \ {0}
  /\ Threads   \in [Kernels -> Nat \ {0}]
  /\ Blocks    \in [Kernels -> Nat \ {0}]
  /\ SharedMem \in [Kernels -> Nat]
  /\ Regs      \in [Kernels -> Nat]
  /\ DOMAIN Preference \subseteq Kernels /\ Range(Preference) \subseteq FuncCaches
  /\ CoreThreads \in Nat /\ CoreRegs \in Nat /\ ProducerWarps \in Nat
  /\ WordsPerLane \in Nat /\ QueuesPerWarp \in Nat
  /\ Garbage \subseteq Nat /\ Garbage # {}
  /\ Options \subseteq [concurrent : BOOLEAN, ctaLimit : Nat, rfqDepth : Nat,
                        smemqDepth : Nat, shmem : SizesOf]

\* max_cta aborts when both queue kinds are configured.
ASSUME OneQueueKind == \A o \in Options : o.rfqDepth = 0 \/ o.smemqDepth = 0

\* max_cta asserts that the largest shared memory option holds what it carves
\* out, which is no more than the shared memory size in force.
ASSUME OptionsCover ==
  \A o \in Options : \A p \in FuncCaches :
    \E bytes \in ShmemOptions : o.shmem[p] <= bytes

Concurrent == option.concurrent

HwCtas == 0 .. CoreCtas - 1

\* set_cache_config(name) looks the kernel up in m_special_cache_config.
PreferenceOf(k) == IF k \in DOMAIN Preference THEN Preference[k]
                   ELSE "prefer none"

RoundUp(n, unit) == ((n + unit - 1) \div unit) * unit

-----------------------------------------------------------------------------
(* What a CTA needs.                                                       *)

\* threads_per_cta rounded up to whole warps.
Padded(k) == RoundUp(Threads[k], WarpSize)
WarpsPerCta(k) == Padded(k) \div WarpSize

\* The metadata's producer warps, or half of the warps, but at least one.
Producers(k) ==
  IF ProducerWarps > 0 THEN ProducerWarps
  ELSE IF WarpsPerCta(k) = 1 THEN 1 ELSE WarpsPerCta(k) \div 2

PayloadWords == IF WordsPerLane = 0 THEN 1 ELSE WordsPerLane
Queues       == IF QueuesPerWarp = 0 THEN 1 ELSE QueuesPerWarp

QueueWords(k, depth) == Producers(k) * Queues * depth * PayloadWords * WarpSize

RfqRegs(k)    == QueueWords(k, option.rfqDepth)
SmemqBytes(k) == QueueWords(k, option.smemqDepth) * 4

\* Registers are allocated in units of four per thread.
RegsPerCta(k) == Padded(k) * RoundUp(Regs[k], 4) + RfqRegs(k)
SmemPerCta(k) == SharedMem[k] + SmemqBytes(k)

\* max_cta: the CTAs of a kernel a core can host with that much shared memory.
Fitting(shmem, k) ==
  Min({CoreThreads \div Padded(k), CoreCtas} \cup
      (IF SmemPerCta(k) > 0 THEN {shmem \div SmemPerCta(k)} ELSE {}) \cup
      (IF RegsPerCta(k) > 0 THEN {CoreRegs \div RegsPerCta(k)} ELSE {}))

\* A grid too small to fill all cores is spread over them.
MaxCtaUnder(shmem, k) ==
  LET fit == Fitting(shmem, k)
  IN  IF Blocks[k] < fit * NumCores
      THEN RoundUp(Blocks[k], NumCores) \div NumCores
      ELSE fit

MaxCta(k) == MaxCtaUnder(l1.shmem, k)

\* max_cta carves the kernel's own shared memory out of the L1 cache the
\* first time it runs for it; the queues are not counted.
Adapted(k) == Carve(l1, k, SharedMem[k] * MaxCta(k))

\* cudaOccupancyMaxActiveBlocksPerMultiprocessor calls max_cta with a kernel
\* object of its own and a grid that fills all cores: it carves as well, for
\* no kernel that will run.
AdaptedByQuery(k) == Carve(l1, None, SharedMem[k] * Fitting(l1.shmem, k))

\* max_cta aborts for a kernel that does not fit at all, under whatever
\* preference, and so does a producer warp count that leaves no consumer.
KernelsFit ==
  \A k \in Kernels : /\ \A p \in FuncCaches :
                          LET size == ChangeCacheConfig(option.shmem, p).shmem
                          IN  MaxCtaUnder(size, k) >= 1
                     /\ ProducerWarps > 0 => ProducerWarps < WarpsPerCta(k)

-----------------------------------------------------------------------------
(* The record of a core.                                                  *)
(*   kernel : m_kernel, the kernel the core is bound to                    *)
(*   owner  : the kernel of the CTA last put on each hardware slot         *)
(*   active : the hardware threads of each slot still to exit;             *)
(*            m_cta_status is their number                                 *)
(*   start  : the first hardware thread of each slot                       *)
(*   padded : kernel_padded_threads_per_cta, which the constructor leaves  *)
(*            uninitialised and only set_max_cta sets                      *)
(*   threads, smem, regs, ctas, hwtid : the m_occupied_ accounts           *)

EmptyCore(garbage) ==
  [kernel |-> None, owner |-> [h \in HwCtas |-> None],
   active |-> [h \in HwCtas |-> {}], start |-> [h \in HwCtas |-> 0],
   padded |-> garbage,
   threads |-> 0, smem |-> 0, regs |-> 0, ctas |-> 0, hwtid |-> {}]

Resident(co) == {h \in HwCtas : co.active[h] # {}}
ActiveCtas(co) == Cardinality(Resident(co))

\* get_not_completed() == 0: every thread has exited.
Drained(co) == Resident(co) = {}

ThreadRange(first, n) == first .. first + n - 1

\* find_available_hwtid: the first multiple of the size whose range of
\* threads is free in the bitmap, if there is one.
FreeStarts(co, size) ==
  {s \in 0 .. CoreThreads - 1 : s % size = 0 /\ ThreadRange(s, size) \cap co.hwtid = {}}

\* occupy_shader_resource_1block(k, false).
HasRoom(co, k) ==
  /\ co.threads + Padded(k) <= CoreThreads
  /\ FreeStarts(co, Padded(k)) # {}
  /\ co.smem + SmemPerCta(k) <= l1.shmem
  /\ co.regs + RegsPerCta(k) <= CoreRegs
  /\ co.ctas + 1 <= CoreCtas

CanIssue1Block(co, k) ==
  IF Concurrent THEN HasRoom(co, k) ELSE ActiveCtas(co) < MaxCta(k)

\* The slots issue_block2core looks through for a free one.
FreeSlots(co, k) ==
  {h \in HwCtas \ Resident(co) : h < IF Concurrent THEN CoreCtas ELSE MaxCta(k)}

\* set_max_cta also fixes the CTA size that pairs warps and maps addresses.
SetMaxCta(co, k) == [co EXCEPT !.padded = Padded(k)]

\* issue_block2core on the core: the accounts or the limits, the slot, the
\* threads.
IssueBlock(co, k) ==
  LET h     == Min(FreeSlots(co, k))
      first == IF Concurrent THEN Min(FreeStarts(co, Padded(k)))
                             ELSE h * Padded(k)
      onto  == [co EXCEPT !.owner[h] = k, !.start[h] = first,
                            !.active[h] = ThreadRange(first, Threads[k])]
  IN  IF Concurrent
      THEN [onto EXCEPT !.threads = @ + Padded(k), !.smem = @ + SmemPerCta(k),
                        !.regs = @ + RegsPerCta(k), !.ctas = @ + 1,
                        !.hwtid = @ \cup ThreadRange(first, Padded(k))]
      ELSE SetMaxCta(onto, k)

\* reinit, at the start of a run of the simulation: the threads and the
\* accounts; the core's kernel and its padded CTA size are left.
Reinit(co) == [EmptyCore(co.padded) EXCEPT !.kernel = co.kernel,
                                           !.owner = co.owner,
                                           !.start = co.start]

\* The warps of a CTA with threads still to exit.
WarpsOf(co, h) == {t \div WarpSize : t \in co.active[h]}

WarpThreads(w) == ThreadRange(w * WarpSize, WarpSize)

\* fetch reclaims a finished warp: its threads leave their CTA.
ExitWarp(co, h, w) == [co EXCEPT !.active[h] = @ \ WarpThreads(w)]

\* Mutant: the shared memory of the queues is not given back.
MutReleaseBlock(co, h) ==
  LET k == co.owner[h]
  IN  [co EXCEPT !.threads = @ - Padded(k), !.smem = @ - SharedMem[k],
                   !.regs = @ - RegsPerCta(k), !.ctas = @ - 1,
                   !.hwtid = @ \ ThreadRange(co.start[h], Padded(k))]

\* release_shader_resource_1block: a no-op unless kernels share the core.
ReleaseBlock(co, h) ==
  LET k == co.owner[h]
  IN  IF ~Concurrent THEN co
      ELSE [co EXCEPT !.threads = @ - Padded(k), !.smem = @ - SmemPerCta(k),
                        !.regs = @ - RegsPerCta(k), !.ctas = @ - 1,
                        !.hwtid = @ \ ThreadRange(co.start[h], Padded(k))]

-----------------------------------------------------------------------------
(* Which warps share a queue.                                              *)

\* Mutant: the first consumer is counted as a producer.
MutQueueWarp(co, w) ==
  LET perCta == co.padded \div WarpSize
      local  == w % perCta
      half   == perCta \div 2
  IN  IF local <= half THEN local ELSE local - half

\* The original_warp_id of wasp_rfq_key_for_warp. It does not look at the
\* warp's CTA but at the core's kernel_padded_threads_per_cta.
QueueWarp(co, w) ==
  LET perCta == IF co.padded \div WarpSize = 0 THEN 8
                ELSE co.padded \div WarpSize
      local  == w % perCta
      prod   == IF ProducerWarps > 0 THEN ProducerWarps
                ELSE IF perCta = 1 THEN 1 ELSE perCta \div 2
  IN  IF local < prod THEN local ELSE local - prod
=============================================================================
