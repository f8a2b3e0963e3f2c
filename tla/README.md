# Verification of the WASP overlay for GPGPU-Sim

The repository extends GPGPU-Sim, a cycle-level GPU simulator, with *warp
specialisation*: the warps of a CTA are split into producers, which only load,
and consumers, which only compute. A producer hands operands to the consumer of
its pair through a queue kept in the register file (RFQ) or in shared memory
(SMEM queue), and the schedulers may issue a producer and a consumer
instruction in the same cycle. This directory holds TLA+ modules of that
system, from the CUDA runtime down to the operand collector, TLC configurations
that check them on small instances, and proofs for instances of any size.

Paths below are relative to
`src/01_gpgpusim_design/gpgpusim_overlay/src/` unless they start with `src/` or
`libcuda/` (which is beside that `src`).

## Inventory

| Component | State | Operations | Properties that make it correct |
|---|---|---|---|
| Warp queue, `gpgpu-sim/wasp-rfq.*`, `wasp-smem-queue.*` (one code, two names) | head, tail, occupancy, next sequence number, entries (state, sequence, pending responses, lanes); a table of queues by key | configure, reserve_tail, set_pending_responses, mark_response, set_lane_value, consume_head, get_or_create, erase_cta | FIFO order, an entry is READY exactly when all responses came, a token always names its own entry |
| Queue instructions in the core, `gpgpu-sim/shader.cc` 539-878, LDST unit 2526-3731 | instructions in flight with their tokens, access queues, L1 latency queue, m_next_wb, counters | issue of loads and MOVs, dispatch, hit, miss, response, writeback, reclaiming of warps and CTAs | each load completes once, responses never outlive their queue, the grid ends |
| CTA admission, `gpu-sim.cc` 1743-1985, `shader.cc` 4268-4550 | m_cta_status, occupied threads, shared memory, registers, CTAs, thread bitmap, L1 configuration | max_cta, can_issue_1block, occupy, release, issue_block2core, change_cache_config, wasp_rfq_key_for_warp | threads are private to a CTA, accounts never drift, resources suffice, a pair of warps computes one key |
| Kernel dispatch, `gpu-sim.cc` 855-1316, 2023-2033, `shader.cc` 3733-3782, 5477-5516 | m_running_kernels, m_last_issued_kernel, round-robin positions, CTAs handed out and in flight, totals of earlier runs | launch, select_kernel, both issue_block2core loops, register_cta_thread_exit, set_kernel_done, stop_all_running_kernels, active, init, update_stats | each kernel is reported once, after its last CTA; a core runs one kernel; every kernel ends |
| Warp schedulers and co-issue, `shader.cc` 1483-2431 | order lists, last issued position, turn, scoreboard, instruction buffers | cycle, all orderings, classify_issue_target, try_pc_coissue, issue_warp | no hazard issued past the scoreboard, at most one instruction per unit, no warp starves |
| Fetch, decode, instruction buffer, `shader.cc` 1336-1473, `shader.h` 124-330 | ibuffer, instructions in the pipeline, outstanding fetch, done_exit | fetch, decode, ibuffer_flush, hardware_done | a warp is reclaimed once and only when it is idle |
| Barriers, `shader.cc` 4697-4915 | warps per CTA, at barrier, active, per-barrier sets and counts, membar flags | allocate, deallocate, reaches, warp_exit | nobody passes early, everybody passes eventually |
| LDST unit outside the queues, `shader.cc` 2526-3731 | pending writes, response FIFO, latency queues, writeback arbiter | cycle, writeback, memory_cycle of the three spaces, fill | registers are released after the last write, counters agree |
| Operand collector, SIMD units, `shader.cc` 2517-2559, 3259-3307, 4612-4695, 5088-5391, `shader.h` 719-1260 | collector units, arbiter queues, banks, pipelines, result buses | allocate, dispatch, allocate_reads, execute, writeback | no read is lost, a result finds its register |
| Cluster port, `shader.cc` 5403-5760 | response FIFO | icnt_cycle, icnt_inject, icnt_injection_buffer_full | back-pressure without deadlock |
| Clock domains, `gpu-sim.cc` 2000-2278 | four clocks | next_clock_domain, cycle | every domain advances at its rate, the core drains |
| Functional execution of queue instructions, `cuda-sim/cuda-sim.cc` 1836-2242 | lane values, payload words | exec of queue loads and MOVs | the MOV reads what the load wrote, lane by lane |
| Decode of instructions and choice of units, `cuda-sim.cc` 578-1315, `shader.cc` 1483-1800 | latency and interval tables | set_opcode_and_latency, pre_decode, classify, can_issue | every path chooses the same unit, no register is missed, results come on time |
| Functional simulation and checkpoints, `cuda-sim.cc` 2248-2411, 2673-2935 | CTA counters, live threads, barrier flags, checkpoint files | gpgpu_cuda_ptx_sim_main_func, initializeCTA, execute, executeWarp | warps leave a barrier together, a checkpoint loses no CTA |
| Device memory, `cuda-sim.cc` 393-551, 2465-2559, `libcuda/cuda_runtime_api.cc` 1065-1549, `shader.cc` 2452-2514 | heap pointer, globals, arrays | gpu_malloc, cudaMalloc*, the copy calls, generic_to_*, translate_local_memaddr | no two objects overlap, a copy fills its object |
| PTX control flow, `cuda-sim/ptx_ir.cc` 345-973 | basic blocks, dominators, postdominators | do_pdom and all its passes | reconvergence is the immediate postdominator |
| CUDA runtime, `libcuda/cuda_runtime_api.cc` | registered binaries and functions, launch stack, streams, events | registration, configuration, launch, copies, streams, events, synchronisation | a kernel gets its own configuration and arguments, waits wait for all |
| PTX parser, kernels, configurations, scripts | none that evolves beside the simulator | | |

The parts meet in two places. On the host side the runtime turns calls into
operations of streams; a kernel that reaches the head of its stream is launched
into `gpgpu_sim` (or run by the functional simulator). On the device side
`gpgpu_sim::cycle` advances the clock domains, calls `issue_block2core`
(dispatch), and every core's `cycle`, in which writeback, execute, read
operands, issue, decode and fetch run in reverse pipeline order. A queue
instruction passes through all of them: the scheduler asks `can_issue`,
`issue_warp` runs prepare_issue, the functional execution and after_func_exec
without interruption, the operand collector and the LDST unit move it on,
responses call `mark_mem_response`, and fetch reclaims the warp, which in
`register_cta_thread_exit` erases the queues of a finished CTA, frees its
resources and may report the kernel.

What is hard: the simulator proper is single-threaded, so interleaving is
between the warps, the units and the memory as the cycles arrange them, and
between the host thread and the simulation thread. Responses come out of order;
ring slots, hardware CTA slots and kernel slots are all reused while something
may still refer to the former occupant; counters are added in one function and
subtracted in another; several places can complete the same instruction; tables
that decide the same thing are written several times. `PROJECT.json` lists each
such hazard with its line.

## Modules

An arrow reads "extends".

    WaspQueue <- QueuePipeline (an instance of QueueFifo) <- QueuePipelineProofs
    CacheConfig <- CtaResource <- KernelDispatch <- MCKernelDispatch, DispatchProofs
    BarrierSet <- CtaBarriers <- MCCtaBarriers, DecodeBarriersProofs
    BarrierSet <- WarpPipeline <- SchedulerPolicies <- PairIssue <- MCPairIssue,
                                                            PairIssueProofs
    OperandCollector <- SimdUnits <- LdstUnit <- MemorySystem <- CoreBackend
                                  <- MCCoreBackend, CoreBackendProofs
    InstructionDecode <- MCInstructionDecode, DecodeBarriersProofs
    ControlFlow <- MCControlFlow
    KernelParams <- HostRuntime <- MCHostRuntime, HostRuntimeProofs
    AddressSpace <- DeviceMemory <- DeviceCopies <- MCDeviceMemory,
                                                    DeviceMemoryProofs
    FunctionalSim <- MCFunctionalSim, FunctionalSimProofs

### Queues

**`WaspQueue`** - one queue as operators on a record. `ReserveTail`,
`MarkResponse`, `ConsumeHead` and the rest are the methods of `wasp_rfq`; the
record fields are its members. `Owns` is the assertion of `entry_for_token`.
An entry's lanes are one tag.

**`QueueFifo`** - the abstract promise: per key a bounded FIFO whose items
become ready in any order and are taken from the head only when ready. It has
no action that drops anything.

**`QueuePipeline`** - the queue instructions in one core. `table` is
`wasp_rfq_table`; `loads` is the set of all queue loads with the place each has
reached (`collector`: between issue and the LDST unit; `dispatch`: the dispatch
register; `left`) and the number of its accesses in the access queue, the L1
latency queue, memory and `m_next_wb`. One action is one call: `IssueLoad` is
prepare_issue, execution and after_func_exec together; `AccessHit`,
`AccessLatencyQueue`, `AccessMemory`, `LatencyHit`, `LatencyMiss`, `Respond`,
`Writeback` follow the branches of `ldst_unit`; `ReclaimWarp` is fetch with
`erase_cta` in it. The code has one copy for the RFQ and one for the SMEM
queue; the module stands for both. Programs are straight, masks of a load and
its MOV are equal, `model_data` is on, and each kind of queue of a pair has one
queue id.

### Dispatch

**`CacheConfig`** - the division of the unified memory between L1 and shared
memory: `change_cache_config` at a launch, the carve-out in `max_cta`.

**`CtaResource`** - the resources of a core as operators on its record: what a
CTA needs (with the queue storage: RFQ words are registers, SMEM queue words
shared memory), how many fit, which slot and threads it gets, in the mode that
binds a core to a kernel and in the one that shares it
(`gpgpu_concurrent_kernel_sm`), and `QueueWarp`, the warp part of a queue key.
On a shared core `set_max_cta` is never called (`gpu-sim.cc:1874`), so the keys
there are made of a CTA size that nobody has set: the properties speak of keys on
bound cores only. Nor do they say that the threads of a CTA are threads of its
core if the CTA's size does not divide their number and the core is shared:
`find_available_hwtid` may then hand out a range that begins within the core
and ends beyond it.
The variable `option` holds what the configuration sets.

**`KernelDispatch`** - from launch to completion. A pass of
`gpgpu_sim::issue_block2core` is a sequence of `IssueToCore` steps in the order
of the two round robins; `pass` is its position. `ReclaimWarp` is
`register_cta_thread_exit` for the threads of a warp, with `set_kernel_done`.
`NewRun` is `update_stats` followed by `init` once nothing is active;
`StopAllRunningKernels` ends the simulation when the CTAs of earlier runs use
up `gpgpu_max_cta`. `AskOccupancy` is
`cudaOccupancyMaxActiveBlocksPerMultiprocessor`, which the host thread may call
at any moment and which calls `max_cta` on the live configuration. Memory the
constructor leaves uninitialised (`kernel_padded_threads_per_cta`) starts with
any value of `Garbage`. Of the list `m_finished_kernel` the model keeps how often
each kernel is in it, not the order. The loop of the simulation thread and the flush of the
L1 caches are outside the overlay; the first is modelled by the guards of
`NewRun` and `StopAllRunningKernels`.

### Barriers

**`BarrierSet`** - `barrier_set_t` as operators on a record of its four
members. A barrier instruction is its type, its barrier and the number of warps
it asks for.

**`CtaBarriers`** - the core around it. `LaunchCta` is the call of
`allocate_barrier` in `issue_block2core`, `Barrier` the one of
`warp_reaches_barrier` in `issue_warp`, `Exit` the one of `warp_exit` in the
functional execution, `ReclaimWarp` the way from fetch to `deallocate_barrier`.
A warp that `shd_warp_t::waiting` holds back issues nothing, so it executes
neither barriers nor its exit. The history variables `phase` and `ticket` say
which round of which barrier a warp stopped for; the code has no notion of it.

### Issue

**`WarpPipeline`** - the warps of one scheduler as operators on a record: the
instruction buffer and pipeline count of `shd_warp_t`, its pc on the SIMT
stack, its registers on the scoreboard, the issued instructions, the queues of
the pairs with the words of their lanes, and the barriers. `Issue` is
`issue_warp` with `ibuffer_step`: functional execution, barrier, SIMT stack,
scoreboard and `set_next_pc` happen in that one call. `Issuable` is what
`collect_issue_candidate` and the scan in `scheduler_unit::cycle` both test;
`Refetch` is the control-hazard branch.

**`SchedulerPolicies`** - every ordering of the file as an operator on the
scheduler's record: loose round robin, strict round robin, greedy-then-oldest,
oldest first, static warp limiting and two-level. Members that no constructor
sets take any value. One scheduler has the warps 0 .. N-1, and the orders by age
use the order of their numbers.

**`PairIssue`** - the scheduler, fetch and decode. `CoIssue` is a cycle in which
`try_pc_coissue` succeeds, `SingleIssue` one in which the scan issues from the
first warp that can (and has flushed the stale ones before it, and may issue a
second time), `IssueNothing` one in which it issues nothing. `FetchScan`,
`ReclaimOnly` and `FetchResponse` are the branches of `fetch`. The stages are
separate actions because how many cycles lie between them depends on the
latencies; their order within one cycle is one of the interleavings. The model
is that of the sub-core configuration, where a scheduler has one ID_OC register
per unit: there `gpgpu_dual_issue_diff_exec_units` adds nothing, since a unit
just issued to has no free register. Branches are forward and uniform;
divergence appears as a partial exit (`pexit`). An entry of a queue is READY
when its load has left the core; the details of that are `QueuePipeline`'s.
Policies that look at some warps only (strict round robin, limiting, two-level)
run without co-issue: a warp that they do not look at can starve one that is
paired with it, whatever the code of the overlay does.

**`InstructionDecode`** - an instruction from the parser to the pipeline of its
unit: opcode class and latencies, the registers that `pre_decode` extracts, the
unit by the tables at issue, at co-issue and in `can_issue`, and the stage at
which each starts. Result buses and operand collector stand aside here. The
energy class of a move, conversion or comparison of doubles is double precision
although it runs as an ALU operation on the integer unit (`cuda-sim.cc:636`), so
`PathsAgree` ties energy class and unit for arithmetic only.

### The core behind the schedulers

**`OperandCollector`**, **`SimdUnits`**, **`LdstUnit`**, **`MemorySystem`** and
**`CoreBackend`** - one core cycle by cycle. The state of each unit is in its
own module; `CoreBackend` has the sequence. `part` counts through the parts of
`gpgpu_sim::cycle` of the domains that tick, so within a cycle nothing is left
open but the data: which lane of the round robins, whether a cache hits, when
and in which order memory answers, which warps the schedulers take (one of the
issuable ones of each). `ldst_unit::cycle` is a forced sequence of six steps
(`Unit...`), and so is the step of the operand collectors: one `DispatchCu` for
each dispatch unit, `ReadBanks`, a `TakeIn` for every kind of input register of
every input port, and `FreeBanks`. `age` has the instructions that wait for a
unit in the order of their uids, which `register_set::get_ready` compares. An
access is one sector; the interconnect keeps the order of what a
port sends and is full at `NetCapacity`; moving packets through it is folded
into the pop. Fill ports are always free. `Writeback` drains EX_WB: of the
results of an instruction those up to the first that finds its bank taken take
a bank in this cycle, all registers are released.

### Programs and the host

**`ControlFlow`** - `do_pdom` on the body of one function: the passes over the
basic blocks one after the other, a sweep of a fixpoint iteration one step. An
instruction is its position; a label is a mark on the instruction it precedes;
predecessors are the inverse of the successors.

**`KernelParams`**, **`HostRuntime`** - the argument layout of a kernel, and the
runtime: binaries, functions, the stack of launch configurations, streams,
events, and the calls that wait. The stream manager and the simulation thread
are not in the overlay; the header of the module says what the runtime expects
of them. `app` is the stack of kernel calls of the application whose arguments
are being evaluated. A byte of an argument is the triple of its call, number and
place. `covers`, on an event, a wait and a waiting call, is the set of operations
whose completion it promises. An event keeps the number of its records and that of
their completions only, so a wait compares numbers: if the event is recorded again
on a third stream, the completion of the later record can let a wait for the
earlier one pass. `WaitsForAll` therefore promises what a wait covers as long as
its event was not recorded again; the comparison itself is done by the stream
operation, outside the overlay.

**`FunctionalSim`** - the functional simulator with checkpoint options: CTAs in
the order of `increment`, sweeps over the warps of one CTA, a warp visit one
step, partial exits and barriers, the files of a checkpointed CTA. `execute`
sets `cp_cta_resume` to `checkpoint_CTA_t`, so with the value 1 every CTA begins
from the files of CTA 0 (`Resumes`): with the lanes of the SIMT stacks in
`left`, which an earlier run of any options may have written. `EarlierFiles` has
all such stacks, empty ones and no files included. What `stopped` stands for is
the end of the program where the code cannot go on: files that are not there, a
stack without entries, and a last warp that is not whole, whose missing threads
are dereferenced when a warp resumes and when a CTA is written (the loop to
`32 * m_warp_count` of `cuda-sim.cc:2896`; `WarpSize` is that 32).

**`AddressSpace`**, **`DeviceMemory`**, **`DeviceCopies`** - generic addresses
and their windows with the mapping of local memory to the timing model's space;
the allocation calls with the roundings of each and with the widths in which
they keep sizes and addresses (`UintRange` values of an `unsigned`, `PtrRange`
values of an array's `int devPtr32`, `AddrRange` addresses); all calls that set,
fill and copy, with the first address and the length each computes. The address
of an array is its `devPtr32` extended by its sign (`SignExtended`): below half
of `PtrRange` nothing changes, above it the array moves to the end of the
address space, as every array of the code does, whose heap starts at
0xC0000000, and beyond `PtrRange` it may lie anywhere (`Kept` is false of it).
The size of an array may be truncated, and `cudaMemcpy2DToArray` writes its rows
all the same. `stored` is the specification of what the application wrote,
object by object and apart from the memory; `astray` collects the addresses that
the calls on such arrays reached and must not have, or did not reach and should.

### MC modules

They give the programs, kernels, tables and machines of the runs:
`MCKernelDispatch` (CTAs of a partial last warp, of three warps, of one),
`MCCtaBarriers` (`__syncthreads` in a loop, early leavers, counted barriers, an
arrival without a wait, a reduction, the hand-over of a buffer),
`MCPairIssue` (queue loads of one and three words, MOVs, a dependency, a branch,
a partial exit, a barrier; six scheduler modes), `MCCoreBackend`,
`MCControlFlow`, `MCHostRuntime`, `MCFunctionalSim`, `MCDeviceMemory`,
`MCInstructionDecode`.

## Runs

| Run | Bounds | Shows |
|---|---|---|
| `queue_reuse` | ring of 2, 4 loads of 1 or 2 accesses, one CTA slot, 2 CTAs | the ring wraps twice, responses pass each other and the CTA slot is reused: tokens are owned, pending counts exact, loads complete once, `erase_cta` drops nothing, the queue refines `QueueFifo`, the grid ends |
| `queue_two_ctas` | ring of 2, 3 loads, some without accesses, 2 slots, 3 CTAs, L1 looked up at once | CTAs end next to running ones; when a load without accesses uses its token, its queue is there, and the assertion of `entry_for_token` holds exactly until the producer has issued as many further loads as the ring has slots, which happens here |
| `dispatch` | 3 kernels, 2 clusters of one core, 2 kernel slots; RFQ on bound cores with a register file that limits the CTAs, or SMEM queues on shared cores with `gpgpu_max_cta` 4 of 7 CTAs; four shared memory sizes, two preferences, one occupancy query | threads are private and threads of the core, on bound cores pairs share a queue and nobody else does, accounts exact, resources suffice also while the L1 is carved anew, kernels are selected and reported once, every one ends or the limit stops the simulation |
| `barrier_rounds` | 3 CTAs of 3 warps on 2 slots, 2 barriers, 5 programs in every order of the warps | no warp leaves a barrier before its round is complete, none stays behind, the asserts of `deallocate_barrier` hold, the grid ends |
| `pair_issue` | 3 warps, a queue of 2, 3 programs, 6 modes: LRR with one issue per warp (the repository's configuration), GTO with two, oldest first, strict round robin, limiting, two-level | co-issue, single issue, flushes, fetch and decode in any relative speed: the count of instructions in the pipeline is exact, the buffer holds what comes next, the scoreboard what is in flight, two issues of a cycle never meet in a unit or a queue, a MOV reads the words of its load, no policy loses or starves a warp |
| `core_backend` | 3 warps, 2 schedulers with one collector, two banks and one writeback register, 5 mixes of 14 instructions, three of which have two results in one bank, FIFOs of one, network of 2, 2 sub-partitions | results find their place on the result bus, operands are read once, all counts are exact, and the core drains |
| `control_flow` | every body of 6 instructions with branches and predicated exits, every one of 5 with breaks and calls | reconvergence points are the nearest points all paths pass, the analysis ends |
| `host_runtime` | 2 functions of 2 binaries, the default and 2 created streams, one event, 2 kernel calls nested up to 2 deep, 3 operations, a checkpoint before the second kernel | a kernel runs with its own configuration and arguments, waits end when all they cover is done, globals are written once, calls return |
| `functional_sim` | 2 kernels of 2 by 2 CTAs of 3 warps of 2 lanes, the last warp whole or not, up to 3 instructions, no checkpoint and three settings of it, one of them resuming every CTA from any files of CTA 0 | warps are released together, a checkpoint leaves every CTA to exactly one side, each from the start it should have, kernels end or the program stops where the code cannot go on |
| `device_memory` | 2 SMs of 4 threads, 2 objects of sizes 0, 1, 9 and their products (aligned to 4), a heap from 80 to 116 across `PtrRange` = 82, `UintRange` = 7 | no byte has two owners and objects keep what was written, arrays with moved addresses included, but for what the calls on arrays beyond `PtrRange` or of truncated size do; generic addresses and local addresses resolve to one place |
| `instruction_decode` | instructions of every class and type; the repository's latency tables, scaled ones with two under way, a core without INT and DP units | no register is lost, all unit tables agree, results come on the promised cycle, nothing gets stuck |
| `barrier_hand_over` (a violation) | 3 warps, 2 barriers | a warp that arrived at one barrier and waits at another is woken by the end of the first one's round; see below |

The violation: `warp_reaches_barrier` ends a round with
`m_warp_at_barrier &= ~at_barrier`, where `at_barrier` also has the warps that
executed `bar.arrive`. One of them may have gone on to `bar.sync` elsewhere. The
same property holds in `barrier_rounds`, whose programs arrive without going on
to wait, and is proved for all programs without `bar.arrive`.

Why the bounds are enough: a ring of two slots and four loads reuses each slot
while another load is outstanding, and twice, so a token could meet both a
later load of the same CTA and one of the next CTA. Two accesses are the least
number for which the first and the last response differ, and for which hits and
misses mix within one load. Two kernel slots and three kernels force a launch
into a slot that was used before; three CTAs on cores of two CTAs of that kind
force a second round; CTA sizes of one, two and three warps make stale sizes
visible; a limit of 4 of 7 CTAs falls inside a kernel. Three loads fill a queue
of two; a buffer has two entries, so programs of four and five instructions are
fetched two or three times. With one writeback register, one collector per
scheduler and FIFOs of one place every kind of contention occurs between three
warps. Six instructions are the fewest with two nested branches or a loop with
an exit in it. A ring of two, three loads and two CTAs next to each other are
the fewest with which a load without accesses is overtaken by a whole round of
the ring. The heap begins in the upper half of `PtrRange`, where the code's
does, and passes its end: an array may lie where its address is moved, across
the border, and beyond. Products of 9 and 9 or 1 do not fit `UintRange`, so
truncated sizes occur, while those of 1 and 1 fit. Two objects have every
alignment relation the calls can produce, as each depends only on the heap
pointer before it. Counters are bounded by the constants (`Program`, `Grid`,
`Blocks`, `MaxCalls`, `MaxOps`, `MaxNesting`, `NStreams`, `MaxInsns`,
`MaxObjects`, `HeapLimit`, `Sizes`); no state constraint and no symmetry is
used. Queue depths, windows, tables and periods are scaled; what is kept of
each is the order relations the code depends on.

Deadlock is checked where the system has an explicit stuttering step at its end.
`CHECK_DEADLOCK FALSE` stands in `control_flow` (the analysis of one function
returns), `host_runtime` (the application may make no further call, with the
bounds used up), `device_memory` (the bounds used up) and `queue_two_ctas` (a
failed assertion of `entry_for_token` ends the program).

### Fairness

`QueuePipeline`: every unit is clocked in every core cycle, so weak fairness of
the LDST steps as one disjunction (no load is favoured), of launching and of
reclaiming. Issue is weakly fair per queue: a warp that stays able to issue is
reached by every scheduler, because programs are finite and even the greedy
order runs out of other warps. Memory answers every request. `KernelDispatch`:
weak fairness of `Next` only: host and simulation thread go on, kernels
terminate, and every step but the final stutter makes progress, so nothing
stronger is needed. In `CtaBarriers` every ready warp is weakly fair: its
instructions are reached as above, and fetch visits every warp. In `PairIssue`
issue, fetch, decode and the execution of issued instructions are clocked in
every cycle and so weakly fair each as a whole: no warp and no instruction is
favoured, the order of the scheduler alone decides. Instruction misses are
answered; the cache refuses an access only while a miss is outstanding.
`CoreBackend`: the clock ticks for ever, and a sub-partition that can answer
again and again answers some time (strong fairness of `Reply`, because its port
is full from time to time). `ControlFlow` and `FunctionalSim`: one thread that
runs on. `HostRuntime`: weak fairness of `Service`, the steps of the simulation
thread and of waiting calls; none of the calls an application may make. The
fairness is in `FairSpec`, which the run checks; the theorems are about `Spec`.
In `CtaBarriers` the two are `BarrierFairSpec` and `BarrierSpec`.
`InstructionDecode`: scheduler and units are clocked, so weak fairness of `Issue`
and `Execute`.

## Proofs

Each theorem is for every value of the constants that its named assumptions
allow.

**Queues.** `QueuePipelineProofs` proves `TypeCorrect`, `TokensAreOwned` (the
token of a load in flight names its own entry) and `PendingIsExact` (an entry
waits for exactly the unanswered accesses), for every depth, number of CTAs,
pairs, queues and loads, from `DepthAssumption`, `ParameterAssumption` and the
hypothesis that every load has at least one access (`0 \notin AccessCounts`;
without it a load uses its token after its slot may have been reused). None is
inductive. A response may only be applied if the slot was not reused; it was
not, because the entry is RESERVED while accesses are outstanding and only a
READY head is consumed; a fresh sequence number meets no old token because
numbers in the ring are below `next` (`RingOK`) and so are those of all loads of
the CTA now on the slot (`SequencesFresh`); and `erase_cta` happens only when
both warps are done, which with `Balanced` (loads ahead of MOVs = occupancy)
means that the ring is empty. `IInv` is the conjunction of these facts.
`LastWarpLeavesNothing` is the lemma for the CTA's end; `SuccInRing` replaces
the modulus of the ring successor by a case distinction. The proof goes action
by action.

The module also proves `ErasesClean` (queues are erased empty, with all
their loads answered), an action property that follows from `IInv` and the
lemma that only the last warp of a CTA takes a queue out of the table, and
`LoadsCompleteOnce`, from the further invariant `CountsOnce`: a load has
completed once if it has no access left, and not at all before.

It also proves `QueuesImplementFifo`, the refinement of `QueueFifo`, with the same
hypothesis. The place of the i-th entry of the chain
is the code's modulus without the modulus (`PlaceInRing`), so the view of a
queue is a sequence. Reserving the tail appends to it (`ReserveAppends`), a
response readies one item or changes nothing (`MarkMakesReady`), a MOV takes its
head (`ConsumeTakesHead`). A queue that is only created, and one that goes with
its CTA, are empty sequences: the latter by `LastWarpLeavesNothing`. Every other
action stutters. `Carries`, the one further invariant, says that entries hold
tags of CTAs that were launched, and that no more are launched than the grid
has.

**Dispatch.** `DispatchProofs` proves `CtasStayApart`, the property
`CoresShareSafely` of run `dispatch`, and `AdmissionFindsSlot`
(`assert(free_cta_hw_id != -1)`), for any kernels, cores and configurations,
from `ShapeAssumption` and `DispatchAssumption`. The property says nothing of
the keys on shared cores, nor of the end of ranges there whose size does not
divide the threads of the core. The invariant `DInv` says of every core
(`CoreOK`): if it is shared, the thread bitmap covers the threads of its CTAs
and `m_occupied_ctas` is their number; if it is bound to a kernel, the CTA on
slot h has the h-th row of threads of that kernel. A core is bound to another
kernel only when it is empty (`BindingKeepsCore`), a new CTA's range is free in
the bitmap (`PlacingKeepsCore`), and giving back the range of one CTA takes
nothing from the others because ranges were apart before (`ReclaimKeepsCore`).
`MaxCtaWithinSlots` is why the limit that counts CTAs also bounds slots:
spreading a small grid over the cores never raises it; and since the rows it
admits are within the core (`DivideRows`, `RowsFit`), so are the threads of a
CTA on a bound core, as those of a range on a shared core are whose size
divides it (`RangeInside`). The products and quotients of CTA sizes are settled
once, in `RowsApart`, `RowOf` and `RoundUpEffect`.

`EachKernelReportedOnce` proves `KernelsServedOnce`, the types included, and needs
`OptionsCover` besides: the largest shared memory option holds every configured
size, without which an assert of `max_cta` fires. The reports alone are not
inductive. `KernelLife` follows a kernel from `toLaunch` to its report:
`m_num_cores_running` is the number of its CTAs on all cores (`CtaComes`,
`CtaGoes`), it has an entry of `m_running_kernels` until the last of them ends, and
no entry is ever done, so `launch` takes only free ones. `EntriesOK` says that a core
stays bound to a kernel without an entry only if that kernel has no CTA left for it,
`LimitDrains` that nothing runs when `gpgpu_max_cta` stops the simulation, so that
what it reports then was not reported before. `L1OK` carries the types of the cache
configuration: what is carved out never exceeds the size in force (`FittingBytes`),
so an option holds it.

`ResourcesStayAccounted` proves the property `ResourcesAccounted`, with one
assumption more, `WholeWays`: shared memory options are whole ways of the
cache, as in the configurations, so `max_cta` rounds nothing. The accounts are
sums over the CTAs of a core; that `SumFunction`, which takes its values in an
order of its own, grows by exactly the value of an element added (`SumGrows`)
is proved by a least counterexample, as induction theorems with an operator
parameter are out of reach. `AccountsOK` is the invariant of one core: the
accounts of a shared one are those sums, and the hardware threads in the bitmap
exactly those of its CTAs; on a bound one `max_cta` bounds the registers in use
even if the shared memory size has changed since. The carve-out needs two facts
more in `RInv`: no CTA of a kernel is on a core before `max_cta` has run for
it, so a carve-out starts with none of its CTAs resident, and it is gone before
the size it was computed from changes.

**Issue.** `PairIssueProofs` proves, for any warps, programs, configurations and
grid, from `WarpsAssumption`, `SchedulerAssumption`, `ProgramAssumption`
(programs end with their exit and branch forward), `RoleAssumption` (producers
load into the queues, consumers take out of them) and `PairAssumption` (branches
jump over no queue instruction, and the n-th MOV fits the n-th load of its queue,
as in the kernels of the repository), every invariant the run checks:
`CountStaysExact`, `ScoreboardKeepsApart`, `FrontEndStays` and `IssuesSafe`. For
all but the lists of the scheduler its policy plays no part: every list it may
produce is allowed. The invariant
`CoreInv` says of every warp by itself (`WarpOK`) that buffer, `m_next_pc`, miss,
pipeline count and scoreboard fit the instructions it has in flight, all of which
are behind its pc while it runs, and of those in flight (`FlightOK`) that warp and
pc name one. `FetchOK` adds what fetch is waiting for. The lemmas on the record of
a warp (`IssuedWarp`, `RefetchedWarp`, `WrittenBack`, ...) carry the arithmetic,
those on the core (`IssueKeeps`, ...) lift them; `Waits` is what every operation
leaves to a warp that waits for an instruction. `CoIssueInOrder` is the heart: the
consumer was checked before the producer issued, and still fits because it is
another warp and goes to another unit.

For the queues the invariant is `QueueOK`: no queue is longer than its depth, a
load in flight has its entry, and the entries of a warp that runs are all of
instructions behind its pc (`Behind`). The last is what tells a new load from
those that have an entry already: the MOV is ready only when the head is of no
load in flight, and remains so when a load co-issues before it. A load and a
MOV that co-issue touch the two ends of one queue: `SecondReady` shows that the
first of them cannot undo what made the second ready. `Frame` says what every
other operation leaves to the queues. What arrives is `PairsOK`: while a CTA
runs, the MOVs a consumer has passed and the entries of a queue are together as
many as the loads its producer has passed (`Follows`), and the i-th entry is
that of the load whose number comes i after the last MOV (`Names`). It holds of
a warp without a partner too, whose queue stays empty. That a branch passes no
use of a queue enters in `PassedGrows`, that a MOV takes all the words of its
load in `MovedWhat`.

The lists of the schedulers are `SInv`: the active and the pending list of the
two-level scheduler have as many places as there are warps and every warp is in
one of them, and what the others remember is a warp. The operators on lists
keep the elements of a list that are in a set, in order; `KeptParts` shows that
those inside and those outside of the set make up the list again, by induction
on its length over the function that `Kept` defines.

**Barriers.** `DecodeBarriersProofs`, which has the theorems of two small
components, proves, for any slots, warps, barriers and
counts and for programs whose every barrier instruction waits
(`Programs \subseteq [Warps -> Seq(WaitingOps)]`; with bar.arrive the first is
false, see `barrier_hand_over`): `NobodyPassesEarly` and `NobodyIsLeftBehind` (a
warp waits exactly while the round it arrived for is open), `DeallocatesClean`
(the asserts of `deallocate_barrier`), and `BarrierTypeCorrect`. The invariant
behind them is `Lockstep`: a warp is in `m_bar_id_to_warps` of one barrier at
most, the one it waits at, for the round that comes next. That makes
`&= ~at_barrier` clear the waiting bits of that round and no others. `Residents`
adds that waiting warps are active and active warps resident, from which a CTA
without resident warps leaves no bit behind.

**Device memory.** `DeviceMemoryProofs` proves `ObjectsStayApart`,
`ContentsAreKept` and `AddressesAlwaysReach` for any sizes, alignment, windows,
machines and number of objects, from `AddressAssumption`, `MemoryAssumption`,
`MachineAssumption` and `ValuesAssumption`. `MemoryAssumption` puts no bound of
the integers on the heap, which may begin in the upper half of `PtrRange`, as
it does in the code, and go beyond it; it only keeps the heap from meeting the
addresses that sign extension gives (`HeapLimit + PtrRange <= AddrRange`). The
first theorem needs `Layout`: globals lie below the windows, the heap above
them, and the arrays there or `Moved`, 2^64 - 2^32, further up, which moves no
two together since it is more than the heap is long; and the size of pitched
memory is its width times its height. It says of an array that it is apart from
the rest if the allocator's address and the array's end did not exceed
`PtrRange` (`Kept`); beyond, `devPtr32` gives addresses twice, in the code as
in the model. The second theorem needs `Contents` and `Fresh` besides: of the
bytes not handed out yet only those in `astray` have been written, so the rest
of a new object is empty; what a copy call writes lies inside the object it
names, so the others keep theirs, or it is a call on an array that is not
`Kept` or whose size was truncated, and what it reaches is in `astray`
(`WriteKeeps`). In a run whose arrays are all `Kept`, with sizes that fit an
`unsigned`, `astray` stays empty, and the theorem speaks of every byte. The
third adds the arithmetic of addresses: windows and interleaved words are
numbers written in blocks (`Digits`, `DigitsUnique`), SM over thread over byte
for the generic addresses (`LocalResolves`), word over CTA over SM over thread
for `translate_local_memaddr` (`PlaceUnique`, `WordsApart`), and both are
unique as long as each digit stays below its block. `MachineAssumption` says
that it does: threads of an SM are limited by `reg_options` (`shader.h:1613`)
and the CTAs of a kernel by `max_cta`.

**Functional simulation.** `FunctionalSimProofs` proves `WarpsReleasedTogether`
and `CheckpointsSplit` for any grid, CTA size, options and programs, from
`FunctionalAssumption` and `OptionAssumption` (kernels are counted from 1 and
`checkpoint_CTA <= checkpoint_CTA_t`, without which the CTAs between the two
would neither run nor be written). The flag that is tested at the end of a
sweep only says what was seen when each warp was visited; `SweepInv` says that
a warp that was visited with the flag still set is at the barrier or has no
live thread, that the live counts are those of the lanes, and that a sweep that
met no live thread passed none; with the files of CTA 0 the stacks begin with
some lanes of their warps only, and the live counts with all. The second
theorem adds `CounterInv`: the number of the CTA on the core, `cta_launched`
and the number of the kernel's next CTA go in step, which is what makes the
name of a checkpoint file, taken from the counter after it moved on, that of
the CTA written; and `SplitInv`, that every CTA the main loop has passed is
where it belongs. `OriginInv` says from where each of them began: with
`checkpoint_CTA_t` = 1 all from the files of CTA 0, otherwise none. That
`increment_x_then_y_then_z` counts the CTAs one by one and misses none are the
lemmas `NextCtaNumber` and `CtaNumbers`.

**Host runtime.** `HostRuntimeProofs` proves the three safety properties of
`host_runtime`, `OwnConfiguration`, `WaitsCoverAll` and `GlobalsLoadedOnce`, from
`HostAssumption` and `FormalsAssumption`, for any functions and formals and any
numbers of streams, events, calls and operations. The invariant `HInv` has three
parts. `WaitInv` is about what is awaited: the operations of a stream are in the
order in which they were made; an event has as many records as completions and
records still in flight (`CountsRecords`); an operation it covers and that is not
done is ahead of one of those records on its stream (`Awaited`), so that equal
counts mean that all of it is done (`AllRecordsDone`); and what a call waits for
is done or still on the streams it looks at (`HostOK`). It is not inductive
without the operation of the default stream that is made but not yet in its
stream (`Pushing`), which nothing may overtake. `StackInv` says that the launch
stack is the open calls, one configuration each, with one more while a launch on
the default stream waits. That each byte of an argument arrives is arithmetic
about the two layouts, of the launch (`IsOffsets`) and of `finalize`
(`LaidOut`): both round up by the same rule, so the addresses agree, and the
bytes a last word takes beyond its parameter are those the next one overwrites.
`LoadInv` says that nothing is parsed, registered or launched before the symbol
table is there.

**Decode.** `DecodeBarriersProofs` also proves `ResultsOnTime` (`OnTime`) and
`TablesAgree` (`PathsAgree`), for any latency tables and parsed instructions, from
`MachineAssumption`: what `set_pipeline_latency` assumes in its comments ("assume
that the max operation has the max latency") and nothing checks, namely that no
instruction starts behind the pipeline of the unit that gets it, and that there
are single precision, special function and tensor units. `TimingStarts` goes
through the opcodes and gives each its start stage in the unit that issue picks,
also when integer or double precision units are missing. `OnTime` is not
inductive: that the start stage is free when the delay is over needs that no two
instructions of a unit have the same promised cycle, and that `occupied`, the bit
set that `can_issue` tests, has the promised cycle of each of them
(`UnitInStep`). `CycleInStep` is the cycle of a unit, `IssueInStep` the test.

**Core behind the instruction buffers.** `CoreBackendProofs` proves
`BookedWriteback` (`WritebackBooked`: EX_WB has room for every result when it
comes) and `OperandsOnce` (`OperandsRequestedOnce`), for any instructions,
programs, schedulers, units, banks, ports and clocks, from `CollectorAssumption`
(registers of an instruction differ), `SimdAssumption` (latencies fit the
pipelines), `LdstAssumption` and `MemoryAssumption`. `IInv` has six parts:

* `PartOK`: the next part of a cycle belongs to a domain that ticks. From it
  follows what is still to come of a cycle: `ToCome` is the set of units that have
  not had their turn. `TurnStep` is how each kind of part changes it.
* `LastCuOK`, the range of the round robins.
* `PlacesOK`: every instruction issued and not yet in a unit is in at most one
  place, a register of its kind and scheduler or a collector of its scheduler
  (`RegsOK`, `CollectorOK`, `Apart`), all of these are in `age` once (`AgeOK`).
* `PipesOK`: in each unit the bit set `occupied` has exactly the remaining
  cycles of its instructions, no two the same (`UnitsOK`); the bookings of the
  buses agree with these bit sets, those of the units to come being one cycle
  behind (`BookedOK`); and EX_WB has room for what those units hand over yet
  (`RoomOK`).
* `RequestsOK`: a bank has a request of a collector exactly if that collector
  waits for the register and the register lies there, and has it once.

`WritebackBooked` speaks of the start of a cycle; within one, the buses have
moved on and some units have not, and only `ToCome` tells which, so nothing
less is inductive. That a bus exists for a result is counting: the units whose
result is due in a given cycle are as many as the buses booked for it, and
these are no more than EX_WB has registers. `OperandsRequestedOnce` needs that
a collector is given back only when nothing is missing, so that no request of
its former instruction is left, and that a request goes to the bank where
`allocate_reads` will look (`CollectorAsks`, `BanksServe`). `LeavesRegister`,
`CollectorDispatches`, `CollectorTakes` and `IssuePlaces` are the four moves of
an instruction.

Only model-checked:

* every liveness property: liveness and ENABLED are out of the prover's reach;
* `ReconvergesAtPostdominator` of `ControlFlow` and `RegistersSeen` of
  `InstructionDecode`: what a fixpoint iteration or the flattening of operand
  lists computes for every input would need induction over data;
* `CountsExact` of `CoreBackend`, whose counts are sums over instructions that
  many places add to at once: the invariant would follow each access through nine
  places, and each count is a fold;
* `TokenLastsOneRound` of the queues with accessless loads: such a load is
  complete at issue, so its slot may be reused while it is in the collector. The
  property says when the assertion of `entry_for_token` then fails, in behaviours
  that end with the failure; the theorems are about loads that have an access.

## Not modelled

Within the modelled components:

* Queues: lanes that differ between a load and its MOV, or more loads than MOVs
  (the repository's kernels are balanced and unpredicated there; nothing reads
  `assert_mask_match`, the option that would check it); the functional-only mode, in
  which queue instructions cast the core to a shader core.
* Dispatch: child kernels of CDP, the limits of `active` on cycles and
  instructions, the flush of the L1 caches.
* Barriers: the value a RED barrier reduces (a RED barrier that an exiting warp
  completes is released without `broadcast_barrier_reduction`, `shader.cc:4830`),
  and the partial exit of a diverged warp from its CTA.
* Issue: co-issue under the two-level scheduler, which hands on iterators into a
  list that it replaces; CDP; LDGSTS; more than one scheduler sharing registers
  (no sub-cores); barriers of several CTAs at once (in `CtaBarriers`).
* The core behind: texture cache, atomics, LDGSTS, SST and perfect memory, a
  write-back L1, predicated-off lanes, `gmem_skip_L1D`, duplicate source
  registers, collector sets without sub-cores, specialised units. Interconnect,
  sub-partitions and caches are modelled by what the core asks of them.
* Control flow: bodies with several `breakaddr`, breaks that only a break
  reaches, a break target found in the entry block, an entry block that is a loop
  head, a predicated exit as the last instruction. On these `do_pdom` stops at an
  assertion or reads an entry of `m_instr_mem` that nobody wrote; the compiler
  does not produce them. Bodies are of one function.
* Host: several host threads, OpenCL, local-memory pointers as parameters, CDP
  argument sizes, error values, functions registered twice, reuse of events.
  `cudaStreamSynchronize` is modelled as it is: it returns at once for every
  stream but the null stream (`libcuda/cuda_runtime_api.cc:2124`), so no property
  is stated of it.
* Functional simulation: the contents of the checkpoint files but for the lanes
  on the SIMT stacks (registers and memory are in them too), kernels after the
  checkpointed one, CDP. The SIMT stack is outside the overlay: it offers any
  non-empty set of live lanes.
* Device memory: textures (compiled out for the CUDA version in use), 81 SMs or
  more, accesses of an application beyond its objects, writes of kernels. Left
  out of the copies: offsets of `cudaMemcpyToArray`, which the code ignores, its
  DeviceToHost branch, which hands the array over as host buffer
  (`cuda_runtime_api.cc:1297`), and `cudaMemcpyDefault` with a global, which lies
  below the heap and is taken for a host pointer (`cuda_runtime_api.cc:1256`).
  `cudaFree` frees nothing in the code, and so has no action.
* Decode: specialised units, CDP, double operands of PTXPlus, the null register,
  ALU_SFU; at most three scalar sources and vectors of four with an address.

Whole parts, listed as `not_modelled` or as left out in `PROJECT.json`, because
they have no state that evolves or are text processing: option registration
(`gpu-sim.cc` 1-841), statistics and their printing (`shader.cc` 931-1335,
3783-4267), power counters (`shader.h` 2395-2640), the data of the configuration
(`shader.h` 1575-1900), the stubs of the driver API (`cuda_runtime_api.cc` from
4377), the extraction of PTX with external tools, SST, the lexer and grammar of
PTX and the symbol tables they fill, the metadata and options of the loader, the
benchmark kernels, the analytical performance model, plots and scripts, and the
configuration files.

## Plan

What could come next, in this order:

1. A proof of `CountsExact` of `CoreBackend`, count by count, on the invariant of
   `CoreBackendProofs`: `inPipe` first, which needs no sums.
2. In `PairIssue`, a second CTA next to the first and stores; masks that differ.
3. Several functions with calls in `ControlFlow`.
4. `KernelDispatch` with child kernels.
