--------------------------- MODULE KernelDispatch ---------------------------
(***************************************************************************)
(* From a kernel launch to its completion: gpgpu_sim keeps the launched    *)
(* kernels in m_running_kernels, hands CTAs to the clusters every core     *)
(* cycle, the cores run them to the end warp by warp, and the core on      *)
(* which a kernel's last CTA ends reports the kernel done.                 *)
(*                                                                         *)
(* One pass of gpgpu_sim::issue_block2core over the clusters is a sequence *)
(* of steps IssueToCore, in the order of the code's two round robins; the  *)
(* warps of the cores exit between two passes. When nothing is active the  *)
(* simulation ends its run (update_stats, init) and the next kernel starts *)
(* another one; once gpgpu_max_cta is used up it stops for good.           *)
(***************************************************************************)
EXTENDS CtaResource, Sequences

CONSTANTS
  Slots,         \* m_running_kernels has the entries 0 .. Slots - 1
  Clusters,      \* n_simt_clusters
  PerCluster,    \* n_simt_cores_per_cluster
  Asked          \* kernels whose occupancy the application asks for

ASSUME DispatchAssumption ==
  /\ Slots \in Nat \ {0} /\ Clusters \in Nat \ {0} /\ PerCluster \in Nat \ {0}
  /\ NumCores = Clusters * PerCluster

VARIABLES
  toLaunch,   \* the kernels the CUDA runtime has not launched yet
  latent,     \* launched kernels whose launch latency is not over
  running,    \* m_running_kernels
  lastKernel, \* m_last_issued_kernel
  lastCluster,\* m_last_cluster_issue
  nextCore,   \* m_cta_issue_next_core of each cluster
  core,       \* the cores, by cluster and position in it
  nextCta,    \* CTAs of each kernel handed out (m_next_cta)
  launched,   \* m_total_cta_launched, in the present run
  issuedBefore, \* gpu_tot_issued_cta, in earlier runs
  adapted,    \* the kernels with cache_config_set
  inFlight,   \* m_num_cores_running: CTAs of each kernel on the cores
  executed,   \* m_executed_kernel_uids
  finished,   \* m_finished_kernel: how often each kernel is in it
  pass,       \* the pass of issue_block2core under way: clusters to visit,
              \* and cores of the first one already tried
  over        \* the simulation thread has stopped for good

vars == <<option, l1, toLaunch, latent, running, lastKernel, lastCluster,
          nextCore, core, nextCta, launched, issuedBefore, adapted, inFlight,
          executed, finished, pass, over>>

SlotIds    == 0 .. Slots - 1
ClusterIds == 0 .. Clusters - 1
CoreIds    == ClusterIds \X (0 .. PerCluster - 1)

NoPass == [clusters |-> <<>>, tried |-> 0]

-----------------------------------------------------------------------------
CtaLimit == option.ctaLimit

HitMaxCtaCount == CtaLimit # 0 /\ issuedBefore + launched >= CtaLimit

\* active() looks at the CTAs of earlier runs only.
LimitUsedUp == CtaLimit # 0 /\ issuedBefore >= CtaLimit

NoMoreCtas(k) == nextCta[k] >= Blocks[k]
Done(k)       == NoMoreCtas(k) /\ inFlight[k] = 0

MoreCtaLeft(k) == ~HitMaxCtaCount /\ k # None /\ ~NoMoreCtas(k)

\* get_more_cta_left.
AnyCtaLeft == \E i \in SlotIds : MoreCtaLeft(running[i])

AllDrained == \A c \in CoreIds : Drained(core[c])

\* select_kernel: the slot it picks; the kernel selected last stays selected
\* until its CTAs are handed out.
StillSelected ==
  /\ running[lastKernel] # None
  /\ ~NoMoreCtas(running[lastKernel])
  /\ running[lastKernel] \notin latent

OtherSelectable ==
  {n \in 1 .. Slots : LET k == running[(lastKernel + n) % Slots]
                      IN  MoreCtaLeft(k) /\ k \notin latent}

SelectedSlot ==
  IF StillSelected THEN lastKernel
  ELSE (lastKernel + Min(OtherSelectable)) % Slots

CanSelect == StillSelected \/ OtherSelectable # {}

\* simt_core_cluster::issue_block2core: a core of its own asks for a new
\* kernel only when the one it is bound to has no CTA left and the core has
\* drained; a shared core always asks.
AsksForKernel(c) ==
  Concurrent \/ (~MoreCtaLeft(core[c].kernel) /\ Drained(core[c]))

Candidate(c) == IF AsksForKernel(c)
                THEN IF CanSelect THEN running[SelectedSlot] ELSE None
                ELSE core[c].kernel

\* The core after it was bound to a selected kernel.
Bound(c) == IF AsksForKernel(c) /\ CanSelect /\ ~Concurrent
            THEN [core[c] EXCEPT !.kernel = running[SelectedSlot]]
            ELSE core[c]

-----------------------------------------------------------------------------
Init ==
  /\ option \in Options
  /\ l1 = ChangeCacheConfig(option.shmem, "prefer none")
  /\ KernelsFit
  /\ toLaunch    = Kernels
  /\ latent      = {}
  /\ running     = [i \in SlotIds |-> None]
  /\ lastKernel  = 0
  /\ lastCluster = Clusters - 1
  /\ nextCore    = [cl \in ClusterIds |-> PerCluster - 1]
  /\ core \in [CoreIds -> {EmptyCore(g) : g \in Garbage}]
  /\ nextCta     = [k \in Kernels |-> 0]
  /\ launched    = 0
  /\ issuedBefore = 0
  /\ adapted     = {}
  /\ inFlight    = [k \in Kernels |-> 0]
  /\ executed    = {}
  /\ finished    = [k \in Kernels |-> 0]
  /\ pass        = NoPass
  /\ over        = FALSE

\* gpgpu_sim::launch, once can_start_kernel holds: the first entry that is
\* free or whose kernel is done. The L1 cache and shared memory are set up for
\* the kernel first, whatever runs.
Launch(k) ==
  LET free == {i \in SlotIds : running[i] = None \/ Done(running[i])}
  IN
  /\ pass = NoPass /\ ~over
  /\ k \in toLaunch
  /\ free # {}
  /\ l1' = ChangeCacheConfig(option.shmem, PreferenceOf(k))
  /\ toLaunch' = toLaunch \ {k}
  /\ latent'   = latent \cup {k}
  /\ running'  = [running EXCEPT ![Min(free)] = k]
  /\ UNCHANGED <<option, lastKernel, lastCluster, nextCore, core, nextCta,
                 launched, issuedBefore, adapted, inFlight, executed, finished,
                 pass, over>>

\* The application asks for the occupancy of a kernel before it launches it,
\* whatever the simulation thread is doing.
AskOccupancy(k) ==
  /\ k \in toLaunch \cap Asked
  /\ l1' = AdaptedByQuery(k)
  /\ UNCHANGED <<option, toLaunch, latent, running, lastKernel, lastCluster,
                 nextCore, core, nextCta, launched, issuedBefore, adapted,
                 inFlight, executed, finished, pass, over>>

\* decrement_kernel_latency brings a kernel's launch latency to zero.
LatencyOver(k) ==
  /\ pass = NoPass /\ ~LimitUsedUp
  /\ k \in latent
  /\ latent' = latent \ {k}
  /\ UNCHANGED <<option, l1, toLaunch, running, lastKernel, lastCluster,
                 nextCore, core, nextCta, launched, issuedBefore, adapted,
                 inFlight, executed, finished, pass, over>>

\* Whether the turn of core c would change anything.
Issues(c) == LET k == Candidate(c)
             IN  MoreCtaLeft(k) /\ CanIssue1Block(Bound(c), k)

Binds(c) ==
  /\ AsksForKernel(c) /\ CanSelect
  /\ \/ SelectedSlot # lastKernel
     \/ running[SelectedSlot] \notin executed
     \/ Bound(c) # core[c]

\* gpgpu_sim::issue_block2core starts with the cluster after the last one
\* that got a CTA. A pass that would change nothing is not started.
StartPass ==
  /\ pass = NoPass /\ ~LimitUsedUp
  /\ \E c \in CoreIds : Issues(c) \/ Binds(c)
  /\ pass' = [clusters |-> [i \in 1 .. Clusters |-> (lastCluster + i) % Clusters],
              tried |-> 0]
  /\ UNCHANGED <<option, l1, toLaunch, latent, running, lastKernel,
                 lastCluster, nextCore, core, nextCta, launched, issuedBefore,
                 adapted, inFlight, executed, finished, over>>

\* One core of the cluster at the front of the pass: bind it if it asks for
\* a kernel, give it a CTA if one is left and fits. The cluster's turn ends
\* with a CTA issued or with its last core.
IssueToCore ==
  LET cl == Head(pass.clusters)
      i  == (nextCore[cl] + 1 + pass.tried) % PerCluster
      c  == <<cl, i>>
      left == Tail(pass.clusters)
  IN
  /\ pass # NoPass
  /\ IF AsksForKernel(c) /\ CanSelect
     THEN /\ lastKernel' = SelectedSlot
          /\ executed' = executed \cup {running[SelectedSlot]}
     ELSE UNCHANGED <<lastKernel, executed>>
  /\ \E k \in {Candidate(c)}, bound \in {Bound(c)}, issues \in {Issues(c)} :
     /\ IF MoreCtaLeft(k) /\ k \notin adapted
        THEN l1' = Adapted(k) /\ adapted' = adapted \cup {k}
        ELSE UNCHANGED <<l1, adapted>>
     /\ IF issues
        THEN /\ core' = [core EXCEPT ![c] = IssueBlock(bound, k)]
             /\ nextCta' = [nextCta EXCEPT ![k] = @ + 1]
             /\ launched' = launched + 1
             /\ inFlight' = [inFlight EXCEPT ![k] = @ + 1]
             /\ nextCore' = [nextCore EXCEPT ![cl] = i]
             /\ lastCluster' = cl
        ELSE /\ core' = [core EXCEPT ![c] = bound]
             /\ UNCHANGED <<nextCta, launched, inFlight, nextCore, lastCluster>>
     /\ pass' = IF ~issues /\ pass.tried + 1 < PerCluster
                THEN [pass EXCEPT !.tried = @ + 1]
                ELSE IF left = <<>> THEN NoPass
                ELSE [clusters |-> left, tried |-> 0]
  /\ UNCHANGED <<option, toLaunch, latent, running, issuedBefore, finished,
                 over>>

-----------------------------------------------------------------------------
\* Mutant: the CTAs that still run on other cores are forgotten.
MutReportsDone(k, nowInFlight) == ~MoreCtaLeft(k)

\* register_cta_thread_exit reports the kernel when its last CTA ends and no
\* CTA will follow.
ReportsDone(k, nowInFlight) == ~MoreCtaLeft(k) /\ nowInFlight[k] = 0

\* The kernels in m_running_kernels without those of the set.
Without(done) ==
  [i \in SlotIds |-> IF running[i] \in done THEN None ELSE running[i]]

\* Once its last CTA has gone a core is bound to no kernel.
Unbound(co) == IF Drained(co) THEN [co EXCEPT !.kernel = None] ELSE co

\* fetch reclaims a warp that has finished; register_cta_thread_exit runs for
\* each of its threads, and with the CTA's last one ends the CTA.
ReclaimWarp(c, h, w) ==
  /\ pass = NoPass
  /\ \E after \in {ExitWarp(core[c], h, w)}, k \in {core[c].owner[h]} :
     IF after.active[h] # {}
     THEN /\ core' = [core EXCEPT ![c] = after]
          /\ UNCHANGED <<inFlight, running, finished>>
     ELSE /\ core' = [core EXCEPT ![c] = ReleaseBlock(Unbound(after), h)]
          /\ inFlight' = [inFlight EXCEPT ![k] = @ - 1]
          /\ IF ReportsDone(k, inFlight')
             THEN /\ finished' = [finished EXCEPT ![k] = @ + 1]
                  /\ running' = Without({k})
             ELSE UNCHANGED <<running, finished>>
  /\ UNCHANGED <<option, l1, toLaunch, latent, lastKernel, lastCluster,
                 nextCore, nextCta, launched, issuedBefore, adapted, executed,
                 pass, over>>

-----------------------------------------------------------------------------
\* When nothing is active any more and there is more to do, the statistics of
\* the run are added to the totals and the next run is set up.
NewRun ==
  /\ pass = NoPass /\ AllDrained /\ ~AnyCtaLeft
  /\ launched > 0
  /\ toLaunch # {} \/ \E i \in SlotIds : running[i] # None
  /\ issuedBefore' = issuedBefore + launched
  /\ launched' = 0
  /\ executed' = {}
  /\ core' = [c \in CoreIds |-> Reinit(core[c])]
  /\ UNCHANGED <<option, l1, toLaunch, latent, running, lastKernel,
                 lastCluster, nextCore, nextCta, adapted, inFlight, finished,
                 pass, over>>

\* Mutant: a kernel with CTAs still to hand out is dropped unreported.
MutEntries(k) == {i \in SlotIds : running[i] = k /\ NoMoreCtas(k)}

\* The entries of m_running_kernels that hold a kernel.
Entries(k) == {i \in SlotIds : running[i] = k}

\* stop_all_running_kernels, once gpgpu_max_cta is used up: every kernel left
\* is reported done.
StopAllRunningKernels ==
  /\ pass = NoPass /\ LimitUsedUp /\ ~over
  /\ finished' = [k \in Kernels |-> finished[k] + Cardinality(Entries(k))]
  /\ running' = Without(Kernels)
  /\ over' = TRUE
  /\ UNCHANGED <<option, l1, toLaunch, latent, lastKernel, lastCluster,
                 nextCore, core, nextCta, launched, issuedBefore, adapted,
                 inFlight, executed, pass>>

\* The simulation of the workload ends.
Stopped == /\ over \/ (toLaunch = {} /\ \A i \in SlotIds : running[i] = None)
           /\ AllDrained
           /\ UNCHANGED vars

Next ==
  \/ \E k \in Kernels : LatencyOver(k)
  \/ \E c \in CoreIds : \E h \in HwCtas :
       \E w \in WarpsOf(core[c], h) : ReclaimWarp(c, h, w)
  \/ \E k \in Kernels : Launch(k)
  \/ \E k \in Kernels : AskOccupancy(k)
  \/ IssueToCore
  \/ StartPass
  \/ NewRun
  \/ StopAllRunningKernels
  \/ Stopped

Spec == Init /\ [][Next]_vars

\* The host and the simulation thread go on, and the warps of a terminating
\* kernel reach their exit. Which of them moves next is left open.
Fairness == WF_vars(Next)

FairSpec == Spec /\ Fairness
-----------------------------------------------------------------------------
(* Properties.                                                             *)

\* The types; a core's record is described by ThreadsPrivate and the rest.
TypeOK ==
  /\ option \in Options
  /\ toLaunch \subseteq Kernels /\ latent \subseteq Kernels
  /\ executed \subseteq Kernels /\ finished \in [Kernels -> Nat]
  /\ running \in [SlotIds -> Kernels \cup {None}]
  /\ lastKernel \in SlotIds /\ lastCluster \in ClusterIds
  /\ nextCore \in [ClusterIds -> 0 .. PerCluster - 1]
  /\ \A k \in Kernels : nextCta[k] \in 0 .. Blocks[k] /\ inFlight[k] \in 0 .. nextCta[k]
  /\ launched \in Nat /\ issuedBefore \in Nat /\ over \in BOOLEAN
  /\ adapted \subseteq Kernels
  /\ l1.shmem \in Nat \ {Missing} /\ l1.ways \in 0 .. MaxAssoc
  /\ \A c \in CoreIds : core[c].kernel \in Kernels \cup {None}
  /\ pass.clusters \in Seq(ClusterIds) /\ pass.tried \in 0 .. PerCluster - 1

CtaThreads(co, h) == ThreadRange(co.start[h], Padded(co.owner[h]))

\* No two CTAs on a core share a hardware thread, nor a warp. Without kernel
\* sharing the threads follow from slot and CTA size alone, so this depends
\* on the core being empty whenever it changes to a kernel of another CTA
\* size; init_warps asserts it thread by thread.
ThreadsPrivate ==
  \A c \in CoreIds : \A g, h \in Resident(core[c]) :
    g # h => CtaThreads(core[c], g) \cap CtaThreads(core[c], h) = {}

\* The hardware threads of a CTA are threads of its core.  A shared core looks
\* at ranges that begin below n_thread_per_shader: one of a size that does not
\* divide it may end beyond, where find_available_hwtid reads behind the bitmap
\* and init_warps behind the threads, so nothing is said of such sizes.
WithinCore(co, h) ==
  (Concurrent => CoreThreads % Padded(co.owner[h]) = 0)
    => CtaThreads(co, h) \subseteq 0 .. CoreThreads - 1

ThreadsWithinCore ==
  \A c \in CoreIds : \A h \in Resident(core[c]) : WithinCore(core[c], h)

\* A core that is not shared runs CTAs of the kernel it is bound to only,
\* with the limits of that kernel; register_cta_thread_exit asserts that a
\* core never empties under another kernel that still has CTAs.
OneKernelPerCore ==
  \A c \in CoreIds : \A h \in Resident(core[c]) :
    /\ core[c].owner[h] = core[c].kernel
    /\ core[c].padded = Padded(core[c].kernel)

\* The queue keys of one CTA: each producer warp shares its queue with the
\* consumer warp at the same distance from the first consumer, and with no
\* other warp of the CTA; warps of other CTAs differ in cta_hw_id.
PairsShareQueue ==
  \A c \in CoreIds : \A h \in Resident(core[c]) :
    LET k     == core[c].owner[h]
        first == core[c].start[h] \div WarpSize
        warps == 0 .. WarpsPerCta(k) - 1
    IN  \A i, j \in warps :
          i < j => (QueueWarp(core[c], first + i) = QueueWarp(core[c], first + j)
                    <=> i < Producers(k) /\ j = i + Producers(k))

\* Cores that are bound to a kernel keep to it, and the keys of its pairs
\* match.  Nothing is said of the keys on shared cores: set_max_cta is never
\* called there, and they are made of a kernel_padded_threads_per_cta nobody
\* has set.
BoundCoresServeOneKernel == ~Concurrent => OneKernelPerCore /\ PairsShareQueue

\* Each CTA keeps its threads, in either mode, and on a core bound to a kernel
\* its queues.
CoresShareSafely ==
  ThreadsPrivate /\ ThreadsWithinCore /\ BoundCoresServeOneKernel

\* What a shared core has booked is what its resident CTAs need, so nothing
\* leaks however kernels of different shapes come and go, and the asserts of
\* release_shader_resource_1block hold.
AccountsExact ==
  Concurrent => \A c \in CoreIds :
    LET co == core[c]
        R  == Resident(co)
    IN  /\ co.threads = SumFunction([h \in R |-> Padded(co.owner[h])])
        /\ co.smem = SumFunction([h \in R |-> SmemPerCta(co.owner[h])])
        /\ co.regs = SumFunction([h \in R |-> RegsPerCta(co.owner[h])])
        /\ co.ctas = Cardinality(R)
        /\ co.hwtid = UNION {CtaThreads(co, h) : h \in R}

\* A CTA's resources fit the core also in the mode that books nothing and
\* relies on max_cta, under the shared memory size in force when it is handed
\* out, and issue_block2core finds a free hardware slot whenever
\* can_issue_1block agreed (assert(free_cta_hw_id != -1)).
ResourcesSuffice ==
  \A c \in CoreIds :
    LET co == core[c]
        R  == Resident(co)
    IN  /\ SumFunction([h \in R |-> RegsPerCta(co.owner[h])]) <= CoreRegs
        /\ Issues(c) =>
             LET k == Candidate(c)
             IN  /\ FreeSlots(Bound(c), k) # {}
                 /\ SumFunction([h \in R |-> SmemPerCta(co.owner[h])])
                      + SmemPerCta(k) <= l1.shmem

\* The L1 cache and the shared memory of a core, its queues aside, fit the
\* unified memory as long as the carve-out of a kernel is in force: until
\* another kernel is launched or carves out its own, or an occupancy is asked.
UnifiedFits ==
  ~Concurrent /\ l1.carvedFor # None =>
    \A c \in CoreIds :
      LET own == {h \in Resident(core[c]) : core[c].owner[h] = l1.carvedFor}
      IN  l1.ways * UnifiedSize
            + MaxAssoc * Cardinality(own) * SharedMem[l1.carvedFor]
              <= MaxAssoc * UnifiedSize

\* Booked or not, what the CTAs of a core need is there.
ResourcesAccounted == AccountsExact /\ ResourcesSuffice /\ UnifiedFits

\* Every kernel is reported done once, not before the last of its CTAs has
\* left the last core that ran one, and set_kernel_done finds the kernel in
\* m_running_kernels (its final assert).
ReportedOnceDone ==
  \A k \in Kernels :
    /\ finished[k] <= 1
    /\ inFlight[k] > 0 => \E i \in SlotIds : running[i] = k
    /\ finished[k] > 0 =>
         \A c \in CoreIds : \A h \in Resident(core[c]) : core[c].owner[h] # k
    /\ CtaLimit = 0 => (Done(k) <=> finished[k] > 0)

\* select_kernel stays with a kernel until its CTAs are handed out, so the
\* assert in its loop (a kernel is selected there at most once) holds.
SelectedOnce ==
  \A i \in SlotIds : LET k == running[i] IN
    k \in executed /\ MoreCtaLeft(k) => i = lastKernel

\* A kernel is selected, handed out to its last CTA and reported once; the
\* types bound the CTAs handed out by the grid.
KernelsServedOnce == TypeOK /\ SelectedOnce /\ ReportedOnceDone

\* Every launched kernel is reported, although only one kernel at a time is
\* selected and a kernel can be cut short by gpgpu_max_cta between two of its
\* CTAs; and every kernel is launched unless that limit stops the simulation.
AllReported ==
  <>(/\ {k \in Kernels : finished[k] > 0} = Kernels \ toLaunch
     /\ toLaunch = {} \/ over)
=============================================================================
