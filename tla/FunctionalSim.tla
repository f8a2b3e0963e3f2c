---------------------------- MODULE FunctionalSim ----------------------------
(***************************************************************************)
(* Functional simulation: cuda_sim::gpgpu_cuda_ptx_sim_main_func runs the  *)
(* CTAs of a kernel one after the other on a functionalCoreSim, whose loop *)
(* gives every warp one instruction per sweep.  With the checkpoint option *)
(* some CTAs are cut off and written to files, from which a later run of   *)
(* the timing model resumes.                                               *)
(*                                                                         *)
(* With checkpoint_CTA_t = 1 every CTA begins from the files of CTA 0.      *)
(*                                                                         *)
(* A warp's program is any sequence of at most MaxInsns instructions; the  *)
(* SIMT stack offers any non-empty set of its live lanes for each of them. *)
(***************************************************************************)
EXTENDS Naturals, FiniteSets, Sequences

CONSTANTS
  Kernels,     \* kernels are launched with the uids 1 .. Kernels
  Grid,        \* m_grid_dim, a record [x, y, z]
  WarpSize,    \* m_warp_size, and the literal 32 of execute()
  Options,     \* the options and CTA sizes the program may run with
  MaxInsns     \* bound on the instructions of one warp

ASSUME FunctionalAssumption ==
  /\ {Kernels, WarpSize, MaxInsns} \subseteq Nat \ {0}
  /\ Grid.x \in Nat \ {0} /\ Grid.y \in Nat \ {0} /\ Grid.z \in Nat \ {0}

\* Kernels are counted from 1; the CTAs written to files follow those that run
\* to their end.
ASSUME OptionAssumption ==
  \A o \in Options :
    /\ {o.cta, o.ctaT, o.insn} \subseteq Nat
    /\ {o.kernel, o.threads} \subseteq Nat \ {0}
    /\ o.cta <= o.ctaT

VARIABLES
  option,    \* [on, kernel, cta, ctaT, insn]: the checkpoint_ options; and
             \*   [threads]: threads_per_cta of the kernels
  uid,       \* the kernel being simulated
  nextCta,   \* m_next_cta of that kernel
  launched,  \* cta_launched
  finished,  \* kernels given to register_finished_kernel
  running,   \* ctaid_cp of the CTA on the functionalCoreSim, or NoCta
  ctaid,     \* the ctaid its threads were initialised with
  begun,     \* the lanes its SIMT stacks began with, by warp
  done,      \* threads that are done
  live,      \* m_liveThreadCount
  atBarrier, \* m_warpAtBarrier
  sweep,     \* the sweep over the warps: [turn, allAtBarrier, someOneLive]
  count,     \* count, no further than one past the option
  insns,     \* instructions each warp has executed
  ran,       \* CTAs all of whose threads reached their exit, by kernel
  files,     \* the checkpoint files: [kernel, name, ctaid]
  left,      \* the SIMT stacks in the files of CTA 0, or NoFiles
  resumed,   \* CTAs that began from those files, by kernel
  stopped    \* the program has ended before its time

kernelVars == <<option, uid, nextCta, launched, finished>>
coreVars   == <<running, ctaid, begun, done, live, atBarrier, sweep, count,
                insns>>
fileVars   == <<ran, files, left, resumed>>
vars       == <<kernelVars, coreVars, fileVars, stopped>>

Threads   == 0 .. option.threads - 1
WarpCount == (option.threads + WarpSize - 1) \div WarpSize
Warps     == 0 .. WarpCount - 1
LanesOf(w)  == {t \in Threads : t \div WarpSize = w}
LiveLanes(w) == LanesOf(w) \ done
OnStack(w)   == begun[w] \ done

\* The last warp has fewer threads than lanes: m_thread is NULL for the rest.
Partial == option.threads % WarpSize # 0

Blocks == Grid.x * Grid.y * Grid.z
NoCta  == Blocks    \* no CTA has this number

-----------------------------------------------------------------------------
(* The CTA counter of the kernel.                                          *)

\* increment_x_then_y_then_z
IncrementXYZ(i) ==
  IF i.x + 1 < Grid.x THEN [i EXCEPT !.x = @ + 1]
  ELSE IF i.y + 1 < Grid.y THEN [i EXCEPT !.x = 0, !.y = @ + 1]
  ELSE [x |-> 0, y |-> 0, z |-> IF i.z < Grid.z THEN i.z + 1 ELSE i.z]

\* get_next_cta_id_single
Single(i) == i.x + Grid.x * i.y + Grid.x * Grid.y * i.z

NoMoreCtas == nextCta.x >= Grid.x \/ nextCta.y >= Grid.y \/ nextCta.z >= Grid.z

FirstCta == [x |-> 0, y |-> 0, z |-> 0]

-----------------------------------------------------------------------------
(* The main loop over the CTAs.                                            *)

\* Whether the next CTA is executed or only counted.
Executes ==
  \/ ~option.on
  \/ launched < option.ctaT /\ uid = option.kernel
  \/ uid < option.kernel

\* Whether the running CTA is one of those that go to files.
Checkpointed ==
  /\ option.on /\ uid = option.kernel
  /\ option.cta <= running /\ running < option.ctaT

\* initializeCTA and createWarp read the registers and the SIMT stacks of
\* every CTA from the files of CTA 0.
Resumes == option.ctaT = 1

NoFiles == <<>>

\* The files of CTA 0 an earlier run may have left: of each warp the lanes that
\* had not ended. Bound: files nobody reads are left out.
EarlierFiles ==
  IF Resumes
  THEN {NoFiles} \cup {s \in [Warps -> SUBSET Threads] :
                         \A w \in Warps : s[w] \subseteq LanesOf(w)}
  ELSE {NoFiles}

\* The files must be there, no stack in them may be empty, and createWarp
\* sets the pc of every lane's thread.
MayResume ==
  /\ left # NoFiles /\ ~Partial
  /\ \A w \in Warps : left[w] # {}

NewSweep == [turn |-> 0, allAtBarrier |-> TRUE, someOneLive |-> FALSE]

\* initializeCTA with createWarp: the first call of ptx_sim_init_thread makes
\* the threads of the kernel's next CTA and moves its counter on, the other
\* calls take the threads it left in active_threads.
StartCta ==
  /\ uid <= Kernels /\ running = NoCta /\ ~NoMoreCtas /\ Executes
  /\ Resumes => MayResume
  /\ begun'   = IF Resumes THEN left ELSE [w \in Warps |-> LanesOf(w)]
  /\ resumed' = IF Resumes THEN resumed \cup {<<uid, nextCta>>} ELSE resumed
  /\ running'   = Single(nextCta)
  /\ ctaid'     = nextCta
  /\ nextCta'   = IncrementXYZ(nextCta)
  /\ done'      = {}
  /\ live'      = [w \in Warps |-> Cardinality(LanesOf(w))]
  /\ atBarrier' = {}
  /\ sweep'     = NewSweep
  /\ count'     = 0
  /\ insns'     = [w \in Warps |-> 0]
  /\ UNCHANGED <<option, uid, launched, finished, ran, files, left, stopped>>

SkipCta ==
  /\ uid <= Kernels /\ running = NoCta /\ ~NoMoreCtas /\ ~Executes
  /\ nextCta'  = IncrementXYZ(nextCta)
  /\ launched' = launched + 1
  /\ UNCHANGED <<option, uid, finished, coreVars, fileVars, stopped>>

\* The loop is over: register_finished_kernel.  cudaLaunch does not launch
\* kernels after the checkpointed one.
EndKernel ==
  /\ uid <= Kernels /\ running = NoCta /\ NoMoreCtas
  /\ finished' = Append(finished, uid)
  /\ uid' = IF option.on /\ uid = option.kernel THEN Kernels + 1 ELSE uid + 1
  /\ nextCta'  = FirstCta
  /\ launched' = 0
  /\ UNCHANGED <<option, coreVars, fileVars, stopped>>

-----------------------------------------------------------------------------
(* functionalCoreSim::execute.                                             *)

\* ptx_exec_inst on the lanes the SIMT stack offers: predicated-off lanes do
\* nothing, an exit retires the others.
Execute(op, lanes) == IF op = "exit" THEN done \cup lanes ELSE done

Instructions(w) ==
  IF insns[w] < MaxInsns
  THEN {"other", "barrier", "exit"} \X ((SUBSET OnStack(w)) \ {{}})
  ELSE {<<"exit", OnStack(w)>>}

\* Mutant: a warp without live threads counts as not at the barrier.
MutHoldsBack(w, nowAt, nowLive) == w \notin nowAt

\* Mutant: a warp at the barrier blocks nobody, nor does any later one.
MutAllAtBarrier(before, blocks) == ~blocks

\* Whether warp w keeps the others at the barrier.
HoldsBack(w, nowAt, nowLive) == w \notin nowAt /\ nowLive[w] > 0

AllAtBarrier(before, blocks) == before /\ ~blocks

\* The warp executes an instruction when its turn comes.
Active(w) == w \notin atBarrier /\ live[w] # 0

\* executeWarp on the warp whose turn it is; bar and membar instructions stop
\* the warp.  Its SIMT stack has an entry.
ExecuteWarp ==
  LET w == sweep.turn IN
  /\ running # NoCta /\ w \in Warps
  /\ Active(w) => OnStack(w) # {}
  /\ IF Active(w)
     THEN \E i \in Instructions(w) :
            /\ done' = Execute(i[1], i[2])
            /\ live' = [live EXCEPT ![w] = @ - Cardinality(done' \ done)]
            /\ atBarrier' = IF i[1] = "barrier" THEN atBarrier \cup {w}
                            ELSE atBarrier
            /\ insns' = [insns EXCEPT ![w] = @ + 1]
     ELSE UNCHANGED <<done, live, atBarrier, insns>>
  /\ sweep' = [turn |-> w + 1,
               allAtBarrier |-> AllAtBarrier(sweep.allAtBarrier,
                                             HoldsBack(w, atBarrier', live')),
               someOneLive |-> sweep.someOneLive \/ live'[w] > 0]
  /\ count' = IF count <= option.insn THEN count + 1 ELSE count
  /\ UNCHANGED <<kernelVars, running, ctaid, begun, fileVars, stopped>>

SweepOver == running # NoCta /\ sweep.turn = WarpCount

\* The instruction count of the checkpoint is reached.
CutOff == option.insn > 0 /\ count > option.insn /\ Checkpointed

\* Another sweep; if every live warp is at a barrier they all go on.
NextSweep ==
  /\ SweepOver /\ ~CutOff /\ sweep.someOneLive
  /\ atBarrier' = IF sweep.allAtBarrier THEN {} ELSE atBarrier
  /\ sweep' = NewSweep
  /\ UNCHANGED <<kernelVars, running, ctaid, begun, done, live, count, insns,
                 fileVars, stopped>>

\* Mutant: the file is named after the CTA that comes next.
MutFileName == Single(nextCta)

\* The number in the names of the checkpoint files.
FileName == Single(nextCta) - 1

LoopEnds == SweepOver /\ (CutOff \/ ~sweep.someOneLive)

\* The loop ends; the threads of a checkpointed CTA, one for each lane, and the
\* SIMT stacks are written and the threads retired.
EndCta ==
  /\ LoopEnds /\ ~(Checkpointed /\ Partial)
  /\ files' = IF Checkpointed
              THEN files \cup {[kernel |-> uid, name |-> FileName, ctaid |-> ctaid]}
              ELSE files
  /\ left' = IF Checkpointed /\ FileName = 0 THEN [w \in Warps |-> OnStack(w)]
             ELSE left
  /\ ran' = IF done = Threads THEN ran \cup {<<uid, ctaid>>} ELSE ran
  /\ done'     = IF Checkpointed THEN Threads ELSE done
  /\ running'  = NoCta
  /\ launched' = launched + 1
  /\ UNCHANGED <<option, uid, nextCta, finished, ctaid, begun, live, atBarrier,
                 sweep, count, insns, resumed, stopped>>

\* An assertion or the NULL of a missing thread ends the program: a CTA cannot
\* begin from the files, a warp with live threads has an empty SIMT stack, or
\* the threads of a checkpointed CTA do not fill its warps.  What was written of
\* its files is not complete.
Stop ==
  /\ \/ /\ uid <= Kernels /\ running = NoCta /\ ~NoMoreCtas /\ Executes
        /\ Resumes /\ ~MayResume
     \/ /\ running # NoCta /\ sweep.turn \in Warps
        /\ Active(sweep.turn) /\ OnStack(sweep.turn) = {}
     \/ LoopEnds /\ Checkpointed /\ Partial
  /\ stopped' = TRUE
  /\ UNCHANGED <<kernelVars, coreVars, fileVars>>

-----------------------------------------------------------------------------
Init ==
  /\ option \in Options /\ left \in EarlierFiles /\ stopped = FALSE
  /\ uid = 1 /\ nextCta = FirstCta /\ launched = 0 /\ finished = <<>>
  /\ running = NoCta /\ ctaid = FirstCta /\ done = {}
  /\ live = [w \in Warps |-> 0]
  /\ atBarrier = {} /\ sweep = NewSweep /\ count = 0
  /\ begun = [w \in Warps |-> {}] /\ insns = [w \in Warps |-> 0]
  /\ ran = {} /\ files = {} /\ resumed = {}

AllSimulated == uid > Kernels

Ended == (AllSimulated \/ stopped) /\ UNCHANGED vars

Step == StartCta \/ SkipCta \/ EndKernel \/ ExecuteWarp \/ NextSweep \/ EndCta
        \/ Stop

Next == (~stopped /\ Step) \/ Ended

Spec == Init /\ [][Next]_vars

\* The simulation is one thread that runs on.
FairSpec == Spec /\ WF_vars(Next)
-----------------------------------------------------------------------------
(* Properties.                                                             *)

\* Warps leave a barrier together, when every warp of the CTA with a live
\* thread has come to one: execute() finds that out from a flag it collects
\* over a sweep in which warps still arrive and exit.
ReleasedTogether ==
  [][atBarrier' # {} \/ atBarrier = {} \/ running = NoCta \/
     \A w \in Warps : LiveLanes(w) # {} => w \in atBarrier]_vars

Numbered(c, lo, hi) == lo <= Single(c) /\ Single(c) < hi
Ctas == [x : 0 .. Grid.x - 1, y : 0 .. Grid.y - 1, z : 0 .. Grid.z - 1]

\* What a checkpoint leaves for the run that resumes it.  A kernel that is
\* not the checkpointed one has run all of its CTAs; of the checkpointed one
\* exactly those below checkpoint_CTA have been left to finish, those up to
\* checkpoint_CTA_t are in the files of their own number, where
\* issue_block2core looks for them, and the rest has not begun.  With
\* checkpoint_CTA_t = 1, and then only, what was run or written did not begin
\* at its own start but where the files of CTA 0 left off.
CheckpointSplits ==
  /\ \A k \in 1 .. Kernels : (\E i \in DOMAIN finished : finished[i] = k) =>
       IF option.on /\ k = option.kernel
       THEN /\ \A c \in Ctas :
                 /\ Numbered(c, 0, option.cta) => <<k, c>> \in ran
                 /\ Numbered(c, option.cta, option.ctaT)
                      <=> [kernel |-> k, name |-> Single(c), ctaid |-> c] \in files
                 /\ <<k, c>> \in ran => Numbered(c, 0, option.ctaT)
            /\ \A f \in files : f.kernel = k /\ f.name = Single(f.ctaid)
       ELSE \A c \in Ctas : <<k, c>> \in ran
  /\ \A r \in ran \cup {<<f.kernel, f.ctaid>> : f \in files} :
       r \in resumed <=> Resumes

\* Nothing is read from files, and no CTA that goes to files has a warp with
\* fewer threads than lanes.
Sound == ~Resumes /\ (Partial /\ option.on => option.cta = option.ctaT)

\* Every kernel ends, whatever mixture of barriers, partial exits and
\* diverged lanes its warps execute: no warp is left at a barrier.  Otherwise
\* the simulation may stop before its time, but it does not hang.
KernelsEnd == /\ Sound => <>AllSimulated
              /\ <>(AllSimulated \/ stopped)
=============================================================================
