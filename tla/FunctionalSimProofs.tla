------------------------- MODULE FunctionalSimProofs -------------------------
(***************************************************************************)
(* Theorems about FunctionalSim, for every grid, CTA size, warp size,      *)
(* checkpoint option, file an earlier run has left and length of the       *)
(* warps' programs.                                                        *)
(***************************************************************************)
EXTENDS FunctionalSim, FiniteSetTheorems, TLAPS

-----------------------------------------------------------------------------
(* The inductive invariant of the CTA on the functionalCoreSim.            *)

\* m_liveThreadCount counts the threads of a warp that are not done.
CountsLive == live = [w \in Warps |-> Cardinality(LiveLanes(w))]

\* The flag of the sweep is a statement about the warps it has passed.
FlagHolds ==
  sweep.allAtBarrier =>
    \A w \in Warps : w < sweep.turn => w \in atBarrier \/ live[w] = 0

\* So is the other one: no warp the sweep has passed has a live thread.
NobodyLive ==
  ~ sweep.someOneLive => \A w \in Warps : w < sweep.turn => live[w] = 0

\* The SIMT stacks hold lanes of their warps, those in the files of CTA 0 too.
LanesOfWarps(stacks) == \A w \in Warps : stacks[w] \subseteq LanesOf(w)

SweepInv ==
  /\ option \in Options
  /\ left # NoFiles => LanesOfWarps(left)
  /\ running # NoCta =>
       /\ CountsLive /\ FlagHolds /\ NobodyLive
       /\ atBarrier \subseteq Warps
       /\ done \subseteq Threads
       /\ sweep.turn \in Nat
       /\ LanesOfWarps(begun)

-----------------------------------------------------------------------------
(* Warps and lanes.                                                        *)

\* The options and the CTA size stay as they are, and the warps with them.
LEMMA OptionStays ==
  ASSUME [Next]_vars
  PROVE  option' = option
BY DEF Next, Step, Ended, StartCta, SkipCta, EndKernel, ExecuteWarp, NextSweep,
   EndCta, Stop, vars, kernelVars

LEMMA WarpsStay ==
  ASSUME option' = option
  PROVE  /\ Threads' = Threads /\ Warps' = Warps /\ WarpCount' = WarpCount
         /\ \A w : LanesOf(w)' = LanesOf(w)
BY DEF Threads, Warps, WarpCount, LanesOf

LEMMA WarpsAreNumbers ==
  ASSUME option \in Options
  PROVE  WarpCount \in Nat /\ Warps \subseteq Nat
<1>1. option.threads + WarpSize - 1 \in Nat /\ WarpSize \in Nat \ {0}
  BY FunctionalAssumption, OptionAssumption
<1>2. WarpCount \in Nat
  BY <1>1 DEF WarpCount
<1> QED BY <1>2 DEF Warps

\* A set of threads is finite and counted by a number.
LEMMA ThreadSets ==
  ASSUME option \in Options, NEW S \in SUBSET Threads
  PROVE  /\ IsFiniteSet(S) /\ Cardinality(S) \in Nat
         /\ Cardinality(S) = 0 <=> S = {}
<1>1. IsFiniteSet(Threads)
  BY OptionAssumption, FS_Interval DEF Threads
<1>2. IsFiniteSet(S)
  BY <1>1, FS_Subset
<1> QED BY <1>2, FS_CardinalityType, FS_EmptySet

\* No lane belongs to two warps.
LEMMA LanesApart ==
  ASSUME NEW v, NEW w, v # w
  PROVE  LanesOf(v) \cap LanesOf(w) = {}
BY DEF LanesOf

-----------------------------------------------------------------------------
(* Every step keeps the invariant.                                         *)

LEMMA ExecuteKeeps ==
  ASSUME SweepInv, ExecuteWarp
  PROVE  /\ SweepInv'
         /\ atBarrier \subseteq atBarrier'
<1>0. PICK w \in Warps : w = sweep.turn
  BY DEF ExecuteWarp
<1>a. /\ option \in Options /\ UNCHANGED <<option, running, begun, left>>
      /\ Warps' = Warps /\ Threads' = Threads
      /\ \A v : LanesOf(v)' = LanesOf(v)
  BY WarpsStay DEF ExecuteWarp, SweepInv, kernelVars, fileVars
<1>1. /\ running # NoCta /\ w \in Nat
      /\ CountsLive /\ FlagHolds /\ NobodyLive
      /\ atBarrier \subseteq Warps /\ done \subseteq Threads
      /\ begun[w] \subseteq LanesOf(w)
  BY <1>0, WarpsAreNumbers DEF ExecuteWarp, SweepInv, LanesOfWarps
<1>2. /\ CountsLive' /\ atBarrier \subseteq atBarrier'
      /\ atBarrier' \subseteq Warps /\ done' \subseteq Threads
      /\ \A v \in Warps : v # w => live'[v] = live[v]
  <2>1. CASE UNCHANGED <<done, live, atBarrier, insns>>
    <3>1. \A v : LiveLanes(v)' = LiveLanes(v)
      BY <1>a, <2>1 DEF LiveLanes
    <3> QED BY <1>1, <1>a, <2>1, <3>1 DEF CountsLive
  <2>2. ASSUME NEW i \in Instructions(w),
               done' = Execute(i[1], i[2]),
               live' = [live EXCEPT ![w] = @ - Cardinality(done' \ done)],
               atBarrier' = IF i[1] = "barrier" THEN atBarrier \cup {w}
                            ELSE atBarrier
        PROVE  /\ CountsLive' /\ atBarrier \subseteq atBarrier'
               /\ atBarrier' \subseteq Warps /\ done' \subseteq Threads
               /\ \A v \in Warps : v # w => live'[v] = live[v]
    <3>1. i[2] \subseteq LiveLanes(w)
      <4>1. i[2] \subseteq OnStack(w)
        BY <2>2 DEF Instructions
      <4> QED BY <1>1, <4>1 DEF OnStack, LiveLanes
    <3>2. done' \ done \subseteq LiveLanes(w) /\ done' = done \cup (done' \ done)
      BY <2>2, <3>1 DEF Execute, LiveLanes
    <3> DEFINE gone == done' \ done
    <3>3. LiveLanes(w)' = LiveLanes(w) \ gone
      BY <1>a, <3>2 DEF LiveLanes
    <3>4. Cardinality(LiveLanes(w)') = Cardinality(LiveLanes(w)) - Cardinality(gone)
      <4> DEFINE L == LiveLanes(w)
      <4>1. L \cap gone = gone
        BY <3>2
      <4>2. IsFiniteSet(L)
        BY <1>a, ThreadSets DEF LiveLanes, LanesOf
      <4> HIDE DEF gone, L
      <4>3. Cardinality(L \ gone) = Cardinality(L) - Cardinality(L \cap gone)
        BY <4>2, FS_Difference
      <4> QED BY <3>3, <4>1, <4>3 DEF L
    <3>5. \A v \in Warps : v # w => LiveLanes(v)' = LiveLanes(v)
      BY <1>a, <3>2, LanesApart DEF LiveLanes
    <3>6. live' = [live EXCEPT ![w] = live[w] - Cardinality(gone)]
      BY <2>2
    <3> HIDE DEF gone
    <3>7. CountsLive'
      BY <1>1, <1>a, <3>4, <3>5, <3>6 DEF CountsLive
    <3>8. \A v \in Warps : v # w => live'[v] = live[v]
      BY <1>1, <3>6 DEF CountsLive
    <3>9. done' \subseteq Threads
      BY <1>1, <2>2, <3>1 DEF Execute, LiveLanes, LanesOf
    <3> QED BY <1>1, <2>2, <3>7, <3>8, <3>9
  <2> QED BY <1>0, <2>1, <2>2 DEF ExecuteWarp
<1>3. /\ sweep'.turn = w + 1
      /\ ~ sweep'.someOneLive => ~ sweep.someOneLive /\ ~(live'[w] > 0)
      /\ sweep'.allAtBarrier
           => sweep.allAtBarrier /\ (w \in atBarrier' \/ ~(live'[w] > 0))
  BY <1>0 DEF ExecuteWarp, AllAtBarrier, HoldsBack
<1>4. live'[w] \in Nat
  <2>1. LiveLanes(w)' \in SUBSET Threads
    BY <1>a DEF LiveLanes, LanesOf
  <2>2. Cardinality(LiveLanes(w)') \in Nat
    BY <1>a, <2>1, ThreadSets
  <2> QED BY <1>2, <1>a, <2>2 DEF CountsLive
<1>5. FlagHolds'
  <2> SUFFICES ASSUME sweep'.allAtBarrier, NEW v \in Warps, v < w + 1
               PROVE  v \in atBarrier' \/ live'[v] = 0
    BY <1>3, <1>a DEF FlagHolds
  <2>1. CASE v = w
    BY <1>3, <1>4, <2>1
  <2>2. CASE v # w
    <3>1. v < w
      BY <1>1, <1>a, <2>2, WarpsAreNumbers
    <3> QED BY <1>0, <1>1, <1>2, <1>3, <2>2, <3>1 DEF FlagHolds
  <2> QED BY <2>1, <2>2
<1>6. NobodyLive'
  <2> SUFFICES ASSUME ~ sweep'.someOneLive, NEW v \in Warps, v < w + 1
               PROVE  live'[v] = 0
    BY <1>3, <1>a DEF NobodyLive
  <2>1. CASE v = w
    BY <1>3, <1>4, <2>1
  <2>2. CASE v # w
    <3>1. v < w
      BY <1>1, <1>a, <2>2, WarpsAreNumbers
    <3> QED BY <1>0, <1>1, <1>2, <1>3, <2>2, <3>1 DEF NobodyLive
  <2> QED BY <2>1, <2>2
<1>7. /\ left' # NoFiles => LanesOfWarps(left)'
      /\ running' # NoCta => LanesOfWarps(begun)'
  BY <1>1, <1>a DEF SweepInv, LanesOfWarps, NoFiles
<1>8. sweep'.turn \in Nat
  BY <1>1, <1>3
<1> QED BY <1>1, <1>2, <1>5, <1>6, <1>7, <1>8, <1>a DEF SweepInv

LEMMA StepKeeps ==
  ASSUME SweepInv, [Next]_vars
  PROVE  SweepInv'
<1>0. /\ option \in Options /\ option' = option
      /\ Warps' = Warps /\ Threads' = Threads /\ WarpCount' = WarpCount
      /\ \A v : LanesOf(v)' = LanesOf(v)
      /\ NoCta' = NoCta /\ NoFiles' = NoFiles
  BY OptionStays, WarpsStay DEF SweepInv, NoCta, Blocks, NoFiles
<1>1. CASE StartCta
  <2>1. CountsLive'
    <3>1. \A w : LiveLanes(w)' = LanesOf(w)
      BY <1>0, <1>1 DEF StartCta, LiveLanes
    <3> QED BY <1>0, <1>1, <3>1 DEF StartCta, CountsLive
  <2>2. /\ FlagHolds' /\ atBarrier' = {} /\ sweep'.turn \in Nat
        /\ NobodyLive' /\ done' = {}
    BY <1>0, <1>1, WarpsAreNumbers DEF StartCta, NewSweep, FlagHolds, NobodyLive
  <2>3. LanesOfWarps(begun)'
    <3>1. CASE Resumes
      BY <1>0, <1>1, <3>1 DEF StartCta, MayResume, SweepInv, LanesOfWarps
    <3>2. CASE ~ Resumes
      BY <1>0, <1>1, <3>2 DEF StartCta, LanesOfWarps
    <3> QED BY <3>1, <3>2
  <2>4. left' # NoFiles => LanesOfWarps(left)'
    BY <1>0, <1>1 DEF StartCta, SweepInv, LanesOfWarps
  <2> QED BY <1>0, <2>1, <2>2, <2>3, <2>4 DEF SweepInv
<1>2. CASE SkipCta \/ EndKernel
  <2>1. running' = NoCta /\ left' = left
    BY <1>2 DEF SkipCta, EndKernel, coreVars, fileVars
  <2> QED BY <1>0, <2>1 DEF SweepInv, LanesOfWarps
<1>4. CASE ExecuteWarp
  BY <1>4, ExecuteKeeps
<1>5. CASE NextSweep
  <2>1. /\ running # NoCta /\ UNCHANGED <<begun, left, done, live>>
    BY <1>5 DEF NextSweep, SweepOver, fileVars
  <2>2. CountsLive'
    <3>1. \A w : LiveLanes(w)' = LiveLanes(w)
      BY <1>0, <2>1 DEF LiveLanes
    <3> QED BY <1>0, <2>1, <3>1 DEF SweepInv, CountsLive
  <2>3. /\ atBarrier' \subseteq Warps
        /\ FlagHolds' /\ NobodyLive' /\ sweep'.turn \in Nat
    BY <1>0, <1>5, <2>1, WarpsAreNumbers
       DEF NextSweep, NewSweep, FlagHolds, NobodyLive, SweepInv
  <2> QED BY <1>0, <2>1, <2>2, <2>3 DEF SweepInv, LanesOfWarps
<1>6. CASE EndCta
  <2>1. running' = NoCta /\ running # NoCta
    BY <1>6 DEF EndCta, LoopEnds, SweepOver
  <2>2. CASE left' = left
    BY <1>0, <2>1, <2>2 DEF SweepInv, LanesOfWarps
  <2>3. CASE left' = [w \in Warps |-> OnStack(w)]
    BY <1>0, <2>1, <2>3 DEF SweepInv, LanesOfWarps, OnStack
  <2> QED BY <1>6, <2>2, <2>3 DEF EndCta
<1>7. CASE Stop \/ UNCHANGED vars
  <2>1. UNCHANGED <<coreVars, fileVars>>
    BY <1>7 DEF Stop, vars
  <2>2. UNCHANGED <<running, begun, done, live, atBarrier, sweep, left>>
    BY <2>1 DEF coreVars, fileVars
  <2>3. CountsLive => CountsLive'
    <3>1. \A w : LiveLanes(w)' = LiveLanes(w)
      BY <1>0, <2>2 DEF LiveLanes
    <3> QED BY <1>0, <2>2, <3>1 DEF CountsLive
  <2>4. (FlagHolds => FlagHolds') /\ (NobodyLive => NobodyLive')
    BY <1>0, <2>2 DEF FlagHolds, NobodyLive
  <2> QED BY <1>0, <2>2, <2>3, <2>4 DEF SweepInv, LanesOfWarps
<1> QED BY <1>1, <1>2, <1>4, <1>5, <1>6, <1>7 DEF Next, Step, Ended

LEMMA InitSweep == Init => SweepInv
<1> SUFFICES ASSUME Init PROVE SweepInv
  OBVIOUS
<1>1. option \in Options /\ running = NoCta /\ left \in EarlierFiles
  BY DEF Init
<1>2. left # NoFiles => LanesOfWarps(left)
  BY <1>1 DEF EarlierFiles, LanesOfWarps
<1> QED BY <1>1, <1>2 DEF SweepInv

-----------------------------------------------------------------------------
(* Warps leave a barrier together.                                         *)

\* The warps at a barrier go on only when every warp with a live thread has
\* come to one: functionalCoreSim::execute releases them on its flag
\* allAtBarrier, which it collected while warps still arrived and exited.
THEOREM WarpsReleasedTogether == Spec => ReleasedTogether
<1> DEFINE Together ==
      \/ atBarrier' # {} \/ atBarrier = {} \/ running = NoCta
      \/ \A w \in Warps : LiveLanes(w) # {} => w \in atBarrier
<1>1. Init => SweepInv
  BY InitSweep
<1>2. SweepInv /\ [Next]_vars => SweepInv'
  BY StepKeeps
<1>3. SweepInv /\ [Next]_vars => [Together]_vars
  <2> SUFFICES ASSUME SweepInv, Next PROVE Together
    OBVIOUS
  <2>1. CASE StartCta
    BY <2>1 DEF StartCta
  <2>2. CASE SkipCta \/ EndKernel
    BY <2>2 DEF SkipCta, EndKernel
  <2>3. CASE ExecuteWarp
    BY <2>3, ExecuteKeeps
  <2>4. CASE NextSweep
    <3> SUFFICES ASSUME sweep.allAtBarrier, running # NoCta,
                        NEW w \in Warps, LiveLanes(w) # {}
                 PROVE  w \in atBarrier
      BY <2>4 DEF NextSweep
    <3>1. w < sweep.turn
      BY <2>4, WarpsAreNumbers DEF NextSweep, SweepOver, SweepInv, Warps
    <3>2. live[w] # 0
      <4>1. LiveLanes(w) \in SUBSET Threads
        BY DEF LiveLanes, LanesOf
      <4>2. Cardinality(LiveLanes(w)) # 0
        BY <4>1, ThreadSets DEF SweepInv
      <4> QED BY <4>2 DEF SweepInv, CountsLive
    <3> QED BY <3>1, <3>2 DEF SweepInv, FlagHolds
  <2>5. CASE EndCta \/ Stop \/ Ended
    BY <2>5 DEF EndCta, Stop, Ended, vars, coreVars
  <2> QED BY <2>1, <2>2, <2>3, <2>4, <2>5 DEF Next, Step
<1> QED BY <1>1, <1>2, <1>3, PTL DEF Spec, ReleasedTogether

-----------------------------------------------------------------------------
(* The CTAs of a grid are numbered one by one.                             *)

\* The CTA counter after the last CTA.
Beyond == [x |-> 0, y |-> 0, z |-> Grid.z]

\* Products of numbers.
LEMMA Multiples ==
  ASSUME NEW b \in Nat, NEW i \in Nat, NEW j \in Nat
  PROVE  i * b \in Nat /\ (i < j => i * b + b <= j * b)
<1>1. \A a, c \in Nat : a * c \in Nat
  OBVIOUS
<1>2. ASSUME i < j PROVE i * b + b <= j * b
  <2>1. PICK d \in Nat : j = i + 1 + d
    BY <1>2, j = i + 1 + (j - i - 1)
  <2>2. d * b \in Nat /\ j * b = i * b + b + d * b
    BY <1>1, <2>1
  <2>3. i * b \in Nat
    BY <1>1
  <2> QED BY <2>2, <2>3
<1> QED BY <1>1, <1>2

\* A number is in one way a row of b numbers and a place in it.
LEMMA RowsUnique ==
  ASSUME NEW b \in Nat, NEW i \in Nat, NEW j \in Nat,
         NEW x \in 0 .. b - 1, NEW y \in 0 .. b - 1
  PROVE  x + b * i = y + b * j <=> i = j /\ x = y
<1>1. i * b \in Nat /\ j * b \in Nat /\ b * i = i * b /\ b * j = j * b
  BY Multiples
<1>2. i < j => i * b + b <= j * b
  BY Multiples
<1>3. j < i => j * b + b <= i * b
  BY Multiples
<1> QED BY <1>1, <1>2, <1>3

\* The number of a CTA, its planes and rows counted from the grid's.
LEMMA GridShape ==
  \E X, Y, Z \in Nat \ {0} :
    /\ X = Grid.x /\ Y = Grid.y /\ Z = Grid.z
    /\ Blocks = X * (Y * Z) /\ Blocks \in Nat /\ Y * Z \in Nat
    /\ \A x, y, z \in Nat :
         /\ Single([x |-> x, y |-> y, z |-> z]) = x + X * (y + Y * z)
         /\ y + Y * z \in Nat /\ x + X * (y + Y * z) \in Nat
<1>1. PICK X, Y, Z \in Nat \ {0} : X = Grid.x /\ Y = Grid.y /\ Z = Grid.z
  BY FunctionalAssumption
<1>2. Y * Z \in Nat /\ X * (Y * Z) \in Nat
  BY Multiples
<1>3. Blocks = X * (Y * Z)
  BY <1>1 DEF Blocks
<1>4. ASSUME NEW x \in Nat, NEW y \in Nat, NEW z \in Nat
      PROVE  /\ Single([x |-> x, y |-> y, z |-> z]) = x + X * (y + Y * z)
             /\ y + Y * z \in Nat /\ x + X * (y + Y * z) \in Nat
  <2>1. Single([x |-> x, y |-> y, z |-> z]) = x + X * y + X * Y * z
    BY <1>1 DEF Single
  <2>2. PICK w \in Nat : w = Y * z
    BY Multiples
  <2>3. X * Y * z = X * w
    BY <2>2
  <2>4. X * (y + w) = X * y + X * w
    BY <2>2
  <2>5. X * y \in Nat /\ X * w \in Nat
    BY Multiples, <2>2
  <2> QED BY <2>1, <2>2, <2>3, <2>4, <2>5
<1> QED BY <1>1, <1>2, <1>3, <1>4, SMTT(60)

\* A CTA is made of its coordinates.
LEMMA CtaShape ==
  ASSUME NEW c \in Ctas
  PROVE  \E x \in 0 .. Grid.x - 1, y \in 0 .. Grid.y - 1, z \in 0 .. Grid.z - 1 :
           c = [x |-> x, y |-> y, z |-> z]
BY DEF Ctas

\* Coordinates within the grid make a CTA.
LEMMA CtaMember ==
  ASSUME NEW x \in 0 .. Grid.x - 1, NEW y \in 0 .. Grid.y - 1,
         NEW z \in 0 .. Grid.z - 1
  PROVE  [x |-> x, y |-> y, z |-> z] \in Ctas
BY DEF Ctas

\* No two CTAs of a grid have one number, and all are below the number of CTAs.
LEMMA CtaNumbers ==
  ASSUME NEW c \in Ctas
  PROVE  /\ Single(c) \in 0 .. Blocks - 1
         /\ \A d \in Ctas : Single(c) = Single(d) => c = d
<1>1. PICK X, Y, Z \in Nat \ {0} :
        /\ X = Grid.x /\ Y = Grid.y /\ Z = Grid.z
        /\ Blocks = X * (Y * Z) /\ Blocks \in Nat /\ Y * Z \in Nat
        /\ \A x, y, z \in Nat :
             /\ Single([x |-> x, y |-> y, z |-> z]) = x + X * (y + Y * z)
             /\ y + Y * z \in Nat /\ x + X * (y + Y * z) \in Nat
  BY GridShape
<1>2. PICK x \in 0 .. X - 1, y \in 0 .. Y - 1, z \in 0 .. Z - 1 :
        c = [x |-> x, y |-> y, z |-> z]
  BY <1>1, CtaShape
<1>3. PICK r \in Nat : r = y + Y * z
  BY <1>1
<1>4. Single(c) = x + X * r /\ Single(c) \in Nat
  BY <1>1, <1>2, <1>3
<1>5. Single(c) < Blocks
  <2>1. z * Y + Y <= Z * Y /\ z * Y \in Nat /\ Y * z = z * Y /\ Y * Z = Z * Y
    BY Multiples
  <2>2. PICK n \in Nat : n = Y * Z
    BY <1>1
  <2>3. r < n
    BY <1>3, <2>1, <2>2
  <2>4. r * X + X <= n * X /\ r * X \in Nat /\ X * r = r * X /\ X * n = n * X
    BY <2>3, Multiples
  <2> QED BY <1>1, <1>4, <2>2, <2>4
<1>6. ASSUME NEW d \in Ctas, Single(c) = Single(d)
      PROVE  c = d
  <2>1. PICK u \in 0 .. X - 1, v \in 0 .. Y - 1, w \in 0 .. Z - 1 :
          d = [x |-> u, y |-> v, z |-> w]
    BY <1>1, CtaShape
  <2>2. PICK q \in Nat : q = v + Y * w
    BY <1>1
  <2>3. x + X * r = u + X * q
    BY <1>1, <1>4, <1>6, <2>1, <2>2
  <2>4. r = q /\ x = u
    BY <2>3, RowsUnique
  <2>5. y + Y * z = v + Y * w
    BY <1>3, <2>2, <2>4
  <2>6. z = w /\ y = v
    BY <2>5, RowsUnique
  <2> QED BY <1>2, <2>1, <2>4, <2>6
<1> QED BY <1>1, <1>4, <1>5, <1>6

\* increment_x_then_y_then_z moves on to the next number.
LEMMA NextCtaNumber ==
  /\ FirstCta \in Ctas /\ Single(FirstCta) = 0 /\ Single(Beyond) = Blocks
  /\ \A c \in Ctas : /\ IncrementXYZ(c) \in Ctas \cup {Beyond}
                      /\ Single(IncrementXYZ(c)) = Single(c) + 1
                      /\ ~ (c.x >= Grid.x \/ c.y >= Grid.y \/ c.z >= Grid.z)
  /\ Beyond.z >= Grid.z
<1>1. PICK X, Y, Z \in Nat \ {0} :
        /\ X = Grid.x /\ Y = Grid.y /\ Z = Grid.z
        /\ Blocks = X * (Y * Z) /\ Blocks \in Nat /\ Y * Z \in Nat
        /\ \A x, y, z \in Nat :
             /\ Single([x |-> x, y |-> y, z |-> z]) = x + X * (y + Y * z)
             /\ y + Y * z \in Nat /\ x + X * (y + Y * z) \in Nat
  BY GridShape
<1>2. FirstCta \in Ctas /\ Single(FirstCta) = 0
  <2>1. Single(FirstCta) = 0 + X * (0 + Y * 0)
    BY <1>1 DEF FirstCta
  <2>2. Y * 0 = 0 /\ X * 0 = 0
    OBVIOUS
  <2>3. FirstCta \in Ctas
    <3>1. 0 \in 0 .. Grid.x - 1 /\ 0 \in 0 .. Grid.y - 1 /\ 0 \in 0 .. Grid.z - 1
      BY <1>1
    <3> QED BY <3>1, CtaMember DEF FirstCta
  <2> QED BY <2>1, <2>2, <2>3
<1>3. Single(Beyond) = Blocks /\ Beyond.z >= Grid.z
  <2>1. Single(Beyond) = 0 + X * (0 + Y * Z)
    BY <1>1 DEF Beyond
  <2> QED BY <1>1, <2>1 DEF Beyond
<1>4. ASSUME NEW c \in Ctas
      PROVE  /\ IncrementXYZ(c) \in Ctas \cup {Beyond}
             /\ Single(IncrementXYZ(c)) = Single(c) + 1
             /\ ~ (c.x >= Grid.x \/ c.y >= Grid.y \/ c.z >= Grid.z)
  <2>1. PICK x \in 0 .. X - 1, y \in 0 .. Y - 1, z \in 0 .. Z - 1 :
          c = [x |-> x, y |-> y, z |-> z]
    BY <1>1, CtaShape
  <2>2. PICK w \in Nat : w = Y * z
    BY Multiples
  <2>3. /\ Single(c) = x + X * (y + w) /\ X * (y + w) \in Nat
        /\ ~ (c.x >= Grid.x \/ c.y >= Grid.y \/ c.z >= Grid.z)
    <3>1. PICK r \in Nat : r = y + w
      BY <2>2
    <3>2. X * r \in Nat
      BY Multiples
    <3>3. Single(c) = x + X * r
      BY <1>1, <2>1, <2>2, <3>1
    <3>4. c.x = x /\ c.y = y /\ c.z = z
      BY <2>1
    <3>5. ~ (x >= Grid.x \/ y >= Grid.y \/ z >= Grid.z)
      BY <1>1
    <3> QED BY <3>1, <3>2, <3>3, <3>4, <3>5
  <2>4. CASE x + 1 < X
    <3>1. IncrementXYZ(c) = [x |-> x + 1, y |-> y, z |-> z]
      BY <1>1, <2>1, <2>4 DEF IncrementXYZ
    <3>2. Single(IncrementXYZ(c)) = x + 1 + X * (y + w)
      BY <1>1, <2>2, <3>1
    <3>3. IncrementXYZ(c) \in Ctas
      <4>1. x + 1 \in 0 .. Grid.x - 1
        BY <1>1, <2>4
      <4> QED BY <1>1, <3>1, <4>1, CtaMember, SMTT(60)
    <3>4. Single(IncrementXYZ(c)) = Single(c) + 1
      BY <2>3, <3>2
    <3> QED BY <2>3, <3>3, <3>4
  <2>5. CASE ~ x + 1 < X /\ y + 1 < Y
    <3>1. IncrementXYZ(c) = [x |-> 0, y |-> y + 1, z |-> z]
      BY <1>1, <2>1, <2>5 DEF IncrementXYZ
    <3>2. Single(IncrementXYZ(c)) = X * (y + 1 + w)
      BY <1>1, <2>2, <3>1
    <3>3. X * (y + 1 + w) = X * (y + w) + X /\ x + 1 = X
      BY <2>2, <2>5
    <3>4. IncrementXYZ(c) \in Ctas
      <4>1. /\ 0 \in 0 .. Grid.x - 1 /\ y + 1 \in 0 .. Grid.y - 1
            /\ z \in 0 .. Grid.z - 1
        BY <1>1, <2>5
      <4> QED BY <3>1, <4>1, CtaMember
    <3>5. Single(IncrementXYZ(c)) = Single(c) + 1
      BY <2>3, <3>2, <3>3
    <3> QED BY <2>3, <3>4, <3>5
  <2>6. CASE ~ x + 1 < X /\ ~ y + 1 < Y
    <3>1. IncrementXYZ(c) = [x |-> 0, y |-> 0, z |-> z + 1]
      BY <1>1, <2>1, <2>6 DEF IncrementXYZ
    <3>2. Single(IncrementXYZ(c)) = X * (Y * (z + 1))
      <4>1. Y * (z + 1) \in Nat
        BY Multiples
      <4> QED BY <1>1, <3>1, <4>1
    <3>3. Y * (z + 1) = w + Y /\ y + 1 = Y /\ x + 1 = X
      BY <2>2, <2>6
    <3>4. X * (w + Y) = X * (y + w) + X
      BY <2>2, <3>3
    <3>5. Single(IncrementXYZ(c)) = Single(c) + 1
      BY <2>3, <3>2, <3>3, <3>4
    <3>6. IncrementXYZ(c) \in Ctas \cup {Beyond}
      <4>1. CASE z + 1 < Z
        <5>1. /\ 0 \in 0 .. Grid.x - 1 /\ 0 \in 0 .. Grid.y - 1
              /\ z + 1 \in 0 .. Grid.z - 1
          BY <1>1, <4>1
        <5> QED BY <3>1, <5>1, CtaMember
      <4>2. CASE ~ z + 1 < Z
        <5>1. z + 1 = Grid.z
          BY <1>1, <4>2
        <5> QED BY <3>1, <5>1 DEF Beyond
      <4> QED BY <4>1, <4>2
    <3> QED BY <2>3, <3>5, <3>6
  <2> QED BY <2>4, <2>5, <2>6
<1> QED BY <1>2, <1>3, <1>4

-----------------------------------------------------------------------------
(* The inductive invariant of the main loop.                               *)

\* What the CTA counter, the counters of the main loop and the CTA on the
\* functionalCoreSim have to do with each other.
CounterInv ==
  /\ option \in Options /\ uid \in Nat \ {0} /\ finished \in Seq(Nat)
  /\ nextCta \in Ctas \cup {Beyond}
  /\ option.on /\ uid <= Kernels => uid <= option.kernel
  /\ running = NoCta => launched = Single(nextCta)
  /\ running # NoCta => /\ ctaid \in Ctas /\ uid <= Kernels /\ Executes
                        /\ running = Single(ctaid) /\ launched = running
                        /\ Single(nextCta) = running + 1

Over(k) == \E i \in DOMAIN finished : finished[i] = k

\* The main loop is done with a CTA.
Passed(k, c) == Over(k) \/ (k = uid /\ Single(c) < launched)

\* The CTA has run to its end or is in a file, whichever was asked for.
Settled(k, c) ==
  IF option.on /\ k = option.kernel
  THEN /\ Numbered(c, 0, option.cta) => <<k, c>> \in ran
       /\ Numbered(c, option.cta, option.ctaT) =>
            [kernel |-> k, name |-> Single(c), ctaid |-> c] \in files
  ELSE <<k, c>> \in ran

SplitInv ==
  /\ \A k \in 1 .. Kernels, c \in Ctas : Passed(k, c) => Settled(k, c)
  /\ \A f \in files : /\ option.on /\ f.kernel = option.kernel
                      /\ f.name = Single(f.ctaid)
                      /\ Numbered(f.ctaid, option.cta, option.ctaT)
  /\ \A r \in ran : option.on /\ r[1] = option.kernel =>
                      Numbered(r[2], 0, option.ctaT)

\* What was run or written began as the options say.
OriginInv ==
  IF Resumes
  THEN /\ ran \subseteq resumed
       /\ \A f \in files : <<f.kernel, f.ctaid>> \in resumed
       /\ running # NoCta => <<uid, ctaid>> \in resumed
  ELSE resumed = {}

\* What the options say.
LEMMA OptionShape ==
  ASSUME CounterInv
  PROVE  /\ option.cta \in Nat /\ option.ctaT \in Nat /\ option.cta <= option.ctaT
         /\ option.kernel \in Nat \ {0}
BY OptionAssumption DEF CounterInv

\* There is a next CTA exactly when the counter is in the grid.
LEMMA NextCtaOrBeyond ==
  ASSUME nextCta \in Ctas \cup {Beyond}
  PROVE  IF NoMoreCtas THEN nextCta = Beyond ELSE nextCta \in Ctas
BY NextCtaNumber DEF NoMoreCtas

\* The operations of the main loop keep its counters in step.
LEMMA CounterKeeps ==
  ASSUME CounterInv, [Next]_vars
  PROVE  CounterInv'
<1>1. CASE StartCta
  <2>1. nextCta \in Ctas /\ running = NoCta /\ launched = Single(nextCta)
    BY <1>1, NextCtaOrBeyond DEF StartCta, CounterInv
  <2>2. /\ Single(nextCta) \in 0 .. Blocks - 1
        /\ IncrementXYZ(nextCta) \in Ctas \cup {Beyond}
        /\ Single(IncrementXYZ(nextCta)) = Single(nextCta) + 1
    BY <2>1, CtaNumbers, NextCtaNumber
  <2>3. running' # NoCta
    <3>1. Blocks \in Nat
      BY GridShape
    <3> QED BY <1>1, <2>2, <3>1 DEF StartCta, NoCta, Blocks
  <2>4. Executes'
    BY <1>1 DEF StartCta, Executes
  <2>5. UNCHANGED <<option, uid, finished, launched>> /\ uid <= Kernels
    BY <1>1 DEF StartCta
  <2>6. Single(ctaid)' = Single(nextCta) /\ Single(nextCta)' = Single(nextCta) + 1
    BY <1>1, <2>2 DEF StartCta, Single
  <2> QED BY <1>1, <2>1, <2>2, <2>3, <2>4, <2>5, <2>6
       DEF StartCta, CounterInv, NoCta, Blocks, Ctas, Beyond
<1>2. CASE SkipCta
  <2>1. nextCta \in Ctas /\ running = NoCta /\ launched = Single(nextCta)
    BY <1>2, NextCtaOrBeyond DEF SkipCta, CounterInv
  <2>2. /\ IncrementXYZ(nextCta) \in Ctas \cup {Beyond}
        /\ Single(IncrementXYZ(nextCta)) = Single(nextCta) + 1
    BY <2>1, NextCtaNumber
  <2>3. Single(nextCta)' = Single(nextCta) + 1
    BY <1>2, <2>2 DEF SkipCta, Single
  <2> QED BY <1>2, <2>1, <2>2, <2>3
       DEF SkipCta, coreVars, CounterInv, NoCta, Blocks, Ctas, Beyond
<1>3. CASE EndKernel
  <2>1. /\ running = NoCta /\ running' = NoCta' /\ option' = option
        /\ launched' = 0 /\ nextCta' = FirstCta
    BY <1>3 DEF EndKernel, coreVars, NoCta, Blocks
  <2>2. uid \in Nat \ {0} /\ uid <= Kernels /\ option.kernel \in Nat
        /\ Kernels \in Nat /\ (option.on => uid <= option.kernel)
    BY <1>3, OptionShape, FunctionalAssumption DEF EndKernel, CounterInv
  <2>3. uid' \in Nat \ {0} /\ (option.on /\ uid' <= Kernels => uid' <= option.kernel)
    BY <1>3, <2>2 DEF EndKernel
  <2>4. finished' \in Seq(Nat)
    BY <1>3, <2>2 DEF EndKernel, CounterInv
  <2>5. nextCta' \in Ctas /\ Single(nextCta)' = 0
    BY <2>1, NextCtaNumber DEF Single
  <2> QED BY <2>1, <2>3, <2>4, <2>5 DEF CounterInv, Ctas, Beyond
<1>4. CASE UNCHANGED <<kernelVars, running, ctaid>>
  BY <1>4 DEF kernelVars, CounterInv, Executes, NoCta, Blocks, Ctas, Beyond,
     Single
<1>5. CASE EndCta
  <2>1. /\ running # NoCta /\ running' = NoCta'
        /\ UNCHANGED <<option, uid, nextCta, finished>>
        /\ launched' = launched + 1
    BY <1>5 DEF EndCta, LoopEnds, SweepOver, NoCta, Blocks
  <2>2. launched' = Single(nextCta)'
    BY <2>1 DEF CounterInv, Single
  <2> QED BY <2>1, <2>2 DEF CounterInv, Ctas, Beyond
<1>6. CASE ExecuteWarp \/ NextSweep
  BY <1>4, <1>6 DEF ExecuteWarp, NextSweep
<1>7. CASE Stop \/ UNCHANGED vars
  BY <1>4, <1>7 DEF Stop, vars, coreVars
<1> QED BY <1>1, <1>2, <1>3, <1>5, <1>6, <1>7 DEF Next, Step, Ended

-----------------------------------------------------------------------------
(* What happens to the CTAs.                                               *)

\* When a sweep has met no live thread, every thread of the CTA is done.
LEMMA AllDone ==
  ASSUME SweepInv, SweepOver, ~ sweep.someOneLive
  PROVE  done = Threads
<1>1. /\ CountsLive /\ NobodyLive /\ done \subseteq Threads
      /\ sweep.turn = WarpCount
  BY DEF SweepInv, SweepOver
<1>2. ASSUME NEW t \in Threads
      PROVE  t \in done
  <2>1. PICK n, b \in Nat \ {0} : n = option.threads /\ b = WarpSize
    BY FunctionalAssumption, OptionAssumption DEF SweepInv
  <2>2. t \in Nat /\ t < n
    BY <2>1 DEF Threads
  <2>3. PICK w \in Nat : w = t \div b
    BY <2>1, <2>2
  <2>4. w < WarpCount
    <3>1. PICK m \in Nat : m = n + b - 1 /\ t + b <= m
      BY <2>1, <2>2
    <3>2. PICK q \in Nat : q = m \div b
      OBVIOUS
    <3>3. /\ m = q * b + (m % b) /\ m % b \in 0 .. b - 1
          /\ t = w * b + (t % b) /\ t % b \in 0 .. b - 1
      BY <2>2, <2>3, <3>2
    <3>4. q * b \in Nat /\ w * b \in Nat
      BY Multiples
    <3>5. ~ q < w /\ q # w
      <4>1. q < w => q * b + b <= w * b
        BY Multiples
      <4>2. ~ q * b + b <= w * b
        BY <2>2, <3>1, <3>3, <3>4
      <4>3. q # w
        BY <2>2, <3>1, <3>3, <3>4
      <4> QED BY <4>1, <4>2, <4>3
    <3> QED BY <2>1, <3>1, <3>2, <3>5 DEF WarpCount
  <2>5. w \in Warps /\ t \in LanesOf(w)
    BY <2>1, <2>3, <2>4, WarpsAreNumbers DEF Warps, LanesOf, SweepInv
  <2>6. live[w] = 0 /\ live[w] = Cardinality(LiveLanes(w))
    BY <1>1, <2>4, <2>5 DEF NobodyLive, CountsLive
  <2>7. LiveLanes(w) = {}
    <3>1. LiveLanes(w) \in SUBSET Threads
      BY DEF LiveLanes, LanesOf
    <3> QED BY <2>6, <3>1, ThreadSets DEF SweepInv
  <2> QED BY <2>5, <2>7 DEF LiveLanes
<1> QED BY <1>1, <1>2

\* What is settled stays so: nothing is taken out of ran or files.
LEMMA SettledStays ==
  ASSUME option' = option, ran \subseteq ran', files \subseteq files',
         NEW k, NEW c, Settled(k, c)
  PROVE  Settled(k, c)'
BY DEF Settled, Numbered, Single

\* A step of the main loop that writes nothing settles nothing.
LEMMA PassedOnly ==
  ASSUME SplitInv, UNCHANGED <<option, ran, files>>,
         \A k \in 1 .. Kernels, c \in Ctas :
           Passed(k, c)' => Passed(k, c) \/ Settled(k, c)
  PROVE  SplitInv'
<1>1. \A k \in 1 .. Kernels, c \in Ctas : Settled(k, c) => Settled(k, c)'
  BY SettledStays
<1>2. \A k \in 1 .. Kernels, c \in Ctas : Passed(k, c)' => Settled(k, c)'
  BY <1>1 DEF SplitInv
<1> QED BY <1>2 DEF SplitInv, Numbered, Single, Ctas

\* Every step settles the CTA it passes.
LEMMA SplitKeeps ==
  ASSUME SweepInv, CounterInv, SplitInv, [Next]_vars
  PROVE  SplitInv'
<1>1. CASE UNCHANGED <<option, uid, finished, launched, ran, files>>
  BY <1>1, PassedOnly DEF Passed, Over, Single
<1>2. CASE SkipCta
  <2>1. /\ nextCta \in Ctas /\ launched = Single(nextCta)
        /\ launched' = launched + 1 /\ launched \in Nat
    BY <1>2, NextCtaOrBeyond, CtaNumbers DEF SkipCta, CounterInv
  <2>2. option.on /\ uid = option.kernel /\ ~ launched < option.ctaT
    BY <1>2, OptionShape DEF SkipCta, Executes, CounterInv
  <2>3. \A c \in Ctas : Single(c) = launched => Settled(uid, c)
    BY <2>1, <2>2, OptionShape DEF Settled, Numbered
  <2>4. \A k \in 1 .. Kernels, c \in Ctas :
          Passed(k, c)' => Passed(k, c) \/ Settled(k, c)
    <3> SUFFICES ASSUME NEW k \in 1 .. Kernels, NEW c \in Ctas, Passed(k, c)',
                        ~ Passed(k, c)
                 PROVE  Settled(k, c)
      OBVIOUS
    <3>1. k = uid /\ Single(c) < launched + 1 /\ ~ Single(c) < launched
      BY <1>2, <2>1 DEF SkipCta, Passed, Over, Single
    <3>2. Single(c) \in Nat
      BY CtaNumbers
    <3> QED BY <2>1, <2>3, <3>1, <3>2
  <2> QED BY <1>2, <2>4, PassedOnly DEF SkipCta, fileVars
<1>3. CASE EndKernel
  <2>1. launched = Blocks /\ launched' = 0
    BY <1>3, NextCtaOrBeyond, NextCtaNumber DEF EndKernel, CounterInv
  <2>2. \A c \in Ctas : Single(c) \in Nat /\ Single(c) < launched
    BY <2>1, CtaNumbers, GridShape
  <2>3. ASSUME NEW k \in 1 .. Kernels, NEW c \in Ctas, Passed(k, c)'
        PROVE  Passed(k, c)
    <3>1. ~ Single(c)' < launched'
      BY <2>1, <2>2 DEF Single
    <3>2. Over(k)'
      BY <2>3, <3>1 DEF Passed
    <3>3. finished \in Seq(Nat) /\ uid \in Nat /\ finished' = Append(finished, uid)
      BY <1>3 DEF EndKernel, CounterInv
    <3>4. Over(k) \/ k = uid
      BY <3>2, <3>3 DEF Over
    <3> QED BY <2>2, <3>4 DEF Passed
  <2> QED BY <1>3, <2>3, PassedOnly DEF EndKernel, fileVars
<1>4. CASE EndCta
  <2>1. /\ ctaid \in Ctas /\ uid <= Kernels /\ Executes /\ running = Single(ctaid)
        /\ launched = running /\ Single(nextCta) = running + 1
        /\ launched' = launched + 1
    BY <1>4 DEF EndCta, LoopEnds, SweepOver, CounterInv
  <2>2. launched \in Nat /\ FileName = launched
    BY <2>1, CtaNumbers DEF FileName
  <2>3. /\ UNCHANGED <<option, uid, ctaid, finished>>
        /\ ran \subseteq ran' /\ files \subseteq files'
        /\ ran' \subseteq ran \cup {<<uid, ctaid>>}
        /\ files' \subseteq files
              \cup {[kernel |-> uid, name |-> launched, ctaid |-> ctaid]}
        /\ Checkpointed =>
             [kernel |-> uid, name |-> launched, ctaid |-> ctaid] \in files'
        /\ ~ Checkpointed => files' = files
    BY <1>4, <2>2 DEF EndCta
  <2>4. ~ Checkpointed => <<uid, ctaid>> \in ran'
    <3>1. ~ Checkpointed => ~ sweep.someOneLive /\ SweepOver
      BY <1>4 DEF EndCta, LoopEnds, CutOff
    <3>2. ~ Checkpointed => done = Threads
      BY <3>1, AllDone
    <3> QED BY <1>4, <3>2 DEF EndCta
  <2>5. /\ option.on => uid <= option.kernel
        /\ option.on /\ uid = option.kernel => launched < option.ctaT
    BY <2>1, OptionShape DEF Executes, CounterInv
  <2>6. Checkpointed <=> /\ option.on /\ uid = option.kernel
                         /\ Numbered(ctaid, option.cta, option.ctaT)
    BY <2>1 DEF Checkpointed, Numbered
  <2>7. Settled(uid, ctaid)'
    <3>1. CASE Checkpointed
      <4>1. ~ Numbered(ctaid, 0, option.cta)
        BY <2>1, <2>2, <2>6, <3>1, OptionShape DEF Numbered
      <4> QED BY <2>1, <2>3, <2>6, <3>1, <4>1 DEF Settled, Numbered, Single
    <3>2. CASE ~ Checkpointed
      <4>1. option.on /\ uid = option.kernel
              => ~ Numbered(ctaid, option.cta, option.ctaT)
        BY <2>6, <3>2
      <4> QED BY <2>3, <2>4, <3>2, <4>1 DEF Settled, Numbered, Single
    <3> QED BY <3>1, <3>2
  <2>8. ASSUME NEW k \in 1 .. Kernels, NEW c \in Ctas, Passed(k, c)'
        PROVE  Settled(k, c)'
    <3>1. CASE Passed(k, c)
      BY <2>3, <3>1, SettledStays DEF SplitInv
    <3>2. CASE ~ Passed(k, c)
      <4>1. k = uid /\ Single(c) < launched + 1 /\ ~ Single(c) < launched
        BY <2>1, <2>3, <2>8, <3>2 DEF Passed, Over, Single
      <4>2. Single(c) = Single(ctaid)
        BY <2>1, <2>2, <4>1, CtaNumbers
      <4>3. c = ctaid
        BY <2>1, <4>2, CtaNumbers
      <4>4. k = uid' /\ c = ctaid'
        BY <2>3, <4>1, <4>3
      <4> QED BY <2>7, <4>4 DEF Settled, Numbered, Single
    <3> QED BY <3>1, <3>2
  <2>9. ASSUME NEW f \in files'
        PROVE  /\ option.on /\ f.kernel = option.kernel /\ f.name = Single(f.ctaid)
               /\ Numbered(f.ctaid, option.cta, option.ctaT)
    <3>1. CASE f \in files
      BY <3>1 DEF SplitInv
    <3>2. CASE f \notin files
      <4>1. /\ Checkpointed
            /\ f = [kernel |-> uid, name |-> launched, ctaid |-> ctaid]
        BY <2>3, <2>9, <3>2
      <4>2. f.kernel = uid /\ f.name = launched /\ f.ctaid = ctaid
        BY <4>1
      <4> QED BY <2>1, <2>6, <4>1, <4>2
    <3> QED BY <3>1, <3>2
  <2>10. ASSUME NEW r \in ran', option.on, r[1] = option.kernel
         PROVE  Numbered(r[2], 0, option.ctaT)
    <3>1. CASE r \in ran
      BY <2>10, <3>1 DEF SplitInv
    <3>2. CASE r \notin ran
      <4>1. r[1] = uid /\ r[2] = ctaid
        BY <2>3, <2>10, <3>2
      <4> QED BY <2>1, <2>2, <2>5, <2>10, <4>1 DEF Numbered
    <3> QED BY <3>1, <3>2
  <2> QED BY <2>3, <2>8, <2>9, <2>10 DEF SplitInv, Numbered, Single, Ctas
<1>5. CASE StartCta \/ ExecuteWarp \/ NextSweep \/ Stop \/ UNCHANGED vars
  BY <1>1, <1>5 DEF StartCta, ExecuteWarp, NextSweep, Stop, vars, kernelVars,
     fileVars
<1> QED BY <1>2, <1>3, <1>4, <1>5 DEF Next, Step, Ended

\* Every step keeps to it.
LEMMA OriginKeeps ==
  ASSUME OriginInv, [Next]_vars
  PROVE  OriginInv'
<1>0. option' = option /\ Resumes' = Resumes /\ NoCta' = NoCta
  BY OptionStays DEF Resumes, NoCta, Blocks
<1>1. CASE StartCta
  <2>1. /\ UNCHANGED <<uid, ran, files>> /\ ctaid' = nextCta
        /\ resumed' = IF Resumes THEN resumed \cup {<<uid, nextCta>>} ELSE resumed
    BY <1>1 DEF StartCta
  <2> QED BY <1>0, <2>1 DEF OriginInv
<1>2. CASE EndCta
  <2>1. /\ running' = NoCta /\ running # NoCta /\ resumed' = resumed
        /\ ran' \subseteq ran \cup {<<uid, ctaid>>}
    BY <1>2 DEF EndCta, LoopEnds, SweepOver
  <2>2. ASSUME NEW f \in files', Resumes
        PROVE  <<f.kernel, f.ctaid>> \in resumed
    <3>1. CASE f \in files
      BY <2>2, <3>1 DEF OriginInv
    <3>2. CASE f \notin files
      <4>1. f = [kernel |-> uid, name |-> FileName, ctaid |-> ctaid]
        BY <1>2, <2>2, <3>2 DEF EndCta
      <4>2. f.kernel = uid /\ f.ctaid = ctaid
        BY <4>1
      <4> QED BY <2>1, <2>2, <4>2 DEF OriginInv
    <3> QED BY <3>1, <3>2
  <2>3. Resumes => ran' \subseteq resumed
    BY <2>1 DEF OriginInv
  <2> QED BY <1>0, <2>1, <2>2, <2>3 DEF OriginInv
<1>3. CASE SkipCta \/ EndKernel
  <2>1. running' = NoCta /\ UNCHANGED <<ran, files, resumed>>
    BY <1>3 DEF SkipCta, EndKernel, coreVars, fileVars
  <2> QED BY <1>0, <2>1 DEF OriginInv
<1>4. CASE ExecuteWarp \/ NextSweep \/ Stop \/ UNCHANGED vars
  <2>1. UNCHANGED <<uid, running, ctaid, ran, files, resumed>>
    BY <1>4 DEF ExecuteWarp, NextSweep, Stop, vars, kernelVars, coreVars, fileVars
  <2> QED BY <1>0, <2>1 DEF OriginInv
<1> QED BY <1>1, <1>2, <1>3, <1>4 DEF Next, Step, Ended

\* Of the checkpointed kernel the CTAs below checkpoint_CTA run to their end,
\* those up to checkpoint_CTA_t go to the files of their own number, where
\* issue_block2core looks for them, and the rest does not begin; every other
\* kernel runs all of its CTAs.  Each of them began at its own start, unless
\* checkpoint_CTA_t is 1: then each began where the files of CTA 0 left off.
THEOREM CheckpointsSplit == Spec => []CheckpointSplits
<1> DEFINE Inv == SweepInv /\ CounterInv /\ SplitInv /\ OriginInv
<1>1. Init => Inv
  <2> SUFFICES ASSUME Init PROVE Inv
    OBVIOUS
  <2>1. SweepInv
    BY InitSweep
  <2>2. CounterInv
    <3>1. 1 <= option.kernel /\ uid = 1 /\ finished = <<>>
      BY OptionAssumption DEF Init
    <3> QED BY <3>1, NextCtaNumber DEF Init, CounterInv
  <2>3. SplitInv
    <3>1. \A k \in 1 .. Kernels, c \in Ctas : ~ Passed(k, c)
      <4> SUFFICES ASSUME NEW k \in 1 .. Kernels, NEW c \in Ctas
                   PROVE  ~ Passed(k, c)
        OBVIOUS
      <4>1. Single(c) \in 0 .. Blocks - 1
        BY CtaNumbers
      <4>2. launched = 0 /\ DOMAIN finished = {}
        BY DEF Init
      <4> QED BY <4>1, <4>2 DEF Passed, Over
    <3> QED BY <3>1 DEF SplitInv, Init
  <2>4. OriginInv
    BY DEF Init, OriginInv
  <2> QED BY <2>1, <2>2, <2>3, <2>4
<1>2. Inv /\ [Next]_vars => Inv'
  BY StepKeeps, CounterKeeps, SplitKeeps, OriginKeeps
<1>3. Inv => CheckpointSplits
  <2>0. Inv => \A r \in ran \cup {<<f.kernel, f.ctaid>> : f \in files} :
                 r \in resumed <=> Resumes
    BY DEF OriginInv
  <2> SUFFICES ASSUME Inv, NEW k \in 1 .. Kernels,
                      NEW i \in DOMAIN finished, finished[i] = k
               PROVE  IF option.on /\ k = option.kernel
                      THEN /\ \A c \in Ctas :
                                /\ Numbered(c, 0, option.cta) => <<k, c>> \in ran
                                /\ Numbered(c, option.cta, option.ctaT)
                                     <=> [kernel |-> k, name |-> Single(c),
                                          ctaid |-> c] \in files
                                /\ <<k, c>> \in ran => Numbered(c, 0, option.ctaT)
                           /\ \A f \in files : f.kernel = k
                                               /\ f.name = Single(f.ctaid)
                      ELSE \A c \in Ctas : <<k, c>> \in ran
    BY <2>0 DEF CheckpointSplits
  <2>1. \A c \in Ctas : Settled(k, c)
    BY DEF SplitInv, Passed, Over
  <2>2. CASE option.on /\ k = option.kernel
    <3>1. ASSUME NEW c \in Ctas
          PROVE  /\ Numbered(c, 0, option.cta) => <<k, c>> \in ran
                 /\ Numbered(c, option.cta, option.ctaT)
                      => [kernel |-> k, name |-> Single(c), ctaid |-> c] \in files
      BY <2>1, <2>2 DEF Settled
    <3>2. ASSUME NEW c \in Ctas,
                 [kernel |-> k, name |-> Single(c), ctaid |-> c] \in files
          PROVE  Numbered(c, option.cta, option.ctaT)
      <4>1. PICK f : f = [kernel |-> k, name |-> Single(c), ctaid |-> c]
        OBVIOUS
      <4>2. f.ctaid = c /\ f \in files
        BY <3>2, <4>1
      <4> QED BY <4>2 DEF SplitInv
    <3>3. ASSUME NEW c \in Ctas, <<k, c>> \in ran
          PROVE  Numbered(c, 0, option.ctaT)
      BY <2>2, <3>3 DEF SplitInv
    <3>4. \A f \in files : f.kernel = k /\ f.name = Single(f.ctaid)
      BY <2>2 DEF SplitInv
    <3> QED BY <2>2, <3>1, <3>2, <3>3, <3>4
  <2>3. CASE ~ (option.on /\ k = option.kernel)
    <3>1. \A c \in Ctas : <<k, c>> \in ran
      BY <2>1, <2>3 DEF Settled
    <3> QED BY <2>3, <3>1
  <2> QED BY <2>2, <2>3
<1> QED BY <1>1, <1>2, <1>3, PTL DEF Spec
=============================================================================
