--------------------------- MODULE DispatchProofs ---------------------------
(***************************************************************************)
(* Theorems about KernelDispatch, for every number of clusters, cores and  *)
(* slots, every shape of the kernels and both modes of the cores.          *)
(***************************************************************************)
EXTENDS KernelDispatch, FiniteSetTheorems, SequenceTheorems, TLAPS

-----------------------------------------------------------------------------
(* Arithmetic.                                                             *)

\* Rows of n elements that start at multiples of n do not meet.
LEMMA RowsApart ==
  ASSUME NEW n \in Nat, NEW g \in Nat, NEW h \in Nat, g < h
  PROVE  g * n + n <= h * n
<1>1. PICK d \in Nat : h = g + 1 + d
  <2>1. h - g - 1 \in Nat /\ h = g + 1 + (h - g - 1)
    OBVIOUS
  <2> QED BY <2>1
<1>2. h * n = g * n + n + d * n
  BY <1>1
<1>3. d * n \in Nat /\ g * n \in Nat
  OBVIOUS
<1> QED BY <1>2, <1>3

\* A product grows with its factors.
LEMMA ProductGrows ==
  ASSUME NEW a \in Nat, NEW b \in Nat, NEW c \in Nat, NEW d \in Nat,
         a <= c, b <= d
  PROVE  a * b <= c * d
<1>1. PICK x \in Nat, y \in Nat : c = a + x /\ d = b + y
  <2>1. c - a \in Nat /\ d - b \in Nat /\ c = a + (c - a) /\ d = b + (d - b)
    OBVIOUS
  <2> QED BY <2>1
<1>2. c * d = a * b + a * y + x * b + x * y
  BY <1>1
<1>3. a * b \in Nat /\ a * y \in Nat /\ x * b \in Nat /\ x * y \in Nat
  OBVIOUS
<1> QED BY <1>2, <1>3

\* The place of element i of row h.
LEMMA RowOf ==
  ASSUME NEW n \in Nat \ {0}, NEW h \in Nat, NEW i \in 0 .. n - 1
  PROVE  (h * n + i) % n = i /\ (h * n + i) \div n = h
<1> DEFINE a == h * n + i
           q == a \div n
           m == a % n
<1>1. h * n \in Nat /\ a \in Nat
  OBVIOUS
<1>2. q \in Nat /\ m \in 0 .. n - 1 /\ a = q * n + m
  <2> HIDE DEF a
  <2> QED BY <1>1
<1>3. q = h
  <2>1. CASE q < h
    <3>1. q * n + n <= h * n
      BY <1>2, <2>1, RowsApart
    <3>2. q * n \in Nat
      BY <1>2
    <3> HIDE DEF q, m
    <3> QED BY <1>1, <1>2, <3>1, <3>2
  <2>2. CASE h < q
    <3>1. h * n + n <= q * n
      BY <1>2, <2>2, RowsApart
    <3>2. q * n \in Nat
      BY <1>2
    <3> HIDE DEF q, m
    <3> QED BY <1>1, <1>2, <3>1, <3>2
  <2> HIDE DEF q
  <2> QED BY <1>2, <2>1, <2>2
<1>4. m = i
  <2> HIDE DEF q, m
  <2> QED BY <1>1, <1>2, <1>3
<1> QED BY <1>3, <1>4

\* Whole rows and what is left of one.
LEMMA DivideRows ==
  ASSUME NEW a \in Nat, NEW n \in Nat \ {0}
  PROVE  \E q \in Nat : /\ q = a \div n /\ q * n \in Nat /\ q * n <= a
                        /\ a % n = 0 => a = q * n
<1> DEFINE q == a \div n
           m == a % n
<1>1. q \in Nat /\ m \in 0 .. n - 1 /\ a = q * n + m
  OBVIOUS
<1> HIDE DEF q, m
<1>2. q * n \in Nat
  BY <1>1
<1>3. q * n <= a /\ (m = 0 => a = q * n)
  BY <1>1, <1>2
<1> QED BY <1>1, <1>2, <1>3 DEF q, m

\* Rounding up to a multiple.
LEMMA RoundUpEffect ==
  ASSUME NEW n \in Nat, NEW unit \in Nat \ {0}
  PROVE  \E q \in Nat : /\ RoundUp(n, unit) = q * unit
                        /\ n <= RoundUp(n, unit)
                        /\ RoundUp(n, unit) < n + unit
                        /\ RoundUp(n, unit) \in Nat
                        /\ RoundUp(n, unit) \div unit = q
<1> DEFINE a == n + unit - 1
           q == a \div unit
           m == a % unit
<1>1. a \in Nat
  OBVIOUS
<1>2. q \in Nat /\ m \in 0 .. unit - 1 /\ a = q * unit + m
  <2> HIDE DEF a
  <2> QED BY <1>1
<1>3. RoundUp(n, unit) = q * unit
  BY DEF RoundUp
<1>4. q * unit \in Nat
  BY <1>2
<1>5. (q * unit) \div unit = q
  <2>1. 0 \in 0 .. unit - 1
    OBVIOUS
  <2>2. (q * unit + 0) \div unit = q
    BY <1>2, <2>1, RowOf
  <2>3. q * unit + 0 = q * unit
    BY <1>4
  <2> QED BY <2>2, <2>3
<1>6. n <= q * unit /\ q * unit < n + unit
  <2>1. n + unit - 1 = q * unit + m
    BY <1>2
  <2> HIDE DEF q, m, a
  <2> QED BY <1>2, <1>4, <2>1
<1> HIDE DEF q
<1> QED BY <1>2, <1>3, <1>4, <1>5, <1>6

\* A set of naturals that is not empty has a least element.
LEMMA MinOfNats ==
  ASSUME NEW S, S \subseteq Nat, S # {}
  PROVE  Min(S) \in S /\ \A y \in S : Min(S) <= y
<1>1. PICK x \in S : \A y \in S : ~(<<y, x>> \in OpToRel(<, Nat))
  BY WFMin, NatLessThanWellFounded
<1>2. \A y \in S : ~(y < x)
  BY <1>1, Zenon DEF OpToRel
<1>3. \A y \in S : x <= y
  BY <1>2
<1> QED BY <1>3 DEF Min

-----------------------------------------------------------------------------
(* What a core keeps.                                                      *)

Cores == [kernel : Kernels \cup {None}, owner : [HwCtas -> Kernels \cup {None}],
          active : [HwCtas -> SUBSET Nat], start : [HwCtas -> Nat],
          padded : Nat, threads : Int, smem : Int, regs : Int, ctas : Int,
          hwtid : SUBSET Nat]

\* A record with the fields of a core and nothing else.
Built(co) ==
  co = [kernel |-> co.kernel, owner |-> co.owner, active |-> co.active,
        start |-> co.start, padded |-> co.padded, threads |-> co.threads,
        smem |-> co.smem, regs |-> co.regs, ctas |-> co.ctas,
        hwtid |-> co.hwtid]

\* A shared core has the threads of its CTAs in the bitmap, which is how new
\* ones stay clear of them, and counts its CTAs; on a core of its own each slot
\* has a row of threads.
CoreOK(co) ==
  /\ co \in Cores
  /\ \A h \in Resident(co) : co.owner[h] \in Kernels
  /\ \A g, h \in Resident(co) :
       g # h => CtaThreads(co, g) \cap CtaThreads(co, h) = {}
  /\ \A h \in Resident(co) : WithinCore(co, h)
  /\ Concurrent => /\ \A h \in Resident(co) : CtaThreads(co, h) \subseteq co.hwtid
                   /\ co.ctas = ActiveCtas(co)
  /\ ~Concurrent => \A h \in Resident(co) :
       /\ co.owner[h] = co.kernel
       /\ co.padded = Padded(co.kernel)
       /\ co.start[h] = h * Padded(co.kernel)

\* The size of a CTA: whole warps, at least one.
LEMMA KernelSize ==
  ASSUME NEW k \in Kernels
  PROVE  /\ Padded(k) \in Nat \ {0} /\ Threads[k] \in Nat \ {0}
         /\ Threads[k] <= Padded(k)
         /\ WarpsPerCta(k) \in Nat \ {0}
         /\ Padded(k) = WarpsPerCta(k) * WarpSize
<1>1. Threads[k] \in Nat \ {0} /\ WarpSize \in Nat \ {0}
  BY ShapeAssumption
<1>2. PICK q \in Nat : /\ RoundUp(Threads[k], WarpSize) = q * WarpSize
                       /\ Threads[k] <= RoundUp(Threads[k], WarpSize)
                       /\ RoundUp(Threads[k], WarpSize) \in Nat
                       /\ RoundUp(Threads[k], WarpSize) \div WarpSize = q
  BY <1>1, RoundUpEffect
<1>3. Padded(k) = q * WarpSize /\ WarpsPerCta(k) = q
      /\ Threads[k] <= Padded(k) /\ Padded(k) \in Nat
  BY <1>2 DEF Padded, WarpsPerCta
<1>4. Padded(k) # 0
  BY <1>1, <1>3
<1>5. q # 0
  <2> SUFFICES ASSUME q = 0 PROVE FALSE
    OBVIOUS
  <2>1. q * WarpSize = 0
    BY <1>1
  <2> QED BY <1>3, <1>4, <2>1
<1> QED BY <1>1, <1>3, <1>4, <1>5

\* What a CTA needs is a number.
LEMMA NeedsAreNat ==
  ASSUME option \in Options, NEW k \in Kernels
  PROVE  SmemPerCta(k) \in Nat /\ RegsPerCta(k) \in Nat /\ SmemqBytes(k) \in Nat
<1>1. /\ option.rfqDepth \in Nat /\ option.smemqDepth \in Nat
      /\ SharedMem[k] \in Nat /\ Regs[k] \in Nat
      /\ WordsPerLane \in Nat /\ QueuesPerWarp \in Nat /\ ProducerWarps \in Nat
      /\ WarpSize \in Nat
  BY ShapeAssumption
<1>2. WarpsPerCta(k) \in Nat /\ Padded(k) \in Nat
  BY KernelSize
<1>3. Producers(k) \in Nat
  BY <1>1, <1>2 DEF Producers
<1>4. Queues \in Nat /\ PayloadWords \in Nat
  BY <1>1 DEF Queues, PayloadWords
<1>5. \A d \in Nat : QueueWords(k, d) \in Nat
  <2> TAKE d \in Nat
  <2>1. Producers(k) * Queues \in Nat
    BY <1>3, <1>4
  <2>2. Producers(k) * Queues * d \in Nat
    BY <2>1
  <2>3. Producers(k) * Queues * d * PayloadWords \in Nat
    BY <1>4, <2>2
  <2> QED BY <1>1, <2>3 DEF QueueWords
<1>6. RoundUp(Regs[k], 4) \in Nat
  BY <1>1, RoundUpEffect
<1>7. RfqRegs(k) \in Nat /\ SmemqBytes(k) \in Nat
  BY <1>1, <1>5 DEF RfqRegs, SmemqBytes
<1>8. Padded(k) * RoundUp(Regs[k], 4) \in Nat
  BY <1>2, <1>6
<1> QED BY <1>1, <1>7, <1>8 DEF SmemPerCta, RegsPerCta

\* Two rows of hardware threads do not meet.
LEMMA RangesApart ==
  ASSUME NEW n \in Nat, NEW g \in Nat, NEW h \in Nat, g # h
  PROVE  ThreadRange(g * n, n) \cap ThreadRange(h * n, n) = {}
<1>1. g * n \in Nat /\ h * n \in Nat
  OBVIOUS
<1>2. CASE g < h
  <2>1. g * n + n <= h * n
    BY <1>2, RowsApart
  <2> QED BY <1>1, <2>1 DEF ThreadRange
<1>3. CASE h < g
  <2>1. h * n + n <= g * n
    BY <1>3, RowsApart
  <2> QED BY <1>1, <2>1 DEF ThreadRange
<1> QED BY <1>2, <1>3

\* A core has finitely many CTAs, at most one per slot.
LEMMA ResidentFinite ==
  ASSUME NEW co
  PROVE  /\ IsFiniteSet(Resident(co)) /\ Resident(co) \subseteq HwCtas
         /\ ActiveCtas(co) \in Nat
         /\ IsFiniteSet(HwCtas) /\ Cardinality(HwCtas) = CoreCtas
<1>1. CoreCtas \in Nat \ {0} /\ CoreCtas - 1 \in Int
  BY ShapeAssumption
<1>2. IsFiniteSet(HwCtas) /\ Cardinality(HwCtas) = CoreCtas
  BY <1>1, FS_Interval DEF HwCtas
<1>3. Resident(co) \subseteq HwCtas
  BY DEF Resident
<1>4. IsFiniteSet(Resident(co))
  BY <1>2, <1>3, FS_Subset
<1> QED BY <1>2, <1>3, <1>4, FS_CardinalityType DEF ActiveCtas

\* max_cta never allows more CTAs than a core has slots or threads for.
LEMMA MaxCtaWithinSlots ==
  ASSUME option \in Options, l1.shmem \in Nat, NEW k \in Kernels
  PROVE  /\ MaxCta(k) \in Nat /\ MaxCta(k) <= CoreCtas
         /\ MaxCta(k) <= CoreThreads \div Padded(k)
         /\ Fitting(l1.shmem, k) \in Nat /\ MaxCta(k) <= Fitting(l1.shmem, k)
         /\ SmemPerCta(k) > 0 =>
              Fitting(l1.shmem, k) <= l1.shmem \div SmemPerCta(k)
         /\ RegsPerCta(k) > 0 =>
              Fitting(l1.shmem, k) <= CoreRegs \div RegsPerCta(k)
<1>1. /\ Padded(k) \in Nat \ {0} /\ SmemPerCta(k) \in Nat /\ RegsPerCta(k) \in Nat
      /\ CoreThreads \in Nat /\ CoreRegs \in Nat /\ CoreCtas \in Nat
      /\ NumCores \in Nat \ {0} /\ Blocks[k] \in Nat
  BY KernelSize, NeedsAreNat, ShapeAssumption
<1> PICK S : S = {CoreThreads \div Padded(k), CoreCtas} \cup
      (IF SmemPerCta(k) > 0 THEN {l1.shmem \div SmemPerCta(k)} ELSE {}) \cup
      (IF RegsPerCta(k) > 0 THEN {CoreRegs \div RegsPerCta(k)} ELSE {})
  OBVIOUS
<1>2. /\ S \subseteq Nat /\ CoreCtas \in S
      /\ CoreThreads \div Padded(k) \in Nat
  <2>1. CoreThreads \div Padded(k) \in Nat
    BY <1>1
  <2>2. SmemPerCta(k) > 0 => l1.shmem \div SmemPerCta(k) \in Nat
    BY <1>1
  <2>3. RegsPerCta(k) > 0 => CoreRegs \div RegsPerCta(k) \in Nat
    BY <1>1
  <2> QED BY <1>1, <2>1, <2>2, <2>3
<1> PICK fit : fit = Fitting(l1.shmem, k)
  OBVIOUS
<1>3. /\ fit \in Nat /\ fit <= CoreCtas /\ fit <= CoreThreads \div Padded(k)
      /\ SmemPerCta(k) > 0 => fit <= l1.shmem \div SmemPerCta(k)
      /\ RegsPerCta(k) > 0 => fit <= CoreRegs \div RegsPerCta(k)
  <2>1. fit = Min(S)
    BY DEF Fitting
  <2>2. fit \in S /\ \A y \in S : fit <= y
    BY <1>2, <2>1, MinOfNats
  <2> QED BY <1>2, <2>2
<1>4. CASE Blocks[k] < fit * NumCores
  <2>1. PICK q \in Nat : /\ RoundUp(Blocks[k], NumCores) = q * NumCores
                         /\ RoundUp(Blocks[k], NumCores) < Blocks[k] + NumCores
                         /\ RoundUp(Blocks[k], NumCores) \div NumCores = q
    BY <1>1, RoundUpEffect
  <2>2. q <= fit
    <3> SUFFICES ASSUME fit < q PROVE FALSE
      BY <1>3
    <3>1. fit * NumCores + NumCores <= q * NumCores
      BY <1>1, <1>3, RowsApart
    <3>2. fit * NumCores \in Nat /\ q * NumCores \in Nat
      BY <1>1, <1>3
    <3> QED BY <1>1, <1>4, <2>1, <3>1, <3>2
  <2>3. MaxCta(k) = q
    BY <1>4, <2>1 DEF MaxCta, MaxCtaUnder
  <2> QED BY <1>1, <1>3, <2>2, <2>3
<1>5. CASE ~(Blocks[k] < fit * NumCores)
  <2>1. MaxCta(k) = fit
    BY <1>5 DEF MaxCta, MaxCtaUnder
  <2> QED BY <1>3, <2>1
<1> QED BY <1>4, <1>5

\* The threads of a CTA of kernel k from first on are threads of the core, if
\* its size divides theirs or the core is its own.
InsideCore(k, first) ==
  (Concurrent => CoreThreads % Padded(k) = 0)
    => ThreadRange(first, Padded(k)) \subseteq 0 .. CoreThreads - 1

\* Core r is core co with a CTA of kernel k on the free slot h, its threads
\* from first on.
Placed(co, k, h, first, r) ==
  /\ h \in HwCtas \ Resident(co) /\ first \in Nat
  /\ Concurrent => ThreadRange(first, Padded(k)) \cap co.hwtid = {}
  /\ ~Concurrent => first = h * Padded(k)
  /\ InsideCore(k, first)
  /\ r \in Cores /\ r.kernel = co.kernel
  /\ \A x \in HwCtas :
       /\ r.owner[x] = IF x = h THEN k ELSE co.owner[x]
       /\ r.start[x] = IF x = h THEN first ELSE co.start[x]
       /\ r.active[x] = IF x = h THEN ThreadRange(first, Threads[k])
                                 ELSE co.active[x]
  /\ Concurrent => /\ r.hwtid = co.hwtid \cup ThreadRange(first, Padded(k))
                   /\ r.ctas = co.ctas + 1
                   /\ r.threads = co.threads + Padded(k)
                   /\ r.smem = co.smem + SmemPerCta(k)
                   /\ r.regs = co.regs + RegsPerCta(k)
  /\ ~Concurrent => r.padded = Padded(k)

\* A CTA put on a core stays clear of the others.
LEMMA PlacingKeepsCore ==
  ASSUME NEW co, CoreOK(co), NEW k \in Kernels, ~Concurrent => co.kernel = k,
         NEW h, NEW first, NEW r, Placed(co, k, h, first, r)
  PROVE  CoreOK(r)
<1> USE DEF Placed
<1>1. \A x \in Resident(r) : x = h \/ x \in Resident(co)
  BY DEF Resident
<1>2. Resident(r) \subseteq HwCtas /\ Resident(co) \subseteq HwCtas
      /\ HwCtas \subseteq Nat
  BY ShapeAssumption DEF Resident, HwCtas
<1>3. \A x \in Resident(r) : r.owner[x] \in Kernels
  BY <1>1, <1>2 DEF CoreOK
<1>4. \A x \in Resident(r) :
        CtaThreads(r, x) = IF x = h THEN ThreadRange(first, Padded(k))
                                    ELSE CtaThreads(co, x)
  BY <1>2 DEF CtaThreads
<1>0. ASSUME NEW x \in Resident(r) PROVE WithinCore(r, x)
  <2>1. CASE x = h
    BY <1>2, <1>4, <2>1 DEF WithinCore, InsideCore
  <2>2. CASE x # h
    <3>1. WithinCore(co, x) /\ r.owner[x] = co.owner[x]
      BY <1>1, <1>2, <2>2 DEF CoreOK
    <3> QED BY <1>4, <2>2, <3>1 DEF WithinCore
  <2> QED BY <2>1, <2>2
<1>5. CASE Concurrent
  <2>1. \A x \in Resident(r) : CtaThreads(r, x) \subseteq r.hwtid
    BY <1>1, <1>4, <1>5 DEF CoreOK
  <2>2. ASSUME NEW x \in Resident(r), NEW y \in Resident(r), x # y
        PROVE  CtaThreads(r, x) \cap CtaThreads(r, y) = {}
    <3>1. CASE x # h /\ y # h
      BY <1>1, <1>4, <2>2, <3>1 DEF CoreOK
    <3>2. CASE x = h
      <4>1. CtaThreads(co, y) \subseteq co.hwtid
        BY <1>1, <1>5, <2>2, <3>2 DEF CoreOK
      <4>2. /\ CtaThreads(r, h) = ThreadRange(first, Padded(k))
            /\ CtaThreads(r, y) = CtaThreads(co, y)
        BY <1>4, <2>2, <3>2
      <4> QED BY <1>5, <3>2, <4>1, <4>2, Zenon
    <3>3. CASE y = h
      <4>1. CtaThreads(co, x) \subseteq co.hwtid
        BY <1>1, <1>5, <2>2, <3>3 DEF CoreOK
      <4>2. /\ CtaThreads(r, h) = ThreadRange(first, Padded(k))
            /\ CtaThreads(r, x) = CtaThreads(co, x)
        BY <1>4, <2>2, <3>3
      <4> QED BY <1>5, <3>3, <4>1, <4>2, Zenon
    <3> QED BY <3>1, <3>2, <3>3
  <2>3. r.ctas = ActiveCtas(r)
    <3>1. Resident(r) = Resident(co) \cup {h}
      <4>1. ThreadRange(first, Threads[k]) # {}
        <5>1. first \in ThreadRange(first, Threads[k])
          BY KernelSize DEF ThreadRange
        <5> QED BY <5>1
      <4> QED BY <1>2, <4>1 DEF Resident
    <3>2. IsFiniteSet(Resident(co)) /\ h \notin Resident(co)
      BY ResidentFinite
    <3>3. Cardinality(Resident(r)) = Cardinality(Resident(co)) + 1
      BY <3>1, <3>2, FS_AddElement, ZenonT(60)
    <3> QED BY <1>5, <3>3 DEF ActiveCtas, CoreOK
  <2> QED BY <1>0, <1>3, <1>5, <2>1, <2>2, <2>3 DEF CoreOK
<1>6. CASE ~Concurrent
  <2>1. \A x \in Resident(r) :
          /\ r.owner[x] = r.kernel
          /\ r.padded = Padded(r.kernel)
          /\ r.start[x] = x * Padded(r.kernel)
    BY <1>1, <1>2, <1>6 DEF CoreOK
  <2>2. ASSUME NEW x \in Resident(r), NEW y \in Resident(r), x # y
        PROVE  CtaThreads(r, x) \cap CtaThreads(r, y) = {}
    <3>1. /\ CtaThreads(r, x) = ThreadRange(x * Padded(k), Padded(k))
          /\ CtaThreads(r, y) = ThreadRange(y * Padded(k), Padded(k))
      BY <1>6, <2>1 DEF CtaThreads
    <3>2. PICK n \in Nat : n = Padded(k)
      BY KernelSize
    <3>3. x \in Nat /\ y \in Nat
      BY <1>2
    <3>4. ThreadRange(x * n, n) \cap ThreadRange(y * n, n) = {}
      BY <2>2, <3>3, RangesApart
    <3> QED BY <3>1, <3>2, <3>4
  <2> QED BY <1>0, <1>3, <1>6, <2>1, <2>2 DEF CoreOK
<1> QED BY <1>5, <1>6

\* Rows of n threads, at most as many as there is room for, end in the core.
LEMMA RowsFit ==
  ASSUME NEW n \in Nat \ {0}, NEW q \in Nat, NEW m \in Nat,
         q * n <= m, NEW h \in Nat, h < q
  PROVE  ThreadRange(h * n, n) \subseteq 0 .. m - 1
<1>1. h * n + n <= q * n
  BY RowsApart
<1>2. h * n \in Nat /\ q * n \in Nat
  OBVIOUS
<1> PICK a \in Nat : a = h * n
  BY <1>2
<1> PICK b \in Nat : b = q * n
  BY <1>2
<1>3. a + n <= m
  BY <1>1
<1> QED BY <1>3 DEF ThreadRange

\* So do rows counted by a division,
LEMMA RowInside ==
  ASSUME NEW n \in Nat \ {0}, NEW m \in Nat, NEW h \in Nat, NEW most \in Nat,
         h < most, most <= m \div n
  PROVE  ThreadRange(h * n, n) \subseteq 0 .. m - 1
<1>1. PICK q \in Nat : q = m \div n /\ q * n \in Nat /\ q * n <= m
  BY DivideRows
<1>2. h < q
  BY <1>1
<1> QED BY <1>1, <1>2, RowsFit

\* and what begins at a multiple of n, if n divides the threads.
LEMMA MultipleInside ==
  ASSUME NEW n \in Nat \ {0}, NEW m \in Nat, NEW s \in Nat,
         m % n = 0, s % n = 0, s < m
  PROVE  ThreadRange(s, n) \subseteq 0 .. m - 1
<1>1. PICK q \in Nat : m = q * n
  BY DivideRows
<1>2. PICK h \in Nat : s = h * n
  BY DivideRows
<1>3. h < q
  <2> SUFFICES ASSUME q <= h PROVE FALSE
    OBVIOUS
  <2>1. q * n <= h * n
    BY ProductGrows
  <2> QED BY <1>1, <1>2, <2>1
<1>4. q * n <= m
  BY <1>1
<1> QED BY <1>2, <1>3, <1>4, RowsFit

\* issue_block2core takes the threads of a row max_cta has counted, or a free
\* range that begins in the core at a multiple of the size.
LEMMA RangeInside ==
  ASSUME option \in Options, l1.shmem \in Nat, NEW k \in Kernels, NEW first \in Nat,
         Concurrent => first < CoreThreads /\ first % Padded(k) = 0,
         ~Concurrent => \E h \in Nat : h < MaxCta(k) /\ first = h * Padded(k)
  PROVE  InsideCore(k, first)
<1>1. Padded(k) \in Nat \ {0} /\ CoreThreads \in Nat
  BY KernelSize, ShapeAssumption
<1>2. ASSUME Concurrent, CoreThreads % Padded(k) = 0
      PROVE  ThreadRange(first, Padded(k)) \subseteq 0 .. CoreThreads - 1
  <2>1. first < CoreThreads /\ first % Padded(k) = 0
    BY <1>2
  <2> QED BY <1>1, <1>2, <2>1, MultipleInside
<1>3. ASSUME ~Concurrent
      PROVE  ThreadRange(first, Padded(k)) \subseteq 0 .. CoreThreads - 1
  <2>1. PICK h \in Nat : h < MaxCta(k) /\ first = h * Padded(k)
    BY <1>3
  <2>2. MaxCta(k) \in Nat /\ MaxCta(k) <= CoreThreads \div Padded(k)
    BY MaxCtaWithinSlots
  <2>3. ThreadRange(h * Padded(k), Padded(k)) \subseteq 0 .. CoreThreads - 1
    BY <1>1, <2>1, <2>2, RowInside
  <2> QED BY <2>1, <2>3
<1> QED BY <1>2, <1>3 DEF InsideCore

\* issue_block2core puts a CTA on a free slot of the core.
LEMMA IssuePlacesCta ==
  ASSUME option \in Options, l1.shmem \in Nat, NEW co, CoreOK(co), NEW k \in Kernels,
         ~Concurrent => co.kernel = k,
         Concurrent => FreeStarts(co, Padded(k)) # {},
         FreeSlots(co, k) # {}
  PROVE  \E h, first : Placed(co, k, h, first, IssueBlock(co, k))
<1> DEFINE size == Padded(k)
           need == SmemPerCta(k)
           regs == RegsPerCta(k)
<1>1. /\ size \in Nat \ {0} /\ Threads[k] \in Nat /\ need \in Nat /\ regs \in Nat
  BY KernelSize, NeedsAreNat
<1>2. co \in Cores
  BY DEF CoreOK
<1>3. PICK h \in HwCtas \ Resident(co) :
        /\ h = Min(FreeSlots(co, k))
        /\ ~Concurrent => h < MaxCta(k)
  <2>1. /\ FreeSlots(co, k) \subseteq HwCtas \ Resident(co)
        /\ HwCtas \subseteq Nat
    BY ShapeAssumption DEF FreeSlots, HwCtas
  <2>2. Min(FreeSlots(co, k)) \in FreeSlots(co, k)
    BY <2>1, MinOfNats
  <2> QED BY <2>1, <2>2 DEF FreeSlots
<1>4. h \in Nat
  BY ShapeAssumption DEF HwCtas
<1>5. PICK first \in Nat :
        /\ first = IF Concurrent THEN Min(FreeStarts(co, size)) ELSE h * size
        /\ Concurrent => /\ ThreadRange(first, size) \cap co.hwtid = {}
                         /\ first < CoreThreads /\ first % size = 0
  <2>1. CASE Concurrent
    <3>1. FreeStarts(co, size) \subseteq Nat /\ FreeStarts(co, size) # {}
      BY <2>1, ShapeAssumption DEF FreeStarts
    <3>2. Min(FreeStarts(co, size)) \in FreeStarts(co, size)
      BY <3>1, MinOfNats
    <3> HIDE DEF size
    <3> PICK s : s = Min(FreeStarts(co, size))
      OBVIOUS
    <3>3. /\ s \in 0 .. CoreThreads - 1 /\ s % size = 0
          /\ ThreadRange(s, size) \cap co.hwtid = {}
      BY <3>2 DEF FreeStarts
    <3>4. s \in Nat /\ s < CoreThreads
      BY <3>3, ShapeAssumption
    <3> QED BY <2>1, <3>3, <3>4
  <2>2. CASE ~Concurrent
    <3>1. h * size \in Nat
      BY <1>1, <1>4
    <3> QED BY <2>2, <3>1
  <2> QED BY <2>1, <2>2
<1>0. InsideCore(k, first)
  BY <1>3, <1>4, <1>5, RangeInside
<1> DEFINE range == ThreadRange(first, size)
           actives == ThreadRange(first, Threads[k])
           onto == [co EXCEPT !.owner[h] = k, !.start[h] = first,
                              !.active[h] = actives]
<1>6. range \in SUBSET Nat /\ actives \in SUBSET Nat
  BY <1>1 DEF ThreadRange
<1> PICK b : b = onto
  OBVIOUS
<1>7. /\ b \in Cores
      /\ b.kernel = co.kernel /\ b.hwtid = co.hwtid /\ b.ctas = co.ctas
      /\ b.threads = co.threads /\ b.smem = co.smem /\ b.regs = co.regs
      /\ \A x \in HwCtas :
           /\ b.owner[x] = IF x = h THEN k ELSE co.owner[x]
           /\ b.start[x] = IF x = h THEN first ELSE co.start[x]
           /\ b.active[x] = IF x = h THEN actives ELSE co.active[x]
  <2>1. /\ co.owner \in [HwCtas -> Kernels \cup {None}]
        /\ co.start \in [HwCtas -> Nat]
        /\ co.active \in [HwCtas -> SUBSET Nat]
    BY <1>2 DEF Cores
  <2>2. /\ b.owner = [co.owner EXCEPT ![h] = k]
        /\ b.start = [co.start EXCEPT ![h] = first]
        /\ b.active = [co.active EXCEPT ![h] = actives]
        /\ b.kernel = co.kernel /\ b.hwtid = co.hwtid /\ b.ctas = co.ctas
        /\ b.threads = co.threads /\ b.smem = co.smem /\ b.regs = co.regs
        /\ b.padded = co.padded
        /\ Built(b)
    <3> HIDE DEF actives
    <3> QED BY <1>2 DEF Cores, Built
  <2>3. /\ b.owner \in [HwCtas -> Kernels \cup {None}]
        /\ b.start \in [HwCtas -> Nat]
        /\ b.active \in [HwCtas -> SUBSET Nat]
    <3> HIDE DEF actives
    <3> QED BY <1>6, <2>1, <2>2
  <2>4. b \in Cores
    BY <1>2, <2>2, <2>3 DEF Cores, Built
  <2> HIDE DEF actives
  <2> QED BY <2>1, <2>2, <2>4
<1> PICK r : r = IF Concurrent
                 THEN [b EXCEPT !.threads = @ + size, !.smem = @ + need,
                                !.regs = @ + regs, !.ctas = @ + 1,
                                !.hwtid = @ \cup range]
                 ELSE [b EXCEPT !.padded = size]
  OBVIOUS
<1>8. /\ r \in Cores
      /\ r.kernel = b.kernel /\ r.owner = b.owner /\ r.start = b.start
      /\ r.active = b.active
      /\ Concurrent => /\ r.hwtid = b.hwtid \cup range /\ r.ctas = b.ctas + 1
                       /\ r.threads = b.threads + size
                       /\ r.smem = b.smem + need /\ r.regs = b.regs + regs
      /\ ~Concurrent => r.padded = size
  <2>1. CASE Concurrent
    <3>1. /\ Built(r)
          /\ r.kernel = b.kernel /\ r.owner = b.owner /\ r.start = b.start
          /\ r.active = b.active /\ r.padded = b.padded
          /\ r.hwtid = b.hwtid \cup range /\ r.ctas = b.ctas + 1
          /\ r.threads = b.threads + size /\ r.smem = b.smem + need
          /\ r.regs = b.regs + regs
      <4> HIDE DEF range, size, need, regs
      <4> QED BY <1>7, <2>1, ZenonT(60) DEF Cores, Built
    <3>2. /\ b.hwtid \in SUBSET Nat /\ b.ctas \in Int /\ b.threads \in Int
          /\ b.smem \in Int /\ b.regs \in Int
      BY <1>7 DEF Cores
    <3>3. /\ r.hwtid \in SUBSET Nat /\ r.ctas \in Int /\ r.threads \in Int
          /\ r.smem \in Int /\ r.regs \in Int
      <4> HIDE DEF range, size, need, regs
      <4> QED BY <1>1, <1>6, <3>1, <3>2
    <3>4. r \in Cores
      BY <1>7, <3>1, <3>3 DEF Cores, Built
    <3> QED BY <2>1, <3>1, <3>4
  <2>2. CASE ~Concurrent
    <3>1. /\ Built(r)
          /\ r.kernel = b.kernel /\ r.owner = b.owner /\ r.start = b.start
          /\ r.active = b.active /\ r.padded = size
          /\ r.hwtid = b.hwtid /\ r.ctas = b.ctas
          /\ r.threads = b.threads /\ r.smem = b.smem /\ r.regs = b.regs
      <4> HIDE DEF range, size, need, regs
      <4> QED BY <1>7, <2>2 DEF Cores, Built
    <3>2. r \in Cores
      BY <1>1, <1>7, <3>1, ZenonT(60) DEF Cores, Built
    <3> QED BY <2>2, <3>1, <3>2
  <2> QED BY <2>1, <2>2
<1>9. r = IssueBlock(co, k)
  <2> HIDE DEF actives, range
  <2>1. r = IF Concurrent
            THEN [onto EXCEPT !.threads = @ + size, !.smem = @ + need,
                              !.regs = @ + regs, !.ctas = @ + 1,
                              !.hwtid = @ \cup range]
            ELSE [onto EXCEPT !.padded = size]
    BY <1>7, <1>8
  <2> QED BY <1>3, <1>5, <2>1 DEF IssueBlock, SetMaxCta, actives, range
<1>10. Placed(co, k, h, first, r)
  <2>1. \A x \in HwCtas :
          /\ r.owner[x] = IF x = h THEN k ELSE co.owner[x]
          /\ r.start[x] = IF x = h THEN first ELSE co.start[x]
          /\ r.active[x] = IF x = h THEN ThreadRange(first, Threads[k])
                                    ELSE co.active[x]
    BY <1>7, <1>8
  <2>2. r \in Cores /\ r.kernel = co.kernel
    BY <1>7, <1>8
  <2>3. /\ Concurrent => ThreadRange(first, Padded(k)) \cap co.hwtid = {}
        /\ ~Concurrent => first = h * Padded(k)
    BY <1>5
  <2>4. /\ Concurrent => /\ r.hwtid = co.hwtid \cup ThreadRange(first, Padded(k))
                         /\ r.ctas = co.ctas + 1
                         /\ r.threads = co.threads + Padded(k)
                         /\ r.smem = co.smem + SmemPerCta(k)
                         /\ r.regs = co.regs + RegsPerCta(k)
        /\ ~Concurrent => r.padded = Padded(k)
    <3> HIDE DEF size, need, regs
    <3>1. range = ThreadRange(first, Padded(k))
      BY DEF size
    <3> HIDE DEF range
    <3> QED BY <1>7, <1>8, <3>1 DEF size, need, regs
  <2>5. h \in HwCtas \ Resident(co) /\ first \in Nat /\ k \in Kernels
        /\ CoreOK(co) /\ option \in Options /\ InsideCore(k, first)
    BY <1>0, <1>3, <1>5
  <2> HIDE DEF onto, range, actives, size, need, regs
  <2> QED BY <2>1, <2>2, <2>3, <2>4, <2>5 DEF Placed
<1> QED BY <1>9, <1>10

\* issue_block2core keeps the core in order.
LEMMA IssueKeepsCore ==
  ASSUME option \in Options, l1.shmem \in Nat, NEW co, CoreOK(co), NEW k \in Kernels,
         ~Concurrent => co.kernel = k,
         Concurrent => FreeStarts(co, Padded(k)) # {},
         FreeSlots(co, k) # {}
  PROVE  CoreOK(IssueBlock(co, k))
<1>1. PICK h, first : Placed(co, k, h, first, IssueBlock(co, k))
  BY IssuePlacesCta
<1> PICK r : r = IssueBlock(co, k)
  OBVIOUS
<1>2. CoreOK(r)
  BY <1>1, PlacingKeepsCore
<1> QED BY <1>2

\* Core r is core co without its CTA on slot h.
Leaves(co, h, r) ==
  /\ CoreOK(r) /\ Resident(r) = Resident(co) \ {h}
  /\ r.owner = co.owner /\ r.start = co.start /\ r.kernel \in {None, co.kernel}
  /\ Concurrent => /\ r.hwtid = co.hwtid \ CtaThreads(co, h)
                   /\ r.threads = co.threads - Padded(co.owner[h])
                   /\ r.smem = co.smem - SmemPerCta(co.owner[h])
                   /\ r.regs = co.regs - RegsPerCta(co.owner[h])

\* A warp of a CTA has left its core: the CTA stays, or it goes and gives back
\* what it had.
LEMMA ReclaimKeepsCore ==
  ASSUME option \in Options, NEW co, CoreOK(co), NEW h \in HwCtas,
         NEW w \in WarpsOf(co, h), NEW after, after = ExitWarp(co, h, w)
  PROVE  /\ h \in Resident(co) /\ co.owner[h] \in Kernels
         /\ after.active[h] # {} =>
              /\ CoreOK(after) /\ Resident(after) = Resident(co)
              /\ after.owner = co.owner /\ after.kernel = co.kernel
              /\ after.start = co.start /\ after.hwtid = co.hwtid
              /\ after.threads = co.threads /\ after.smem = co.smem
              /\ after.regs = co.regs
         /\ after.active[h] = {} => Leaves(co, h, ReleaseBlock(Unbound(after), h))
<1>1. co \in Cores /\ h \in Resident(co) /\ co.owner[h] \in Kernels
  BY DEF CoreOK, WarpsOf, Resident
<1>2. /\ Built(after)
      /\ after.active = [co.active EXCEPT ![h] = @ \ WarpThreads(w)]
      /\ after.kernel = co.kernel /\ after.owner = co.owner
      /\ after.start = co.start /\ after.padded = co.padded
      /\ after.threads = co.threads /\ after.smem = co.smem
      /\ after.regs = co.regs /\ after.ctas = co.ctas
      /\ after.hwtid = co.hwtid
  BY <1>1 DEF ExitWarp, Cores, Built
<1>3. /\ \A x \in HwCtas : x # h => after.active[x] = co.active[x]
      /\ after.active \in [HwCtas -> SUBSET Nat]
  <2>1. co.active \in [HwCtas -> SUBSET Nat]
    BY <1>1 DEF Cores
  <2> QED BY <1>2, <2>1
<1>4. after \in Cores
  BY <1>1, <1>2, <1>3 DEF Cores, Built
<1>5. CASE after.active[h] # {}
  <2>1. Resident(after) = Resident(co)
    BY <1>1, <1>3, <1>5 DEF Resident
  <2>2. \A x : CtaThreads(after, x) = CtaThreads(co, x)
    BY <1>2 DEF CtaThreads
  <2>3. CoreOK(after)
    BY <1>2, <1>4, <2>1, <2>2 DEF CoreOK, ActiveCtas, WithinCore
  <2> QED BY <1>1, <1>2, <1>5, <2>1, <2>3
<1>6. CASE after.active[h] = {}
  <2> PICK u : u = Unbound(after)
    OBVIOUS
  <2>1. /\ u \in Cores /\ Built(u)
        /\ u.kernel = IF Drained(after) THEN None ELSE co.kernel
        /\ u.owner = co.owner /\ u.start = co.start /\ u.active = after.active
        /\ u.padded = co.padded /\ u.threads = co.threads /\ u.smem = co.smem
        /\ u.regs = co.regs /\ u.ctas = co.ctas /\ u.hwtid = co.hwtid
    <3>1. CASE Drained(after)
      <4>1. u = [after EXCEPT !.kernel = None]
        BY <3>1 DEF Unbound
      <4>2. /\ Built(u) /\ u.kernel = None
            /\ u.owner = after.owner /\ u.start = after.start
            /\ u.active = after.active /\ u.padded = after.padded
            /\ u.threads = after.threads /\ u.smem = after.smem
            /\ u.regs = after.regs /\ u.ctas = after.ctas
            /\ u.hwtid = after.hwtid
        BY <1>4, <4>1 DEF Cores, Built
      <4>3. u \in Cores
        BY <1>4, <4>2 DEF Cores, Built
      <4> QED BY <1>2, <3>1, <4>2, <4>3
    <3>2. CASE ~Drained(after)
      <4>1. u = after
        BY <3>2 DEF Unbound
      <4> QED BY <1>2, <1>4, <3>2, <4>1
    <3> QED BY <3>1, <3>2
  <2>2. Resident(u) = Resident(co) \ {h}
    BY <1>3, <1>6, <2>1 DEF Resident
  <2>3. \A x : CtaThreads(u, x) = CtaThreads(co, x)
    BY <2>1 DEF CtaThreads
  <2>4. CASE Concurrent
    <3> DEFINE k == co.owner[h]
    <3>1. /\ Padded(k) \in Nat /\ SmemPerCta(k) \in Nat /\ RegsPerCta(k) \in Nat
      BY <1>1, KernelSize, NeedsAreNat
    <3> PICK r : r = ReleaseBlock(u, h)
      OBVIOUS
    <3>2. r = [u EXCEPT !.threads = @ - Padded(k), !.smem = @ - SmemPerCta(k),
                        !.regs = @ - RegsPerCta(k), !.ctas = @ - 1,
                        !.hwtid = @ \ CtaThreads(co, h)]
      BY <2>1, <2>4 DEF ReleaseBlock, CtaThreads
    <3>3. /\ Built(r)
          /\ r.kernel = u.kernel /\ r.owner = u.owner /\ r.start = u.start
          /\ r.active = u.active /\ r.padded = u.padded
          /\ r.hwtid = u.hwtid \ CtaThreads(co, h) /\ r.ctas = u.ctas - 1
          /\ r.threads = u.threads - Padded(k)
          /\ r.smem = u.smem - SmemPerCta(k)
          /\ r.regs = u.regs - RegsPerCta(k)
      <4> HIDE DEF k
      <4> QED BY <2>1, <3>2, ZenonT(60) DEF Cores, Built
    <3>4. /\ r.hwtid \in SUBSET Nat /\ r.ctas \in Int /\ r.threads \in Int
          /\ r.smem \in Int /\ r.regs \in Int
      <4>1. /\ u.hwtid \in SUBSET Nat /\ u.ctas \in Int /\ u.threads \in Int
            /\ u.smem \in Int /\ u.regs \in Int
        BY <2>1 DEF Cores
      <4> HIDE DEF k
      <4> QED BY <3>1, <3>3, <4>1
    <3>5. r \in Cores
      BY <2>1, <3>3, <3>4 DEF Cores, Built
    <3>6. /\ Resident(r) = Resident(co) \ {h}
          /\ \A x : CtaThreads(r, x) = CtaThreads(co, x)
      BY <2>1, <2>2, <3>3 DEF Resident, CtaThreads
    <3>7. ASSUME NEW x \in Resident(r)
          PROVE  CtaThreads(r, x) \subseteq r.hwtid
      <4>1. /\ CtaThreads(co, x) \subseteq co.hwtid
            /\ CtaThreads(co, x) \cap CtaThreads(co, h) = {}
        BY <1>1, <2>4, <3>6, <3>7 DEF CoreOK
      <4> QED BY <2>1, <3>3, <3>6, <4>1
    <3>8. r.ctas = ActiveCtas(r)
      <4>1. Cardinality(Resident(r)) = Cardinality(Resident(co)) - 1
        BY <1>1, <3>6, ResidentFinite, FS_RemoveElement
      <4>2. co.ctas = Cardinality(Resident(co))
        BY <2>4 DEF CoreOK, ActiveCtas
      <4> QED BY <2>1, <3>3, <4>1, <4>2 DEF ActiveCtas
    <3>9. /\ \A x \in Resident(r) : r.owner[x] \in Kernels /\ WithinCore(r, x)
          /\ \A x, y \in Resident(r) :
               x # y => CtaThreads(r, x) \cap CtaThreads(r, y) = {}
      BY <2>1, <3>3, <3>6 DEF CoreOK, WithinCore
    <3>10. CoreOK(r)
      BY <2>4, <3>5, <3>7, <3>8, <3>9 DEF CoreOK
    <3>11. /\ r.owner = co.owner /\ r.start = co.start
           /\ r.kernel \in {None, co.kernel}
           /\ r.hwtid = co.hwtid \ CtaThreads(co, h)
           /\ r.threads = co.threads - Padded(k)
           /\ r.smem = co.smem - SmemPerCta(k)
           /\ r.regs = co.regs - RegsPerCta(k)
      <4> HIDE DEF k
      <4> QED BY <2>1, <3>3
    <3>12. Leaves(co, h, r)
      BY <3>6, <3>10, <3>11 DEF Leaves
    <3> QED BY <1>1, <1>6, <3>12
  <2>5. CASE ~Concurrent
    <3>1. ReleaseBlock(u, h) = u
      BY <2>5 DEF ReleaseBlock
    <3>2. \A x \in Resident(u) : u.kernel = co.kernel
      <4>1. Resident(u) = Resident(after)
        BY <2>1 DEF Resident
      <4> QED BY <2>1, <4>1 DEF Drained
    <3>3. \A x \in Resident(u) : /\ u.owner[x] \in Kernels
                                 /\ u.owner[x] = u.kernel
                                 /\ u.padded = Padded(u.kernel)
                                 /\ u.start[x] = x * Padded(u.kernel)
      BY <2>1, <2>2, <2>5, <3>2 DEF CoreOK
    <3>4. /\ \A x, y \in Resident(u) :
               x # y => CtaThreads(u, x) \cap CtaThreads(u, y) = {}
          /\ \A x \in Resident(u) : WithinCore(u, x)
      BY <2>1, <2>2, <2>3 DEF CoreOK, WithinCore
    <3>5. CoreOK(u)
      BY <2>1, <2>5, <3>3, <3>4 DEF CoreOK
    <3>6. Leaves(co, h, u)
      BY <2>1, <2>2, <2>5, <3>5 DEF Leaves
    <3> QED BY <1>1, <1>6, <3>1, <3>6
  <2> QED BY <2>4, <2>5
<1> QED BY <1>5, <1>6

\* Whenever can_issue_1block agrees there is a free slot.
LEMMA SlotWhenAdmitted ==
  ASSUME option \in Options, l1.shmem \in Nat, NEW co, CoreOK(co),
         NEW k \in Kernels, CanIssue1Block(co, k)
  PROVE  FreeSlots(co, k) # {}
<1> PICK R : R = Resident(co)
  OBVIOUS
<1>1. /\ IsFiniteSet(R) /\ R \subseteq HwCtas /\ Cardinality(R) \in Nat
      /\ CoreCtas \in Nat
  BY ResidentFinite, ShapeAssumption DEF ActiveCtas
<1>2. ASSUME NEW n \in Nat, n <= CoreCtas, Cardinality(R) < n
      PROVE  \E h \in HwCtas \ R : h < n
  <2> SUFFICES ASSUME \A h \in HwCtas \ R : ~(h < n) PROVE FALSE
    OBVIOUS
  <2>1. 0 .. n - 1 \subseteq R
    BY <1>1, <1>2 DEF HwCtas
  <2>2. Cardinality(0 .. n - 1) = n
    <3>1. n - 1 \in Int /\ 0 \in Int
      OBVIOUS
    <3>2. Cardinality(0 .. n - 1) = IF 0 > n - 1 THEN 0 ELSE n - 1 - 0 + 1
      BY <3>1, FS_Interval
    <3> QED BY <3>2
  <2>3. Cardinality(0 .. n - 1) <= Cardinality(R)
    BY <1>1, <2>1, FS_Subset
  <2> QED BY <1>1, <1>2, <2>2, <2>3
<1>3. CASE Concurrent
  <2>1. Cardinality(R) < CoreCtas
    BY <1>1, <1>3 DEF CanIssue1Block, HasRoom, CoreOK, ActiveCtas
  <2>2. \E h \in HwCtas \ R : h < CoreCtas
    BY <1>1, <1>2, <2>1
  <2> QED BY <1>3, <2>2 DEF FreeSlots
<1>4. CASE ~Concurrent
  <2>1. Cardinality(R) < MaxCta(k)
    BY <1>4 DEF CanIssue1Block, ActiveCtas
  <2>2. \E h \in HwCtas \ R : h < MaxCta(k)
    BY <1>2, <2>1, MaxCtaWithinSlots
  <2> QED BY <1>4, <2>2 DEF FreeSlots
<1> QED BY <1>3, <1>4

-----------------------------------------------------------------------------
(* The inductive invariant.                                                *)

\* Every core is in order, select_kernel's slot exists, and max_cta divides a
\* shared memory size.
DInv ==
  /\ option \in Options
  /\ "shmem" \in DOMAIN l1 /\ l1.shmem \in Nat
  /\ running \in [SlotIds -> Kernels \cup {None}]
  /\ lastKernel \in SlotIds
  /\ core \in [CoreIds -> Cores]
  /\ \A c \in CoreIds : CoreOK(core[c])

\* A core without CTAs is in order whatever it is bound to.
LEMMA EmptyIsOK ==
  ASSUME NEW co \in Cores, Resident(co) = {}, Concurrent => co.ctas = 0
  PROVE  CoreOK(co)
BY FS_EmptySet DEF CoreOK, ActiveCtas

\* A cache configuration has a shared memory size.
LEMMA ConfiguredSize ==
  ASSUME option \in Options, NEW p \in FuncCaches
  PROVE  /\ "shmem" \in DOMAIN ChangeCacheConfig(option.shmem, p)
         /\ ChangeCacheConfig(option.shmem, p).shmem \in Nat
<1>1. option.shmem \in SizesOf
  BY ShapeAssumption
<1>2. option.shmem \in [FuncCaches -> Nat]
  BY <1>1 DEF SizesOf
<1>3. "prefer none" \in FuncCaches
  BY DEF FuncCaches
<1> QED BY <1>2, <1>3 DEF ChangeCacheConfig

\* What a kernel is launched with is one of the preferences.
LEMMA PreferenceIsOne == ASSUME NEW k PROVE PreferenceOf(k) \in FuncCaches
<1>1. "prefer none" \in FuncCaches
  BY DEF FuncCaches
<1>2. k \in DOMAIN Preference => Preference[k] \in FuncCaches
  BY ShapeAssumption DEF Range
<1> QED BY <1>1, <1>2 DEF PreferenceOf

\* A carve-out leaves the shared memory size.
LEMMA CarveKeepsSize ==
  ASSUME DInv, NEW k, NEW bytes
  PROVE  /\ "shmem" \in DOMAIN Carve(l1, k, bytes)
         /\ Carve(l1, k, bytes).shmem \in Nat
BY DEF DInv, Carve

\* At the start every core is empty.
LEMMA InitDInv == Init => DInv
<1> SUFFICES ASSUME Init PROVE DInv
  OBVIOUS
<1>1. option \in Options /\ "prefer none" \in FuncCaches
  BY DEF Init, FuncCaches
<1>2. "shmem" \in DOMAIN l1 /\ l1.shmem \in Nat
  BY <1>1, ConfiguredSize DEF Init
<1>3. running \in [SlotIds -> Kernels \cup {None}] /\ lastKernel \in SlotIds
  <2>1. 0 \in SlotIds
    BY DispatchAssumption DEF SlotIds
  <2>2. running = [n \in SlotIds |-> None] /\ lastKernel = 0
    BY DEF Init
  <2> QED BY <2>1, <2>2
<1>4. ASSUME NEW g \in Garbage
      PROVE  EmptyCore(g) \in Cores /\ CoreOK(EmptyCore(g))
  <2>1. g \in Nat
    BY ShapeAssumption
  <2>2. EmptyCore(g) \in Cores
    BY <2>1 DEF EmptyCore, Cores
  <2>3. Resident(EmptyCore(g)) = {} /\ EmptyCore(g).ctas = 0
    BY DEF EmptyCore, Resident
  <2> QED BY <2>2, <2>3, EmptyIsOK
<1>5. core \in [CoreIds -> {EmptyCore(g) : g \in Garbage}]
  BY DEF Init
<1>6. core \in [CoreIds -> Cores] /\ \A c \in CoreIds : CoreOK(core[c])
  BY <1>4, <1>5
<1> QED BY <1>1, <1>2, <1>3, <1>6 DEF DInv

\* select_kernel returns a kernel of m_running_kernels.
LEMMA SelectedIsRunning ==
  ASSUME DInv, CanSelect
  PROVE  SelectedSlot \in SlotIds /\ running[SelectedSlot] \in Kernels
<1>1. lastKernel \in Nat /\ Slots \in Nat \ {0} /\ lastKernel \in SlotIds
  BY DispatchAssumption DEF DInv, SlotIds
<1>2. CASE StillSelected
  <2>1. SelectedSlot = lastKernel /\ running[lastKernel] # None
    BY <1>2 DEF SelectedSlot, StillSelected
  <2> QED BY <1>1, <2>1 DEF DInv
<1>3. CASE ~StillSelected
  <2>1. OtherSelectable \subseteq Nat /\ OtherSelectable # {}
    BY <1>1, <1>3 DEF CanSelect, OtherSelectable
  <2>2. PICK n \in OtherSelectable : n = Min(OtherSelectable)
    BY <2>1, MinOfNats
  <2>3. SelectedSlot = (lastKernel + n) % Slots
    BY <1>3, <2>2 DEF SelectedSlot
  <2>4. running[(lastKernel + n) % Slots] # None
    BY <2>2 DEF OtherSelectable, MoreCtaLeft
  <2>5. (lastKernel + n) % Slots \in SlotIds
    <3>1. n \in Nat
      BY <2>1
    <3> QED BY <1>1, <3>1 DEF SlotIds
  <2> QED BY <2>3, <2>4, <2>5 DEF DInv
<1> QED BY <1>2, <1>3

\* A core is bound to another kernel only when it is empty.
LEMMA BindingKeepsCore ==
  ASSUME DInv, NEW c \in CoreIds
  PROVE  CoreOK(Bound(c))
<1>1. CoreOK(core[c]) /\ core[c] \in Cores
  BY DEF DInv
<1>2. CASE AsksForKernel(c) /\ CanSelect /\ ~Concurrent
  <2> PICK k : k = running[SelectedSlot]
    OBVIOUS
  <2> PICK r : r = [core[c] EXCEPT !.kernel = k]
    OBVIOUS
  <2>1. k \in Kernels
    BY <1>2, SelectedIsRunning
  <2>2. r \in Cores /\ r.active = core[c].active
    BY <1>1, <2>1 DEF Cores
  <2>3. Resident(r) = {}
    BY <1>2, <2>2 DEF AsksForKernel, Drained, Resident
  <2>4. CoreOK(r)
    BY <1>2, <2>2, <2>3, EmptyIsOK
  <2> QED BY <1>2, <2>4 DEF Bound
<1>3. CASE ~(AsksForKernel(c) /\ CanSelect /\ ~Concurrent)
  BY <1>1, <1>3 DEF Bound
<1> QED BY <1>2, <1>3

\* The kernel whose CTA a core is given is the one it is bound to, if cores
\* are bound at all.
LEMMA CandidateIsBound ==
  ASSUME DInv, NEW c \in CoreIds, Issues(c)
  PROVE  /\ Candidate(c) \in Kernels
         /\ ~Concurrent => Bound(c).kernel = Candidate(c)
         /\ CanIssue1Block(Bound(c), Candidate(c))
<1>1. Candidate(c) # None /\ CanIssue1Block(Bound(c), Candidate(c))
  BY DEF Issues, MoreCtaLeft
<1>2. core[c] \in Cores /\ core[c].kernel \in Kernels \cup {None}
  BY DEF DInv, Cores
<1>3. CASE AsksForKernel(c)
  <2>1. CanSelect /\ Candidate(c) = running[SelectedSlot]
    BY <1>1, <1>3 DEF Candidate
  <2>2. Candidate(c) \in Kernels
    BY <2>1, SelectedIsRunning
  <2>3. ~Concurrent => Bound(c).kernel = Candidate(c)
    BY <1>2, <1>3, <2>1 DEF Bound, Cores
  <2> QED BY <1>1, <2>2, <2>3
<1>4. CASE ~AsksForKernel(c)
  BY <1>1, <1>2, <1>4 DEF Candidate, Bound
<1> QED BY <1>3, <1>4

\* One core of a pass.
LEMMA IssueToCoreKeepsDInv ==
  ASSUME DInv, IssueToCore
  PROVE  DInv'
<1> DEFINE cl == Head(pass.clusters)
           place == (nextCore[cl] + 1 + pass.tried) % PerCluster
<1> PICK c : c = <<cl, place>>
  OBVIOUS
<1>1. /\ UNCHANGED <<option, running>>
      /\ lastKernel' = IF AsksForKernel(c) /\ CanSelect THEN SelectedSlot
                                                        ELSE lastKernel
      /\ \/ UNCHANGED l1
         \/ l1' = Adapted(Candidate(c))
      /\ core' = [core EXCEPT ![c] = IF Issues(c)
                                     THEN IssueBlock(Bound(c), Candidate(c))
                                     ELSE Bound(c)]
  BY DEF IssueToCore
<1>2. lastKernel' \in SlotIds
  BY <1>1, SelectedIsRunning DEF DInv
<1>3. ("shmem" \in DOMAIN l1 /\ l1.shmem \in Nat)'
  <2>1. CASE UNCHANGED l1
    BY <2>1 DEF DInv
  <2>2. CASE l1' = Adapted(Candidate(c))
    BY <2>2, CarveKeepsSize DEF Adapted
  <2> QED BY <1>1, <2>1, <2>2
<1> PICK r : r = IF Issues(c) THEN IssueBlock(Bound(c), Candidate(c)) ELSE Bound(c)
  OBVIOUS
<1>4. c \in CoreIds => CoreOK(r)
  <2> SUFFICES ASSUME c \in CoreIds PROVE CoreOK(r)
    OBVIOUS
  <2>1. CASE Issues(c)
    <3> PICK k : k = Candidate(c)
      OBVIOUS
    <3> PICK co : co = Bound(c)
      OBVIOUS
    <3>1. /\ k \in Kernels /\ (~Concurrent => co.kernel = k)
          /\ CanIssue1Block(co, k) /\ CoreOK(co)
      BY <2>1, CandidateIsBound, BindingKeepsCore
    <3>2. FreeSlots(co, k) # {}
      BY <3>1, SlotWhenAdmitted DEF DInv
    <3>3. Concurrent => FreeStarts(co, Padded(k)) # {}
      BY <3>1 DEF CanIssue1Block, HasRoom
    <3>4. CoreOK(IssueBlock(co, k))
      BY <3>1, <3>2, <3>3, IssueKeepsCore DEF DInv
    <3> QED BY <2>1, <3>4
  <2>2. CASE ~Issues(c)
    BY <2>2, BindingKeepsCore
  <2> QED BY <2>1, <2>2
<1>5. /\ core' \in [CoreIds -> Cores]
      /\ \A d \in CoreIds : CoreOK(core'[d])
  <2>1. core' = [core EXCEPT ![c] = r] /\ core \in [CoreIds -> Cores]
    BY <1>1 DEF DInv
  <2>2. \A d \in CoreIds : core'[d] = IF d = c THEN r ELSE core[d]
    BY <2>1
  <2>3. c \in CoreIds => r \in Cores
    BY <1>4 DEF CoreOK
  <2>4. core' \in [CoreIds -> Cores]
    BY <2>1, <2>3
  <2> QED BY <1>4, <2>2, <2>4 DEF DInv
<1> QED BY <1>1, <1>2, <1>3, <1>5 DEF DInv, CoreOK, Concurrent, ActiveCtas, WithinCore

\* A reclaimed warp.
LEMMA ReclaimKeepsDInv ==
  ASSUME DInv, NEW c \in CoreIds, NEW h \in HwCtas,
         NEW w \in WarpsOf(core[c], h), ReclaimWarp(c, h, w)
  PROVE  DInv'
<1> PICK after : after = ExitWarp(core[c], h, w)
  OBVIOUS
<1> PICK r : r = IF after.active[h] # {} THEN after
                 ELSE ReleaseBlock(Unbound(after), h)
  OBVIOUS
<1>1. /\ core' = [core EXCEPT ![c] = r]
      /\ UNCHANGED <<option, l1, lastKernel>>
      /\ running' = running \/ \E k : running' = Without({k})
  BY DEF ReclaimWarp
<1>2. CoreOK(r)
  BY ReclaimKeepsCore DEF DInv, Leaves
<1>3. /\ core' \in [CoreIds -> Cores]
      /\ \A d \in CoreIds : CoreOK(core'[d])
  <2>1. core \in [CoreIds -> Cores] /\ r \in Cores
    BY <1>2 DEF DInv, CoreOK
  <2>2. \A d \in CoreIds : core'[d] = IF d = c THEN r ELSE core[d]
    BY <1>1, <2>1
  <2> QED BY <1>1, <1>2, <2>1, <2>2 DEF DInv
<1>4. running' \in [SlotIds -> Kernels \cup {None}]
  BY <1>1 DEF DInv, Without
<1> QED BY <1>1, <1>3, <1>4 DEF DInv, CoreOK, Concurrent, ActiveCtas, WithinCore

\* init starts a run with empty cores.
LEMMA NewRunKeepsDInv ==
  ASSUME DInv, NewRun
  PROVE  DInv'
<1>1. /\ core' = [c \in CoreIds |-> Reinit(core[c])]
      /\ UNCHANGED <<option, l1, lastKernel, running>>
  BY DEF NewRun
<1>2. ASSUME NEW co \in Cores
      PROVE  Reinit(co) \in Cores /\ CoreOK(Reinit(co))
  <2> PICK r : r = Reinit(co)
    OBVIOUS
  <2>1. /\ Built(r)
        /\ r.kernel = co.kernel /\ r.owner = co.owner /\ r.start = co.start
        /\ r.active = [h \in HwCtas |-> {}] /\ r.padded = co.padded
        /\ r.threads = 0 /\ r.smem = 0 /\ r.regs = 0 /\ r.ctas = 0
        /\ r.hwtid = {}
    BY DEF Reinit, EmptyCore, Built
  <2>2. r \in Cores
    BY <2>1 DEF Cores, Built
  <2>3. Resident(r) = {}
    BY <2>1 DEF Resident
  <2> QED BY <2>1, <2>2, <2>3, EmptyIsOK
<1>3. /\ core' \in [CoreIds -> Cores]
      /\ \A d \in CoreIds : CoreOK(core'[d])
  BY <1>1, <1>2 DEF DInv
<1> QED BY <1>1, <1>3 DEF DInv, CoreOK, Concurrent, ActiveCtas, WithinCore

\* Actions that leave the cores and what they may be bound to.
LEMMA OthersKeepDInv ==
  ASSUME DInv, UNCHANGED <<option, lastKernel, core>>,
         ("shmem" \in DOMAIN l1 /\ l1.shmem \in Nat)',
         running' \in [SlotIds -> Kernels \cup {None}]
  PROVE  DInv'
BY DEF DInv, CoreOK, Concurrent, ActiveCtas, WithinCore

\* Every action keeps the invariant.
LEMMA NextKeepsDInv == DInv /\ [Next]_vars => DInv'
<1> SUFFICES ASSUME DInv, [Next]_vars PROVE DInv'
  OBVIOUS
<1>1. CASE UNCHANGED vars
  BY <1>1, OthersKeepDInv DEF vars, DInv
<1>2. ASSUME NEW k \in Kernels, LatencyOver(k)
      PROVE  DInv'
  BY <1>2, OthersKeepDInv DEF LatencyOver, DInv
<1>3. ASSUME NEW c \in CoreIds, NEW h \in HwCtas, NEW w \in WarpsOf(core[c], h),
             ReclaimWarp(c, h, w)
      PROVE  DInv'
  BY <1>3, ReclaimKeepsDInv
<1>4. ASSUME NEW k \in Kernels, Launch(k)
      PROVE  DInv'
  <2>1. /\ UNCHANGED <<option, lastKernel, core>>
        /\ l1' = ChangeCacheConfig(option.shmem, PreferenceOf(k))
        /\ \E i : running' = [running EXCEPT ![i] = k]
    BY <1>4 DEF Launch
  <2>2. ("shmem" \in DOMAIN l1 /\ l1.shmem \in Nat)'
    BY <2>1, ConfiguredSize, PreferenceIsOne DEF DInv
  <2>3. running' \in [SlotIds -> Kernels \cup {None}]
    BY <2>1 DEF DInv
  <2> QED BY <2>1, <2>2, <2>3, OthersKeepDInv
<1>5. ASSUME NEW k \in Kernels, AskOccupancy(k)
      PROVE  DInv'
  <2>1. /\ UNCHANGED <<option, lastKernel, core, running>>
        /\ l1' = AdaptedByQuery(k)
    BY <1>5 DEF AskOccupancy
  <2>2. ("shmem" \in DOMAIN l1 /\ l1.shmem \in Nat)'
    BY <2>1, CarveKeepsSize DEF AdaptedByQuery
  <2> QED BY <2>1, <2>2, OthersKeepDInv DEF DInv
<1>6. CASE IssueToCore
  BY <1>6, IssueToCoreKeepsDInv
<1>7. CASE StartPass
  BY <1>7, OthersKeepDInv DEF StartPass, DInv
<1>8. CASE NewRun
  BY <1>8, NewRunKeepsDInv
<1>9. CASE StopAllRunningKernels
  <2>1. /\ UNCHANGED <<option, lastKernel, core, l1>>
        /\ running' = Without(Kernels)
    BY <1>9 DEF StopAllRunningKernels
  <2>2. running' \in [SlotIds -> Kernels \cup {None}]
    BY <2>1 DEF DInv, Without
  <2> QED BY <2>1, <2>2, OthersKeepDInv DEF DInv
<1> QED BY <1>1, <1>2, <1>3, <1>4, <1>5, <1>6, <1>7, <1>8, <1>9
        DEF Next, Stopped

\* The invariant behind the theorems.
LEMMA SpecDInv == Spec => []DInv
BY InitDInv, NextKeepsDInv, PTL DEF Spec

-----------------------------------------------------------------------------
(* The theorems.                                                           *)

\* On a core bound to a kernel each CTA has its own pairs: the warps of a row
\* of threads are numbered from the row's first warp.
LEMMA KeysOfBoundCore ==
  ASSUME DInv, ~Concurrent, NEW c \in CoreIds, NEW h \in Resident(core[c]),
         NEW k, k = core[c].owner[h], NEW first,
         first = core[c].start[h] \div WarpSize,
         NEW i \in 0 .. WarpsPerCta(k) - 1
  PROVE  QueueWarp(core[c], first + i) = IF i < Producers(k) THEN i
                                                             ELSE i - Producers(k)
<1>1. /\ k \in Kernels /\ core[c].padded = Padded(k)
      /\ core[c].start[h] = h * Padded(k) /\ h \in Nat
  BY ShapeAssumption DEF DInv, CoreOK, Resident, HwCtas
<1> PICK n : n = WarpsPerCta(k)
  OBVIOUS
<1>2. n \in Nat \ {0} /\ Padded(k) = n * WarpSize /\ WarpSize \in Nat \ {0}
      /\ Padded(k) \div WarpSize = n
  BY <1>1, KernelSize, ShapeAssumption DEF WarpsPerCta
<1>3. first = h * n
  <2>1. h * n \in Nat /\ 0 \in 0 .. WarpSize - 1
    BY <1>1, <1>2
  <2>2. (h * n * WarpSize + 0) \div WarpSize = h * n
    BY <1>2, <2>1, RowOf
  <2>3. h * Padded(k) = h * n * WarpSize + 0
    BY <1>1, <1>2
  <2> QED BY <1>1, <2>2, <2>3
<1>4. (first + i) % n = i
  <2>1. (h * n + i) % n = i
    BY <1>1, <1>2, RowOf
  <2> QED BY <1>3, <2>1
<1>5. (IF core[c].padded \div WarpSize = 0 THEN 8
       ELSE core[c].padded \div WarpSize) = n
  BY <1>1, <1>2
<1>6. Producers(k) = IF ProducerWarps > 0 THEN ProducerWarps
                     ELSE IF n = 1 THEN 1 ELSE n \div 2
  BY DEF Producers
<1> QED BY <1>4, <1>5, <1>6 DEF QueueWarp

\* However kernels of different shapes come and go on the cores of one
\* simulation, in either mode, no two resident CTAs of a core have a hardware
\* thread in common, and none has a thread beyond those of its core, on shared
\* cores if its size divides their number; on cores that serve one kernel at a time its CTAs also run
\* under its own limits, and each producer warp shares its queue key with the
\* consumer warp of its pair and with no other warp of the CTA.
THEOREM CtasStayApart == Spec => []CoresShareSafely
<1>1. DInv => CoresShareSafely
  <2> SUFFICES ASSUME DInv PROVE CoresShareSafely
    OBVIOUS
  <2>1. ThreadsPrivate
    BY DEF ThreadsPrivate, DInv, CoreOK
  <2>2. ~Concurrent => OneKernelPerCore
    BY DEF OneKernelPerCore, DInv, CoreOK
  <2>0. ThreadsWithinCore
    BY DEF ThreadsWithinCore, DInv, CoreOK
  <2>3. ~Concurrent => PairsShareQueue
    <3> DEFINE k(c, h) == core[c].owner[h]
               warp(c, h, i) == QueueWarp(core[c],
                                          core[c].start[h] \div WarpSize + i)
    <3> SUFFICES ASSUME ~Concurrent, NEW c \in CoreIds,
                        NEW h \in Resident(core[c]),
                        NEW i \in 0 .. WarpsPerCta(k(c, h)) - 1,
                        NEW j \in 0 .. WarpsPerCta(k(c, h)) - 1, i < j
                 PROVE  warp(c, h, i) = warp(c, h, j)
                        <=> i < Producers(k(c, h)) /\ j = i + Producers(k(c, h))
      BY DEF PairsShareQueue
    <3> PICK own : own = k(c, h)
      OBVIOUS
    <3> PICK p : p = Producers(own)
      OBVIOUS
    <3>1. /\ warp(c, h, i) = IF i < p THEN i ELSE i - p
          /\ warp(c, h, j) = IF j < p THEN j ELSE j - p
      BY KeysOfBoundCore
    <3>2. p \in Nat /\ WarpsPerCta(own) \in Nat
      <4>1. own \in Kernels
        BY DEF DInv, CoreOK
      <4>2. WarpsPerCta(own) \in Nat
        BY <4>1, KernelSize
      <4> QED BY <4>2, ShapeAssumption DEF Producers
    <3> HIDE DEF warp, k
    <3> QED BY <3>1, <3>2
  <2> QED BY <2>0, <2>1, <2>2, <2>3 DEF CoresShareSafely, BoundCoresServeOneKernel
<1> QED BY <1>1, SpecDInv, PTL

\* A core that is about to get a CTA has a free hardware slot for it, so
\* assert(free_cta_hw_id != -1) of issue_block2core does not fire.
SlotIsFree ==
  \A c \in CoreIds : Issues(c) => FreeSlots(Bound(c), Candidate(c)) # {}

\* can_issue_1block agrees only when there is a free slot: on shared cores
\* because m_occupied_ctas counts the resident CTAs, on others because
\* max_cta stays below max_cta_per_core whatever was carved out meanwhile.
THEOREM AdmissionFindsSlot == Spec => []SlotIsFree
<1>1. DInv => SlotIsFree
  <2> SUFFICES ASSUME DInv, NEW c \in CoreIds, Issues(c)
               PROVE  FreeSlots(Bound(c), Candidate(c)) # {}
    BY DEF SlotIsFree
  <2>1. /\ Candidate(c) \in Kernels /\ CoreOK(Bound(c))
        /\ CanIssue1Block(Bound(c), Candidate(c))
    BY CandidateIsBound, BindingKeepsCore
  <2> QED BY <2>1, SlotWhenAdmitted DEF DInv
<1> QED BY <1>1, SpecDInv, PTL

-----------------------------------------------------------------------------
(* The cache configuration.                                                *)

\* Shared memory has one of the configured sizes, and the L1 cache at most
\* the ways of the whole unified memory.
L1OK ==
  /\ {"shmem", "ways"} \subseteq DOMAIN l1
  /\ \E p \in FuncCaches : l1.shmem = option.shmem[p]
  /\ l1.shmem \in Nat \ {Missing} /\ l1.ways \in 0 .. MaxAssoc

\* change_cache_config finds a size, and the whole associativity.
LEMMA ConfiguredL1 ==
  ASSUME option \in Options, NEW p \in FuncCaches,
         l1' = ChangeCacheConfig(option.shmem, p), UNCHANGED option
  PROVE  L1OK'
<1> PICK sizes : sizes = option.shmem
  OBVIOUS
<1>1. /\ sizes \in [FuncCaches -> Nat] /\ sizes["prefer none"] # Missing
      /\ "prefer none" \in FuncCaches /\ MaxAssoc \in Nat
  BY ShapeAssumption, CarveOutAssumption DEF SizesOf, FuncCaches
<1>2. PICK got \in FuncCaches :
        /\ got = IF sizes[p] = Missing THEN "prefer none" ELSE p
        /\ sizes[got] # Missing
  BY <1>1
<1>3. l1' = [status |-> got, shmem |-> sizes[got], ways |-> MaxAssoc,
             alloc |-> "configured", carvedFor |-> None]
  BY <1>2 DEF ChangeCacheConfig
<1>4. /\ {"shmem", "ways"} \subseteq DOMAIN l1'
      /\ l1'.shmem = sizes[got] /\ l1'.ways = MaxAssoc
  BY <1>3
<1>5. sizes[got] \in Nat \ {Missing} /\ MaxAssoc \in 0 .. MaxAssoc
  <2>1. sizes[got] \in Nat
    BY <1>1
  <2>2. sizes[got] # Missing
    BY <1>2
  <2>3. MaxAssoc \in 0 .. MaxAssoc
    BY CarveOutAssumption
  <2> QED BY <2>1, <2>2, <2>3, Zenon
<1> QED BY <1>4, <1>5 DEF L1OK

\* What is left of a part of the unified memory is no more than all its ways.
LEMMA WaysLeftBound ==
  ASSUME NEW carved \in 0 .. UnifiedSize
  PROVE  WaysLeft(carved) \in 0 .. MaxAssoc
<1>1. PICK u \in Nat, m \in Nat : u = UnifiedSize /\ m = MaxAssoc /\ u # 0
  BY CarveOutAssumption
<1> DEFINE a == 2 * m * (u - carved) + u
           w == 2 * u
<1>2. PICK rest \in Nat : rest = u - carved /\ rest <= u
  BY <1>1
<1>3. 2 * m * rest \in Nat /\ 2 * m * u \in Nat /\ 2 * m * rest <= 2 * m * u
  <2>1. PICK d \in Nat : u = rest + d
    BY <1>1, <1>2
  <2>2. 2 * m * u = 2 * m * rest + 2 * m * d
    BY <2>1
  <2>3. 2 * m * rest \in Nat /\ 2 * m * d \in Nat
    OBVIOUS
  <2> QED BY <2>2, <2>3
<1>4. a \in Nat /\ w \in Nat \ {0}
  BY <1>1, <1>2, <1>3
<1> DEFINE q == a \div w
           r == a % w
<1>5. q \in Nat /\ r \in 0 .. w - 1 /\ a = q * w + r
  <2> HIDE DEF a, w
  <2> QED BY <1>4
<1>6. q <= m
  <2> SUFFICES ASSUME m < q PROVE FALSE
    BY <1>5
  <2>1. m * w + w <= q * w
    <3> HIDE DEF q, w
    <3> QED BY <1>4, <1>5, RowsApart
  <2>2. m * w = 2 * m * u /\ q * w \in Nat
    BY <1>5
  <2>3. a < m * w + w
    BY <1>1, <1>2, <1>3, <2>2
  <2> HIDE DEF a, w, q, r
  <2> QED BY <1>4, <1>5, <2>1, <2>2, <2>3
<1>7. WaysLeft(carved) = q
  BY <1>1 DEF WaysLeft
<1> HIDE DEF q
<1> QED BY <1>1, <1>5, <1>6, <1>7

\* A carve-out that some option holds.
LEMMA CarvedL1 ==
  ASSUME L1OK, NEW k, NEW bytes \in Nat, bytes <= l1.shmem,
         option \in Options, UNCHANGED option, l1' = Carve(l1, k, bytes)
  PROVE  L1OK'
<1> PICK fits : fits = {o \in ShmemOptions : bytes <= o}
  OBVIOUS
<1>1. PICK size \in Nat : size = l1.shmem
  BY DEF L1OK
<1>2. fits # {}
  <2>1. PICK p \in FuncCaches : size = option.shmem[p]
    BY <1>1 DEF L1OK
  <2>2. PICK o \in ShmemOptions : size <= o
    BY <2>1, OptionsCover
  <2>3. o \in Nat
    BY CarveOutAssumption
  <2>4. bytes <= o
    BY <1>1, <2>2, <2>3
  <2> QED BY <2>4
<1>3. fits \subseteq ShmemOptions /\ fits \subseteq Nat
  <2>1. ShmemOptions \subseteq Nat
    BY CarveOutAssumption
  <2>2. fits \subseteq ShmemOptions
    OBVIOUS
  <2> QED BY <2>1, <2>2
<1>4. CarveOut(bytes) \in 0 .. UnifiedSize
  <2>1. CarveOut(bytes) = Min(fits)
    BY DEF CarveOut
  <2>2. Min(fits) \in fits
    BY <1>2, <1>3, MinOfNats
  <2> QED BY <1>3, <2>1, <2>2, CarveOutAssumption
<1> PICK ways : ways = WaysLeft(CarveOut(bytes))
  OBVIOUS
<1>5. ways \in 0 .. MaxAssoc
  BY <1>4, WaysLeftBound
<1> PICK alloc : alloc = IF bytes = 0 THEN "on miss" ELSE "on fill"
  OBVIOUS
<1>6. l1' = [l1 EXCEPT !.ways = ways, !.carvedFor = k, !.alloc = alloc]
  BY DEF Carve
<1>7. /\ DOMAIN l1' = DOMAIN l1
      /\ {"shmem", "ways"} \subseteq DOMAIN l1
      /\ l1'.shmem = l1.shmem /\ l1'.ways = ways
  BY <1>6 DEF L1OK
<1> QED BY <1>5, <1>7 DEF L1OK

\* The CTAs max_cta admits have their shared memory in the size in force.
LEMMA FittingBytes ==
  ASSUME option \in Options, l1.shmem \in Nat, NEW k \in Kernels
  PROVE  /\ Fitting(l1.shmem, k) \in Nat
         /\ SharedMem[k] * Fitting(l1.shmem, k) \in Nat
         /\ SharedMem[k] * Fitting(l1.shmem, k) <= l1.shmem
         /\ MaxCta(k) \in Nat /\ MaxCta(k) <= Fitting(l1.shmem, k)
<1> PICK n : n = SmemPerCta(k)
  OBVIOUS
<1> PICK own, queues : own = SharedMem[k] /\ queues = SmemqBytes(k)
  OBVIOUS
<1> PICK fit : fit = Fitting(l1.shmem, k)
  OBVIOUS
<1> PICK size : size = l1.shmem
  OBVIOUS
<1>1. /\ n \in Nat /\ own \in Nat /\ queues \in Nat /\ n = own + queues
      /\ size \in Nat
  <2>1. n \in Nat /\ queues \in Nat
    BY NeedsAreNat
  <2>2. own \in Nat /\ size \in Nat
    BY ShapeAssumption
  <2>3. n = own + queues
    BY DEF SmemPerCta
  <2> QED BY <2>1, <2>2, <2>3
<1>2. /\ fit \in Nat /\ MaxCta(k) \in Nat /\ MaxCta(k) <= fit
      /\ n > 0 => fit <= size \div n
  BY MaxCtaWithinSlots
<1>3. own * fit \in Nat /\ own * fit <= size
  <2>1. CASE n = 0
    BY <1>1, <1>2, <2>1
  <2>2. CASE n > 0
    <3>1. PICK q \in Nat : q = size \div n /\ n * q <= size
      BY <1>1, <2>2
    <3>2. own * fit <= n * q
      BY <1>1, <1>2, <2>2, <3>1, ProductGrows
    <3> QED BY <1>1, <1>2, <3>1, <3>2
  <2> QED BY <1>1, <2>1, <2>2
<1> QED BY <1>2, <1>3

\* The carve-out of a kernel and that of an occupancy query keep the L1 cache
\* in order.
LEMMA AdaptedKeepsL1 ==
  ASSUME option \in Options, L1OK, UNCHANGED option, NEW k \in Kernels,
         l1' = Adapted(k) \/ l1' = AdaptedByQuery(k)
  PROVE  L1OK'
<1> PICK fit, most, own, size :
      /\ fit = Fitting(l1.shmem, k) /\ most = MaxCta(k)
      /\ own = SharedMem[k] /\ size = l1.shmem
  OBVIOUS
<1>1. /\ fit \in Nat /\ own * fit \in Nat /\ own * fit <= size
      /\ most \in Nat /\ most <= fit /\ size \in Nat /\ own \in Nat
  BY FittingBytes, ShapeAssumption DEF L1OK
<1>2. own * most \in Nat /\ own * most <= own * fit
  BY <1>1, ProductGrows
<1>3. CASE l1' = Adapted(k)
  <2>1. l1' = Carve(l1, k, own * most)
    BY <1>3 DEF Adapted
  <2>2. own * most <= l1.shmem
    BY <1>1, <1>2
  <2> QED BY <1>2, <2>1, <2>2, CarvedL1
<1>4. CASE l1' = AdaptedByQuery(k)
  <2>1. l1' = Carve(l1, None, own * fit)
    BY <1>4 DEF AdaptedByQuery
  <2> QED BY <1>1, <2>1, CarvedL1
<1> QED BY <1>3, <1>4

-----------------------------------------------------------------------------
(* From the launch of a kernel to its report.                              *)

\* The CTAs of a kernel on the cores.
CtasOf(k) ==
  {p \in CoreIds \X HwCtas : /\ p[2] \in Resident(core[p[1]])
                             /\ core[p[1]].owner[p[2]] = k}

Running(k) == \E i \in SlotIds : running[i] = k

\* The types that DInv does not give.
DispatchTypes ==
  /\ toLaunch \subseteq Kernels /\ latent \subseteq Kernels
  /\ executed \subseteq Kernels /\ adapted \subseteq Kernels
  /\ lastCluster \in ClusterIds
  /\ nextCore \in [ClusterIds -> 0 .. PerCluster - 1]
  /\ nextCta \in [Kernels -> Nat] /\ inFlight \in [Kernels -> Nat]
  /\ finished \in [Kernels -> Nat]
  /\ launched \in Nat /\ issuedBefore \in Nat /\ over \in BOOLEAN
  /\ pass \in [clusters : Seq(ClusterIds), tried : 0 .. PerCluster - 1]
  /\ pass # NoPass => pass.clusters # <<>>

\* A kernel waits to be launched, holds an entry of m_running_kernels until
\* its last CTA has gone, or has been reported and gets no CTA any more.
KernelLife ==
  \A k \in Kernels :
    /\ nextCta[k] <= Blocks[k] /\ inFlight[k] <= nextCta[k]
    /\ inFlight[k] = Cardinality(CtasOf(k))
    /\ k \in toLaunch => nextCta[k] = 0 /\ finished[k] = 0 /\ ~Running(k)
    /\ k \in toLaunch \cup latent => k \notin executed
    /\ k \notin toLaunch => Running(k) \/ finished[k] = 1
    /\ finished[k] <= 1
    /\ Running(k) => finished[k] = 0 /\ ~Done(k)
    /\ inFlight[k] > 0 => Running(k)
    /\ finished[k] > 0 => ~MoreCtaLeft(k)

\* A kernel has one entry, and a core is bound to one that has an entry or
\* gives the core no more CTAs.
EntriesOK ==
  /\ \A i, j \in SlotIds : running[i] # None /\ running[i] = running[j] => i = j
  /\ \A c \in CoreIds : MoreCtaLeft(core[c].kernel) => Running(core[c].kernel)

\* Once gpgpu_max_cta was used up in earlier runs nothing runs any more.
LimitDrains == LimitUsedUp => AllDrained

KInv ==
  /\ DInv /\ L1OK /\ DispatchTypes /\ KernelLife /\ EntriesOK /\ LimitDrains
  /\ SelectedOnce

\* The CTAs of a kernel are finitely many.
LEMMA CtasFinite ==
  ASSUME NEW k
  PROVE  IsFiniteSet(CtasOf(k)) /\ IsFiniteSet(CoreIds \X HwCtas)
<1>1. /\ Clusters \in Nat /\ PerCluster \in Nat /\ Clusters - 1 \in Int
      /\ PerCluster - 1 \in Int
  BY DispatchAssumption
<1>2. IsFiniteSet(ClusterIds) /\ IsFiniteSet(0 .. PerCluster - 1)
  BY <1>1, FS_Interval DEF ClusterIds
<1>3. IsFiniteSet(CoreIds)
  BY <1>2, FS_Product DEF CoreIds
<1>4. IsFiniteSet(CoreIds \X HwCtas)
  BY <1>3, ResidentFinite, FS_Product
<1>5. CtasOf(k) \subseteq CoreIds \X HwCtas
  BY DEF CtasOf
<1> QED BY <1>4, <1>5, FS_Subset

\* A CTA is on the cores exactly when its core has it.
LEMMA CtaMembers ==
  ASSUME NEW k
  PROVE  /\ \A c \in CoreIds : \A h \in HwCtas :
              <<c, h>> \in CtasOf(k) <=> /\ h \in Resident(core[c])
                                         /\ core[c].owner[h] = k
         /\ \A p \in CtasOf(k) : \E c \in CoreIds : \E h \in HwCtas : p = <<c, h>>
<1>1. ASSUME NEW c \in CoreIds, NEW h \in HwCtas
      PROVE  <<c, h>> \in CtasOf(k) <=> /\ h \in Resident(core[c])
                                        /\ core[c].owner[h] = k
  <2> PICK p : p = <<c, h>>
    OBVIOUS
  <2>1. p \in CoreIds \X HwCtas /\ p[1] = c /\ p[2] = h
    OBVIOUS
  <2> QED BY <2>1 DEF CtasOf
<1>2. ASSUME NEW p \in CtasOf(k)
      PROVE  \E c \in CoreIds : \E h \in HwCtas : p = <<c, h>>
  BY DEF CtasOf
<1> QED BY <1>1, <1>2

\* Cores that keep their CTAs keep the kernels' CTAs.
LEMMA CtasStay ==
  ASSUME \A c \in CoreIds : /\ Resident(core'[c]) = Resident(core[c])
                            /\ core'[c].owner = core[c].owner,
         NEW k
  PROVE  CtasOf(k)' = CtasOf(k)
<1>1. ASSUME NEW p \in CoreIds \X HwCtas
      PROVE  /\ Resident(core'[p[1]]) = Resident(core[p[1]])
             /\ core'[p[1]].owner = core[p[1]].owner
  OBVIOUS
<1> QED BY <1>1 DEF CtasOf

\* A CTA of kernel k becomes resident in place h of core c, and nothing else
\* becomes resident or leaves.
Comes(c, h, k) ==
  /\ h \in HwCtas \ Resident(core[c])
  /\ Resident(core'[c]) = Resident(core[c]) \cup {h}
  /\ \A x \in HwCtas : core'[c].owner[x] = IF x = h THEN k ELSE core[c].owner[x]
  /\ \A d \in CoreIds \ {c} : core'[d] = core[d]

\* How many CTAs of kernel j there are, before and after one of kernel k comes.
OneMore(j, k) ==
  Cardinality(CtasOf(j)') = IF j = k THEN Cardinality(CtasOf(j)) + 1
                                     ELSE Cardinality(CtasOf(j))

\* A CTA that comes is one more of its kernel.
LEMMA CtaComes ==
  ASSUME NEW c \in CoreIds, NEW h, NEW k, Comes(c, h, k), NEW j
  PROVE  OneMore(j, k)
<1> USE DEF Comes, OneMore
<1> PICK old : old = CtasOf(j)
  OBVIOUS
<1> PICK new : new = CtasOf(j)'
  OBVIOUS
<1>1. ASSUME NEW d \in CoreIds, NEW x \in HwCtas
      PROVE  /\ <<d, x>> \in old <=> /\ x \in Resident(core[d])
                                     /\ core[d].owner[x] = j
             /\ <<d, x>> \in new <=> /\ x \in Resident(core'[d])
                                     /\ core'[d].owner[x] = j
  <2> PICK p : p = <<d, x>>
    OBVIOUS
  <2>1. p \in CoreIds \X HwCtas /\ p[1] = d /\ p[2] = x
    OBVIOUS
  <2> QED BY <2>1 DEF CtasOf
<1>2. old \subseteq CoreIds \X HwCtas /\ new \subseteq CoreIds \X HwCtas
  BY DEF CtasOf
<1>3. <<c, h>> \notin old
  BY <1>1
<1>4. ASSUME NEW d \in CoreIds, NEW x \in HwCtas
      PROVE  <<d, x>> \in new <=> \/ <<d, x>> \in old
                                  \/ j = k /\ d = c /\ x = h
  <2>1. CASE d = c
    <3>1. x \in Resident(core'[d]) <=> x \in Resident(core[d]) \/ x = h
      BY <2>1
    <3>2. core'[d].owner[x] = IF x = h THEN k ELSE core[d].owner[x]
      BY <2>1
    <3> QED BY <1>1, <2>1, <3>1, <3>2
  <2>2. CASE d # c
    BY <1>1, <2>2
  <2> QED BY <2>1, <2>2
<1>5. new = IF j = k THEN old \cup {<<c, h>>} ELSE old
  <2>1. \A p \in CoreIds \X HwCtas :
          p \in new <=> p \in old \/ (j = k /\ p = <<c, h>>)
    BY <1>4
  <2>2. <<c, h>> \in CoreIds \X HwCtas
    OBVIOUS
  <2> QED BY <1>2, <2>1, <2>2
<1>6. IsFiniteSet(old)
  BY CtasFinite
<1> QED BY <1>3, <1>5, <1>6, FS_AddElement, ZenonT(60)

\* A CTA that goes is one less of its kernel.
LEMMA CtaGoes ==
  ASSUME NEW c \in CoreIds, NEW h \in HwCtas, h \in Resident(core[c]),
         NEW k, core[c].owner[h] = k,
         Resident(core'[c]) = Resident(core[c]) \ {h},
         core'[c].owner = core[c].owner,
         \A d \in CoreIds \ {c} : core'[d] = core[d],
         NEW j
  PROVE  /\ Cardinality(CtasOf(j)') = IF j = k THEN Cardinality(CtasOf(j)) - 1
                                              ELSE Cardinality(CtasOf(j))
         /\ j = k => Cardinality(CtasOf(j)) \in Nat \ {0}
<1> PICK old : old = CtasOf(j)
  OBVIOUS
<1> PICK new : new = CtasOf(j)'
  OBVIOUS
<1>1. ASSUME NEW d \in CoreIds, NEW x \in HwCtas
      PROVE  /\ <<d, x>> \in old <=> /\ x \in Resident(core[d])
                                     /\ core[d].owner[x] = j
             /\ <<d, x>> \in new <=> /\ x \in Resident(core'[d])
                                     /\ core'[d].owner[x] = j
  <2> PICK p : p = <<d, x>>
    OBVIOUS
  <2>1. p \in CoreIds \X HwCtas /\ p[1] = d /\ p[2] = x
    OBVIOUS
  <2> QED BY <2>1 DEF CtasOf
<1>2. old \subseteq CoreIds \X HwCtas /\ new \subseteq CoreIds \X HwCtas
  BY DEF CtasOf
<1>3. <<c, h>> \in old <=> j = k
  BY <1>1
<1>4. ASSUME NEW d \in CoreIds, NEW x \in HwCtas
      PROVE  <<d, x>> \in new <=> <<d, x>> \in old /\ ~(d = c /\ x = h)
  <2>1. CASE d = c
    BY <1>1, <2>1
  <2>2. CASE d # c
    BY <1>1, <2>2
  <2> QED BY <2>1, <2>2
<1>5. new = IF j = k THEN old \ {<<c, h>>} ELSE old
  <2>1. \A p \in CoreIds \X HwCtas : p \in new <=> p \in old /\ p # <<c, h>>
    BY <1>4
  <2> QED BY <1>2, <1>3, <2>1
<1>6. IsFiniteSet(old) /\ Cardinality(old) \in Nat
  BY CtasFinite, FS_CardinalityType
<1>7. CASE j = k
  <2> PICK p : p = <<c, h>>
    OBVIOUS
  <2>1. p \in old /\ new = old \ {p}
    BY <1>3, <1>5, <1>7
  <2>2. Cardinality(new) = Cardinality(old) - 1
    <3>1. Cardinality(old \ {p}) = IF p \in old THEN Cardinality(old) - 1
                                                 ELSE Cardinality(old)
      BY <1>6, FS_RemoveElement, Zenon
    <3> QED BY <2>1, <3>1
  <2>3. Cardinality(old) # 0
    BY <1>6, <2>1, FS_EmptySet
  <2> QED BY <1>6, <1>7, <2>2, <2>3
<1>8. CASE j # k
  BY <1>5, <1>8
<1> QED BY <1>7, <1>8

\* As CTAs are handed out, kernels only ever lose the CTAs that are left.
LEMMA FewerLeft ==
  ASSUME HitMaxCtaCount => HitMaxCtaCount', NEW k \in Kernels,
         nextCta[k] \in Nat, nextCta'[k] \in Nat, nextCta[k] <= nextCta'[k]
  PROVE  /\ MoreCtaLeft(k)' => MoreCtaLeft(k)
         /\ NoMoreCtas(k) => NoMoreCtas(k)'
<1>1. Blocks[k] \in Nat
  BY ShapeAssumption
<1>2. NoMoreCtas(k) => NoMoreCtas(k)'
  BY <1>1 DEF NoMoreCtas
<1> QED BY <1>2 DEF MoreCtaLeft

\* What depends on the counters alone stays with them.
LEMMA CountersStay ==
  ASSUME UNCHANGED <<option, nextCta, inFlight>>,
         UNCHANGED <<launched, issuedBefore>>, NEW k
  PROVE  /\ MoreCtaLeft(k)' <=> MoreCtaLeft(k)
         /\ Done(k)' <=> Done(k)
         /\ LimitUsedUp' <=> LimitUsedUp
BY DEF MoreCtaLeft, HitMaxCtaCount, NoMoreCtas, CtaLimit, Done, LimitUsedUp

\* Steps that leave kernels, CTAs and counters keep the life of the kernels.
LEMMA OthersKeepLife ==
  ASSUME DInv, KernelLife, EntriesOK, LimitDrains, SelectedOnce,
         UNCHANGED <<option, nextCta, inFlight>>,
         UNCHANGED <<launched, issuedBefore>>,
         UNCHANGED <<toLaunch, running, lastKernel, executed, finished>>,
         latent' \subseteq latent,
         \A c \in CoreIds : /\ Resident(core'[c]) = Resident(core[c])
                            /\ core'[c].owner = core[c].owner
                            /\ core'[c].kernel = core[c].kernel
  PROVE  (KernelLife /\ EntriesOK /\ LimitDrains /\ SelectedOnce)'
<1>1. \A k : /\ MoreCtaLeft(k)' <=> MoreCtaLeft(k)
             /\ Done(k)' <=> Done(k)
             /\ Running(k)' <=> Running(k)
             /\ CtasOf(k)' = CtasOf(k)
  <2> TAKE k
  <2>1. Running(k)' <=> Running(k)
    BY DEF Running
  <2> QED BY <2>1, CountersStay, CtasStay
<1>2. KernelLife'
  <2> SUFFICES ASSUME NEW k \in Kernels
               PROVE  /\ nextCta'[k] <= Blocks[k] /\ inFlight'[k] <= nextCta'[k]
                      /\ inFlight'[k] = Cardinality(CtasOf(k)')
                      /\ k \in toLaunch' =>
                           nextCta'[k] = 0 /\ finished'[k] = 0 /\ ~Running(k)'
                      /\ k \in toLaunch' \cup latent' => k \notin executed'
                      /\ k \notin toLaunch' => Running(k)' \/ finished'[k] = 1
                      /\ finished'[k] <= 1
                      /\ Running(k)' => finished'[k] = 0 /\ ~Done(k)'
                      /\ inFlight'[k] > 0 => Running(k)'
                      /\ finished'[k] > 0 => ~MoreCtaLeft(k)'
    BY DEF KernelLife
  <2> QED BY <1>1 DEF KernelLife
<1>3. EntriesOK'
  <2>1. \A i, j \in SlotIds : running'[i] # None /\ running'[i] = running'[j] => i = j
    BY DEF EntriesOK
  <2>2. ASSUME NEW c \in CoreIds, MoreCtaLeft(core[c].kernel)'
        PROVE  Running(core[c].kernel)'
    <3> PICK k : k = core[c].kernel
      OBVIOUS
    <3>1. core'[c].kernel = k
      OBVIOUS
    <3>2. MoreCtaLeft(k)'
      BY <2>2, <3>1 DEF MoreCtaLeft, NoMoreCtas
    <3>3. Running(k)
      BY <1>1, <3>2 DEF EntriesOK
    <3> QED BY <1>1, <3>1, <3>3 DEF Running
  <2> QED BY <2>1, <2>2 DEF EntriesOK
<1>4. LimitDrains'
  <2>1. AllDrained => AllDrained'
    BY DEF AllDrained, Drained
  <2> QED BY <2>1, CountersStay DEF LimitDrains
<1>5. SelectedOnce'
  <2> SUFFICES ASSUME NEW i \in SlotIds, NEW k, k = running[i],
                      k \in executed, MoreCtaLeft(k)
               PROVE  i = lastKernel
    BY <1>1 DEF SelectedOnce
  <2> QED BY DEF SelectedOnce
<1> QED BY <1>2, <1>3, <1>4, <1>5

\* gpgpu_sim::launch.
LEMMA LaunchKeepsKInv ==
  ASSUME KInv, NEW k \in Kernels, Launch(k), DInv'
  PROVE  KInv'
<1> DEFINE free == {i \in SlotIds : running[i] = None \/ Done(running[i])}
<1> USE DEF KInv
<1> PICK s : s = Min(free)
  OBVIOUS
<1>1. s \in SlotIds /\ running[s] = None
  <2>1. free \subseteq Nat /\ free # {} /\ free \subseteq SlotIds
    BY DispatchAssumption DEF Launch, SlotIds
  <2>2. s \in free
    BY <2>1, MinOfNats
  <2>3. running[s] \in Kernels => ~Done(running[s])
    BY <2>1, <2>2 DEF KernelLife, Running
  <2>4. running[s] \in Kernels \cup {None}
    BY <2>1, <2>2 DEF DInv
  <2> QED BY <2>1, <2>2, <2>3, <2>4
<1>2. /\ running \in [SlotIds -> Kernels \cup {None}]
      /\ running' = [running EXCEPT ![s] = k]
      /\ k \in toLaunch /\ toLaunch' = toLaunch \ {k}
      /\ latent' = latent \cup {k}
      /\ l1' = ChangeCacheConfig(option.shmem, PreferenceOf(k))
      /\ UNCHANGED <<option, nextCta, inFlight>>
      /\ UNCHANGED <<launched, issuedBefore>>
      /\ UNCHANGED <<lastKernel, lastCluster, nextCore, core, adapted>>
      /\ UNCHANGED <<executed, finished, pass, over>>
  BY DEF Launch, DInv
<1>3. \A i \in SlotIds : running'[i] = IF i = s THEN k ELSE running[i]
  BY <1>1, <1>2
<1>4. k # None /\ None \notin Kernels
  BY ShapeAssumption
<1>5. \A j \in Kernels : Running(j)' <=> Running(j) \/ j = k
  BY <1>1, <1>3, <1>4 DEF Running
<1>6. \A j : /\ MoreCtaLeft(j)' <=> MoreCtaLeft(j)
             /\ Done(j)' <=> Done(j)
             /\ CtasOf(j)' = CtasOf(j)
  <2> TAKE j
  <2>1. \A c \in CoreIds : /\ Resident(core'[c]) = Resident(core[c])
                           /\ core'[c].owner = core[c].owner
    BY <1>2
  <2> QED BY <1>2, <2>1, CountersStay, CtasStay
<1>7. L1OK'
  BY <1>2, PreferenceIsOne, ConfiguredL1 DEF DInv
<1>8. DispatchTypes'
  BY <1>2 DEF DispatchTypes
<1>9. KernelLife'
  <2> SUFFICES ASSUME NEW j \in Kernels
               PROVE  /\ nextCta[j] <= Blocks[j] /\ inFlight[j] <= nextCta[j]
                      /\ inFlight[j] = Cardinality(CtasOf(j))
                      /\ j \in toLaunch' =>
                           nextCta[j] = 0 /\ finished[j] = 0 /\ ~Running(j)'
                      /\ j \in toLaunch' \cup latent' => j \notin executed
                      /\ j \notin toLaunch' => Running(j)' \/ finished[j] = 1
                      /\ finished[j] <= 1
                      /\ Running(j)' => finished[j] = 0 /\ ~Done(j)
                      /\ inFlight[j] > 0 => Running(j)'
                      /\ finished[j] > 0 => ~MoreCtaLeft(j)
    BY <1>2, <1>6 DEF KernelLife
  <2>1. j = k => ~Done(j)
    <3>1. nextCta[k] = 0 /\ Blocks[k] \in Nat \ {0}
      BY <1>2, ShapeAssumption DEF KernelLife
    <3> QED BY <3>1 DEF Done, NoMoreCtas
  <2> QED BY <1>2, <1>5, <2>1 DEF KernelLife
<1>10. EntriesOK'
  <2>1. \A i, j \in SlotIds : running'[i] # None /\ running'[i] = running'[j] => i = j
    <3>1. \A i \in SlotIds : running[i] # k
      BY <1>2 DEF KernelLife, Running
    <3> QED BY <1>3, <3>1 DEF EntriesOK
  <2>2. ASSUME NEW c \in CoreIds, MoreCtaLeft(core[c].kernel)'
        PROVE  Running(core[c].kernel)'
    <3> PICK j : j = core[c].kernel
      OBVIOUS
    <3>1. core'[c].kernel = j /\ j \in Kernels \cup {None}
      BY <1>2 DEF DInv, Cores
    <3>2. MoreCtaLeft(j)'
      BY <2>2, <3>1 DEF MoreCtaLeft, NoMoreCtas
    <3>3. MoreCtaLeft(j)
      BY <1>6, <3>2
    <3>4. Running(j) /\ j \in Kernels
      BY <3>1, <3>3 DEF EntriesOK, MoreCtaLeft
    <3>5. Running(j)'
      BY <1>5, <3>4
    <3> QED BY <3>1, <3>5 DEF Running
  <2> QED BY <2>1, <2>2 DEF EntriesOK
<1>11. LimitDrains'
  BY <1>2, CountersStay DEF LimitDrains, AllDrained
<1>12. SelectedOnce'
  <2> SUFFICES ASSUME NEW i \in SlotIds, NEW j, j = running'[i],
                      j \in executed, MoreCtaLeft(j)
               PROVE  i = lastKernel
    BY <1>2, <1>6 DEF SelectedOnce
  <2>1. i # s
    BY <1>2, <1>3 DEF KernelLife
  <2> QED BY <1>3, <2>1 DEF SelectedOnce
<1> QED BY <1>7, <1>8, <1>9, <1>10, <1>11, <1>12

\* A kernel that is selected has an entry and is neither waiting for its
\* launch nor for its latency to end.
LEMMA SelectedIsReady ==
  ASSUME DInv, KernelLife, CanSelect, NEW k, k = running[SelectedSlot]
  PROVE  /\ SelectedSlot \in SlotIds /\ k \in Kernels /\ Running(k)
         /\ k \notin toLaunch \cup latent
<1>1. SelectedSlot \in SlotIds /\ k \in Kernels
  BY SelectedIsRunning
<1>2. Running(k)
  BY <1>1 DEF Running
<1>3. k \notin latent
  <2>1. CASE StillSelected
    BY <2>1 DEF SelectedSlot, StillSelected
  <2>2. CASE ~StillSelected
    <3>1. OtherSelectable \subseteq Nat /\ OtherSelectable # {}
      BY <2>2, DispatchAssumption DEF CanSelect, OtherSelectable
    <3>2. PICK n \in OtherSelectable : n = Min(OtherSelectable)
      BY <3>1, MinOfNats
    <3>3. SelectedSlot = (lastKernel + n) % Slots
      BY <2>2, <3>2 DEF SelectedSlot
    <3> QED BY <3>2, <3>3 DEF OtherSelectable
  <2> QED BY <2>1, <2>2
<1> QED BY <1>1, <1>2, <1>3 DEF KernelLife

\* A CTA is only ever handed out of a kernel that has an entry.
LEMMA CandidateIsReady ==
  ASSUME KInv, NEW c \in CoreIds, NEW k, k = Candidate(c), MoreCtaLeft(k)
  PROVE  k \in Kernels /\ Running(k)
<1> USE DEF KInv
<1>1. k # None
  BY DEF MoreCtaLeft
<1>2. CASE AsksForKernel(c)
  <2>1. CanSelect /\ k = running[SelectedSlot]
    BY <1>1, <1>2 DEF Candidate
  <2> QED BY <2>1, SelectedIsReady
<1>3. CASE ~AsksForKernel(c)
  <2>1. k = core[c].kernel
    BY <1>3 DEF Candidate
  <2>2. k \in Kernels
    BY <1>1, <2>1 DEF DInv, Cores
  <2> QED BY <2>1, <2>2 DEF EntriesOK
<1> QED BY <1>2, <1>3

\* The CTA core c got in a pass, if any, on the counters.
LEMMA IssueCounts ==
  ASSUME KInv, IssueToCore, NEW c \in CoreIds,
         c = <<Head(pass.clusters),
               (nextCore[Head(pass.clusters)] + 1 + pass.tried) % PerCluster>>
  PROVE  \/ \E k \in Kernels :
              /\ MoreCtaLeft(k) /\ Running(k)
              /\ launched' = launched + 1
              /\ nextCta' = [nextCta EXCEPT ![k] = @ + 1]
              /\ inFlight' = [inFlight EXCEPT ![k] = @ + 1]
              /\ \A j : Cardinality(CtasOf(j)') =
                          IF j = k THEN Cardinality(CtasOf(j)) + 1
                                   ELSE Cardinality(CtasOf(j))
         \/ /\ UNCHANGED <<launched, nextCta, inFlight>>
            /\ \A j : Cardinality(CtasOf(j)') = Cardinality(CtasOf(j))
<1> USE DEF KInv
<1> PICK k : k = Candidate(c)
  OBVIOUS
<1> PICK b : b = Bound(c)
  OBVIOUS
<1>1. /\ core \in [CoreIds -> Cores] /\ option \in Options
      /\ "shmem" \in DOMAIN l1 /\ l1.shmem \in Nat
  BY DEF DInv
<1>2. /\ Resident(b) = Resident(core[c]) /\ b.owner = core[c].owner
      /\ CoreOK(b)
  <2>1. core[c] \in Cores /\ CoreOK(b)
    BY BindingKeepsCore DEF DInv
  <2>2. b.active = core[c].active /\ b.owner = core[c].owner
    BY <2>1 DEF Bound, Cores
  <2> QED BY <2>1, <2>2 DEF Resident
<1>3. CASE Issues(c)
  <2> PICK r : r = IssueBlock(b, k)
    OBVIOUS
  <2>1. /\ core' = [core EXCEPT ![c] = r]
        /\ launched' = launched + 1
        /\ nextCta' = [nextCta EXCEPT ![k] = @ + 1]
        /\ inFlight' = [inFlight EXCEPT ![k] = @ + 1]
    BY <1>3 DEF IssueToCore
  <2>2. /\ k \in Kernels /\ MoreCtaLeft(k) /\ Running(k)
        /\ CanIssue1Block(b, k) /\ (~Concurrent => b.kernel = k)
    BY <1>3, CandidateIsReady, CandidateIsBound DEF Issues
  <2>3. PICK h, first : Placed(b, k, h, first, r)
    <3>1. FreeSlots(b, k) # {}
      BY <1>1, <1>2, <2>2, SlotWhenAdmitted
    <3>2. Concurrent => FreeStarts(b, Padded(k)) # {}
      BY <2>2 DEF CanIssue1Block, HasRoom
    <3> QED BY <1>1, <1>2, <2>2, <3>1, <3>2, IssuePlacesCta
  <2>4. /\ h \in HwCtas \ Resident(core[c])
        /\ Resident(r) = Resident(core[c]) \cup {h}
        /\ \A x \in HwCtas : r.owner[x] = IF x = h THEN k ELSE core[c].owner[x]
    <3>1. first \in ThreadRange(first, Threads[k])
      <4>1. first \in Nat
        BY <2>3 DEF Placed
      <4>2. Threads[k] \in Nat \ {0}
        BY <2>2, KernelSize
      <4> QED BY <4>1, <4>2 DEF ThreadRange
    <3>2. ThreadRange(first, Threads[k]) # {}
      BY <3>1
    <3>3. \A x \in HwCtas : x \in Resident(r) <=> x \in Resident(b) \/ x = h
      BY <2>3, <3>2 DEF Placed, Resident
    <3>4. h \in HwCtas \ Resident(b)
      BY <2>3 DEF Placed
    <3>5. Resident(r) \subseteq HwCtas /\ Resident(b) \subseteq HwCtas
      BY DEF Resident
    <3>6. \A x \in HwCtas : r.owner[x] = IF x = h THEN k ELSE b.owner[x]
      BY <2>3 DEF Placed
    <3> QED BY <1>2, <3>3, <3>4, <3>5, <3>6
  <2>5. core'[c] = r /\ \A d \in CoreIds \ {c} : core'[d] = core[d]
    BY <1>1, <2>1
  <2>6. \A j : Cardinality(CtasOf(j)') =
                 IF j = k THEN Cardinality(CtasOf(j)) + 1
                          ELSE Cardinality(CtasOf(j))
    <3> TAKE j
    <3>1. Comes(c, h, k)
      BY <2>4, <2>5 DEF Comes
    <3>2. OneMore(j, k)
      BY <3>1, CtaComes, ZenonT(60)
    <3> QED BY <3>2 DEF OneMore
  <2> QED BY <2>1, <2>2, <2>6
<1>4. CASE ~Issues(c)
  <2>1. /\ core' = [core EXCEPT ![c] = b]
        /\ UNCHANGED <<launched, nextCta, inFlight>>
    BY <1>4 DEF IssueToCore
  <2>2. \A d \in CoreIds : /\ Resident(core'[d]) = Resident(core[d])
                           /\ core'[d].owner = core[d].owner
    <3>1. \A d \in CoreIds : core'[d] = IF d = c THEN b ELSE core[d]
      BY <1>1, <2>1
    <3> QED BY <1>2, <3>1
  <2>3. \A j : CtasOf(j)' = CtasOf(j)
    BY <2>2, CtasStay
  <2> QED BY <2>1, <2>3
<1> QED BY <1>3, <1>4

\* The pass, the place in it and the core whose turn it is.
LEMMA TurnOfCore ==
  ASSUME DispatchTypes, IssueToCore, NEW cl, cl = Head(pass.clusters),
         NEW i, i = (nextCore[cl] + 1 + pass.tried) % PerCluster
  PROVE  /\ cl \in ClusterIds /\ i \in 0 .. PerCluster - 1 /\ <<cl, i>> \in CoreIds
         /\ pass' \in [clusters : Seq(ClusterIds), tried : 0 .. PerCluster - 1]
         /\ pass' # NoPass => pass'.clusters # <<>>
<1> PICK visits, tried : visits = pass.clusters /\ tried = pass.tried
  OBVIOUS
<1>1. /\ visits \in Seq(ClusterIds) /\ visits # <<>>
      /\ tried \in 0 .. PerCluster - 1 /\ PerCluster \in Nat \ {0}
      /\ pass = [clusters |-> visits, tried |-> tried]
  BY DispatchAssumption DEF DispatchTypes, IssueToCore
<1>2. cl \in ClusterIds /\ Tail(visits) \in Seq(ClusterIds)
  BY <1>1
<1>3. i \in 0 .. PerCluster - 1
  <2>1. PICK n \in Nat : n = nextCore[cl]
    BY <1>2 DEF DispatchTypes
  <2> QED BY <1>1, <2>1, SMTT(60)
<1>4. \/ /\ tried + 1 < PerCluster
         /\ pass' = [clusters |-> visits, tried |-> tried + 1]
      \/ pass' = NoPass
      \/ /\ Tail(visits) # <<>>
         /\ pass' = [clusters |-> Tail(visits), tried |-> 0]
  <2>1. \/ /\ tried + 1 < PerCluster
           /\ pass' = [pass EXCEPT !.tried = @ + 1]
        \/ pass' = NoPass
        \/ /\ Tail(visits) # <<>>
           /\ pass' = [clusters |-> Tail(visits), tried |-> 0]
    BY DEF IssueToCore
  <2>2. [pass EXCEPT !.tried = @ + 1] = [clusters |-> visits, tried |-> tried + 1]
    BY <1>1
  <2> QED BY <2>1, <2>2
<1>5. CASE tried + 1 < PerCluster
           /\ pass' = [clusters |-> visits, tried |-> tried + 1]
  <2>1. tried + 1 \in 0 .. PerCluster - 1
    BY <1>1, <1>5
  <2> QED BY <1>1, <1>2, <1>3, <1>5, <2>1 DEF CoreIds
<1>6. CASE pass' = NoPass
  <2>1. pass' = [clusters |-> <<>>, tried |-> 0]
    BY <1>6 DEF NoPass
  <2>2. <<>> \in Seq(ClusterIds) /\ 0 \in 0 .. PerCluster - 1
    BY <1>1
  <2> QED BY <1>2, <1>3, <1>6, <2>1, <2>2 DEF CoreIds
<1>7. CASE Tail(visits) # <<>> /\ pass' = [clusters |-> Tail(visits), tried |-> 0]
  <2>1. 0 \in 0 .. PerCluster - 1
    BY <1>1
  <2> QED BY <1>2, <1>3, <1>7, <2>1 DEF CoreIds
<1> QED BY <1>4, <1>5, <1>6, <1>7

\* After a turn each core is bound to the kernel it was bound to or to one with
\* an entry.
LEMMA BoundAfterTurn ==
  ASSUME KInv, IssueToCore, NEW c \in CoreIds,
         c = <<Head(pass.clusters),
               (nextCore[Head(pass.clusters)] + 1 + pass.tried) % PerCluster>>,
         NEW d \in CoreIds, NEW k, k = core'[d].kernel
  PROVE  k = core[d].kernel \/ Running(k)
<1> USE DEF KInv
<1>1. core \in [CoreIds -> Cores] /\ option \in Options
      /\ "shmem" \in DOMAIN l1 /\ l1.shmem \in Nat
  BY DEF DInv
<1> PICK b : b = Bound(c)
  OBVIOUS
<1> PICK r : r = IF Issues(c) THEN IssueBlock(b, Candidate(c)) ELSE b
  OBVIOUS
<1>2. core' = [core EXCEPT ![c] = r]
  BY DEF IssueToCore
<1>3. b.kernel = core[c].kernel \/ Running(b.kernel)
  <2>1. CASE b = core[c]
    BY <2>1
  <2>2. CASE CanSelect /\ b = [core[c] EXCEPT !.kernel = running[SelectedSlot]]
    <3> PICK s : s = running[SelectedSlot]
      OBVIOUS
    <3>1. core[c] \in Cores
      BY <1>1
    <3>2. b.kernel = s
      BY <2>2, <3>1 DEF Cores
    <3> QED BY <2>2, <3>2, SelectedIsReady
  <2> QED BY <2>1, <2>2 DEF Bound
<1>4. r.kernel = b.kernel
  <2>1. CASE Issues(c)
    <3> PICK n : n = Candidate(c)
      OBVIOUS
    <3>1. /\ n \in Kernels /\ CoreOK(b) /\ CanIssue1Block(b, n)
          /\ ~Concurrent => b.kernel = n
      BY <2>1, CandidateIsBound, BindingKeepsCore
    <3>2. FreeSlots(b, n) # {}
      BY <1>1, <3>1, SlotWhenAdmitted
    <3>3. Concurrent => FreeStarts(b, Padded(n)) # {}
      BY <3>1 DEF CanIssue1Block, HasRoom
    <3>4. PICK h, first : Placed(b, n, h, first, IssueBlock(b, n))
      BY <1>1, <3>1, <3>2, <3>3, IssuePlacesCta
    <3> QED BY <2>1, <3>4 DEF Placed
  <2>2. CASE ~Issues(c)
    BY <2>2
  <2> QED BY <2>1, <2>2
<1>5. core'[d] = IF d = c THEN r ELSE core[d]
  BY <1>1, <1>2
<1> QED BY <1>3, <1>4, <1>5

\* One core of a pass.
LEMMA IssueToCoreKeepsKInv ==
  ASSUME KInv, IssueToCore, DInv'
  PROVE  KInv'
<1> USE DEF KInv
<1> PICK cl : cl = Head(pass.clusters)
  OBVIOUS
<1> PICK place : place = (nextCore[cl] + 1 + pass.tried) % PerCluster
  OBVIOUS
<1> PICK c : c = <<cl, place>>
  OBVIOUS
<1>1. /\ cl \in ClusterIds /\ place \in 0 .. PerCluster - 1 /\ c \in CoreIds
      /\ pass' \in [clusters : Seq(ClusterIds), tried : 0 .. PerCluster - 1]
      /\ pass' # NoPass => pass'.clusters # <<>>
  BY TurnOfCore
<1>2. /\ UNCHANGED <<option, toLaunch, latent, running, issuedBefore, finished,
                     over>>
      /\ \/ UNCHANGED <<lastKernel, executed>>
         \/ /\ CanSelect /\ lastKernel' = SelectedSlot
            /\ executed' = executed \cup {running[SelectedSlot]}
      /\ \/ UNCHANGED <<l1, adapted>>
         \/ /\ MoreCtaLeft(Candidate(c)) /\ l1' = Adapted(Candidate(c))
            /\ adapted' = adapted \cup {Candidate(c)}
      /\ \/ UNCHANGED <<nextCore, lastCluster>>
         \/ /\ nextCore' = [nextCore EXCEPT ![cl] = place]
            /\ lastCluster' = cl
  BY DEF IssueToCore
<1>3. L1OK'
  <2>1. CASE UNCHANGED l1
    BY <1>2, <2>1 DEF L1OK
  <2>2. CASE MoreCtaLeft(Candidate(c)) /\ l1' = Adapted(Candidate(c))
    <3> PICK k : k = Candidate(c)
      OBVIOUS
    <3>1. k \in Kernels
      BY <1>1, <2>2, CandidateIsReady
    <3> QED BY <1>2, <2>2, <3>1, AdaptedKeepsL1 DEF DInv
  <2> QED BY <1>2, <2>1, <2>2
<1>4. \/ \E k \in Kernels :
           /\ MoreCtaLeft(k) /\ Running(k)
           /\ launched' = launched + 1
           /\ nextCta' = [nextCta EXCEPT ![k] = @ + 1]
           /\ inFlight' = [inFlight EXCEPT ![k] = @ + 1]
           /\ \A j : Cardinality(CtasOf(j)') =
                       IF j = k THEN Cardinality(CtasOf(j)) + 1
                                ELSE Cardinality(CtasOf(j))
      \/ /\ UNCHANGED <<launched, nextCta, inFlight>>
         /\ \A j : Cardinality(CtasOf(j)') = Cardinality(CtasOf(j))
  BY <1>1, IssueCounts
<1>5. /\ nextCta \in [Kernels -> Nat] /\ inFlight \in [Kernels -> Nat]
      /\ launched \in Nat /\ issuedBefore \in Nat
      /\ nextCta' \in [Kernels -> Nat] /\ inFlight' \in [Kernels -> Nat]
      /\ launched' \in Nat
      /\ \A k \in Kernels : nextCta[k] <= nextCta'[k]
  <2>1. /\ nextCta \in [Kernels -> Nat] /\ inFlight \in [Kernels -> Nat]
        /\ launched \in Nat /\ issuedBefore \in Nat
    BY DEF DispatchTypes
  <2>2. CASE UNCHANGED <<launched, nextCta, inFlight>>
    BY <2>1, <2>2
  <2>3. ASSUME NEW k \in Kernels, launched' = launched + 1,
               nextCta' = [nextCta EXCEPT ![k] = @ + 1],
               inFlight' = [inFlight EXCEPT ![k] = @ + 1]
        PROVE  /\ nextCta' \in [Kernels -> Nat] /\ inFlight' \in [Kernels -> Nat]
               /\ launched' \in Nat
               /\ \A j \in Kernels : nextCta[j] <= nextCta'[j]
    BY <2>1, <2>3
  <2> QED BY <1>4, <2>1, <2>2, <2>3
<1>6. executed' \subseteq Kernels
  BY <1>2, SelectedIsReady DEF DispatchTypes
<1>7. DispatchTypes'
  <2>1. adapted' \subseteq Kernels
    <3>1. MoreCtaLeft(Candidate(c)) => Candidate(c) \in Kernels
      BY <1>1, CandidateIsReady
    <3> QED BY <1>2, <3>1 DEF DispatchTypes
  <2>2. /\ lastCluster' \in ClusterIds
        /\ nextCore' \in [ClusterIds -> 0 .. PerCluster - 1]
    BY <1>1, <1>2 DEF DispatchTypes
  <2> QED BY <1>1, <1>2, <1>5, <1>6, <2>1, <2>2 DEF DispatchTypes
<1>8. HitMaxCtaCount => HitMaxCtaCount'
  <2>1. CtaLimit \in Nat /\ CtaLimit' = CtaLimit
    BY <1>2, ShapeAssumption DEF DInv, CtaLimit
  <2> PICK limit, before, now : limit = CtaLimit /\ before = issuedBefore
                                /\ now = launched
    OBVIOUS
  <2>2. limit \in Nat /\ before \in Nat /\ now \in Nat
    BY <1>5, <2>1
  <2>3. launched' = now \/ launched' = now + 1
    BY <1>4
  <2>4. before + now >= limit => before + launched' >= limit
    BY <2>2, <2>3
  <2> QED BY <1>2, <2>1, <2>4 DEF HitMaxCtaCount
<1>9. \A k \in Kernels : /\ MoreCtaLeft(k)' => MoreCtaLeft(k)
                         /\ NoMoreCtas(k) => NoMoreCtas(k)'
  <2> TAKE k \in Kernels
  <2>1. nextCta[k] \in Nat /\ nextCta'[k] \in Nat /\ nextCta[k] <= nextCta'[k]
    BY <1>5
  <2> QED BY <1>8, <2>1, FewerLeft
<1>10. \A k : Running(k)' <=> Running(k)
  BY <1>2 DEF Running
<1>11. KernelLife'
  <2> SUFFICES ASSUME NEW j \in Kernels
               PROVE  /\ nextCta'[j] <= Blocks[j] /\ inFlight'[j] <= nextCta'[j]
                      /\ inFlight'[j] = Cardinality(CtasOf(j)')
                      /\ j \in toLaunch =>
                           nextCta'[j] = 0 /\ finished[j] = 0 /\ ~Running(j)
                      /\ j \in toLaunch \cup latent => j \notin executed'
                      /\ j \notin toLaunch => Running(j) \/ finished[j] = 1
                      /\ finished[j] <= 1
                      /\ Running(j) => finished[j] = 0 /\ ~Done(j)'
                      /\ inFlight'[j] > 0 => Running(j)
                      /\ finished[j] > 0 => ~MoreCtaLeft(j)'
    BY <1>2, <1>10 DEF KernelLife
  <2>1. j \in toLaunch \cup latent => j \notin executed'
    BY <1>2, SelectedIsReady DEF KernelLife
  <2>2. finished[j] > 0 => ~MoreCtaLeft(j)'
    BY <1>9 DEF KernelLife
  <2>3. CASE UNCHANGED <<launched, nextCta, inFlight>>
             /\ \A i : Cardinality(CtasOf(i)') = Cardinality(CtasOf(i))
    <3>1. Done(j)' <=> Done(j)
      BY <1>2, <2>3, CountersStay
    <3> QED BY <2>1, <2>2, <2>3, <3>1 DEF KernelLife
  <2>4. ASSUME NEW k \in Kernels, MoreCtaLeft(k), Running(k),
               nextCta' = [nextCta EXCEPT ![k] = @ + 1],
               inFlight' = [inFlight EXCEPT ![k] = @ + 1],
               \A i : Cardinality(CtasOf(i)') =
                        IF i = k THEN Cardinality(CtasOf(i)) + 1
                                 ELSE Cardinality(CtasOf(i))
        PROVE  /\ nextCta'[j] <= Blocks[j] /\ inFlight'[j] <= nextCta'[j]
               /\ inFlight'[j] = Cardinality(CtasOf(j)')
               /\ j \in toLaunch => nextCta'[j] = 0
               /\ Running(j) => ~Done(j)'
               /\ inFlight'[j] > 0 => Running(j)
    <3>1. CASE j = k
      <4> PICK n, m : n = nextCta[k] /\ m = inFlight[k]
        OBVIOUS
      <4>1. /\ n \in Nat /\ m \in Nat /\ Blocks[k] \in Nat
            /\ nextCta'[k] = n + 1 /\ inFlight'[k] = m + 1
        BY <1>5, <2>4, ShapeAssumption
      <4>2. n < Blocks[k]
        <5>1. ~(n >= Blocks[k])
          BY <2>4 DEF MoreCtaLeft, NoMoreCtas
        <5> QED BY <4>1, <5>1
      <4>3. m <= n /\ m = Cardinality(CtasOf(k)) /\ k \notin toLaunch
        BY <2>4 DEF KernelLife
      <4>4. ~Done(k)'
        BY <4>1 DEF Done
      <4>5. Cardinality(CtasOf(k)') = m + 1
        BY <2>4, <4>3
      <4> QED BY <2>4, <3>1, <4>1, <4>2, <4>3, <4>4, <4>5
    <3>2. CASE j # k
      <4>1. /\ nextCta'[j] = nextCta[j] /\ inFlight'[j] = inFlight[j]
            /\ Cardinality(CtasOf(j)') = Cardinality(CtasOf(j))
        BY <1>5, <2>4, <3>2
      <4>2. Done(j)' <=> Done(j)
        BY <4>1 DEF Done, NoMoreCtas
      <4> QED BY <4>1, <4>2 DEF KernelLife
    <3> QED BY <3>1, <3>2
  <2>5. /\ j \in toLaunch => finished[j] = 0 /\ ~Running(j)
        /\ j \notin toLaunch => Running(j) \/ finished[j] = 1
        /\ finished[j] <= 1
        /\ Running(j) => finished[j] = 0
    BY DEF KernelLife
  <2> QED BY <1>4, <2>1, <2>2, <2>3, <2>4, <2>5
<1>12. EntriesOK'
  <2>1. ASSUME NEW d \in CoreIds, MoreCtaLeft(core[d].kernel)'
        PROVE  Running(core[d].kernel)'
    <3> PICK k : k = core'[d].kernel
      OBVIOUS
    <3>1. MoreCtaLeft(k)'
      BY <2>1 DEF MoreCtaLeft, NoMoreCtas
    <3>2. k \in Kernels
      BY <3>1 DEF MoreCtaLeft, DInv, Cores
    <3>3. MoreCtaLeft(k)
      BY <1>9, <3>1, <3>2
    <3>4. k = core[d].kernel \/ Running(k)
      BY <1>1, BoundAfterTurn
    <3>5. Running(k)
      BY <3>3, <3>4 DEF EntriesOK
    <3> QED BY <1>10, <3>5 DEF Running
  <2> QED BY <1>2, <2>1 DEF EntriesOK
<1>13. LimitDrains'
  <2> SUFFICES ASSUME LimitUsedUp' PROVE AllDrained'
    BY DEF LimitDrains
  <2>1. LimitUsedUp /\ AllDrained
    BY <1>2 DEF LimitDrains, LimitUsedUp, CtaLimit
  <2>2. \A k : ~MoreCtaLeft(k)
    <3>1. HitMaxCtaCount
      <4> PICK limit, before : limit = CtaLimit /\ before = issuedBefore
        OBVIOUS
      <4>1. limit \in Nat /\ before \in Nat /\ limit # 0 /\ before >= limit
        BY <1>5, <2>1, ShapeAssumption DEF LimitUsedUp, DInv, CtaLimit
      <4>2. before + launched >= limit
        BY <1>5, <4>1
      <4> QED BY <4>1, <4>2 DEF HitMaxCtaCount
    <3> QED BY <3>1 DEF MoreCtaLeft
  <2>3. \A k : CtasOf(k) = {}
    BY <2>1 DEF AllDrained, Drained, CtasOf
  <2>4. \A k : CtasOf(k)' = {}
    <3> TAKE k
    <3>1. Cardinality(CtasOf(k)') = Cardinality(CtasOf(k))
      BY <1>4, <2>2
    <3>2. Cardinality(CtasOf(k)') = 0
      BY <2>3, <3>1, FS_EmptySet
    <3>3. IsFiniteSet(CtasOf(k)')
      <4>1. CtasOf(k)' \subseteq CoreIds \X HwCtas
        BY DEF CtasOf
      <4> QED BY <4>1, CtasFinite, FS_Subset
    <3> QED BY <3>2, <3>3, FS_EmptySet
  <2>5. ASSUME NEW d \in CoreIds, NEW h \in Resident(core'[d])
        PROVE  FALSE
    <3> PICK k, p : k = core'[d].owner[h] /\ p = <<d, h>>
      OBVIOUS
    <3>1. h \in HwCtas
      BY <2>5 DEF Resident
    <3>2. p \in CoreIds \X HwCtas /\ p[1] = d /\ p[2] = h
      BY <3>1
    <3>3. p \in CtasOf(k)'
      BY <2>5, <3>2 DEF CtasOf
    <3> QED BY <2>4, <3>3
  <2> QED BY <2>5 DEF AllDrained, Drained
<1>14. SelectedOnce'
  <2> SUFFICES ASSUME NEW i \in SlotIds, NEW k, k = running[i],
                      k \in executed', MoreCtaLeft(k)'
               PROVE  i = lastKernel'
    BY <1>2 DEF SelectedOnce
  <2>1. k \in Kernels /\ MoreCtaLeft(k)
    <3>1. k \in Kernels
      BY <1>6
    <3> QED BY <1>9, <3>1
  <2>2. CASE UNCHANGED <<lastKernel, executed>>
    BY <2>1, <2>2 DEF SelectedOnce
  <2>3. CASE /\ CanSelect /\ lastKernel' = SelectedSlot
             /\ executed' = executed \cup {running[SelectedSlot]}
    <3>1. CASE k \in executed
      <4>1. i = lastKernel
        BY <2>1, <3>1 DEF SelectedOnce
      <4>2. k \notin latent
        BY <2>1, <3>1 DEF KernelLife
      <4>3. StillSelected
        BY <2>1, <4>1, <4>2 DEF StillSelected, MoreCtaLeft
      <4> QED BY <2>3, <4>1, <4>3 DEF SelectedSlot
    <3>2. CASE k = running[SelectedSlot]
      <4>1. SelectedSlot \in SlotIds /\ k # None
        BY <2>1, <2>3, SelectedIsReady DEF MoreCtaLeft
      <4> QED BY <2>3, <3>2, <4>1 DEF EntriesOK
    <3> QED BY <2>3, <3>1, <3>2
  <2> QED BY <1>2, <2>2, <2>3
<1> QED BY <1>3, <1>7, <1>11, <1>12, <1>13, <1>14

\* A warp reclaimed while its CTA stays changes no count.
LEMMA WarpExitKeepsKInv ==
  ASSUME KInv, NEW c \in CoreIds, NEW after,
         core' = [core EXCEPT ![c] = after],
         Resident(after) = Resident(core[c]), after.owner = core[c].owner,
         after.kernel = core[c].kernel, L1OK', DispatchTypes', DInv',
         UNCHANGED <<option, nextCta, inFlight>>,
         UNCHANGED <<launched, issuedBefore>>,
         UNCHANGED <<toLaunch, running, lastKernel, executed, finished>>,
         UNCHANGED latent
  PROVE  KInv'
<1>1. core \in [CoreIds -> Cores]
  BY DEF KInv, DInv
<1>2. \A d \in CoreIds : core'[d] = IF d = c THEN after ELSE core[d]
  BY <1>1
<1>3. \A d \in CoreIds : /\ Resident(core'[d]) = Resident(core[d])
                         /\ core'[d].owner = core[d].owner
                         /\ core'[d].kernel = core[d].kernel
  BY <1>2
<1>4. (KernelLife /\ EntriesOK /\ LimitDrains /\ SelectedOnce)'
  BY <1>3, OthersKeepLife DEF KInv
<1> QED BY <1>4 DEF KInv

\* A CTA ends: with the last one that will come its kernel is reported.
LEMMA CtaEndKeepsKInv ==
  ASSUME KInv, NEW c \in CoreIds, NEW h \in HwCtas, NEW r, NEW k,
         h \in Resident(core[c]), k = core[c].owner[h], k \in Kernels,
         Leaves(core[c], h, r),
         core' = [core EXCEPT ![c] = r],
         inFlight' = [inFlight EXCEPT ![k] = @ - 1],
         IF ReportsDone(k, inFlight')
         THEN /\ finished' = [finished EXCEPT ![k] = @ + 1]
              /\ running' = Without({k})
         ELSE UNCHANGED <<running, finished>>,
         UNCHANGED <<option, l1, toLaunch, latent, lastKernel, lastCluster,
                     nextCore, nextCta, launched, issuedBefore, adapted,
                     executed, pass, over>>,
         DInv'
  PROVE  KInv'
<1> USE DEF KInv
<1>1. /\ core \in [CoreIds -> Cores] /\ option \in Options
      /\ running \in [SlotIds -> Kernels \cup {None}]
      /\ nextCta \in [Kernels -> Nat] /\ inFlight \in [Kernels -> Nat]
      /\ finished \in [Kernels -> Nat]
  BY DEF DInv, DispatchTypes
<1>2. /\ core'[c] = r /\ \A d \in CoreIds \ {c} : core'[d] = core[d]
      /\ Resident(core'[c]) = Resident(core[c]) \ {h}
      /\ core'[c].owner = core[c].owner
      /\ core'[c].kernel \in {None, core[c].kernel}
  BY <1>1 DEF Leaves
<1>3. \A j : /\ Cardinality(CtasOf(j)') = IF j = k THEN Cardinality(CtasOf(j)) - 1
                                                   ELSE Cardinality(CtasOf(j))
             /\ j = k => Cardinality(CtasOf(j)) \in Nat \ {0}
  BY <1>2, CtaGoes
<1>4. /\ inFlight[k] \in Nat \ {0} /\ Running(k) /\ k \notin toLaunch
      /\ finished[k] = 0 /\ k # None /\ None \notin Kernels
  BY <1>3, ShapeAssumption DEF KernelLife
<1>5. /\ inFlight' \in [Kernels -> Nat] /\ inFlight'[k] = inFlight[k] - 1
      /\ \A j \in Kernels \ {k} : inFlight'[j] = inFlight[j]
  BY <1>1, <1>4
<1>6. \A j : MoreCtaLeft(j)' <=> MoreCtaLeft(j)
  BY DEF MoreCtaLeft, HitMaxCtaCount, NoMoreCtas, CtaLimit
<1>7. /\ finished' \in [Kernels -> Nat]
      /\ finished'[k] = IF ReportsDone(k, inFlight') THEN 1 ELSE 0
      /\ \A j \in Kernels \ {k} : finished'[j] = finished[j]
  BY <1>1, <1>4
<1>8. \A i \in SlotIds :
        running'[i] = IF ReportsDone(k, inFlight') /\ running[i] = k
                      THEN None ELSE running[i]
  BY <1>1 DEF Without
<1>9. \A j \in Kernels :
        Running(j)' <=> Running(j) /\ ~(ReportsDone(k, inFlight') /\ j = k)
  BY <1>4, <1>8 DEF Running
<1>10. L1OK' /\ DispatchTypes'
  BY <1>5, <1>7 DEF L1OK, DispatchTypes
<1>11. KernelLife'
  <2> SUFFICES ASSUME NEW j \in Kernels
               PROVE  /\ nextCta[j] <= Blocks[j] /\ inFlight'[j] <= nextCta[j]
                      /\ inFlight'[j] = Cardinality(CtasOf(j)')
                      /\ j \in toLaunch =>
                           nextCta[j] = 0 /\ finished'[j] = 0 /\ ~Running(j)'
                      /\ j \in toLaunch \cup latent => j \notin executed
                      /\ j \notin toLaunch => Running(j)' \/ finished'[j] = 1
                      /\ finished'[j] <= 1
                      /\ Running(j)' => finished'[j] = 0 /\ ~Done(j)'
                      /\ inFlight'[j] > 0 => Running(j)'
                      /\ finished'[j] > 0 => ~MoreCtaLeft(j)
    BY <1>6 DEF KernelLife
  <2>1. CASE j = k
    <3> PICK n, m : n = nextCta[k] /\ m = inFlight[k]
      OBVIOUS
    <3>1. /\ n \in Nat /\ m \in Nat \ {0} /\ m <= n /\ n <= Blocks[k]
          /\ m = Cardinality(CtasOf(k)) /\ Blocks[k] \in Nat
      BY <1>1, <1>4, ShapeAssumption DEF KernelLife
    <3>2. inFlight'[k] = m - 1 /\ Cardinality(CtasOf(k)') = m - 1 /\ m - 1 <= n
      BY <1>3, <1>5, <3>1
    <3>3. j \notin executed \/ j \notin toLaunch \cup latent
      BY DEF KernelLife
    <3>4. CASE ReportsDone(k, inFlight')
      <4>1. ~MoreCtaLeft(k) /\ inFlight'[k] = 0
        BY <3>4 DEF ReportsDone
      <4>2. finished'[k] = 1 /\ ~Running(k)'
        BY <1>7, <1>9, <3>4
      <4>3. /\ nextCta[j] <= Blocks[j] /\ inFlight'[j] <= nextCta[j]
            /\ inFlight'[j] = Cardinality(CtasOf(j)') /\ ~(inFlight'[j] > 0)
        BY <2>1, <3>1, <3>2, <4>1
      <4>4. finished'[j] = 1 /\ ~Running(j)' /\ ~MoreCtaLeft(j)
        BY <2>1, <4>1, <4>2
      <4>5. j \notin toLaunch
        BY <1>4, <2>1
      <4> QED BY <3>3, <4>3, <4>4, <4>5
    <3>5. CASE ~ReportsDone(k, inFlight')
      <4>1. finished'[k] = 0 /\ Running(k)'
        BY <1>4, <1>7, <1>9, <3>5
      <4>2. ~Done(k)'
        <5> SUFFICES ASSUME NoMoreCtas(k), inFlight'[k] = 0
                     PROVE  FALSE
          BY DEF Done, NoMoreCtas
        <5>1. ~MoreCtaLeft(k)
          BY DEF MoreCtaLeft
        <5> QED BY <3>5, <5>1 DEF ReportsDone
      <4>3. /\ nextCta[j] <= Blocks[j] /\ inFlight'[j] <= nextCta[j]
            /\ inFlight'[j] = Cardinality(CtasOf(j)')
        BY <2>1, <3>1, <3>2
      <4>4. finished'[j] = 0 /\ Running(j)' /\ ~Done(j)'
        BY <2>1, <4>1, <4>2
      <4>5. j \notin toLaunch
        BY <1>4, <2>1
      <4> QED BY <3>3, <4>3, <4>4, <4>5
    <3> QED BY <3>4, <3>5
  <2>2. CASE j # k
    <3>1. /\ inFlight'[j] = inFlight[j] /\ finished'[j] = finished[j]
          /\ Cardinality(CtasOf(j)') = Cardinality(CtasOf(j))
          /\ Running(j)' <=> Running(j)
      BY <1>3, <1>5, <1>7, <1>9, <2>2
    <3>2. Done(j)' <=> Done(j)
      BY <3>1 DEF Done, NoMoreCtas
    <3> QED BY <3>1, <3>2 DEF KernelLife
  <2> QED BY <2>1, <2>2
<1>12. EntriesOK'
  <2>1. \A i, j \in SlotIds : running'[i] # None /\ running'[i] = running'[j] => i = j
    BY <1>8 DEF EntriesOK
  <2>2. ASSUME NEW d \in CoreIds, MoreCtaLeft(core[d].kernel)'
        PROVE  Running(core[d].kernel)'
    <3> PICK j : j = core'[d].kernel
      OBVIOUS
    <3>1. MoreCtaLeft(j)'
      BY <2>2 DEF MoreCtaLeft, NoMoreCtas
    <3>2. MoreCtaLeft(j) /\ j # None
      BY <1>6, <3>1 DEF MoreCtaLeft
    <3>3. j = core[d].kernel
      BY <1>2, <3>2
    <3>4. j \in Kernels /\ Running(j)
      BY <1>1, <3>2, <3>3 DEF EntriesOK, Cores
    <3>5. ~(ReportsDone(k, inFlight') /\ j = k)
      BY <3>2 DEF ReportsDone
    <3> QED BY <1>9, <3>4, <3>5 DEF Running
  <2> QED BY <2>1, <2>2 DEF EntriesOK
<1>13. LimitDrains'
  <2>1. ~LimitUsedUp
    BY DEF LimitDrains, AllDrained, Drained
  <2> QED BY <2>1 DEF LimitDrains, LimitUsedUp, CtaLimit
<1>14. SelectedOnce'
  <2> SUFFICES ASSUME NEW i \in SlotIds, NEW j, j = running'[i],
                      j \in executed, MoreCtaLeft(j)
               PROVE  i = lastKernel
    BY <1>6 DEF SelectedOnce
  <2>1. j # None
    BY DEF MoreCtaLeft
  <2>2. j = running[i]
    BY <1>8, <2>1
  <2> QED BY <2>2 DEF SelectedOnce
<1> QED BY <1>10, <1>11, <1>12, <1>13, <1>14

\* A reclaimed warp.
LEMMA ReclaimKeepsKInv ==
  ASSUME KInv, NEW c \in CoreIds, NEW h \in HwCtas,
         NEW w \in WarpsOf(core[c], h), ReclaimWarp(c, h, w), DInv'
  PROVE  KInv'
<1> PICK after : after = ExitWarp(core[c], h, w)
  OBVIOUS
<1> PICK k : k = core[c].owner[h]
  OBVIOUS
<1>1. UNCHANGED <<option, l1, toLaunch, latent, lastKernel, lastCluster,
                  nextCore, nextCta, launched, issuedBefore, adapted, executed,
                  pass, over>>
  BY DEF ReclaimWarp
<1>2. CoreOK(core[c]) /\ option \in Options
  BY DEF KInv, DInv
<1>3. h \in Resident(core[c]) /\ k \in Kernels
  BY <1>2, ReclaimKeepsCore
<1>4. CASE after.active[h] # {}
  <2>1. /\ core' = [core EXCEPT ![c] = after]
        /\ UNCHANGED <<inFlight, running, finished>>
    BY <1>4 DEF ReclaimWarp
  <2>2. /\ Resident(after) = Resident(core[c]) /\ after.owner = core[c].owner
        /\ after.kernel = core[c].kernel
    BY <1>2, <1>4, ReclaimKeepsCore
  <2>3. L1OK' /\ DispatchTypes'
    BY <1>1, <2>1 DEF KInv, L1OK, DispatchTypes
  <2> QED BY <1>1, <2>1, <2>2, <2>3, WarpExitKeepsKInv
<1>5. CASE after.active[h] = {}
  <2> PICK r : r = ReleaseBlock(Unbound(after), h)
    OBVIOUS
  <2>1. /\ core' = [core EXCEPT ![c] = r]
        /\ inFlight' = [inFlight EXCEPT ![k] = @ - 1]
        /\ IF ReportsDone(k, inFlight')
           THEN /\ finished' = [finished EXCEPT ![k] = @ + 1]
                /\ running' = Without({k})
           ELSE UNCHANGED <<running, finished>>
    BY <1>5 DEF ReclaimWarp
  <2>2. Leaves(core[c], h, r)
    BY <1>2, <1>5, ReclaimKeepsCore
  <2> QED BY <1>1, <1>3, <2>1, <2>2, CtaEndKeepsKInv
<1> QED BY <1>4, <1>5

\* A new run starts with what the last one left: no CTA.
LEMMA NewRunKeepsKInv ==
  ASSUME KInv, NewRun, DInv'
  PROVE  KInv'
<1> USE DEF KInv
<1>1. /\ core' = [c \in CoreIds |-> Reinit(core[c])]
      /\ issuedBefore' = issuedBefore + launched /\ launched' = 0
      /\ executed' = {} /\ AllDrained
      /\ UNCHANGED <<option, l1, toLaunch, latent, running, lastKernel,
                     lastCluster, nextCore, nextCta, adapted, inFlight,
                     finished, pass, over>>
  BY DEF NewRun
<1>2. \A c \in CoreIds : /\ Resident(core'[c]) = Resident(core[c])
                         /\ Resident(core'[c]) = {}
                         /\ core'[c].owner = core[c].owner
                         /\ core'[c].kernel = core[c].kernel
  <2> TAKE c \in CoreIds
  <2> PICK r : r = Reinit(core[c])
    OBVIOUS
  <2>1. /\ r.kernel = core[c].kernel /\ r.owner = core[c].owner
        /\ r.active = [h \in HwCtas |-> {}]
    BY DEF Reinit, EmptyCore
  <2>2. Resident(core[c]) = {}
    BY <1>1 DEF AllDrained, Drained
  <2> QED BY <1>1, <2>1, <2>2 DEF Resident
<1>3. L1OK' /\ DispatchTypes'
  BY <1>1 DEF L1OK, DispatchTypes
<1>4. \A k : /\ MoreCtaLeft(k)' <=> MoreCtaLeft(k)
             /\ Done(k)' <=> Done(k)
             /\ Running(k)' <=> Running(k)
             /\ CtasOf(k)' = CtasOf(k)
  <2> TAKE k
  <2>1. HitMaxCtaCount' <=> HitMaxCtaCount
    <3> PICK before, now : before = issuedBefore /\ now = launched
      OBVIOUS
    <3>1. before \in Nat /\ now \in Nat
      BY DEF DispatchTypes
    <3>2. before + now + 0 = before + now
      BY <3>1
    <3>3. issuedBefore' + launched' = issuedBefore + launched
      BY <1>1, <3>2
    <3> QED BY <1>1, <3>3 DEF HitMaxCtaCount, CtaLimit
  <2>2. MoreCtaLeft(k)' <=> MoreCtaLeft(k)
    BY <1>1, <2>1 DEF MoreCtaLeft, NoMoreCtas
  <2>3. (Done(k)' <=> Done(k)) /\ (Running(k)' <=> Running(k))
    BY <1>1 DEF Done, NoMoreCtas, Running
  <2> QED BY <1>2, <2>2, <2>3, CtasStay
<1>5. KernelLife'
  <2> SUFFICES ASSUME NEW k \in Kernels
               PROVE  /\ nextCta[k] <= Blocks[k] /\ inFlight[k] <= nextCta[k]
                      /\ inFlight[k] = Cardinality(CtasOf(k))
                      /\ k \in toLaunch =>
                           nextCta[k] = 0 /\ finished[k] = 0 /\ ~Running(k)
                      /\ k \notin toLaunch => Running(k) \/ finished[k] = 1
                      /\ finished[k] <= 1
                      /\ Running(k) => finished[k] = 0 /\ ~Done(k)
                      /\ inFlight[k] > 0 => Running(k)
                      /\ finished[k] > 0 => ~MoreCtaLeft(k)
    BY <1>1, <1>4 DEF KernelLife
  <2> QED BY DEF KernelLife
<1>6. EntriesOK'
  <2>1. ASSUME NEW c \in CoreIds, MoreCtaLeft(core[c].kernel)'
        PROVE  Running(core[c].kernel)'
    <3> PICK k : k = core[c].kernel
      OBVIOUS
    <3>1. core'[c].kernel = k
      BY <1>2
    <3>2. MoreCtaLeft(k)'
      BY <2>1, <3>1 DEF MoreCtaLeft, NoMoreCtas
    <3>3. Running(k)
      BY <1>4, <3>2 DEF EntriesOK
    <3> QED BY <1>4, <3>1, <3>3 DEF Running
  <2> QED BY <1>1, <2>1 DEF EntriesOK
<1>7. LimitDrains'
  BY <1>2 DEF LimitDrains, AllDrained, Drained
<1>8. SelectedOnce'
  BY <1>1 DEF SelectedOnce
<1> QED BY <1>3, <1>5, <1>6, <1>7, <1>8

\* stop_all_running_kernels reports what is left once each.
LEMMA StopKeepsKInv ==
  ASSUME KInv, StopAllRunningKernels, DInv'
  PROVE  KInv'
<1> USE DEF KInv
<1>1. /\ LimitUsedUp /\ AllDrained /\ over' = TRUE
      /\ finished' = [k \in Kernels |-> finished[k] + Cardinality(Entries(k))]
      /\ running' = Without(Kernels)
      /\ UNCHANGED <<option, l1, toLaunch, latent, lastKernel, lastCluster,
                     nextCore, core, nextCta, launched, issuedBefore, adapted,
                     inFlight, executed, pass>>
  BY DEF StopAllRunningKernels, LimitDrains
<1>2. /\ running \in [SlotIds -> Kernels \cup {None}] /\ option \in Options
      /\ finished \in [Kernels -> Nat] /\ None \notin Kernels
  BY ShapeAssumption DEF DInv, DispatchTypes
<1>3. \A i \in SlotIds : running'[i] = None
  BY <1>1, <1>2 DEF Without
<1>4. \A k \in Kernels : ~Running(k)'
  BY <1>2, <1>3 DEF Running
<1>5. \A k : ~MoreCtaLeft(k) /\ ~MoreCtaLeft(k)'
  <2>1. HitMaxCtaCount
    <3> PICK limit, before, now : limit = CtaLimit /\ before = issuedBefore
                                  /\ now = launched
      OBVIOUS
    <3>1. /\ limit \in Nat /\ before \in Nat /\ now \in Nat
          /\ limit # 0 /\ before >= limit
      BY <1>1, <1>2, ShapeAssumption DEF LimitUsedUp, DispatchTypes, CtaLimit
    <3>2. before + now >= limit
      BY <3>1
    <3> QED BY <3>1, <3>2 DEF HitMaxCtaCount
  <2> QED BY <1>1, <2>1 DEF MoreCtaLeft, HitMaxCtaCount, CtaLimit
<1>6. \A k \in Kernels : inFlight[k] = 0 /\ CtasOf(k) = {} /\ CtasOf(k)' = {}
  <2> TAKE k \in Kernels
  <2>1. CtasOf(k) = {}
    BY <1>1 DEF AllDrained, Drained, CtasOf
  <2>2. CtasOf(k)' = CtasOf(k)
    BY <1>1, CtasStay
  <2>3. inFlight[k] = Cardinality(CtasOf(k))
    BY DEF KernelLife
  <2> QED BY <2>1, <2>2, <2>3, FS_EmptySet
<1>7. \A k \in Kernels : finished'[k] = IF k \in toLaunch THEN 0 ELSE 1
  <2> TAKE k \in Kernels
  <2>1. CASE Running(k)
    <3>1. PICK i \in SlotIds : running[i] = k
      BY <2>1 DEF Running
    <3>2. \A j \in SlotIds : running[j] = k => j = i
      BY <1>2, <3>1 DEF EntriesOK
    <3>3. Entries(k) = {i}
      BY <3>1, <3>2 DEF Entries
    <3>4. Cardinality({i}) = 1
      BY FS_Singleton
    <3>5. finished[k] = 0 /\ k \notin toLaunch
      BY <2>1 DEF KernelLife
    <3> QED BY <1>1, <3>3, <3>4, <3>5
  <2>2. CASE ~Running(k)
    <3>1. Entries(k) = {}
      BY <2>2 DEF Entries, Running
    <3>2. Cardinality(Entries(k)) = 0
      BY <3>1, FS_EmptySet
    <3>3. finished[k] = IF k \in toLaunch THEN 0 ELSE 1
      BY <2>2 DEF KernelLife
    <3> QED BY <1>1, <3>2, <3>3
  <2> QED BY <2>1, <2>2
<1>8. L1OK' /\ DispatchTypes'
  <2>1. finished' \in [Kernels -> Nat]
    <3>1. \A k \in Kernels : finished'[k] \in Nat
      BY <1>7
    <3> QED BY <1>1, <3>1
  <2> QED BY <1>1, <2>1 DEF L1OK, DispatchTypes
<1>9. KernelLife'
  <2> SUFFICES ASSUME NEW k \in Kernels
               PROVE  /\ nextCta[k] <= Blocks[k] /\ inFlight[k] <= nextCta[k]
                      /\ inFlight[k] = Cardinality(CtasOf(k)')
                      /\ k \in toLaunch => nextCta[k] = 0 /\ finished'[k] = 0
                      /\ k \in toLaunch \cup latent => k \notin executed
                      /\ k \notin toLaunch => finished'[k] = 1
                      /\ finished'[k] <= 1
                      /\ ~(inFlight[k] > 0)
    BY <1>1, <1>4, <1>5 DEF KernelLife
  <2>1. /\ nextCta[k] <= Blocks[k] /\ inFlight[k] <= nextCta[k]
        /\ inFlight[k] = Cardinality(CtasOf(k))
        /\ k \in toLaunch => nextCta[k] = 0
        /\ k \in toLaunch \cup latent => k \notin executed
    BY DEF KernelLife
  <2>2. inFlight[k] = Cardinality(CtasOf(k)') /\ inFlight[k] = 0
    <3>1. CtasOf(k)' = CtasOf(k) /\ inFlight[k] = 0
      BY <1>6
    <3> QED BY <2>1, <3>1
  <2>3. finished'[k] = IF k \in toLaunch THEN 0 ELSE 1
    BY <1>7
  <2> QED BY <2>1, <2>2, <2>3
<1>10. EntriesOK'
  <2>1. \A c : ~MoreCtaLeft(core[c].kernel)'
    BY <1>1, <1>5 DEF MoreCtaLeft, NoMoreCtas, HitMaxCtaCount, CtaLimit
  <2> QED BY <1>3, <2>1 DEF EntriesOK
<1>11. LimitDrains'
  BY <1>1 DEF LimitDrains, AllDrained
<1>12. SelectedOnce'
  BY <1>3 DEF SelectedOnce, MoreCtaLeft
<1> QED BY <1>8, <1>9, <1>10, <1>11, <1>12

\* At the start every kernel waits.
LEMMA InitKInv == Init => KInv
<1> SUFFICES ASSUME Init PROVE KInv
  OBVIOUS
<1>1. DInv
  BY InitDInv
<1>2. /\ option \in Options /\ l1 = ChangeCacheConfig(option.shmem, "prefer none")
      /\ toLaunch = Kernels /\ latent = {} /\ executed = {} /\ adapted = {}
      /\ running = [i \in SlotIds |-> None]
      /\ nextCta = [k \in Kernels |-> 0] /\ inFlight = [k \in Kernels |-> 0]
      /\ finished = [k \in Kernels |-> 0]
      /\ launched = 0 /\ issuedBefore = 0 /\ over = FALSE
      /\ lastCluster = Clusters - 1
      /\ nextCore = [cl \in ClusterIds |-> PerCluster - 1]
      /\ pass = NoPass
      /\ core \in [CoreIds -> {EmptyCore(g) : g \in Garbage}]
  BY DEF Init
<1>3. \A c \in CoreIds : Resident(core[c]) = {} /\ core[c].kernel = None
  <2> TAKE c \in CoreIds
  <2>1. PICK g : core[c] = EmptyCore(g)
    BY <1>2
  <2> QED BY <2>1 DEF EmptyCore, Resident
<1>4. L1OK
  <2>1. "prefer none" \in FuncCaches
    BY DEF FuncCaches
  <2> PICK sizes : sizes = option.shmem
    OBVIOUS
  <2>2. /\ sizes \in [FuncCaches -> Nat] /\ sizes["prefer none"] # Missing
    BY <1>2, ShapeAssumption DEF SizesOf
  <2>3. l1 = [status |-> "prefer none", shmem |-> sizes["prefer none"],
              ways |-> MaxAssoc, alloc |-> "configured", carvedFor |-> None]
    BY <1>2 DEF ChangeCacheConfig
  <2>4. sizes["prefer none"] \in Nat
    BY <2>1, <2>2
  <2>5. MaxAssoc \in 0 .. MaxAssoc
    BY CarveOutAssumption
  <2>6. /\ {"shmem", "ways"} \subseteq DOMAIN l1
        /\ l1.shmem = sizes["prefer none"] /\ l1.ways = MaxAssoc
    BY <2>3
  <2> QED BY <2>1, <2>2, <2>4, <2>5, <2>6 DEF L1OK
<1>5. DispatchTypes
  <2>1. /\ Clusters \in Nat \ {0} /\ PerCluster \in Nat \ {0}
    BY DispatchAssumption
  <2>2. /\ Clusters - 1 \in ClusterIds
        /\ PerCluster - 1 \in 0 .. PerCluster - 1 /\ 0 \in 0 .. PerCluster - 1
    BY <2>1 DEF ClusterIds
  <2>3. NoPass \in [clusters : Seq(ClusterIds), tried : 0 .. PerCluster - 1]
    BY <2>2 DEF NoPass
  <2> QED BY <1>2, <2>2, <2>3 DEF DispatchTypes
<1>6. \A k \in Kernels : ~Running(k)
  BY <1>2, ShapeAssumption DEF Running
<1>7. KernelLife
  <2> SUFFICES ASSUME NEW k \in Kernels
               PROVE  /\ 0 <= Blocks[k] /\ 0 = Cardinality(CtasOf(k))
                      /\ 0 <= 0 /\ 0 <= 1 /\ ~(0 > 0)
    BY <1>2, <1>6 DEF KernelLife
  <2>1. CtasOf(k) = {}
    BY <1>3 DEF CtasOf
  <2>2. Blocks[k] \in Nat
    BY ShapeAssumption
  <2> QED BY <2>1, <2>2, FS_EmptySet
<1>8. EntriesOK
  BY <1>2, <1>3 DEF EntriesOK, MoreCtaLeft
<1>9. LimitDrains
  BY <1>3 DEF LimitDrains, AllDrained, Drained
<1>10. SelectedOnce
  BY <1>2 DEF SelectedOnce
<1> QED BY <1>1, <1>4, <1>5, <1>7, <1>8, <1>9, <1>10 DEF KInv

\* Steps that only move a latency, a cache configuration or the pass.
LEMMA OthersKeepKInv ==
  ASSUME KInv, DInv', L1OK', DispatchTypes', latent' \subseteq latent,
         UNCHANGED <<option, nextCta, inFlight>>,
         UNCHANGED <<launched, issuedBefore>>,
         UNCHANGED <<toLaunch, running, lastKernel, executed, finished>>,
         UNCHANGED core
  PROVE  KInv'
<1>1. \A c \in CoreIds : /\ Resident(core'[c]) = Resident(core[c])
                         /\ core'[c].owner = core[c].owner
                         /\ core'[c].kernel = core[c].kernel
  OBVIOUS
<1> QED BY <1>1, OthersKeepLife DEF KInv

\* Every action keeps the invariant.
LEMMA NextKeepsKInv == KInv /\ [Next]_vars => KInv'
<1> SUFFICES ASSUME KInv, [Next]_vars PROVE KInv'
  OBVIOUS
<1>1. DInv'
  BY NextKeepsDInv DEF KInv
<1>2. CASE UNCHANGED vars
  <2>1. L1OK' /\ DispatchTypes'
    BY <1>2 DEF KInv, vars, L1OK, DispatchTypes
  <2> QED BY <1>1, <1>2, <2>1, OthersKeepKInv DEF vars
<1>3. ASSUME NEW k \in Kernels, LatencyOver(k)
      PROVE  KInv'
  <2>1. L1OK' /\ DispatchTypes'
    BY <1>3 DEF KInv, LatencyOver, L1OK, DispatchTypes
  <2> QED BY <1>1, <1>3, <2>1, OthersKeepKInv DEF LatencyOver
<1>4. ASSUME NEW c \in CoreIds, NEW h \in HwCtas, NEW w \in WarpsOf(core[c], h),
             ReclaimWarp(c, h, w)
      PROVE  KInv'
  BY <1>1, <1>4, ReclaimKeepsKInv
<1>5. ASSUME NEW k \in Kernels, Launch(k)
      PROVE  KInv'
  BY <1>1, <1>5, LaunchKeepsKInv
<1>6. ASSUME NEW k \in Kernels, AskOccupancy(k)
      PROVE  KInv'
  <2>1. DispatchTypes'
    BY <1>6 DEF KInv, AskOccupancy, DispatchTypes
  <2>2. L1OK'
    BY <1>6, AdaptedKeepsL1 DEF AskOccupancy, KInv, DInv
  <2> QED BY <1>1, <1>6, <2>1, <2>2, OthersKeepKInv DEF AskOccupancy
<1>7. CASE IssueToCore
  BY <1>1, <1>7, IssueToCoreKeepsKInv
<1>8. CASE StartPass
  <2>1. L1OK'
    BY <1>8 DEF KInv, StartPass, L1OK
  <2>2. DispatchTypes'
    <3> PICK n, last : n = Clusters /\ last = lastCluster
      OBVIOUS
    <3>1. n \in Nat \ {0} /\ last \in Nat /\ ClusterIds = 0 .. n - 1
      BY DispatchAssumption DEF KInv, DispatchTypes, ClusterIds
    <3> PICK visits : visits = [i \in 1 .. n |-> (last + i) % n]
      OBVIOUS
    <3>2. visits \in Seq(ClusterIds) /\ visits # <<>>
      <4>1. \A i \in 1 .. n : (last + i) % n \in 0 .. n - 1
        BY <3>1
      <4>2. visits \in [1 .. n -> ClusterIds]
        BY <3>1, <4>1
      <4>3. visits \in Seq(ClusterIds)
        BY <3>1, <4>2, SeqDef
      <4>4. DOMAIN visits = 1 .. n /\ 1 \in 1 .. n
        BY <3>1
      <4>5. visits # <<>>
        BY <4>4
      <4> QED BY <4>3, <4>5
    <3>3. pass' = [clusters |-> visits, tried |-> 0]
      BY <1>8 DEF StartPass
    <3>4. 0 \in 0 .. PerCluster - 1
      BY DispatchAssumption
    <3>5. /\ pass' \in [clusters : Seq(ClusterIds), tried : 0 .. PerCluster - 1]
          /\ pass'.clusters # <<>>
      BY <3>2, <3>3, <3>4
    <3> QED BY <1>8, <3>5 DEF KInv, StartPass, DispatchTypes
  <2> QED BY <1>1, <1>8, <2>1, <2>2, OthersKeepKInv DEF StartPass
<1>9. CASE NewRun
  BY <1>1, <1>9, NewRunKeepsKInv
<1>10. CASE StopAllRunningKernels
  BY <1>1, <1>10, StopKeepsKInv
<1> QED BY <1>2, <1>3, <1>4, <1>5, <1>6, <1>7, <1>8, <1>9, <1>10
        DEF Next, Stopped

\* Every kernel's counters stay within its grid; a kernel is selected until its
\* CTAs are handed out, has its entry in m_running_kernels as long as one of
\* its CTAs runs, and is reported exactly once, when the last CTA it gets has
\* ended on the last core or when gpgpu_max_cta stops the simulation.
THEOREM EachKernelReportedOnce == Spec => []KernelsServedOnce
<1>1. KInv => TypeOK
  <2> SUFFICES ASSUME KInv PROVE TypeOK
    OBVIOUS
  <2>1. \A k \in Kernels : /\ nextCta[k] \in 0 .. Blocks[k]
                           /\ inFlight[k] \in 0 .. nextCta[k]
    <3> TAKE k \in Kernels
    <3>1. /\ nextCta[k] \in Nat /\ inFlight[k] \in Nat /\ Blocks[k] \in Nat
          /\ nextCta[k] <= Blocks[k] /\ inFlight[k] <= nextCta[k]
      BY ShapeAssumption DEF KInv, DispatchTypes, KernelLife
    <3> QED BY <3>1
  <2>2. \A c \in CoreIds : core[c].kernel \in Kernels \cup {None}
    BY DEF KInv, DInv, Cores
  <2>3. pass.clusters \in Seq(ClusterIds) /\ pass.tried \in 0 .. PerCluster - 1
    BY DEF KInv, DispatchTypes
  <2> QED BY <2>1, <2>2, <2>3 DEF KInv, DInv, L1OK, DispatchTypes, TypeOK
<1>2. KInv => ReportedOnceDone
  <2> SUFFICES ASSUME KInv, NEW k \in Kernels
               PROVE  /\ finished[k] <= 1
                      /\ inFlight[k] > 0 => Running(k)
                      /\ finished[k] > 0 =>
                           \A c \in CoreIds : \A h \in Resident(core[c]) :
                             core[c].owner[h] # k
                      /\ CtaLimit = 0 => (Done(k) <=> finished[k] > 0)
    BY DEF ReportedOnceDone, Running
  <2>1. /\ finished[k] \in Nat /\ inFlight[k] \in Nat /\ nextCta[k] \in Nat
        /\ Blocks[k] \in Nat \ {0} /\ k # None
    BY ShapeAssumption DEF KInv, DispatchTypes
  <2>2. finished[k] > 0 => inFlight[k] = 0
    BY <2>1 DEF KInv, KernelLife
  <2>3. ASSUME finished[k] > 0, NEW c \in CoreIds, NEW h \in Resident(core[c]),
               core[c].owner[h] = k
        PROVE  FALSE
    <3>1. h \in HwCtas
      BY DEF Resident
    <3>2. <<c, h>> \in CtasOf(k)
      BY <2>3, <3>1, CtaMembers
    <3>3. Cardinality(CtasOf(k)) = 0
      BY <2>2, <2>3 DEF KInv, KernelLife
    <3> QED BY <3>2, <3>3, CtasFinite, FS_EmptySet
  <2>4. Done(k) => finished[k] > 0
    <3> SUFFICES ASSUME Done(k) PROVE finished[k] > 0
      OBVIOUS
    <3>1. nextCta[k] # 0
      BY <2>1 DEF Done, NoMoreCtas
    <3> QED BY <3>1 DEF KInv, KernelLife
  <2>5. CtaLimit = 0 /\ finished[k] > 0 => Done(k)
    BY <2>1, <2>2 DEF KInv, KernelLife, MoreCtaLeft, HitMaxCtaCount, Done
  <2> QED BY <2>3, <2>4, <2>5 DEF KInv, KernelLife
<1>3. KInv => KernelsServedOnce
  BY <1>1, <1>2 DEF KInv, KernelsServedOnce
<1> QED BY <1>3, InitKInv, NextKeepsKInv, PTL DEF Spec


-----------------------------------------------------------------------------
(* What the CTAs of a core need is booked, or limited, exactly: the        *)
(* accounts of shared cores, the limits of cores bound to a kernel, and    *)
(* the carve-out of the L1 cache.                                          *)
(*                                                                         *)
(* Sums over the CTAs of a core: SumFunction takes the values in some      *)
(* order, which makes no difference.                                       *)

Pick(S) == CHOOSE x \in S : TRUE

\* g has the sum of F over every subset of S.
IsSum(F, S, g) ==
  g = [s \in SUBSET S |-> IF s = {} THEN 0 ELSE F[Pick(s)] + g[s \ {Pick(s)}]]

\* A set without its chosen element is smaller.
LEMMA WithoutOne ==
  ASSUME NEW S, IsFiniteSet(S), NEW x \in S
  PROVE  /\ IsFiniteSet(S \ {x})
         /\ Cardinality(S) \in Nat /\ Cardinality(S \ {x}) \in Nat
         /\ Cardinality(S \ {x}) = Cardinality(S) - 1
<1>1. /\ IsFiniteSet(S \ {x})
      /\ Cardinality(S \ {x}) = IF x \in S THEN Cardinality(S) - 1
                                           ELSE Cardinality(S)
  BY FS_RemoveElement
<1>2. Cardinality(S) \in Nat /\ Cardinality(S \ {x}) \in Nat
  BY <1>1, FS_CardinalityType
<1> QED BY <1>1, <1>2

\* What a sum is on a subset.
LEMMA SumOfNone ==
  ASSUME NEW F, NEW S, NEW g, IsSum(F, S, g)
  PROVE  g[{}] = 0
BY DEF IsSum

\* The sum takes the chosen element first.
LEMMA SumStep ==
  ASSUME NEW F, NEW S, NEW g, IsSum(F, S, g), NEW s, s \subseteq S, s # {},
         NEW p, p = Pick(s), NEW rest, rest = s \ {p}
  PROVE  p \in s /\ g[s] = F[p] + g[rest]
<1>1. g[s] = IF s = {} THEN 0 ELSE F[Pick(s)] + g[s \ {Pick(s)}]
  BY DEF IsSum
<1>2. p \in s
  BY DEF Pick
<1>3. g[s] = F[p] + g[rest]
  <2>1. g[s] = F[Pick(s)] + g[s \ {Pick(s)}]
    BY <1>1
  <2> QED BY <2>1, Zenon
<1> QED BY <1>2, <1>3

\* Two sums of the same values agree.
LEMMA SumsAgree ==
  ASSUME NEW F, NEW S, NEW g, IsSum(F, S, g), NEW G, NEW T, NEW h, IsSum(G, T, h),
         NEW R, R \subseteq S, R \subseteq T, IsFiniteSet(R),
         \A y \in R : F[y] = G[y]
  PROVE  g[R] = h[R]
<1> DEFINE Apart(r) == r \subseteq R /\ g[r] # h[r]
           sizes == {n \in Nat : \E r : Apart(r) /\ Cardinality(r) = n}
<1> SUFFICES ASSUME g[R] # h[R] PROVE FALSE
  OBVIOUS
<1>1. sizes # {}
  <2>1. Cardinality(R) \in Nat
    BY FS_CardinalityType
  <2> QED BY <2>1
<1>2. PICK n \in sizes : \A m \in sizes : n <= m
  BY <1>1, MinOfNats
<1>3. PICK r : r \subseteq R /\ g[r] # h[r] /\ Cardinality(r) = n
  OBVIOUS
<1>4. r \subseteq S /\ r \subseteq T /\ IsFiniteSet(r)
  BY <1>3, FS_Subset
<1>5. r # {}
  BY <1>3, <1>4, SumOfNone
<1> PICK p, rest : p = Pick(r) /\ rest = r \ {p}
  OBVIOUS
<1>6. p \in r /\ g[r] = F[p] + g[rest] /\ h[r] = G[p] + h[rest] /\ F[p] = G[p]
  BY <1>3, <1>4, <1>5, SumStep
<1>7. g[rest] # h[rest] /\ rest \subseteq R
  BY <1>3, <1>6
<1>8. Cardinality(rest) \in Nat /\ Cardinality(rest) = n - 1
  BY <1>3, <1>4, <1>6, WithoutOne
<1>9. n - 1 \in sizes
  BY <1>7, <1>8
<1> QED BY <1>2, <1>9

\* Every finite set has a sum.
LEMMA SumExists ==
  ASSUME NEW F, NEW R, IsFiniteSet(R)
  PROVE  \E g : IsSum(F, R, g)
<1> DEFINE Sumless(r) == IsFiniteSet(r) /\ ~\E g : IsSum(F, r, g)
           sizes == {n \in Nat : \E r : Sumless(r) /\ Cardinality(r) = n}
<1> SUFFICES ASSUME ~\E g : IsSum(F, R, g) PROVE FALSE
  OBVIOUS
<1>1. sizes # {}
  <2>1. Cardinality(R) \in Nat
    BY FS_CardinalityType
  <2> QED BY <2>1
<1>2. PICK n \in sizes : \A m \in sizes : n <= m
  BY <1>1, MinOfNats
<1>3. PICK r : IsFiniteSet(r) /\ Cardinality(r) = n /\ ~\E g : IsSum(F, r, g)
  OBVIOUS
<1> DEFINE part(s) == CHOOSE g : IsSum(F, s, g)
           value(s) == part(s)[s]
           whole == [s \in SUBSET r |->
                       IF s = {} THEN 0
                       ELSE F[Pick(s)] + value(s \ {Pick(s)})]
<1>4. ASSUME NEW s, s \subseteq r, s # r
      PROVE  IsFiniteSet(s) /\ IsSum(F, s, part(s))
  <2>1. PICK x \in r : x \notin s
    BY <1>4
  <2>2. s \subseteq r \ {x}
    BY <1>4, <2>1
  <2>3. /\ IsFiniteSet(r \ {x}) /\ Cardinality(r \ {x}) \in Nat
        /\ Cardinality(r \ {x}) = n - 1
    BY <1>3, <2>1, WithoutOne
  <2>4. /\ IsFiniteSet(s) /\ Cardinality(s) \in Nat
        /\ Cardinality(s) <= Cardinality(r \ {x})
    BY <2>2, <2>3, FS_Subset, FS_CardinalityType
  <2>5. Cardinality(s) \notin sizes
    BY <1>2, <2>3, <2>4
  <2>6. \E g : IsSum(F, s, g)
    BY <2>4, <2>5
  <2>7. IsSum(F, s, part(s))
    BY <2>6
  <2> QED BY <2>4, <2>7
<1>5. ASSUME NEW s \in SUBSET r
      PROVE  whole[s] = IF s = {} THEN 0 ELSE F[Pick(s)] + whole[s \ {Pick(s)}]
  <2>1. whole[s] = IF s = {} THEN 0 ELSE F[Pick(s)] + value(s \ {Pick(s)})
    OBVIOUS
  <2> SUFFICES ASSUME s # {} PROVE value(s \ {Pick(s)}) = whole[s \ {Pick(s)}]
    BY <2>1
  <2> PICK p, t : p = Pick(s) /\ t = s \ {p}
    OBVIOUS
  <2>2. p \in s /\ t \subseteq r /\ t # r /\ p \notin t
    BY DEF Pick
  <2>3. IsFiniteSet(t) /\ IsSum(F, t, part(t))
    BY <1>4, <2>2
  <2>4. whole[t] = IF t = {} THEN 0 ELSE F[Pick(t)] + value(t \ {Pick(t)})
    BY <2>2
  <2>5. value(t) = whole[t]
    <3>1. CASE t = {}
      <4>1. part(t)[t] = 0
        <5> HIDE DEF part
        <5> QED BY <2>3, <3>1, SumOfNone
      <4> QED BY <2>4, <3>1, <4>1
    <3>2. CASE t # {}
      <4> PICK q, u : q = Pick(t) /\ u = t \ {q}
        OBVIOUS
      <4>1. q \in t /\ part(t)[t] = F[q] + part(t)[u]
        <5> PICK g : g = part(t)
          OBVIOUS
        <5>1. IsSum(F, t, g)
          BY <2>3
        <5>2. q \in t /\ g[t] = F[q] + g[u]
          <6> HIDE DEF part
          <6>1. g[t] = IF t = {} THEN 0 ELSE F[Pick(t)] + g[t \ {Pick(t)}]
            BY <5>1 DEF IsSum
          <6>2. q \in t
            BY <3>2 DEF Pick
          <6> QED BY <3>2, <6>1, <6>2
        <5> HIDE DEF part
        <5> QED BY <5>2
      <4>2. u \subseteq t /\ u \subseteq r /\ u # r
        BY <2>2, <4>1
      <4>3. IsFiniteSet(u) /\ IsSum(F, u, part(u))
        BY <1>4, <4>2
      <4>4. part(t)[u] = part(u)[u]
        <5> HIDE DEF part
        <5> QED BY <2>3, <4>2, <4>3, SumsAgree
      <4> HIDE DEF part, whole
      <4> QED BY <2>4, <3>2, <4>1, <4>4
    <3> QED BY <3>1, <3>2
  <2> HIDE DEF value, whole
  <2> QED BY <2>5
<1>6. IsSum(F, r, whole)
  <2> PICK w : w = whole
    OBVIOUS
  <2>1. w = [s \in SUBSET r |-> IF s = {} THEN 0
                                ELSE F[Pick(s)] + w[s \ {Pick(s)}]]
    <3>1. DOMAIN w = SUBSET r /\ w = [s \in SUBSET r |-> w[s]]
      OBVIOUS
    <3>2. \A s \in SUBSET r : w[s] = IF s = {} THEN 0
                                     ELSE F[Pick(s)] + w[s \ {Pick(s)}]
      <4> HIDE DEF whole
      <4> QED BY <1>5
    <3> HIDE DEF whole
    <3> QED BY <3>1, <3>2
  <2> HIDE DEF whole
  <2> QED BY <2>1 DEF IsSum
<1> HIDE DEF whole
<1> QED BY <1>3, <1>6


\* Sums of integers are integers.
LEMMA SumIsInt ==
  ASSUME NEW S, IsFiniteSet(S), NEW F \in [S -> Int], NEW g, IsSum(F, S, g),
         NEW s \in SUBSET S
  PROVE  g[s] \in Int
<1> DEFINE sizes == {n \in Nat : \E r \in SUBSET S : /\ g[r] \notin Int
                                                   /\ Cardinality(r) = n}
<1> SUFFICES ASSUME g[s] \notin Int PROVE FALSE
  OBVIOUS
<1>1. sizes # {}
  <2>1. Cardinality(s) \in Nat
    BY FS_Subset, FS_CardinalityType
  <2> QED BY <2>1
<1>2. PICK n \in sizes : \A m \in sizes : n <= m
  BY <1>1, MinOfNats
<1>3. PICK r \in SUBSET S : g[r] \notin Int /\ Cardinality(r) = n
  OBVIOUS
<1>4. IsFiniteSet(r) /\ r \subseteq S
  BY FS_Subset
<1>5. r # {}
  BY <1>3, SumOfNone
<1> PICK p, rest : p = Pick(r) /\ rest = r \ {p}
  OBVIOUS
<1>6. p \in r /\ g[r] = F[p] + g[rest]
  BY <1>4, <1>5, SumStep
<1>7. g[rest] \notin Int /\ rest \in SUBSET S
  BY <1>3, <1>6
<1>8. Cardinality(rest) \in Nat /\ Cardinality(rest) = n - 1
  BY <1>3, <1>4, <1>6, WithoutOne
<1>9. n - 1 \in sizes
  BY <1>7, <1>8
<1> QED BY <1>2, <1>9

\* Any value can be taken first.
LEMMA SumAnyFirst ==
  ASSUME NEW S, IsFiniteSet(S), NEW F \in [S -> Int], NEW g, IsSum(F, S, g),
         NEW s \in SUBSET S, NEW x \in s
  PROVE  g[s] = F[x] + g[s \ {x}]
<1> DEFINE Bad(r) == \E y \in r : g[r] # F[y] + g[r \ {y}]
           sizes == {n \in Nat : \E r \in SUBSET S : Bad(r) /\ Cardinality(r) = n}
<1> SUFFICES ASSUME g[s] # F[x] + g[s \ {x}] PROVE FALSE
  OBVIOUS
<1>1. sizes # {}
  <2>1. Cardinality(s) \in Nat
    BY FS_Subset, FS_CardinalityType
  <2>2. Bad(s)
    OBVIOUS
  <2> HIDE DEF Bad
  <2> QED BY <2>1, <2>2
<1>2. PICK n \in sizes : \A m \in sizes : n <= m
  <2> HIDE DEF Bad
  <2> QED BY <1>1, MinOfNats
<1>3. PICK r \in SUBSET S : Bad(r) /\ Cardinality(r) = n
  <2> HIDE DEF Bad
  <2> QED OBVIOUS
<1>4. PICK y \in r : g[r] # F[y] + g[r \ {y}]
  BY <1>3
<1>5. ASSUME NEW t \in SUBSET S, Cardinality(t) = n - 1, Cardinality(t) \in Nat,
             NEW z \in t
      PROVE  g[t] = F[z] + g[t \ {z}]
  <2>1. n - 1 \notin sizes
    BY <1>2
  <2>2. ~Bad(t)
    <3> HIDE DEF Bad
    <3> QED BY <1>5, <2>1
  <2> QED BY <2>2
<1> PICK p, rest : p = Pick(r) /\ rest = r \ {p}
  OBVIOUS
<1>6. p \in r /\ g[r] = F[p] + g[rest]
  <2>1. g[r] = IF r = {} THEN 0 ELSE F[Pick(r)] + g[r \ {Pick(r)}]
    BY DEF IsSum
  <2>2. p \in r
    BY <1>4 DEF Pick
  <2> QED BY <1>4, <2>1, <2>2
<1>7. p # y
  BY <1>4, <1>6
<1> PICK other, both : other = r \ {y} /\ both = r \ {p, y}
  OBVIOUS
<1>8. IsFiniteSet(r)
  BY FS_Subset
<1>9. /\ Cardinality(rest) = n - 1 /\ Cardinality(rest) \in Nat
      /\ Cardinality(other) = n - 1 /\ Cardinality(other) \in Nat
  BY <1>3, <1>4, <1>6, <1>8, WithoutOne
<1>10. g[rest] = F[y] + g[both]
  <2>1. y \in rest /\ rest \in SUBSET S /\ both = rest \ {y}
    BY <1>4, <1>7
  <2>2. g[rest] = F[y] + g[rest \ {y}]
    BY <1>5, <1>9, <2>1
  <2> QED BY <2>1, <2>2
<1>11. g[other] = F[p] + g[both]
  <2>1. p \in other /\ other \in SUBSET S /\ both = other \ {p}
    BY <1>6, <1>7
  <2>2. g[other] = F[p] + g[other \ {p}]
    BY <1>5, <1>9, <2>1
  <2> QED BY <2>1, <2>2
<1>12. F[p] \in Int /\ F[y] \in Int /\ g[both] \in Int
  <2>1. p \in S /\ y \in S /\ both \in SUBSET S
    BY <1>4, <1>6
  <2> QED BY <2>1, SumIsInt
<1>13. g[r] = F[y] + g[other]
  <2>1. g[r] = F[p] + (F[y] + g[both])
    BY <1>6, <1>10
  <2> QED BY <1>11, <1>12, <2>1
<1> QED BY <1>4, <1>13

\* SumFunction is such a sum.
LEMMA SumFunctionIsSum ==
  ASSUME NEW S, NEW F, DOMAIN F = S, IsFiniteSet(S), NEW g, IsSum(F, S, g)
  PROVE  SumFunction(F) = g[S]
<1> DEFINE Con(v) == v = [s \in SUBSET S |->
                            IF s = {} THEN 0 ELSE F[Pick(s)] + v[s \ {Pick(s)}]]
           it == CHOOSE v : Con(v)
<1>1. Con(g)
  BY DEF IsSum
<1>2. Con(it)
  <2> HIDE DEF Con
  <2> QED BY <1>1
<1>3. IsSum(F, S, it)
  <2> HIDE DEF it
  <2> QED BY <1>2 DEF IsSum
<1>4. SumFunction(F) = it[S]
  BY DEF SumFunction, SumFunctionOnSet, FoldFunctionOnSet, MapThenFoldSet, Pick
<1> HIDE DEF it
<1> QED BY <1>3, <1>4, SumsAgree

\* One value more.
LEMMA SumGrows ==
  ASSUME NEW S, IsFiniteSet(S), NEW x, x \notin S, NEW f \in [S -> Int],
         NEW g \in [S \cup {x} -> Int], \A y \in S : g[y] = f[y]
  PROVE  /\ SumFunction(f) \in Int
         /\ SumFunction(g) = SumFunction(f) + g[x]
<1> PICK T : T = S \cup {x}
  OBVIOUS
<1>1. IsFiniteSet(T) /\ x \in T /\ T \ {x} = S /\ g \in [T -> Int] /\ DOMAIN f = S
      /\ DOMAIN g = T
  BY FS_AddElement
<1>2. PICK u : IsSum(f, S, u)
  BY SumExists
<1>3. PICK v : IsSum(g, T, v)
  BY <1>1, SumExists
<1>4. SumFunction(f) = u[S] /\ SumFunction(g) = v[T]
  BY <1>1, <1>2, <1>3, SumFunctionIsSum
<1>5. v[T] = g[x] + v[S]
  <2>1. /\ IsFiniteSet(T) /\ g \in [T -> Int] /\ IsSum(g, T, v)
        /\ T \in SUBSET T /\ x \in T
    BY <1>1, <1>3
  <2>2. v[T] = g[x] + v[T \ {x}]
    BY <2>1, SumAnyFirst
  <2> QED BY <1>1, <2>2
<1>6. v[S] = u[S]
  BY <1>1, <1>2, <1>3, SumsAgree
<1>7. u[S] \in Int
  BY <1>2, SumIsInt
<1>8. g[x] \in Int
  BY <1>1
<1> QED BY <1>4, <1>5, <1>6, <1>7, <1>8

\* No values, and the same value every time.
LEMMA SumOfOneValue ==
  ASSUME NEW S, IsFiniteSet(S), NEW c \in Int, NEW f \in [S -> Int],
         \A y \in S : f[y] = c
  PROVE  SumFunction(f) = Cardinality(S) * c
<1>1. PICK g : IsSum(f, S, g)
  BY SumExists
<1>2. SumFunction(f) = g[S]
  BY <1>1, SumFunctionIsSum
<1> DEFINE Bad(r) == g[r] # Cardinality(r) * c
           sizes == {n \in Nat : \E r \in SUBSET S : Bad(r) /\ Cardinality(r) = n}
<1> SUFFICES ASSUME g[S] # Cardinality(S) * c PROVE FALSE
  BY <1>2
<1>3. sizes # {}
  <2>1. Cardinality(S) \in Nat
    BY FS_CardinalityType
  <2> QED BY <2>1
<1>4. PICK n \in sizes : \A m \in sizes : n <= m
  BY <1>3, MinOfNats
<1>5. PICK r \in SUBSET S : g[r] # Cardinality(r) * c /\ Cardinality(r) = n
  OBVIOUS
<1>6. IsFiniteSet(r)
  BY FS_Subset
<1>7. r # {}
  <2> SUFFICES ASSUME r = {} PROVE FALSE
    OBVIOUS
  <2>1. g[r] = 0
    BY <1>1, SumOfNone
  <2>2. Cardinality(r) = 0
    BY FS_EmptySet
  <2> QED BY <1>5, <2>1, <2>2
<1> PICK p, rest : p = Pick(r) /\ rest = r \ {p}
  OBVIOUS
<1>8. p \in r /\ g[r] = f[p] + g[rest]
  <2>1. g[r] = IF r = {} THEN 0 ELSE f[Pick(r)] + g[r \ {Pick(r)}]
    BY <1>1 DEF IsSum
  <2>2. p \in r
    BY <1>7 DEF Pick
  <2> QED BY <1>7, <2>1, <2>2
<1>9. /\ rest \in SUBSET S /\ f[p] = c /\ n \in Nat
      /\ Cardinality(rest) \in Nat /\ Cardinality(rest) = n - 1
  BY <1>5, <1>6, <1>8, WithoutOne
<1>10. g[rest] # (n - 1) * c
  <2> SUFFICES ASSUME g[rest] = (n - 1) * c PROVE FALSE
    OBVIOUS
  <2>1. g[r] = c + (n - 1) * c
    BY <1>8, <1>9
  <2>2. c + (n - 1) * c = n * c
    BY <1>9
  <2> QED BY <1>5, <2>1, <2>2
<1>11. n - 1 \in sizes
  BY <1>9, <1>10
<1> QED BY <1>4, <1>9, <1>11

-----------------------------------------------------------------------------
(* The accounts of one core.                                               *)

\* What the resident CTAs of a core need.
ThreadNeeds(co) == [h \in Resident(co) |-> Padded(co.owner[h])]
SmemNeeds(co)   == [h \in Resident(co) |-> SmemPerCta(co.owner[h])]
RegNeeds(co)    == [h \in Resident(co) |-> RegsPerCta(co.owner[h])]

\* The accounts of a shared core are those sums; a core bound to a kernel has
\* the registers for as many CTAs as it has.
AccountsOK(co) ==
  /\ Concurrent => /\ co.threads = SumFunction(ThreadNeeds(co))
                   /\ co.smem = SumFunction(SmemNeeds(co))
                   /\ co.regs = SumFunction(RegNeeds(co))
                   /\ co.regs <= CoreRegs
                   /\ co.hwtid = UNION {CtaThreads(co, h) : h \in Resident(co)}
  /\ ~Concurrent => \A h \in Resident(co) :
                      ActiveCtas(co) * RegsPerCta(co.owner[h]) <= CoreRegs

\* What the CTAs need are integers.
LEMMA NeedsTypes ==
  ASSUME option \in Options, NEW co, CoreOK(co)
  PROVE  /\ ThreadNeeds(co) \in [Resident(co) -> Int]
         /\ SmemNeeds(co) \in [Resident(co) -> Int]
         /\ RegNeeds(co) \in [Resident(co) -> Int]
<1>1. ASSUME NEW h \in Resident(co)
      PROVE  /\ Padded(co.owner[h]) \in Int /\ SmemPerCta(co.owner[h]) \in Int
             /\ RegsPerCta(co.owner[h]) \in Int
  <2> PICK k : k = co.owner[h]
    OBVIOUS
  <2>1. k \in Kernels
    BY DEF CoreOK
  <2>2. Padded(k) \in Nat /\ SmemPerCta(k) \in Nat /\ RegsPerCta(k) \in Nat
    BY <2>1, KernelSize, NeedsAreNat
  <2> QED BY <2>2
<1> QED BY <1>1 DEF ThreadNeeds, SmemNeeds, RegNeeds

\* Two cores with the same CTAs and accounts.
LEMMA SameAccounts ==
  ASSUME NEW co, AccountsOK(co), NEW r, Resident(r) = Resident(co),
         r.owner = co.owner, r.start = co.start, r.threads = co.threads,
         r.smem = co.smem, r.regs = co.regs, r.hwtid = co.hwtid
  PROVE  AccountsOK(r)
<1>1. /\ ThreadNeeds(r) = ThreadNeeds(co) /\ SmemNeeds(r) = SmemNeeds(co)
      /\ RegNeeds(r) = RegNeeds(co) /\ ActiveCtas(r) = ActiveCtas(co)
  BY DEF ThreadNeeds, SmemNeeds, RegNeeds, ActiveCtas
<1>2. \A h : CtaThreads(r, h) = CtaThreads(co, h)
  BY DEF CtaThreads
<1>3. UNION {CtaThreads(r, h) : h \in Resident(r)}
      = UNION {CtaThreads(co, h) : h \in Resident(co)}
  BY <1>2
<1> QED BY <1>1, <1>3 DEF AccountsOK

\* A core without CTAs needs nothing.
LEMMA NothingNeeded ==
  ASSUME NEW co, Resident(co) = {}, CoreRegs \in Nat,
         co.threads = 0, co.smem = 0, co.regs = 0, co.hwtid = {}
  PROVE  AccountsOK(co)
<1>1. ASSUME NEW f, DOMAIN f = {} PROVE SumFunction(f) = 0
  <2>1. IsFiniteSet({})
    BY FS_EmptySet
  <2>2. PICK g : IsSum(f, {}, g)
    BY <2>1, SumExists
  <2>3. SumFunction(f) = g[{}]
    BY <1>1, <2>1, <2>2, SumFunctionIsSum
  <2> QED BY <2>2, <2>3, SumOfNone
<1>2. /\ DOMAIN ThreadNeeds(co) = {} /\ DOMAIN SmemNeeds(co) = {}
      /\ DOMAIN RegNeeds(co) = {}
  BY DEF ThreadNeeds, SmemNeeds, RegNeeds
<1>3. /\ SumFunction(ThreadNeeds(co)) = 0 /\ SumFunction(SmemNeeds(co)) = 0
      /\ SumFunction(RegNeeds(co)) = 0
  BY <1>1, <1>2
<1> QED BY <1>3 DEF AccountsOK

\* The resident CTAs of a core that was given one.
LEMMA PlacedResidents ==
  ASSUME NEW co, NEW k \in Kernels, NEW h, NEW first, NEW r,
         Placed(co, k, h, first, r)
  PROVE  /\ h \in HwCtas /\ h \notin Resident(co)
         /\ Resident(r) = Resident(co) \cup {h}
         /\ r.owner[h] = k /\ CtaThreads(r, h) = ThreadRange(first, Padded(k))
         /\ \A x \in Resident(co) : /\ x # h /\ r.owner[x] = co.owner[x]
                                    /\ CtaThreads(r, x) = CtaThreads(co, x)
<1>1. h \in HwCtas \ Resident(co) /\ first \in Nat
  BY DEF Placed
<1>2. \A x \in HwCtas :
        /\ r.owner[x] = IF x = h THEN k ELSE co.owner[x]
        /\ r.start[x] = IF x = h THEN first ELSE co.start[x]
        /\ r.active[x] = IF x = h THEN ThreadRange(first, Threads[k])
                                  ELSE co.active[x]
  BY DEF Placed
<1>3. ThreadRange(first, Threads[k]) # {}
  <2>1. first \in ThreadRange(first, Threads[k])
    <3>1. Threads[k] \in Nat \ {0}
      BY KernelSize
    <3> QED BY <1>1, <3>1 DEF ThreadRange
  <2> QED BY <2>1
<1>4. Resident(r) = Resident(co) \cup {h}
  BY <1>1, <1>2, <1>3 DEF Resident
<1>5. Resident(co) \subseteq HwCtas
  BY DEF Resident
<1> QED BY <1>1, <1>2, <1>4, <1>5 DEF CtaThreads

\* As many CTAs as a quotient allows have what they need.
LEMMA QuotientFits ==
  ASSUME NEW total \in Nat, NEW need \in Nat, NEW n \in Nat,
         need > 0 => n <= (total \div need)
  PROVE  n * need \in Nat /\ n * need <= total
<1>1. CASE need = 0
  BY <1>1
<1>2. CASE need > 0
  <2>1. PICK q \in Nat : q = total \div need /\ need * q <= total
    BY <1>2
  <2>2. n <= q
    BY <1>2, <2>1
  <2>3. n * need <= q * need
    BY <2>2, ProductGrows
  <2>4. n * need \in Nat /\ q * need \in Nat /\ need * q = q * need
    OBVIOUS
  <2> QED BY <2>1, <2>3, <2>4
<1> QED BY <1>1, <1>2

\* The CTAs max_cta admits have their registers and their shared memory.
LEMMA NeedsOfAdmitted ==
  ASSUME option \in Options, l1.shmem \in Nat, NEW k \in Kernels, NEW n \in Nat,
         n <= MaxCta(k)
  PROVE  n * RegsPerCta(k) <= CoreRegs /\ n * SmemPerCta(k) <= l1.shmem
<1> PICK fit, most, regs, smem, size :
      /\ fit = Fitting(l1.shmem, k) /\ most = MaxCta(k) /\ size = l1.shmem
      /\ regs = RegsPerCta(k) /\ smem = SmemPerCta(k)
  OBVIOUS
<1>1. /\ fit \in Nat /\ most \in Nat /\ most <= fit
      /\ smem > 0 => fit <= (size \div smem)
      /\ regs > 0 => fit <= (CoreRegs \div regs)
  BY MaxCtaWithinSlots
<1>2. regs \in Nat /\ smem \in Nat /\ size \in Nat /\ CoreRegs \in Nat
  BY NeedsAreNat, ShapeAssumption
<1>3. n <= fit
  BY <1>1
<1>4. regs > 0 => n <= (CoreRegs \div regs)
  <2> SUFFICES ASSUME regs > 0 PROVE n <= (CoreRegs \div regs)
    OBVIOUS
  <2>1. PICK q \in Nat : q = CoreRegs \div regs
    BY <1>2
  <2> QED BY <1>1, <1>3, <2>1
<1>5. smem > 0 => n <= (size \div smem)
  <2> SUFFICES ASSUME smem > 0 PROVE n <= (size \div smem)
    OBVIOUS
  <2>1. PICK q \in Nat : q = size \div smem
    BY <1>2
  <2> QED BY <1>1, <1>3, <2>1
<1> QED BY <1>2, <1>4, <1>5, QuotientFits

\* A CTA more: the accounts grow by what it needs, which fits.
LEMMA PlacingKeepsAccounts ==
  ASSUME option \in Options, l1.shmem \in Nat, NEW co, CoreOK(co),
         AccountsOK(co), NEW k \in Kernels, ~Concurrent => co.kernel = k,
         CanIssue1Block(co, k),
         NEW h, NEW first, NEW r, Placed(co, k, h, first, r)
  PROVE  AccountsOK(r)
<1> PICK R : R = Resident(co)
  OBVIOUS
<1>1. /\ h \notin R /\ Resident(r) = R \cup {h}
      /\ r.owner[h] = k /\ CtaThreads(r, h) = ThreadRange(first, Padded(k))
      /\ \A x \in R : /\ x # h /\ r.owner[x] = co.owner[x]
                      /\ CtaThreads(r, x) = CtaThreads(co, x)
  BY PlacedResidents
<1>2. IsFiniteSet(R) /\ Cardinality(R) \in Nat
  BY ResidentFinite DEF ActiveCtas
<1>3. CoreOK(r)
  BY PlacingKeepsCore
<1>4. CASE Concurrent
  <2>1. /\ r.hwtid = co.hwtid \cup ThreadRange(first, Padded(k))
        /\ r.threads = co.threads + Padded(k)
        /\ r.smem = co.smem + SmemPerCta(k) /\ r.regs = co.regs + RegsPerCta(k)
    BY <1>4 DEF Placed
  <2>2. SumFunction(ThreadNeeds(r)) = SumFunction(ThreadNeeds(co)) + Padded(k)
    <3> PICK f, g : f = ThreadNeeds(co) /\ g = ThreadNeeds(r)
      OBVIOUS
    <3>1. f \in [R -> Int] /\ g \in [R \cup {h} -> Int]
      BY <1>1, <1>3, NeedsTypes
    <3>2. g[h] = Padded(k) /\ \A x \in R : g[x] = f[x]
      BY <1>1 DEF ThreadNeeds
    <3>3. /\ IsFiniteSet(R) /\ h \notin R
          /\ f \in [R -> Int] /\ g \in [R \cup {h} -> Int]
          /\ \A x \in R : g[x] = f[x]
      BY <1>1, <1>2, <3>1, <3>2
    <3>4. SumFunction(g) = SumFunction(f) + g[h]
      BY <3>3, SumGrows
    <3> QED BY <3>2, <3>4
  <2>3. SumFunction(SmemNeeds(r)) = SumFunction(SmemNeeds(co)) + SmemPerCta(k)
    <3> PICK f, g : f = SmemNeeds(co) /\ g = SmemNeeds(r)
      OBVIOUS
    <3>1. f \in [R -> Int] /\ g \in [R \cup {h} -> Int]
      BY <1>1, <1>3, NeedsTypes
    <3>2. g[h] = SmemPerCta(k) /\ \A x \in R : g[x] = f[x]
      BY <1>1 DEF SmemNeeds
    <3>3. /\ IsFiniteSet(R) /\ h \notin R
          /\ f \in [R -> Int] /\ g \in [R \cup {h} -> Int]
          /\ \A x \in R : g[x] = f[x]
      BY <1>1, <1>2, <3>1, <3>2
    <3>4. SumFunction(g) = SumFunction(f) + g[h]
      BY <3>3, SumGrows
    <3> QED BY <3>2, <3>4
  <2>4. SumFunction(RegNeeds(r)) = SumFunction(RegNeeds(co)) + RegsPerCta(k)
    <3> PICK f, g : f = RegNeeds(co) /\ g = RegNeeds(r)
      OBVIOUS
    <3>1. f \in [R -> Int] /\ g \in [R \cup {h} -> Int]
      BY <1>1, <1>3, NeedsTypes
    <3>2. g[h] = RegsPerCta(k) /\ \A x \in R : g[x] = f[x]
      BY <1>1 DEF RegNeeds
    <3>3. /\ IsFiniteSet(R) /\ h \notin R
          /\ f \in [R -> Int] /\ g \in [R \cup {h} -> Int]
          /\ \A x \in R : g[x] = f[x]
      BY <1>1, <1>2, <3>1, <3>2
    <3>4. SumFunction(g) = SumFunction(f) + g[h]
      BY <3>3, SumGrows
    <3> QED BY <3>2, <3>4
  <2>5. r.regs <= CoreRegs
    BY <1>4, <2>1 DEF CanIssue1Block, HasRoom
  <2>6. r.hwtid = UNION {CtaThreads(r, x) : x \in Resident(r)}
    <3>1. co.hwtid = UNION {CtaThreads(co, x) : x \in R}
      BY <1>4 DEF AccountsOK
    <3> QED BY <1>1, <2>1, <3>1
  <2>7. /\ co.threads = SumFunction(ThreadNeeds(co))
        /\ co.smem = SumFunction(SmemNeeds(co))
        /\ co.regs = SumFunction(RegNeeds(co))
    BY <1>4 DEF AccountsOK
  <2> QED BY <1>4, <2>1, <2>2, <2>3, <2>4, <2>5, <2>6, <2>7 DEF AccountsOK
<1>5. CASE ~Concurrent
  <2>1. Cardinality(R) + 1 <= MaxCta(k) /\ MaxCta(k) \in Nat
    BY <1>2, <1>5, MaxCtaWithinSlots DEF CanIssue1Block, ActiveCtas
  <2>2. ActiveCtas(r) = Cardinality(R) + 1
    BY <1>1, <1>2, FS_AddElement DEF ActiveCtas
  <2>3. (Cardinality(R) + 1) * RegsPerCta(k) <= CoreRegs
    BY <1>2, <2>1, NeedsOfAdmitted
  <2>4. \A x \in Resident(r) : r.owner[x] = k
    BY <1>1, <1>5 DEF CoreOK
  <2> QED BY <1>5, <2>2, <2>3, <2>4 DEF AccountsOK
<1> QED BY <1>4, <1>5

\* A CTA less: the accounts shrink by what it needed.
LEMMA LeavingKeepsAccounts ==
  ASSUME option \in Options, NEW co, CoreOK(co), AccountsOK(co),
         NEW h \in Resident(co), NEW r, Leaves(co, h, r)
  PROVE  AccountsOK(r)
<1> PICK k : k = co.owner[h]
  OBVIOUS
<1> PICK R : R = Resident(r)
  OBVIOUS
<1>1. /\ CoreOK(r) /\ R = Resident(co) \ {h} /\ Resident(co) = R \cup {h}
      /\ h \notin R /\ r.owner = co.owner /\ r.start = co.start
      /\ k \in Kernels
  BY DEF Leaves, CoreOK
<1>2. IsFiniteSet(R) /\ Cardinality(R) \in Nat
  BY ResidentFinite DEF ActiveCtas
<1>3. \A x : CtaThreads(r, x) = CtaThreads(co, x)
  BY <1>1 DEF CtaThreads
<1>4. CASE Concurrent
  <2>1. /\ r.hwtid = co.hwtid \ CtaThreads(co, h)
        /\ r.threads = co.threads - Padded(k)
        /\ r.smem = co.smem - SmemPerCta(k) /\ r.regs = co.regs - RegsPerCta(k)
    BY <1>4 DEF Leaves
  <2>2. /\ SumFunction(ThreadNeeds(r)) \in Int
        /\ SumFunction(ThreadNeeds(co)) = SumFunction(ThreadNeeds(r)) + Padded(k)
    <3> PICK f, g : f = ThreadNeeds(r) /\ g = ThreadNeeds(co)
      OBVIOUS
    <3>1. f \in [R -> Int] /\ g \in [R \cup {h} -> Int]
      BY <1>1, NeedsTypes
    <3>2. g[h] = Padded(k) /\ \A x \in R : g[x] = f[x]
      BY <1>1 DEF ThreadNeeds
    <3>3. /\ IsFiniteSet(R) /\ h \notin R
          /\ f \in [R -> Int] /\ g \in [R \cup {h} -> Int]
          /\ \A x \in R : g[x] = f[x]
      BY <1>1, <1>2, <3>1, <3>2
    <3>4. SumFunction(f) \in Int /\ SumFunction(g) = SumFunction(f) + g[h]
      BY <3>3, SumGrows
    <3> QED BY <3>2, <3>4
  <2>3. /\ SumFunction(SmemNeeds(r)) \in Int
        /\ SumFunction(SmemNeeds(co)) = SumFunction(SmemNeeds(r)) + SmemPerCta(k)
    <3> PICK f, g : f = SmemNeeds(r) /\ g = SmemNeeds(co)
      OBVIOUS
    <3>1. f \in [R -> Int] /\ g \in [R \cup {h} -> Int]
      BY <1>1, NeedsTypes
    <3>2. g[h] = SmemPerCta(k) /\ \A x \in R : g[x] = f[x]
      BY <1>1 DEF SmemNeeds
    <3>3. /\ IsFiniteSet(R) /\ h \notin R
          /\ f \in [R -> Int] /\ g \in [R \cup {h} -> Int]
          /\ \A x \in R : g[x] = f[x]
      BY <1>1, <1>2, <3>1, <3>2
    <3>4. SumFunction(f) \in Int /\ SumFunction(g) = SumFunction(f) + g[h]
      BY <3>3, SumGrows, SMTT(60)
    <3> QED BY <3>2, <3>4
  <2>4. /\ SumFunction(RegNeeds(r)) \in Int
        /\ SumFunction(RegNeeds(co)) = SumFunction(RegNeeds(r)) + RegsPerCta(k)
    <3> PICK f, g : f = RegNeeds(r) /\ g = RegNeeds(co)
      OBVIOUS
    <3>1. f \in [R -> Int] /\ g \in [R \cup {h} -> Int]
      BY <1>1, NeedsTypes
    <3>2. g[h] = RegsPerCta(k) /\ \A x \in R : g[x] = f[x]
      BY <1>1 DEF RegNeeds
    <3>3. /\ IsFiniteSet(R) /\ h \notin R
          /\ f \in [R -> Int] /\ g \in [R \cup {h} -> Int]
          /\ \A x \in R : g[x] = f[x]
      BY <1>1, <1>2, <3>1, <3>2
    <3>4. SumFunction(f) \in Int /\ SumFunction(g) = SumFunction(f) + g[h]
      BY <3>3, SumGrows, SMTT(60)
    <3> QED BY <3>2, <3>4
  <2>5. r.hwtid = UNION {CtaThreads(r, x) : x \in R}
    <3>1. co.hwtid = UNION {CtaThreads(co, x) : x \in R \cup {h}}
      BY <1>1, <1>4 DEF AccountsOK
    <3>2. \A x \in R : CtaThreads(co, x) \cap CtaThreads(co, h) = {}
      BY <1>1 DEF CoreOK
    <3>3. r.hwtid = UNION {CtaThreads(co, x) : x \in R}
      BY <2>1, <3>1, <3>2
    <3>4. {CtaThreads(r, x) : x \in R} = {CtaThreads(co, x) : x \in R}
      BY <1>3
    <3> QED BY <3>3, <3>4
  <2>6. /\ co.threads = SumFunction(ThreadNeeds(co))
        /\ co.smem = SumFunction(SmemNeeds(co))
        /\ co.regs = SumFunction(RegNeeds(co)) /\ co.regs <= CoreRegs
    BY <1>4 DEF AccountsOK
  <2>7. Padded(k) \in Nat /\ SmemPerCta(k) \in Nat /\ RegsPerCta(k) \in Nat
        /\ CoreRegs \in Nat
    BY <1>1, KernelSize, NeedsAreNat, ShapeAssumption
  <2>8. r.threads = SumFunction(ThreadNeeds(r)) /\ r.smem = SumFunction(SmemNeeds(r))
        /\ r.regs = SumFunction(RegNeeds(r)) /\ r.regs <= CoreRegs
    BY <2>1, <2>2, <2>3, <2>4, <2>6, <2>7
  <2> QED BY <1>4, <2>5, <2>8 DEF AccountsOK
<1>5. CASE ~Concurrent
  <2>1. ASSUME NEW x \in R
        PROVE  ActiveCtas(r) * RegsPerCta(r.owner[x]) <= CoreRegs
    <3> PICK n, m, regs : /\ n = ActiveCtas(r) /\ m = ActiveCtas(co)
                          /\ regs = RegsPerCta(r.owner[x])
      OBVIOUS
    <3>1. n \in Nat /\ m = n + 1
      <4>1. Cardinality(R \cup {h}) = Cardinality(R) + 1
        BY <1>1, <1>2, FS_AddElement
      <4> QED BY <1>1, <1>2, <4>1 DEF ActiveCtas
    <3>2. m * regs <= CoreRegs
      BY <1>1, <1>5 DEF AccountsOK
    <3>3. regs \in Nat /\ CoreRegs \in Nat
      <4>1. r.owner[x] \in Kernels
        BY <1>1 DEF CoreOK
      <4> QED BY <4>1, NeedsAreNat, ShapeAssumption
    <3>4. m * regs = n * regs + regs /\ n * regs \in Nat
      BY <3>1, <3>3
    <3>5. n * regs <= CoreRegs
      BY <3>2, <3>3, <3>4
    <3> QED BY <3>5
  <2> QED BY <1>5, <2>1 DEF AccountsOK
<1> QED BY <1>4, <1>5

-----------------------------------------------------------------------------
(* The carve-out of the L1 cache.                                          *)

\* The CTAs of a kernel on a core.
OwnCtas(co, k) == {h \in Resident(co) : co.owner[h] = k}

\* The carve-out of a kernel holds the shared memory of as many of its CTAs as
\* max_cta admits, and no core has more.
CarveOK(k) ==
  /\ k \in adapted /\ k \in Kernels
  /\ \E o \in ShmemOptions : /\ SharedMem[k] * MaxCta(k) <= o
                             /\ l1.ways = WaysLeft(o)
  /\ \A c \in CoreIds : Cardinality(OwnCtas(core[c], k)) <= MaxCta(k)

\* The accounts of every core are exact; max_cta ran for a kernel before the
\* first of its CTAs was handed out, and the carve-out in force is that of a
\* kernel as it was then.
RInv ==
  /\ KInv /\ "carvedFor" \in DOMAIN l1
  /\ \A c \in CoreIds : AccountsOK(core[c])
  /\ \A c \in CoreIds : \A h \in Resident(core[c]) : core[c].owner[h] \in adapted
  /\ ~Concurrent /\ l1.carvedFor # None => CarveOK(l1.carvedFor)

\* The ways left of the L1 cache and a shared memory option are the unified
\* memory, as options are whole ways.
LEMMA WaysLeftExact ==
  ASSUME NEW o \in ShmemOptions
  PROVE  /\ WaysLeft(o) \in Nat
         /\ WaysLeft(o) * UnifiedSize = MaxAssoc * UnifiedSize - MaxAssoc * o
<1>1. PICK u \in Nat \ {0}, m \in Nat : u = UnifiedSize /\ m = MaxAssoc
  BY CarveOutAssumption
<1>2. o \in Nat /\ o <= u
  BY <1>1, CarveOutAssumption
<1>3. PICK rest \in Nat : rest = u - o /\ u = rest + o
  BY <1>1, <1>2
<1>4. m * o \in Nat /\ m * rest \in Nat /\ m * u = m * rest + m * o
  <2>1. m * (rest + o) = m * rest + m * o
    BY <1>2
  <2> QED BY <1>2, <1>3, <2>1
<1> PICK a, all, left : a = m * o /\ all = m * u /\ left = m * rest
  OBVIOUS
<1>5. PICK z \in Nat : a = z * u
  <2>1. a \in Nat /\ a % u = 0
    BY <1>1, <1>4, WholeWays
  <2>2. a \div u \in Nat /\ a = (a \div u) * u + (a % u)
    BY <1>1, <2>1
  <2>3. a = (a \div u) * u
    <3>1. (a \div u) * u \in Nat
      BY <1>1, <2>2
    <3> QED BY <2>1, <2>2, <3>1
  <2> QED BY <2>2, <2>3
<1>6. z <= m
  <2> SUFFICES ASSUME m < z PROVE FALSE
    OBVIOUS
  <2>1. m * u + u <= z * u
    BY <1>1, RowsApart
  <2> QED BY <1>1, <1>4, <1>5, <2>1
<1>7. PICK w \in Nat : w = m - z /\ m = w + z
  BY <1>6
<1>8. left = w * u
  <2>1. m * u = w * u + z * u /\ w * u \in Nat /\ z * u \in Nat
    BY <1>1, <1>7
  <2> QED BY <1>4, <1>5, <2>1
<1>9. 2 * m * (u - o) + u = w * (2 * u) + u
  <2>1. 2 * m * (u - o) = 2 * left
    BY <1>3, <1>4
  <2>2. w * (2 * u) = 2 * (w * u)
    BY <1>1
  <2> QED BY <1>1, <1>8, <2>1, <2>2
<1>10. (w * (2 * u) + u) \div (2 * u) = w
  <2>1. 2 * u \in Nat \ {0} /\ u \in 0 .. 2 * u - 1
    BY <1>1
  <2> QED BY <2>1, RowOf
<1>11. WaysLeft(o) = w
  BY <1>1, <1>9, <1>10 DEF WaysLeft
<1> QED BY <1>1, <1>4, <1>8, <1>11

\* The option a carve-out takes holds the bytes.
LEMMA CarveOutHolds ==
  ASSUME L1OK, option \in Options, NEW bytes \in Nat, bytes <= l1.shmem
  PROVE  CarveOut(bytes) \in ShmemOptions /\ bytes <= CarveOut(bytes)
<1> PICK fits : fits = {o \in ShmemOptions : bytes <= o}
  OBVIOUS
<1>1. PICK size \in Nat : size = l1.shmem
  BY DEF L1OK
<1>2. fits # {}
  <2>1. PICK p \in FuncCaches : size = option.shmem[p]
    BY <1>1 DEF L1OK
  <2>2. PICK o \in ShmemOptions : size <= o
    BY <2>1, OptionsCover
  <2>3. o \in Nat
    BY CarveOutAssumption
  <2>4. bytes <= o
    BY <1>1, <2>2, <2>3
  <2> QED BY <2>4
<1>3. fits \subseteq ShmemOptions /\ fits \subseteq Nat
  <2>1. ShmemOptions \subseteq Nat
    BY CarveOutAssumption
  <2>2. fits \subseteq ShmemOptions
    OBVIOUS
  <2> QED BY <2>1, <2>2
<1>4. CarveOut(bytes) = Min(fits)
  BY DEF CarveOut
<1>5. Min(fits) \in fits
  BY <1>2, <1>3, MinOfNats
<1> QED BY <1>4, <1>5

\* As long as the shared memory size stays so does max_cta.
LEMMA MaxCtaStays ==
  ASSUME UNCHANGED option, l1'.shmem = l1.shmem, NEW k
  PROVE  MaxCta(k)' = MaxCta(k)
BY DEF MaxCta, MaxCtaUnder, Fitting, SmemPerCta, SmemqBytes, RegsPerCta, RfqRegs,
       QueueWords

\* The accounts of the next state's cores are accounts in the next state.
LEMMA AccountsAfter ==
  ASSUME UNCHANGED option, \A c \in CoreIds : AccountsOK(core'[c])
  PROVE  (\A c \in CoreIds : AccountsOK(core[c]))'
BY DEF AccountsOK, ThreadNeeds, SmemNeeds, RegNeeds, Resident, ActiveCtas,
       CtaThreads, Concurrent, SmemPerCta, SmemqBytes, RegsPerCta, RfqRegs,
       QueueWords

\* A kernel's CTAs are no more when CTAs leave.
LEMMA OwnCtasShrink ==
  ASSUME NEW co, NEW r, Resident(r) \subseteq Resident(co), r.owner = co.owner, NEW k
  PROVE  /\ Cardinality(OwnCtas(r, k)) \in Nat
         /\ Cardinality(OwnCtas(co, k)) \in Nat
         /\ Cardinality(OwnCtas(r, k)) <= Cardinality(OwnCtas(co, k))
<1>1. /\ OwnCtas(r, k) \subseteq OwnCtas(co, k)
      /\ OwnCtas(co, k) \subseteq Resident(co)
  BY DEF OwnCtas
<1>2. IsFiniteSet(Resident(co))
  BY ResidentFinite
<1>3. IsFiniteSet(OwnCtas(co, k))
  BY <1>1, <1>2, FS_Subset
<1>4. /\ IsFiniteSet(OwnCtas(r, k))
      /\ Cardinality(OwnCtas(r, k)) <= Cardinality(OwnCtas(co, k))
  BY <1>1, <1>3, FS_Subset
<1> QED BY <1>3, <1>4, FS_CardinalityType

-----------------------------------------------------------------------------
(* The invariant is inductive.                                             *)

\* Steps that hand out nothing and carve nothing.
LEMMA OthersKeepRInv ==
  ASSUME RInv, KInv', UNCHANGED <<option, l1, adapted>>,
         \A c \in CoreIds : /\ Resident(core'[c]) \subseteq Resident(core[c])
                            /\ core'[c].owner = core[c].owner
                            /\ AccountsOK(core'[c])
  PROVE  RInv'
<1>1. (\A c \in CoreIds : AccountsOK(core[c]))'
  BY AccountsAfter
<1>2. (\A c \in CoreIds : \A h \in Resident(core[c]) : core[c].owner[h] \in adapted)'
  <2>1. \A c \in CoreIds : \A h \in Resident(core'[c]) :
          core'[c].owner[h] \in adapted'
    BY DEF RInv
  <2> QED BY <2>1
<1>3. ASSUME ~Concurrent, l1.carvedFor # None
      PROVE  CarveOK(l1.carvedFor)'
  <2> PICK k : k = l1.carvedFor
    OBVIOUS
  <2>1. CarveOK(k)
    BY <1>3 DEF RInv
  <2>2. MaxCta(k)' = MaxCta(k)
    BY MaxCtaStays
  <2>3. ASSUME NEW c \in CoreIds
        PROVE  Cardinality(OwnCtas(core'[c], k)) <= MaxCta(k)
    <3> PICK co, r : co = core[c] /\ r = core'[c]
      OBVIOUS
    <3>1. Resident(r) \subseteq Resident(co) /\ r.owner = co.owner
      OBVIOUS
    <3> PICK m, n, most : /\ m = Cardinality(OwnCtas(r, k))
                          /\ n = Cardinality(OwnCtas(co, k)) /\ most = MaxCta(k)
      OBVIOUS
    <3>2. m \in Nat /\ n \in Nat /\ m <= n
      BY <3>1, OwnCtasShrink
    <3>3. n <= most
      BY <2>1 DEF CarveOK
    <3>4. most \in Nat
      <4>1. option \in Options /\ l1.shmem \in Nat
        BY DEF RInv, KInv, DInv
      <4> QED BY <2>1, <4>1, MaxCtaWithinSlots DEF CarveOK
    <3> QED BY <3>2, <3>3, <3>4
  <2>4. \A c \in CoreIds : Cardinality(OwnCtas(core'[c], k)) <= MaxCta(k)'
    BY <2>2, <2>3
  <2>5. CarveOK(k)'
    BY <2>1, <2>2, <2>4 DEF CarveOK, OwnCtas, Resident
  <2> QED BY <2>5 DEF CarveOK, OwnCtas, Resident
<1> QED BY <1>1, <1>2, <1>3 DEF RInv, Concurrent

\* Steps that configure the cache, or carve it for no kernel that runs.
LEMMA UncarvedKeepsRInv ==
  ASSUME RInv, KInv', UNCHANGED <<option, core, adapted>>,
         "carvedFor" \in DOMAIN l1', l1'.carvedFor = None
  PROVE  RInv'
<1>1. (\A c \in CoreIds : AccountsOK(core[c]))'
  BY AccountsAfter DEF RInv
<1>2. (\A c \in CoreIds : \A h \in Resident(core[c]) : core[c].owner[h] \in adapted)'
  BY DEF RInv, Resident
<1> QED BY <1>1, <1>2 DEF RInv

\* A reclaimed warp.
LEMMA ReclaimKeepsRInv ==
  ASSUME RInv, KInv', NEW c \in CoreIds, NEW h \in HwCtas,
         NEW w \in WarpsOf(core[c], h), ReclaimWarp(c, h, w)
  PROVE  RInv'
<1> PICK co : co = core[c]
  OBVIOUS
<1> PICK after : after = ExitWarp(co, h, w)
  OBVIOUS
<1> PICK r : r = IF after.active[h] # {} THEN after
                 ELSE ReleaseBlock(Unbound(after), h)
  OBVIOUS
<1>1. /\ core' = [core EXCEPT ![c] = r]
      /\ UNCHANGED <<option, l1, adapted>>
  BY DEF ReclaimWarp
<1>2. CoreOK(co) /\ option \in Options /\ core \in [CoreIds -> Cores]
      /\ AccountsOK(co)
  BY DEF RInv, KInv, DInv
<1>3. /\ Resident(r) \subseteq Resident(co) /\ r.owner = co.owner
      /\ AccountsOK(r)
  <2>1. CASE after.active[h] # {}
    <3>1. /\ Resident(after) = Resident(co)
          /\ after.owner = co.owner /\ after.start = co.start
          /\ after.hwtid = co.hwtid /\ after.threads = co.threads
          /\ after.smem = co.smem /\ after.regs = co.regs
      BY <1>2, <2>1, ReclaimKeepsCore
    <3>2. AccountsOK(after)
      BY <1>2, <3>1, SameAccounts
    <3> QED BY <2>1, <3>1, <3>2
  <2>2. CASE after.active[h] = {}
    <3>1. h \in Resident(co) /\ Leaves(co, h, r)
      BY <1>2, <2>2, ReclaimKeepsCore
    <3>2. AccountsOK(r)
      BY <1>2, <3>1, LeavingKeepsAccounts
    <3> QED BY <3>1, <3>2 DEF Leaves
  <2> QED BY <2>1, <2>2
<1>4. \A d \in CoreIds : core'[d] = IF d = c THEN r ELSE core[d]
  BY <1>1, <1>2
<1>5. \A d \in CoreIds : AccountsOK(core[d])
  BY DEF RInv
<1>6. \A d \in CoreIds : /\ Resident(core'[d]) \subseteq Resident(core[d])
                         /\ core'[d].owner = core[d].owner
                         /\ AccountsOK(core'[d])
  BY <1>3, <1>4, <1>5
<1> QED BY <1>1, <1>6, OthersKeepRInv

\* A new run starts with empty accounts.
LEMMA NewRunKeepsRInv ==
  ASSUME RInv, KInv', NewRun
  PROVE  RInv'
<1>1. /\ core' = [c \in CoreIds |-> Reinit(core[c])]
      /\ UNCHANGED <<option, l1, adapted>>
  BY DEF NewRun
<1>2. ASSUME NEW c \in CoreIds
      PROVE  /\ Resident(core'[c]) \subseteq Resident(core[c])
             /\ core'[c].owner = core[c].owner
             /\ AccountsOK(core'[c])
  <2> PICK r : r = Reinit(core[c])
    OBVIOUS
  <2>1. /\ r.owner = core[c].owner /\ r.active = [h \in HwCtas |-> {}]
        /\ r.threads = 0 /\ r.smem = 0 /\ r.regs = 0 /\ r.hwtid = {}
    BY DEF Reinit, EmptyCore
  <2>2. Resident(r) = {}
    BY <2>1 DEF Resident
  <2>3. AccountsOK(r)
    BY <2>1, <2>2, NothingNeeded, ShapeAssumption
  <2> QED BY <1>1, <2>1, <2>2, <2>3
<1> QED BY <1>1, <1>2, OthersKeepRInv

\* At the start every account is empty.
LEMMA InitRInv == Init => RInv
<1> SUFFICES ASSUME Init PROVE RInv
  OBVIOUS
<1>1. KInv
  BY InitKInv
<1>2. ASSUME NEW c \in CoreIds
      PROVE  Resident(core[c]) = {} /\ AccountsOK(core[c])
  <2>1. PICK g : core[c] = EmptyCore(g)
    BY DEF Init
  <2> PICK r : r = EmptyCore(g)
    OBVIOUS
  <2>2. /\ Resident(r) = {}
        /\ r.threads = 0 /\ r.smem = 0 /\ r.regs = 0 /\ r.hwtid = {}
    BY DEF EmptyCore, Resident
  <2>3. AccountsOK(r)
    BY <2>2, NothingNeeded, ShapeAssumption
  <2> QED BY <2>1, <2>2, <2>3
<1>3. "carvedFor" \in DOMAIN l1 /\ l1.carvedFor = None
  BY DEF Init, ChangeCacheConfig
<1> QED BY <1>1, <1>2, <1>3 DEF RInv

\* The core whose turn it is: what it got fits its accounts and its limit.
LEMMA TurnKeepsAccounts ==
  ASSUME RInv, NEW c \in CoreIds, NEW k, k = Candidate(c), NEW b, b = Bound(c),
         NEW r, r = IF Issues(c) THEN IssueBlock(b, k) ELSE b
  PROVE  /\ AccountsOK(r)
         /\ \A x \in Resident(r) :
              \/ Issues(c) /\ r.owner[x] = k
              \/ x \in Resident(core[c]) /\ r.owner[x] = core[c].owner[x]
         /\ Issues(c) =>
              k \in Kernels /\ (~Concurrent => Cardinality(Resident(r)) <= MaxCta(k))
         /\ \A j : j # k \/ ~Issues(c) => OwnCtas(r, j) = OwnCtas(core[c], j)
<1> PICK co : co = core[c]
  OBVIOUS
<1>1. /\ option \in Options /\ l1.shmem \in Nat /\ co \in Cores
      /\ AccountsOK(co) /\ DInv
  BY DEF RInv, KInv, DInv
<1>2. /\ CoreOK(b) /\ Resident(b) = Resident(co) /\ b.owner = co.owner
      /\ AccountsOK(b)
  <2>1. CoreOK(b)
    BY <1>1, BindingKeepsCore
  <2>2. /\ b.active = co.active /\ b.owner = co.owner /\ b.start = co.start
        /\ b.threads = co.threads /\ b.smem = co.smem /\ b.regs = co.regs
        /\ b.hwtid = co.hwtid
    BY <1>1 DEF Bound, Cores
  <2>3. Resident(b) = Resident(co)
    BY <2>2 DEF Resident
  <2>4. AccountsOK(b)
    BY <1>1, <2>2, <2>3, SameAccounts
  <2> QED BY <2>1, <2>2, <2>3, <2>4
<1>3. CASE ~Issues(c)
  <2>1. r = b
    BY <1>3
  <2>2. \A j : OwnCtas(r, j) = OwnCtas(co, j)
    BY <1>2, <2>1 DEF OwnCtas
  <2>3. \A x \in Resident(r) : x \in Resident(co) /\ r.owner[x] = co.owner[x]
    BY <1>2, <2>1
  <2> QED BY <1>2, <1>3, <2>1, <2>2, <2>3
<1>4. CASE Issues(c)
  <2>1. /\ k \in Kernels /\ (~Concurrent => b.kernel = k)
        /\ CanIssue1Block(b, k)
    BY <1>1, <1>4, CandidateIsBound
  <2>2. FreeSlots(b, k) # {}
    BY <1>1, <1>2, <2>1, SlotWhenAdmitted
  <2>3. Concurrent => FreeStarts(b, Padded(k)) # {}
    BY <2>1 DEF CanIssue1Block, HasRoom
  <2>4. PICK h, first : Placed(b, k, h, first, r)
    BY <1>1, <1>2, <1>4, <2>1, <2>2, <2>3, IssuePlacesCta
  <2>5. AccountsOK(r)
    BY <1>1, <1>2, <2>1, <2>4, PlacingKeepsAccounts
  <2>6. /\ h \notin Resident(b) /\ Resident(r) = Resident(b) \cup {h}
        /\ r.owner[h] = k
        /\ \A x \in Resident(b) : x # h /\ r.owner[x] = b.owner[x]
    BY <2>1, <2>4, PlacedResidents
  <2>7. ~Concurrent => Cardinality(Resident(r)) <= MaxCta(k)
    <3> SUFFICES ASSUME ~Concurrent PROVE Cardinality(Resident(r)) <= MaxCta(k)
      OBVIOUS
    <3>1. IsFiniteSet(Resident(b)) /\ Cardinality(Resident(b)) \in Nat
      BY ResidentFinite DEF ActiveCtas
    <3>2. Cardinality(Resident(r)) = Cardinality(Resident(b)) + 1
      BY <2>6, <3>1, FS_AddElement
    <3>3. Cardinality(Resident(b)) < MaxCta(k) /\ MaxCta(k) \in Nat
      BY <1>1, <2>1, MaxCtaWithinSlots DEF CanIssue1Block, ActiveCtas
    <3> QED BY <3>1, <3>2, <3>3
  <2>8. \A j : j # k => OwnCtas(r, j) = OwnCtas(co, j)
    BY <1>2, <2>6 DEF OwnCtas
  <2>9. \A x \in Resident(r) : \/ r.owner[x] = k
                               \/ x \in Resident(co) /\ r.owner[x] = co.owner[x]
    BY <1>2, <2>6
  <2> QED BY <1>4, <2>1, <2>5, <2>7, <2>8, <2>9
<1> QED BY <1>3, <1>4

\* Some of at most n things are at most n.
LEMMA SomeWithin ==
  ASSUME NEW S, IsFiniteSet(S), NEW T, T \subseteq S,
         NEW n \in Nat, Cardinality(S) <= n
  PROVE  Cardinality(T) <= n
<1>1. IsFiniteSet(T) /\ Cardinality(T) <= Cardinality(S)
  BY FS_Subset
<1>2. Cardinality(T) \in Nat /\ Cardinality(S) \in Nat
  BY <1>1, FS_CardinalityType
<1> QED BY <1>1, <1>2

\* Nothing is within every bound.
LEMMA NoneWithin ==
  ASSUME NEW n \in Nat
  PROVE  Cardinality({}) <= n
<1>1. Cardinality({}) = 0
  BY FS_EmptySet
<1> QED BY <1>1

\* Where that many of a size fit, fewer fit too.
LEMMA FewerFit ==
  ASSUME NEW own \in Nat, NEW most \in Nat, NEW fit \in Nat, NEW size \in Nat,
         own * fit \in Nat, own * fit <= size, most <= fit
  PROVE  own * most \in Nat /\ own * most <= size
<1>1. own * most \in Nat /\ own * most <= own * fit
  BY ProductGrows
<1> QED BY <1>1

\* One core of a pass.
LEMMA IssueKeepsRInv ==
  ASSUME RInv, KInv', IssueToCore
  PROVE  RInv'
<1>0a. PICK cl : cl = Head(pass.clusters)
  OBVIOUS
<1>0b. PICK place : place = (nextCore[cl] + 1 + pass.tried) % PerCluster
  OBVIOUS
<1>0c. PICK c : c = <<cl, place>>
  OBVIOUS
<1>0d. PICK k : k = Candidate(c)
  OBVIOUS
<1>0e. PICK b : b = Bound(c)
  OBVIOUS
<1>0f. PICK r : r = IF Issues(c) THEN IssueBlock(b, k) ELSE b
  OBVIOUS
<1>1. c \in CoreIds
  BY <1>0a, <1>0b, <1>0c, TurnOfCore DEF RInv, KInv
<1>2. /\ core' = [core EXCEPT ![c] = r] /\ UNCHANGED option
      /\ \/ /\ MoreCtaLeft(k) /\ k \notin adapted
            /\ l1' = Adapted(k) /\ adapted' = adapted \cup {k}
         \/ /\ UNCHANGED <<l1, adapted>>
            /\ MoreCtaLeft(k) => k \in adapted
  BY <1>0a, <1>0b, <1>0c, <1>0d, <1>0e, <1>0f DEF IssueToCore
<1>3. /\ KInv /\ core \in [CoreIds -> Cores] /\ option \in Options
      /\ l1.shmem \in Nat /\ "shmem" \in DOMAIN l1 /\ "carvedFor" \in DOMAIN l1
      /\ "ways" \in DOMAIN l1 /\ L1OK
  BY DEF RInv, KInv, DInv, L1OK
<1>4. \A d \in CoreIds : core'[d] = IF d = c THEN r ELSE core[d]
  BY <1>2, <1>3
<1>5. /\ AccountsOK(r)
      /\ \A x \in Resident(r) :
           \/ Issues(c) /\ r.owner[x] = k
           \/ x \in Resident(core[c]) /\ r.owner[x] = core[c].owner[x]
      /\ Issues(c) =>
           k \in Kernels /\ (~Concurrent => Cardinality(Resident(r)) <= MaxCta(k))
      /\ \A j : j # k \/ ~Issues(c) => OwnCtas(r, j) = OwnCtas(core[c], j)
  BY <1>0d, <1>0e, <1>0f, <1>1, TurnKeepsAccounts
<1>6. (\A d \in CoreIds : AccountsOK(core[d]))'
  <2>1. \A d \in CoreIds : AccountsOK(core'[d])
    BY <1>4, <1>5 DEF RInv
  <2> QED BY <1>2, <2>1, AccountsAfter
<1>7. (\A d \in CoreIds : \A h \in Resident(core[d]) : core[d].owner[h] \in adapted)'
  <2>1. adapted \subseteq adapted' /\ (Issues(c) => k \in adapted')
    BY <1>0d, <1>2 DEF Issues
  <2>2. \A d \in CoreIds : \A h \in Resident(core[d]) : core[d].owner[h] \in adapted'
    BY <2>1 DEF RInv
  <2>3. ASSUME NEW h \in Resident(r)
        PROVE  r.owner[h] \in adapted'
    <3>1. \/ Issues(c) /\ r.owner[h] = k
          \/ h \in Resident(core[c]) /\ r.owner[h] = core[c].owner[h]
      BY <1>5
    <3>2. h \in Resident(core[c]) => core[c].owner[h] \in adapted'
      BY <1>1, <2>2
    <3> QED BY <2>1, <3>1, <3>2
  <2>4. \A d \in CoreIds : \A h \in Resident(core'[d]) :
          core'[d].owner[h] \in adapted'
    BY <1>4, <2>2, <2>3
  <2> QED BY <2>4
<1>8. /\ "carvedFor" \in DOMAIN l1' /\ l1'.shmem = l1.shmem
      /\ \/ UNCHANGED <<l1, adapted>>
         \/ /\ MoreCtaLeft(k) /\ k \notin adapted /\ adapted' = adapted \cup {k}
            /\ l1'.carvedFor = k
            /\ l1'.ways = WaysLeft(CarveOut(SharedMem[k] * MaxCta(k)))
  <2>1. CASE UNCHANGED <<l1, adapted>>
    BY <1>3, <2>1
  <2>2. CASE MoreCtaLeft(k) /\ k \notin adapted
             /\ l1' = Adapted(k) /\ adapted' = adapted \cup {k}
    <3> PICK ways, alloc :
          /\ ways = WaysLeft(CarveOut(SharedMem[k] * MaxCta(k)))
          /\ alloc = IF SharedMem[k] * MaxCta(k) = 0 THEN "on miss" ELSE "on fill"
      OBVIOUS
    <3>1. l1' = [l1 EXCEPT !.ways = ways, !.carvedFor = k, !.alloc = alloc]
      BY <2>2 DEF Adapted, Carve
    <3>2. /\ DOMAIN l1' = DOMAIN l1 /\ l1'.carvedFor = k /\ l1'.ways = ways
          /\ l1'.shmem = l1.shmem
      BY <1>3, <3>1
    <3> QED BY <1>3, <2>2, <3>2
  <2> QED BY <1>2, <2>1, <2>2
<1>9. ASSUME ~Concurrent, l1'.carvedFor # None
      PROVE  CarveOK(l1.carvedFor)'
  <2> PICK j : j = l1'.carvedFor
    OBVIOUS
  <2>1. MaxCta(j)' = MaxCta(j)
    BY <1>2, <1>8, MaxCtaStays
  <2>2. CASE UNCHANGED <<l1, adapted>>
    <3>1. CarveOK(j)
      BY <1>9, <2>2 DEF RInv
    <3>2. ASSUME NEW d \in CoreIds
          PROVE  Cardinality(OwnCtas(core'[d], j)) <= MaxCta(j)
      <4>1. Cardinality(OwnCtas(core[d], j)) <= MaxCta(j)
        BY <3>1 DEF CarveOK
      <4>2. CASE d # c
        BY <1>4, <4>1, <4>2
      <4>3. CASE d = c /\ (~Issues(c) \/ j # k)
        <5>1. OwnCtas(r, j) = OwnCtas(core[c], j)
          BY <1>5, <4>3
        <5> QED BY <1>4, <4>1, <4>3, <5>1
      <4>4. CASE d = c /\ Issues(c) /\ j = k
        <5>1. Cardinality(Resident(r)) <= MaxCta(j)
          BY <1>5, <1>9, <4>4
        <5>2. /\ IsFiniteSet(Resident(r)) /\ OwnCtas(r, j) \subseteq Resident(r)
          BY ResidentFinite DEF OwnCtas
        <5>3. j \in Kernels
          BY <1>5, <4>4
        <5>4. MaxCta(j) \in Nat
          BY <1>3, <5>3, MaxCtaWithinSlots
        <5>5. Cardinality(OwnCtas(r, j)) <= MaxCta(j)
          BY <5>1, <5>2, <5>4, SomeWithin
        <5> QED BY <1>4, <4>4, <5>5
      <4> QED BY <4>2, <4>3, <4>4
    <3>3. \A d \in CoreIds : Cardinality(OwnCtas(core'[d], j)) <= MaxCta(j)'
      BY <2>1, <3>2
    <3>4. CarveOK(j)'
      BY <2>1, <2>2, <3>1, <3>3 DEF CarveOK, OwnCtas, Resident
    <3> QED BY <3>4 DEF CarveOK, OwnCtas, Resident
  <2>3. CASE /\ MoreCtaLeft(k) /\ k \notin adapted /\ adapted' = adapted \cup {k}
             /\ l1'.carvedFor = k
             /\ l1'.ways = WaysLeft(CarveOut(SharedMem[k] * MaxCta(k)))
    <3>1. j = k /\ k \in Kernels
      BY <1>1, <1>3, <2>3, <1>0d, CandidateIsReady
    <3> PICK bytes, most : bytes = SharedMem[k] * MaxCta(k) /\ most = MaxCta(k)
      OBVIOUS
    <3>2. bytes \in Nat /\ bytes <= l1.shmem /\ most \in Nat
      <4> PICK own, fit, size : /\ own = SharedMem[k] /\ size = l1.shmem
                                /\ fit = Fitting(l1.shmem, k)
        OBVIOUS
      <4>1. /\ fit \in Nat /\ own * fit \in Nat /\ own * fit <= size
            /\ most \in Nat /\ most <= fit /\ own \in Nat /\ size \in Nat
        BY <1>3, <3>1, FittingBytes, ShapeAssumption
      <4>2. own * most \in Nat /\ own * most <= size
        BY <4>1, FewerFit
      <4> QED BY <4>1, <4>2
    <3>3. /\ CarveOut(bytes) \in ShmemOptions /\ bytes <= CarveOut(bytes)
          /\ l1'.ways = WaysLeft(CarveOut(bytes))
      BY <1>3, <2>3, <3>2, CarveOutHolds
    <3>4. ASSUME NEW d \in CoreIds
          PROVE  Cardinality(OwnCtas(core'[d], k)) <= most
      <4>1. OwnCtas(core[d], k) = {}
        BY <2>3 DEF RInv, OwnCtas
      <4>2. CASE d # c \/ ~Issues(c)
        <5>1. OwnCtas(core'[d], k) = {}
          BY <1>4, <1>5, <4>1, <4>2
        <5> QED BY <3>2, <5>1, NoneWithin
      <4>3. CASE d = c /\ Issues(c)
        <5>1. Cardinality(Resident(r)) <= most
          BY <1>5, <1>9, <4>3
        <5>2. /\ IsFiniteSet(Resident(r)) /\ OwnCtas(r, k) \subseteq Resident(r)
          BY ResidentFinite DEF OwnCtas
        <5>3. Cardinality(OwnCtas(r, k)) <= most
          BY <3>2, <5>1, <5>2, SomeWithin
        <5> QED BY <1>4, <4>3, <5>3
      <4> QED BY <4>2, <4>3
    <3>5. \A d \in CoreIds : Cardinality(OwnCtas(core'[d], k)) <= MaxCta(k)'
      BY <2>1, <3>1, <3>4
    <3>6. \E o \in ShmemOptions : /\ SharedMem[k] * MaxCta(k)' <= o
                                  /\ l1'.ways = WaysLeft(o)
      BY <2>1, <3>1, <3>3
    <3>7. k \in adapted' /\ k \in Kernels
      BY <2>3, <3>1
    <3>8. CarveOK(k)'
      BY <3>5, <3>6, <3>7 DEF CarveOK, OwnCtas, Resident
    <3> QED BY <2>3, <3>8 DEF CarveOK, OwnCtas, Resident
  <2> QED BY <1>8, <2>2, <2>3
<1> QED BY <1>2, <1>6, <1>7, <1>8, <1>9 DEF RInv, Concurrent


\* Every action keeps the invariant.
LEMMA NextKeepsRInv == RInv /\ [Next]_vars => RInv'
<1> SUFFICES ASSUME RInv, [Next]_vars PROVE RInv'
  OBVIOUS
<1>1. KInv'
  BY NextKeepsKInv DEF RInv
<1>2. \A c \in CoreIds : AccountsOK(core[c])
  BY DEF RInv
<1>3. CASE UNCHANGED <<option, l1, adapted, core>>
  <2>1. \A c \in CoreIds : /\ Resident(core'[c]) \subseteq Resident(core[c])
                           /\ core'[c].owner = core[c].owner
                           /\ AccountsOK(core'[c])
    BY <1>2, <1>3
  <2> QED BY <1>1, <1>3, <2>1, OthersKeepRInv
<1>4. ASSUME NEW k \in Kernels, LatencyOver(k)
      PROVE  RInv'
  BY <1>3, <1>4 DEF LatencyOver
<1>5. ASSUME NEW c \in CoreIds, NEW h \in HwCtas, NEW w \in WarpsOf(core[c], h),
             ReclaimWarp(c, h, w)
      PROVE  RInv'
  BY <1>1, <1>5, ReclaimKeepsRInv
<1>6. ASSUME NEW k \in Kernels, Launch(k)
      PROVE  RInv'
  <2>1. "carvedFor" \in DOMAIN l1' /\ l1'.carvedFor = None
    BY <1>6 DEF Launch, ChangeCacheConfig
  <2> QED BY <1>1, <1>6, <2>1, UncarvedKeepsRInv DEF Launch
<1>7. ASSUME NEW k \in Kernels, AskOccupancy(k)
      PROVE  RInv'
  <2>1. "carvedFor" \in DOMAIN l1
    BY DEF RInv
  <2>2. "carvedFor" \in DOMAIN l1' /\ l1'.carvedFor = None
    BY <1>7, <2>1 DEF AskOccupancy, AdaptedByQuery, Carve
  <2> QED BY <1>1, <1>7, <2>2, UncarvedKeepsRInv DEF AskOccupancy
<1>8. CASE IssueToCore
  BY <1>1, <1>8, IssueKeepsRInv
<1>9. CASE StartPass
  BY <1>3, <1>9 DEF StartPass
<1>10. CASE NewRun
  BY <1>1, <1>10, NewRunKeepsRInv
<1>11. CASE StopAllRunningKernels
  BY <1>3, <1>11 DEF StopAllRunningKernels
<1>12. CASE UNCHANGED vars
  BY <1>3, <1>12 DEF vars
<1> QED BY <1>4, <1>5, <1>6, <1>7, <1>8, <1>9, <1>10, <1>11, <1>12
        DEF Next, Stopped

-----------------------------------------------------------------------------
(* What the invariant gives.                                               *)

\* The shared accounts.
LEMMA SharedAccounts == RInv => AccountsExact
<1> SUFFICES ASSUME RInv, Concurrent, NEW c \in CoreIds, NEW co, co = core[c]
             PROVE  /\ co.threads = SumFunction(ThreadNeeds(co))
                    /\ co.smem = SumFunction(SmemNeeds(co))
                    /\ co.regs = SumFunction(RegNeeds(co))
                    /\ co.ctas = Cardinality(Resident(co))
                    /\ co.hwtid = UNION {CtaThreads(co, h) : h \in Resident(co)}
  BY DEF AccountsExact, ThreadNeeds, SmemNeeds, RegNeeds
<1>1. AccountsOK(co) /\ CoreOK(co)
  BY DEF RInv, KInv, DInv
<1> QED BY <1>1 DEF AccountsOK, CoreOK, ActiveCtas

\* On a core bound to a kernel all CTAs need the same.
LEMMA SumsOfBound ==
  ASSUME option \in Options, ~Concurrent, NEW co, CoreOK(co), NEW k \in Kernels,
         \A h \in Resident(co) : co.owner[h] = k
  PROVE  /\ SumFunction(RegNeeds(co)) = ActiveCtas(co) * RegsPerCta(k)
         /\ SumFunction(SmemNeeds(co)) = ActiveCtas(co) * SmemPerCta(k)
<1> PICK R : R = Resident(co)
  OBVIOUS
<1> PICK f, g : f = RegNeeds(co) /\ g = SmemNeeds(co)
  OBVIOUS
<1> PICK regs, smem : regs = RegsPerCta(k) /\ smem = SmemPerCta(k)
  OBVIOUS
<1>1. IsFiniteSet(R) /\ f \in [R -> Int] /\ g \in [R -> Int]
  BY NeedsTypes, ResidentFinite
<1>2. regs \in Int /\ smem \in Int
  BY NeedsAreNat
<1>3. (\A h \in R : f[h] = regs) /\ (\A h \in R : g[h] = smem)
  BY DEF RegNeeds, SmemNeeds
<1>4. SumFunction(f) = Cardinality(R) * regs
  BY <1>1, <1>2, <1>3, SumOfOneValue
<1>5. SumFunction(g) = Cardinality(R) * smem
  BY <1>1, <1>2, <1>3, SumOfOneValue
<1> QED BY <1>4, <1>5 DEF ActiveCtas

\* The registers of the CTAs of a core are there.
LEMMA RegistersFit ==
  ASSUME RInv, NEW co, AccountsOK(co), CoreOK(co)
  PROVE  SumFunction(RegNeeds(co)) <= CoreRegs
<1>1. option \in Options /\ CoreRegs \in Nat
  BY ShapeAssumption DEF RInv, KInv, DInv
<1>2. CASE Concurrent
  BY <1>2 DEF AccountsOK
<1>3. CASE ~Concurrent /\ Resident(co) # {}
  <2>1. PICK x \in Resident(co) : TRUE
    BY <1>3
  <2> PICK k : k = co.owner[x]
    OBVIOUS
  <2>2. k \in Kernels /\ \A h \in Resident(co) : co.owner[h] = k
    BY <1>3 DEF CoreOK
  <2>3. SumFunction(RegNeeds(co)) = ActiveCtas(co) * RegsPerCta(k)
    BY <1>1, <1>3, <2>2, SumsOfBound
  <2>4. ActiveCtas(co) * RegsPerCta(k) <= CoreRegs
    BY <1>3 DEF AccountsOK
  <2> QED BY <2>3, <2>4
<1>4. CASE Resident(co) = {}
  <2>1. RegNeeds(co) \in [{} -> Int] /\ DOMAIN RegNeeds(co) = {}
    BY <1>1, <1>4, NeedsTypes
  <2> PICK f : f = RegNeeds(co)
    OBVIOUS
  <2>2. IsFiniteSet({})
    BY FS_EmptySet
  <2>3. PICK g : IsSum(f, {}, g)
    BY <2>2, SumExists
  <2>4. SumFunction(f) = g[{}]
    BY <2>1, <2>2, <2>3, SumFunctionIsSum
  <2>5. SumFunction(f) = 0
    BY <2>3, <2>4, SumOfNone
  <2> QED BY <1>1, <2>5
<1> QED BY <1>2, <1>3, <1>4

\* A CTA that is handed out has a slot and its shared memory.
LEMMA AdmittedFits ==
  ASSUME RInv, NEW c \in CoreIds, Issues(c), NEW k, k = Candidate(c)
  PROVE  /\ FreeSlots(Bound(c), k) # {}
         /\ SumFunction(SmemNeeds(core[c])) + SmemPerCta(k) <= l1.shmem
<1> PICK b, co : b = Bound(c) /\ co = core[c]
  OBVIOUS
<1>1. /\ option \in Options /\ l1.shmem \in Nat /\ co \in Cores /\ CoreOK(co)
      /\ AccountsOK(co) /\ DInv
  BY DEF RInv, KInv, DInv
<1>2. /\ k \in Kernels /\ (~Concurrent => b.kernel = k) /\ CanIssue1Block(b, k)
      /\ CoreOK(b)
  BY <1>1, CandidateIsBound, BindingKeepsCore
<1>3. FreeSlots(b, k) # {}
  BY <1>1, <1>2, SlotWhenAdmitted
<1>4. CASE Concurrent
  <2>1. b = co
    BY <1>4 DEF Bound
  <2> QED BY <1>1, <1>2, <1>3, <1>4, <2>1 DEF CanIssue1Block, HasRoom, AccountsOK
<1>5. CASE ~Concurrent
  <2>1. b.active = co.active /\ b.owner = co.owner
    BY <1>1 DEF Bound, Cores
  <2>2. Resident(b) = Resident(co)
    BY <2>1 DEF Resident
  <2>3. \A h \in Resident(co) : co.owner[h] = k
    BY <1>2, <1>5, <2>1, <2>2 DEF CoreOK
  <2> PICK n, need, size :
        n = ActiveCtas(co) /\ need = SmemPerCta(k) /\ size = l1.shmem
    OBVIOUS
  <2>4. SumFunction(SmemNeeds(co)) = n * need
    BY <1>1, <1>2, <1>5, <2>3, SumsOfBound
  <2>5. n \in Nat /\ need \in Nat /\ size \in Nat
    BY <1>1, <1>2, ResidentFinite, NeedsAreNat
  <2>6. n + 1 <= MaxCta(k)
    <3>1. n < MaxCta(k) /\ MaxCta(k) \in Nat
      BY <1>1, <1>2, <1>5, <2>2, MaxCtaWithinSlots DEF CanIssue1Block, ActiveCtas
    <3> QED BY <2>5, <3>1
  <2>7. (n + 1) * need <= size
    BY <1>1, <1>2, <2>5, <2>6, NeedsOfAdmitted
  <2>8. (n + 1) * need = n * need + need
    BY <2>5
  <2> QED BY <1>3, <2>4, <2>7, <2>8
<1> QED BY <1>4, <1>5

\* The L1 cache and the shared memory of a kernel's CTAs fit.
LEMMA CarvedFits == RInv => UnifiedFits
<1> SUFFICES ASSUME RInv, ~Concurrent, NEW k, k = l1.carvedFor, k # None,
                    NEW c \in CoreIds
             PROVE  l1.ways * UnifiedSize
                      + MaxAssoc * Cardinality(OwnCtas(core[c], k)) * SharedMem[k]
                        <= MaxAssoc * UnifiedSize
  BY DEF UnifiedFits, OwnCtas
<1>1. CarveOK(k)
  BY DEF RInv
<1> PICK n, own, most : /\ n = Cardinality(OwnCtas(core[c], k))
                        /\ own = SharedMem[k] /\ most = MaxCta(k)
  OBVIOUS
<1>2. n \in Nat /\ own \in Nat /\ most \in Nat /\ n <= most
  <2>1. option \in Options /\ l1.shmem \in Nat
    BY DEF RInv, KInv, DInv
  <2>2. n \in Nat
    BY OwnCtasShrink
  <2> QED BY <1>1, <2>1, <2>2, MaxCtaWithinSlots, ShapeAssumption DEF CarveOK
<1>3. PICK o \in ShmemOptions : own * most <= o /\ l1.ways = WaysLeft(o)
  BY <1>1 DEF CarveOK
<1>4. PICK all, u : all = MaxAssoc /\ u = UnifiedSize
  OBVIOUS
<1>5. all \in Nat /\ u \in Nat /\ o \in Nat
  BY <1>3, <1>4, CarveOutAssumption
<1>6. l1.ways * u = all * u - all * o
  BY <1>3, <1>4, WaysLeftExact
<1>7. all * n * own <= all * o
  <2>1. own * n <= own * most /\ own * n \in Nat /\ own * most \in Nat
    BY <1>2, ProductGrows
  <2>2. own * n <= o
    BY <1>3, <1>5, <2>1
  <2>3. all * (own * n) <= all * o
    BY <1>5, <2>1, <2>2, ProductGrows
  <2>4. all * (own * n) = all * n * own
    BY <1>2, <1>5
  <2> QED BY <2>3, <2>4
<1>8. all * n * own \in Int /\ all * o \in Int /\ all * u \in Int
  BY <1>2, <1>5
<1> QED BY <1>4, <1>6, <1>7, <1>8

\* Nothing leaks from the accounts of shared cores however kernels of different
\* shapes come and go; the registers of the CTAs on a core, and the shared
\* memory of one more that is handed out, are there in both modes; and as long
\* as a kernel's carve-out is in force its CTAs and the L1 cache fit the
\* unified memory.
THEOREM ResourcesStayAccounted == Spec => []ResourcesAccounted
<1>1. RInv => ResourcesSuffice
  <2> SUFFICES ASSUME RInv, NEW c \in CoreIds
               PROVE  /\ SumFunction(RegNeeds(core[c])) <= CoreRegs
                      /\ Issues(c) =>
                           /\ FreeSlots(Bound(c), Candidate(c)) # {}
                           /\ SumFunction(SmemNeeds(core[c]))
                                + SmemPerCta(Candidate(c)) <= l1.shmem
    BY DEF ResourcesSuffice, RegNeeds, SmemNeeds
  <2>1. AccountsOK(core[c]) /\ CoreOK(core[c])
    BY DEF RInv, KInv, DInv
  <2> QED BY <2>1, RegistersFit, AdmittedFits
<1>2. RInv => ResourcesAccounted
  BY <1>1, SharedAccounts, CarvedFits DEF ResourcesAccounted
<1> QED BY <1>2, InitRInv, NextKeepsRInv, PTL DEF Spec
=============================================================================
