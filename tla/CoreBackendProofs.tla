------------------------- MODULE CoreBackendProofs -------------------------
(***************************************************************************)
(* Proofs about CoreBackend, for every set of instructions and programs,   *)
(* every number of schedulers, units, banks and ports: every result finds  *)
(* its place in EX_WB, and every operand a collector waits for is asked    *)
(* for exactly once.                                                       *)
(***************************************************************************)
EXTENDS CoreBackend, FiniteSetTheorems, SequenceTheorems,
        WellFoundedInduction, TLAPS

-----------------------------------------------------------------------------
(* Numbers, sets and sequences.                                            *)

\* A set of naturals that is not empty has a least element.
LEMMA LeastOfNats ==
  ASSUME NEW S, S \subseteq Nat, S # {}
  PROVE  Min(S) \in S /\ \A y \in S : Min(S) <= y
<1>1. PICK x \in S : \A y \in S : ~(<<y, x>> \in OpToRel(<, Nat))
  BY WFMin, NatLessThanWellFounded
<1>2. \A y \in S : ~(y < x)
  BY <1>1, Zenon DEF OpToRel
<1>3. \A y \in S : x <= y
  BY <1>2
<1> QED BY <1>3 DEF Min

\* What holds at 0 and goes on to the next number holds up to M.
LEMMA CountUp ==
  ASSUME NEW S, NEW M \in Nat, 0 \in S,
         \A n \in Nat : n < M /\ n \in S => n + 1 \in S
  PROVE  \A n \in 0 .. M : n \in S
<1> DEFINE bad == {n \in 0 .. M : n \notin S}
<1> SUFFICES ASSUME bad # {}
             PROVE  FALSE
  OBVIOUS
<1>1. /\ Min(bad) \in bad
      /\ \A y \in bad : Min(bad) <= y
  <2>1. bad \subseteq Nat
    OBVIOUS
  <2> HIDE DEF bad
  <2> QED BY <2>1, LeastOfNats
<1>2. PICK n \in bad : \A y \in bad : n <= y
  BY <1>1
<1>3. n \in Nat /\ n <= M /\ n \notin S /\ n # 0
  BY <1>2
<1>4. n - 1 \in Nat /\ n - 1 < M /\ n - 1 \in S
  BY <1>2, <1>3
<1>5. (n - 1) + 1 \in S
  BY <1>4
<1> QED BY <1>3, <1>5

\* Division with remainder.
LEMMA Divided ==
  ASSUME NEW n \in Nat, NEW b \in Nat \ {0}
  PROVE  /\ n \div b \in Nat /\ n % b \in 0 .. b - 1
         /\ n = (n \div b) * b + (n % b)
  OBVIOUS

\* Quotient and remainder determine a number.
LEMMA DividedOnce ==
  ASSUME NEW b \in Nat \ {0}, NEW q \in Nat, NEW r \in 0 .. b - 1,
         NEW p \in Nat, NEW s \in 0 .. b - 1, q * b + r = p * b + s
  PROVE  q = p /\ r = s
<1>1. CASE q < p
  <2>1. PICK d \in Nat : p = q + 1 + d
    <3>1. p - q - 1 \in Nat /\ p = q + 1 + (p - q - 1)
      BY <1>1
    <3> QED BY <3>1
  <2>2. p * b = q * b + b + d * b
    BY <2>1
  <2>3. d * b \in Nat /\ q * b \in Nat
    OBVIOUS
  <2> QED BY <2>2, <2>3
<1>2. CASE p < q
  <2>1. PICK d \in Nat : q = p + 1 + d
    <3>1. q - p - 1 \in Nat /\ q = p + 1 + (q - p - 1)
      BY <1>2
    <3> QED BY <3>1
  <2>2. q * b = p * b + b + d * b
    BY <2>1
  <2>3. d * b \in Nat /\ p * b \in Nat
    OBVIOUS
  <2> QED BY <2>2, <2>3
<1>3. CASE p = q
  BY <1>3
<1> QED BY <1>1, <1>2, <1>3

LEMMA Quotient ==
  ASSUME NEW b \in Nat \ {0}, NEW q \in Nat, NEW r \in 0 .. b - 1
  PROVE  (q * b + r) \div b = q /\ (q * b + r) % b = r
<1>1. q * b \in Nat
  OBVIOUS
<1>2. PICK n \in Nat : n = q * b + r
  BY <1>1
<1>3. /\ n \div b \in Nat /\ n % b \in 0 .. b - 1
      /\ n = (n \div b) * b + (n % b)
  BY Divided
<1>4. q = n \div b /\ r = n % b
  BY <1>2, <1>3, DividedOnce
<1> QED BY <1>2, <1>4

\* A function on 1 .. n is a sequence of length n.
LEMMA SeqOfLength ==
  ASSUME NEW S, NEW n \in Nat, NEW f \in [1 .. n -> S]
  PROVE  f \in Seq(S) /\ Len(f) = n
  OBVIOUS

\* What a concatenation consists of.
Joins(u, s, t) ==
  /\ Len(u) = Len(s) + Len(t) /\ Len(s) \in Nat /\ Len(t) \in Nat
  /\ \A i \in 1 .. Len(s) : u[i] = s[i]
  /\ \A i \in 1 .. Len(t) : u[Len(s) + i] = t[i]

LEMMA Joined ==
  ASSUME NEW S, NEW s \in Seq(S), NEW t \in Seq(S)
  PROVE  s \o t \in Seq(S) /\ Joins(s \o t, s, t)
<1>1. PICK u : u = s \o t
  OBVIOUS
<1>2. /\ Len(s) \in Nat /\ Len(t) \in Nat
      /\ u \in Seq(S) /\ Len(u) = Len(s) + Len(t)
      /\ \A i \in 1 .. Len(s) + Len(t) :
           u[i] = IF i <= Len(s) THEN s[i] ELSE t[i - Len(s)]
  BY <1>1, ConcatProperties, LenProperties
<1>3. ASSUME NEW i \in 1 .. Len(t)
      PROVE  u[Len(s) + i] = t[i]
  <2>1. /\ Len(s) + i \in 1 .. Len(s) + Len(t)
        /\ ~(Len(s) + i <= Len(s)) /\ (Len(s) + i) - Len(s) = i
    BY <1>2
  <2> QED BY <2>1, <1>2
<1>4. \A i \in 1 .. Len(s) : u[i] = s[i]
  BY <1>2
<1>5. u \in Seq(S) /\ Joins(u, s, t)
  BY <1>2, <1>3, <1>4 DEF Joins
<1> QED BY <1>1, <1>5

-----------------------------------------------------------------------------
(* The order of the parts of a cycle.                                      *)

\* Parts before a core's writeback, and after its SIMD units.
Earlier ==
  [does : {"clock", "icnt", "reply", "request"}, unit : Seq(Nat)]

Later ==
  [does : {"ldst_writeback", "ldst_respond", "latency_queue", "ldst_access",
           "ldst_retire", "ldst_issue", "reads", "banks", "issue"},
   unit : Seq(Nat)]
  \cup [does : {"dispatch"}, unit : {<<d - 1>> : d \in OutPortIds}]
  \cup [does : {"allocate"}, unit : {<<p>> : p \in Ports}]

Turns  == Earlier \cup Later
          \cup [does : {"writeback"}, unit : {<<>>}]
          \cup [does : {"simd"}, unit : SimdUnitIds]

\* The place of the writeback, and how many SIMD units follow it.
First == 2 * SubPartitions + 3
Simds == Len(SimdPorts) * Schedulers

LEMMA OrderConstants ==
  /\ Schedulers \in Nat \ {0} /\ SubPartitions \in Nat \ {0}
  /\ First \in Nat /\ First >= 5 /\ Simds \in Nat
  /\ Len(SimdPorts) \in Nat /\ DOMAIN SimdPorts = 1 .. Len(SimdPorts)
  /\ SimdPorts \in Seq(Ports)
<1>1. /\ Schedulers \in Nat \ {0} /\ SubPartitions \in Nat \ {0}
      /\ SimdPorts \in Seq(ToSet(SimdPorts))
  BY CollectorAssumption, MemoryAssumption
<1>2. /\ Len(SimdPorts) \in Nat /\ DOMAIN SimdPorts = 1 .. Len(SimdPorts)
      /\ SimdPorts \in Seq(Ports)
  BY <1>1, SeqMonotonic DEF Ports
<1> QED BY <1>1, <1>2 DEF First, Simds

\* One SIMD unit after the other, every one once.
LEMMA EverySimd ==
  /\ \A k \in 1 .. Simds :
       /\ SimdOrder[k].does = "simd"
       /\ SimdOrder[k].unit \in SimdUnitIds
       /\ \A j \in 1 .. Simds : SimdOrder[j].unit = SimdOrder[k].unit => j = k
  /\ \A u \in SimdUnitIds : \E k \in 1 .. Simds : SimdOrder[k].unit = u
  /\ SimdOrder \in Seq([does : {"simd"}, unit : SimdUnitIds])
  /\ Len(SimdOrder) = Simds
<1>1. /\ Schedulers \in Nat \ {0} /\ Len(SimdPorts) \in Nat /\ Simds \in Nat
      /\ DOMAIN SimdPorts = 1 .. Len(SimdPorts)
  BY OrderConstants
<1> DEFINE S == Schedulers
           L == Len(SimdPorts)
<1>2. ASSUME NEW k \in 1 .. Simds
      PROVE  /\ (k - 1) \div S \in 0 .. L - 1 /\ (k - 1) % S \in 0 .. S - 1
             /\ k - 1 = ((k - 1) \div S) * S + ((k - 1) % S)
  <2>1. k - 1 \in Nat /\ k - 1 < L * S
    BY <1>1 DEF Simds
  <2>2. PICK q \in Nat, r \in 0 .. S - 1 :
          /\ q = (k - 1) \div S /\ r = (k - 1) % S
          /\ k - 1 = q * S + r
    BY <2>1, <1>1, Divided
  <2>3. q < L
    <3> SUFFICES ASSUME ~(q < L)
                 PROVE  FALSE
      OBVIOUS
    <3>1. PICK d \in Nat : q = L + d
      <4>1. q - L \in Nat /\ q = L + (q - L)
        BY <2>2, <1>1
      <4> QED BY <4>1
    <3>2. q * S = L * S + d * S /\ d * S \in Nat /\ L * S \in Nat
      BY <3>1, <1>1
    <3> QED BY <2>1, <2>2, <3>2, <1>1
  <2> QED BY <2>2, <2>3, <1>1
<1>3. PICK q : q = [k \in 1 .. Simds |-> (k - 1) \div S]
  OBVIOUS
<1>4. PICK r : r = [k \in 1 .. Simds |-> (k - 1) % S]
  OBVIOUS
<1>5. \A k \in 1 .. Simds : q[k] = (k - 1) \div S /\ r[k] = (k - 1) % S
  BY <1>3, <1>4
<1>6. ASSUME NEW k \in 1 .. Simds
      PROVE  /\ q[k] + 1 \in DOMAIN SimdPorts /\ r[k] \in SchedIds
             /\ q[k] \in Nat /\ q[k] < L /\ r[k] \in 0 .. S - 1
             /\ k - 1 = q[k] * S + r[k]
             /\ SimdOrder[k].does = "simd"
             /\ SimdOrder[k].unit = <<SimdPorts[q[k] + 1], r[k]>>
  <2>1. /\ q[k] \in 0 .. L - 1 /\ r[k] \in 0 .. S - 1
        /\ k - 1 = q[k] * S + r[k]
    BY <1>2, <1>5
  <2>2. SimdOrder[k] = [does |-> "simd", unit |-> <<SimdPorts[q[k] + 1], r[k]>>]
    BY <1>5 DEF SimdOrder, Simds
  <2> QED BY <2>1, <2>2, <1>1 DEF SchedIds
<1>7. ASSUME NEW k \in 1 .. Simds
      PROVE  /\ SimdOrder[k].unit \in SimdUnitIds
             /\ SimdOrder[k] \in [does : {"simd"}, unit : SimdUnitIds]
  <2>1. <<SimdPorts[q[k] + 1], r[k]>> \in SimdUnitIds
    BY <1>6 DEF SimdUnitIds, ToSet
  <2>2. SimdOrder[k] = [does |-> "simd", unit |-> <<SimdPorts[q[k] + 1], r[k]>>]
    BY <1>5 DEF SimdOrder, Simds
  <2> QED BY <2>1, <2>2
<1>8. ASSUME NEW k \in 1 .. Simds, NEW j \in 1 .. Simds,
             SimdOrder[j].unit = SimdOrder[k].unit
      PROVE  j = k
  <2>1. SimdPorts[q[j] + 1] = SimdPorts[q[k] + 1] /\ r[j] = r[k]
    BY <1>6, <1>8
  <2>2. q[j] + 1 = q[k] + 1
    BY <1>6, <2>1, CollectorAssumption DEF IsInjective
  <2>3. q[j] = q[k]
    BY <1>6, <2>2
  <2>4. k - 1 = j - 1
    BY <1>6, <2>1, <2>3
  <2> QED BY <2>4
<1>9. ASSUME NEW u \in SimdUnitIds
      PROVE  \E k \in 1 .. Simds : SimdOrder[k].unit = u
  <2>1. PICK n \in DOMAIN SimdPorts, s \in SchedIds : u = <<SimdPorts[n], s>>
    BY DEF SimdUnitIds, ToSet
  <2>2. n \in 1 .. L /\ s \in 0 .. S - 1 /\ n - 1 \in Nat
    BY <2>1, <1>1 DEF SchedIds
  <2>3. PICK m \in Nat : m = (n - 1) * S
    BY <2>2, <1>1
  <2>4. m + S = n * S /\ n * S \in Nat
    BY <2>2, <2>3, <1>1
  <2>5. n * S <= L * S
    <3>1. PICK d \in Nat : L = n + d
      <4>1. L - n \in Nat /\ L = n + (L - n)
        BY <2>2, <1>1
      <4> QED BY <4>1
    <3>2. L * S = n * S + d * S /\ d * S \in Nat
      BY <3>1, <2>2, <1>1
    <3> QED BY <3>2, <2>4
  <2>6. (m + s) \div S = n - 1 /\ (m + s) % S = s
    BY <2>2, <2>3, <1>1, Quotient
  <2>7. PICK k \in 1 .. Simds : k - 1 = m + s
    <3>1. PICK x \in Nat : x = n * S /\ x = m + S
      BY <2>4
    <3>2. PICK y : y = Simds
      OBVIOUS
    <3>3. y \in Nat /\ x <= y
      BY <2>5, <3>1, <3>2, OrderConstants, <1>1 DEF Simds
    <3>4. PICK z \in Nat : z = m + s
      BY <2>2
    <3>5. z + 1 \in 1 .. y /\ (z + 1) - 1 = z
      BY <2>2, <3>1, <3>3, <3>4, <1>1
    <3> QED BY <3>2, <3>4, <3>5
  <2>8. q[k] = n - 1 /\ r[k] = s
    BY <2>6, <2>7, <1>5
  <2>9. SimdPorts[q[k] + 1] = SimdPorts[n]
    BY <2>8, <2>2, <1>1
  <2> QED BY <1>6, <2>1, <2>8, <2>9
<1>10. /\ SimdOrder \in Seq([does : {"simd"}, unit : SimdUnitIds])
       /\ Len(SimdOrder) = Simds
  <2> DEFINE T == [does : {"simd"}, unit : SimdUnitIds]
  <2>1. SimdOrder \in [1 .. Simds -> T]
    BY <1>7 DEF SimdOrder, Simds
  <2>2. SimdOrder \in Seq(T) /\ Len(SimdOrder) = Simds
    <3> HIDE DEF T
    <3> QED BY <2>1, <1>1
  <2> QED BY <2>2
<1> QED BY <1>6, <1>7, <1>8, <1>9, <1>10

\* A core's writeback, its SIMD units, and then some of what comes later.
SimdFirst(s) ==
  /\ s \in Seq(Turns) /\ Len(s) >= Simds + 1
  /\ s[1].does = "writeback"
  /\ \A k \in 1 .. Simds : s[k + 1] = SimdOrder[k]
  /\ \A n \in Simds + 2 .. Len(s) : s[n] \in Later

LEMMA SimdFirstGrows ==
  ASSUME NEW s, SimdFirst(s), NEW t \in Seq(Later)
  PROVE  SimdFirst(s \o t) /\ Len(s \o t) = Len(s) + Len(t)
<1>1. t \in Seq(Turns)
  BY SeqMonotonic DEF Turns
<1>2. s \in Seq(Turns) /\ Len(s) >= Simds + 1 /\ Simds \in Nat
  BY OrderConstants DEF SimdFirst
<1>3. /\ s \o t \in Seq(Turns) /\ Len(s \o t) = Len(s) + Len(t)
      /\ \A n \in 1 .. Len(s) + Len(t) :
           (s \o t)[n] = IF n <= Len(s) THEN s[n] ELSE t[n - Len(s)]
  BY <1>1, <1>2, ConcatProperties
<1>4. Len(s) \in Nat /\ Len(t) \in Nat
  BY <1>2, LenProperties
<1>5. ASSUME NEW n \in Simds + 2 .. Len(s \o t)
      PROVE  (s \o t)[n] \in Later
  <2>1. CASE n <= Len(s)
    <3>1. (s \o t)[n] = s[n]
      BY <1>2, <1>3, <1>4, <2>1
    <3> QED BY <1>2, <1>4, <2>1, <3>1 DEF SimdFirst
  <2>2. CASE ~(n <= Len(s))
    <3>1. (s \o t)[n] = t[n - Len(s)] /\ n - Len(s) \in 1 .. Len(t)
      BY <1>2, <1>3, <1>4, <2>2
    <3> QED BY <3>1, ElementOfSeq
  <2> QED BY <2>1, <2>2
<1>6. (s \o t)[1] = s[1] /\ \A k \in 1 .. Simds : (s \o t)[k + 1] = s[k + 1]
  BY <1>2, <1>3, <1>4
<1> QED BY <1>2, <1>3, <1>4, <1>5, <1>6 DEF SimdFirst

LEMMA CoreInOrder == SimdFirst(CoreOrder) /\ Len(CoreOrder) > Simds + 1
<1>1. \A name \in {"ldst_writeback", "ldst_respond", "ldst_access", "ldst_retire",
                   "ldst_issue", "reads", "banks", "issue"} :
        Step(name) \in Seq(Later) /\ Len(Step(name)) = 1
  <2> TAKE name \in {"ldst_writeback", "ldst_respond", "ldst_access", "ldst_retire",
                     "ldst_issue", "reads", "banks", "issue"}
  <2>1. <<>> \in Seq(Nat)
    OBVIOUS
  <2>2. PICK turn : turn = [does |-> name, unit |-> <<>>]
    OBVIOUS
  <2>3. turn \in Later
    BY <2>1, <2>2 DEF Later
  <2>4. <<turn>> \in Seq(Later) /\ Len(<<turn>>) = 1
    BY <2>3
  <2> QED BY <2>2, <2>4, Zenon DEF Step
<1>2. ForEach("latency_queue", L1Banks) \in Seq(Later)
  <2>1. L1Banks \in Nat
    BY LdstAssumption
  <2>2. ForEach("latency_queue", L1Banks) \in [1 .. L1Banks -> Later]
    BY DEF ForEach, Later
  <2> QED BY <2>1, <2>2, SeqOfLength
<1>3. ForEach("dispatch", OutPorts) \in Seq(Later)
  <2>1. OutPorts \in Nat
    BY CollectorAssumption
  <2>2. ForEach("dispatch", OutPorts) \in [1 .. OutPorts -> Later]
    BY DEF ForEach, Later, OutPortIds
  <2> QED BY <2>1, <2>2, SeqOfLength
<1>4. InputTurns \in Seq(Later)
  <2>1. InputOrder \in Seq(Ports) /\ Len(InputOrder) \in Nat \ {0}
    <3>1. <<"MEM">> \in Seq(Ports) /\ Len(<<"MEM">>) = 1
      BY DEF Ports
    <3> QED BY <3>1, OrderConstants, ConcatProperties DEF InputOrder
  <2>2. PICK l \in Nat \ {0} : l = Len(InputOrder)
    BY <2>1
  <2>3. PICK m \in Nat : m = InPorts * l
    BY CollectorAssumption
  <2>4. ASSUME NEW k \in 1 .. m
        PROVE  InputTurns[k] \in Later
    <3>1. ((k - 1) % l) + 1 \in 1 .. l
      BY Divided
    <3>2. InputOrder[((k - 1) % l) + 1] \in Ports
      BY <2>1, <2>2, <3>1, ElementOfSeq
    <3> QED BY <2>2, <2>3, <3>2 DEF InputTurns, Later
  <2>5. InputTurns = [k \in 1 .. m |-> InputTurns[k]]
    BY <2>2, <2>3 DEF InputTurns
  <2> QED BY <2>4, <2>5, IsASeq
<1>5. SimdFirst(Step("writeback") \o SimdOrder)
  <2>1. Step("writeback") \in Seq(Turns) /\ Len(Step("writeback")) = 1
        /\ Step("writeback")[1].does = "writeback"
    BY DEF Step, Turns
  <2>2. SimdOrder \in Seq(Turns) /\ Len(SimdOrder) = Simds /\ Simds \in Nat
    <3>1. [does : {"simd"}, unit : SimdUnitIds] \subseteq Turns
      BY DEF Turns
    <3>2. PICK T : T = [does : {"simd"}, unit : SimdUnitIds]
      OBVIOUS
    <3>3. SimdOrder \in Seq(T) /\ T \subseteq Turns
      BY <3>1, <3>2, EverySimd
    <3>4. SimdOrder \in Seq(Turns)
      BY <3>3, SeqMonotonic
    <3> QED BY <3>4, EverySimd, OrderConstants
  <2>3. PICK s : s = Step("writeback") \o SimdOrder
    OBVIOUS
  <2>4. /\ s \in Seq(Turns) /\ Len(s) = 1 + Simds
        /\ \A i \in 1 .. 1 : s[i] = Step("writeback")[i]
        /\ \A i \in 1 .. Simds : s[1 + i] = SimdOrder[i]
    <3>1. PICK w : w = Step("writeback")
      OBVIOUS
    <3>2. PICK t : t = SimdOrder
      OBVIOUS
    <3>3. w \in Seq(Turns) /\ t \in Seq(Turns) /\ s = w \o t
      BY <2>1, <2>2, <2>3, <3>1, <3>2, Zenon
    <3>4. /\ s \in Seq(Turns) /\ Len(s) = Len(w) + Len(t)
          /\ \A i \in 1 .. Len(w) : s[i] = w[i]
          /\ \A i \in 1 .. Len(t) : s[Len(w) + i] = t[i]
      <4>1. s \in Seq(Turns) /\ Joins(s, w, t)
        BY <3>3, Joined, Zenon
      <4> QED BY <4>1 DEF Joins
    <3> QED BY <2>1, <2>2, <3>1, <3>2, <3>4, Zenon
  <2>5. /\ Len(s) >= Simds + 1 /\ \A i \in 1 .. Simds : i + 1 = 1 + i
        /\ Simds + 2 .. Len(s) = {}
    BY <2>2, <2>4
  <2>6. SimdFirst(s)
    BY <2>1, <2>4, <2>5 DEF SimdFirst
  <2> QED BY <2>3, <2>6
<1> DEFINE s1 == Step("writeback") \o SimdOrder
           s2 == s1 \o Step("ldst_writeback")
           s3 == s2 \o Step("ldst_respond")
           s4 == s3 \o ForEach("latency_queue", L1Banks)
           s5 == s4 \o Step("ldst_access")
           s6 == s5 \o Step("ldst_retire")
           s7 == s6 \o Step("ldst_issue")
           s8 == s7 \o ForEach("dispatch", OutPorts)
           s9 == s8 \o Step("reads")
           s10 == s9 \o InputTurns
           s11 == s10 \o Step("banks")
           s12 == s11 \o Step("issue")
<1>6. CoreOrder = s12
  BY DEF CoreOrder
<1> HIDE DEF s1, s2, s3, s4, s5, s6, s7, s8, s9, s10, s11, s12
<1>7. SimdFirst(s2)
  BY <1>1, <1>5, SimdFirstGrows DEF s1, s2
<1>8. SimdFirst(s3)
  BY <1>1, <1>7, SimdFirstGrows DEF s3
<1>9. SimdFirst(s4)
  BY <1>2, <1>8, SimdFirstGrows DEF s4
<1>10. SimdFirst(s5)
  BY <1>1, <1>9, SimdFirstGrows DEF s5
<1>11. SimdFirst(s6)
  BY <1>1, <1>10, SimdFirstGrows DEF s6
<1>12. SimdFirst(s7)
  BY <1>1, <1>11, SimdFirstGrows DEF s7
<1>13. SimdFirst(s8)
  BY <1>3, <1>12, SimdFirstGrows DEF s8
<1>14. SimdFirst(s9)
  BY <1>1, <1>13, SimdFirstGrows DEF s9
<1>15. SimdFirst(s10)
  BY <1>4, <1>14, SimdFirstGrows DEF s10
<1>16. SimdFirst(s11)
  BY <1>1, <1>15, SimdFirstGrows DEF s11
<1>17. SimdFirst(s12) /\ Len(s12) = Len(s11) + 1
  BY <1>1, <1>16, SimdFirstGrows DEF s12
<1>18. Len(s11) \in Nat /\ Len(s11) >= Simds + 1 /\ Simds \in Nat
  BY <1>16, OrderConstants, LenProperties DEF SimdFirst
<1> QED BY <1>6, <1>17, <1>18

\* What the parts of a cycle are, by their place.
LEMMA CycleInOrder ==
  /\ Len(CycleOrder) \in Nat /\ First + Simds < Len(CycleOrder)
  /\ \A n \in 1 .. First - 1 : CycleOrder[n] \in Earlier
  /\ CycleOrder[First].does = "writeback"
  /\ \A k \in 1 .. Simds : CycleOrder[First + k] = SimdOrder[k]
  /\ \A n \in First + Simds + 1 .. Len(CycleOrder) : CycleOrder[n] \in Later
<1>1. \A name \in {"clock", "icnt"} :
        Step(name) \in Seq(Earlier) /\ Len(Step(name)) = 1
  BY DEF Step, Earlier
<1>2. \A name \in {"reply", "request"} :
        /\ ForEach(name, SubPartitions) \in Seq(Earlier)
        /\ Len(ForEach(name, SubPartitions)) = SubPartitions
  <2> TAKE name \in {"reply", "request"}
  <2>1. SubPartitions \in Nat
    BY OrderConstants
  <2>2. ForEach(name, SubPartitions) \in [1 .. SubPartitions -> Earlier]
    BY DEF ForEach, Earlier
  <2> QED BY <2>1, <2>2, SeqOfLength
<1> DEFINE a == Step("clock") \o Step("icnt")
           b == a \o ForEach("reply", SubPartitions)
           c == b \o ForEach("request", SubPartitions)
<1>3. CycleOrder = c \o CoreOrder
  BY DEF CycleOrder
<1>4. a \in Seq(Earlier) /\ Len(a) = 2
  <2>1. Step("clock") \in Seq(Earlier) /\ Step("icnt") \in Seq(Earlier)
    BY <1>1
  <2>2. a \in Seq(Earlier) /\ Len(a) = Len(Step("clock")) + Len(Step("icnt"))
    BY <2>1, ConcatProperties, Zenon
  <2>3. Len(Step("clock")) = 1 /\ Len(Step("icnt")) = 1
    BY <1>1
  <2> HIDE DEF a
  <2>4. 1 + 1 = 2
    OBVIOUS
  <2> QED BY <2>2, <2>3, <2>4, Zenon
<1> HIDE DEF a
<1>5. b \in Seq(Earlier) /\ Len(b) = 2 + SubPartitions
  <2>1. ForEach("reply", SubPartitions) \in Seq(Earlier)
    BY <1>2
  <2>2. /\ b \in Seq(Earlier)
        /\ Len(b) = Len(a) + Len(ForEach("reply", SubPartitions))
    BY <1>4, <2>1, ConcatProperties, Zenon
  <2> HIDE DEF b
  <2> QED BY <1>2, <1>4, <2>2
<1> HIDE DEF b
<1>6. c \in Seq(Earlier) /\ Len(c) = 2 + SubPartitions + SubPartitions
  <2>1. ForEach("request", SubPartitions) \in Seq(Earlier)
    BY <1>2
  <2>2. /\ c \in Seq(Earlier)
        /\ Len(c) = Len(b) + Len(ForEach("request", SubPartitions))
    BY <1>5, <2>1, ConcatProperties, Zenon
  <2> HIDE DEF c
  <2> QED BY <1>2, <1>5, <2>2, OrderConstants
<1> HIDE DEF c
<1>7. /\ Len(c) = First - 1 /\ First \in Nat /\ Simds \in Nat /\ First >= 5
  BY <1>6, OrderConstants DEF First
<1>8. /\ CoreOrder \in Seq(Turns) /\ Len(CoreOrder) \in Nat
      /\ Len(CoreOrder) > Simds + 1
  BY CoreInOrder, LenProperties DEF SimdFirst
<1>9. c \in Seq(Turns)
  BY <1>6, SeqMonotonic DEF Turns
<1>10. /\ Len(CycleOrder) = First - 1 + Len(CoreOrder)
       /\ \A n \in 1 .. First - 1 + Len(CoreOrder) :
            CycleOrder[n] = IF n <= First - 1 THEN c[n] ELSE CoreOrder[n - (First - 1)]
  <2>1. /\ Len(CycleOrder) = Len(c) + Len(CoreOrder)
        /\ \A n \in 1 .. Len(c) + Len(CoreOrder) :
             CycleOrder[n] = IF n <= Len(c) THEN c[n] ELSE CoreOrder[n - Len(c)]
    BY <1>3, <1>8, <1>9, ConcatProperties, Zenon
  <2> QED BY <1>7, <2>1, Zenon
<1>11. ASSUME NEW n \in 1 .. First - 1
       PROVE  CycleOrder[n] \in Earlier
  <2>1. CycleOrder[n] = c[n] /\ n \in 1 .. Len(c)
    BY <1>7, <1>8, <1>10
  <2> QED BY <2>1, <1>6, ElementOfSeq
<1>12. ASSUME NEW k \in 1 .. Len(CoreOrder)
       PROVE  CycleOrder[First - 1 + k] = CoreOrder[k]
  <2>1. First - 1 + k \in 1 .. First - 1 + Len(CoreOrder)
        /\ ~(First - 1 + k <= First - 1) /\ (First - 1 + k) - (First - 1) = k
    BY <1>7, <1>8
  <2> QED BY <2>1, <1>10
<1>13. CycleOrder[First].does = "writeback"
  <2>1. CycleOrder[First - 1 + 1] = CoreOrder[1] /\ First - 1 + 1 = First
    BY <1>7, <1>8, <1>12
  <2> QED BY <2>1, CoreInOrder DEF SimdFirst
<1>14. ASSUME NEW k \in 1 .. Simds
       PROVE  CycleOrder[First + k] = SimdOrder[k]
  <2>1. k + 1 \in 1 .. Len(CoreOrder) /\ First - 1 + (k + 1) = First + k
    BY <1>7, <1>8
  <2>2. CycleOrder[First - 1 + (k + 1)] = CoreOrder[k + 1]
    BY <2>1, <1>12
  <2> QED BY <2>1, <2>2, CoreInOrder DEF SimdFirst
<1>15. ASSUME NEW n \in First + Simds + 1 .. Len(CycleOrder)
       PROVE  CycleOrder[n] \in Later
  <2>1. PICK k \in Simds + 2 .. Len(CoreOrder) : n = First - 1 + k
    <3>1. n - First + 1 \in Simds + 2 .. Len(CoreOrder)
          /\ n = First - 1 + (n - First + 1)
      BY <1>7, <1>8, <1>10
    <3> QED BY <3>1
  <2>2. k \in 1 .. Len(CoreOrder)
    BY <1>7, <1>8
  <2>3. CycleOrder[n] = CoreOrder[k]
    BY <2>1, <2>2, <1>12
  <2> QED BY <2>3, CoreInOrder DEF SimdFirst
<1>16. Len(CycleOrder) \in Nat /\ First + Simds < Len(CycleOrder)
  BY <1>7, <1>8, <1>10
<1> QED BY <1>11, <1>13, <1>14, <1>15, <1>16

\* The units that are still to have their turn of a cycle, after the bookings
\* of the buses have moved on, at part n.
ComeAt(n) ==
  IF n \in First + 1 .. First + Simds
  THEN {SimdOrder[k].unit : k \in n - First .. Simds} ELSE {}

ToCome == ComeAt(part)

\* A part belongs to a domain that ticks.
PartOK ==
  /\ part \in 1 .. Len(CycleOrder)
  /\ part # 1 => DomainOf(part) \in ticks

LEMMA CoreDomain ==
  /\ \A n \in First .. Len(CycleOrder) : DomainOf(n) = "CORE"
  /\ \A n \in 1 .. Len(CycleOrder) :
       /\ CycleOrder[n].does = "writeback" <=> n = First
       /\ CycleOrder[n].does = "simd" <=> n \in First + 1 .. First + Simds
       /\ CycleOrder[n].does = "clock" => n < First
       /\ CycleOrder[n].does = "dispatch" => CycleOrder[n].unit[1] + 1 \in OutPortIds
       /\ CycleOrder[n].does = "allocate" => CycleOrder[n].unit[1] \in Ports
<1>1. /\ First \in Nat /\ First >= 5 /\ Simds \in Nat /\ Len(CycleOrder) \in Nat
      /\ First + Simds < Len(CycleOrder)
  BY OrderConstants, CycleInOrder
<1>2. \A n \in 1 .. First - 1 :
        CycleOrder[n].does \in {"clock", "icnt", "reply", "request"}
  BY CycleInOrder DEF Earlier
<1>3. \A n \in First + 1 .. First + Simds : CycleOrder[n].does = "simd"
  <2> TAKE n \in First + 1 .. First + Simds
  <2>1. n - First \in 1 .. Simds /\ First + (n - First) = n
    BY <1>1
  <2>2. CycleOrder[First + (n - First)] = SimdOrder[n - First]
    BY <2>1, CycleInOrder
  <2> QED BY <2>1, <2>2, EverySimd
<1>4. \A t \in Later : t.does \notin {"clock", "writeback", "simd", "reply", "request"}
  BY DEF Later
<1>5. \A n \in First + Simds + 1 .. Len(CycleOrder) :
        CycleOrder[n].does \notin {"clock", "writeback", "simd", "reply", "request"}
  BY <1>4, CycleInOrder
<1>6. CycleOrder[First].does = "writeback"
  BY CycleInOrder
<1>7. \A n \in 1 .. Len(CycleOrder) :
        \/ n \in 1 .. First - 1
        \/ n = First
        \/ n \in First + 1 .. First + Simds
        \/ n \in First + Simds + 1 .. Len(CycleOrder)
  BY <1>1
<1>8. \A n \in First .. Len(CycleOrder) : DomainOf(n) = "CORE"
  <2> TAKE n \in First .. Len(CycleOrder)
  <2>1. CycleOrder[n].does # "reply" /\ CycleOrder[n].does # "request"
    <3>1. n \in 1 .. Len(CycleOrder) /\ n \notin 1 .. First - 1
      BY <1>1
    <3> QED BY <3>1, <1>3, <1>5, <1>6, <1>7
  <2> QED BY <2>1 DEF DomainOf
<1>9. ASSUME NEW n \in 1 .. Len(CycleOrder)
      PROVE  /\ CycleOrder[n].does = "writeback" <=> n = First
             /\ CycleOrder[n].does = "simd" <=> n \in First + 1 .. First + Simds
             /\ CycleOrder[n].does = "clock" => n < First
  <2>1. CASE n \in 1 .. First - 1
    BY <2>1, <1>1, <1>2
  <2>2. CASE n = First
    BY <2>2, <1>1, <1>6
  <2>3. CASE n \in First + 1 .. First + Simds
    BY <2>3, <1>1, <1>3
  <2>4. CASE n \in First + Simds + 1 .. Len(CycleOrder)
    BY <2>4, <1>1, <1>5
  <2> QED BY <1>7, <2>1, <2>2, <2>3, <2>4
<1>10. \A t \in Later : /\ t.does = "dispatch" => t.unit[1] + 1 \in OutPortIds
                        /\ t.does = "allocate" => t.unit[1] \in Ports
  <2> TAKE t \in Later
  <2>1. CASE t.does = "dispatch"
    <3>1. PICK d \in OutPortIds : t.unit = <<d - 1>>
      BY <2>1 DEF Later
    <3>2. t.unit[1] + 1 = d
      BY <3>1, CollectorAssumption DEF OutPortIds
    <3> QED BY <3>2, <2>1
  <2>2. CASE t.does = "allocate"
    <3>1. PICK p \in Ports : t.unit = <<p>>
      BY <2>2 DEF Later
    <3> QED BY <3>1, <2>2
  <2> QED BY <2>1, <2>2
<1>11. ASSUME NEW n \in 1 .. Len(CycleOrder),
              CycleOrder[n].does \in {"dispatch", "allocate"}
       PROVE  CycleOrder[n] \in Later
  <2>1. n \in First + Simds + 1 .. Len(CycleOrder)
    BY <1>2, <1>3, <1>6, <1>7, <1>11
  <2> QED BY <2>1, CycleInOrder
<1> QED BY <1>8, <1>9, <1>10, <1>11

\* The next part is the first one of a domain that ticks.
LEMMA FollowsFirst ==
  ASSUME NEW mask, part \in 1 .. Len(CycleOrder), NEW f, f = Follows(mask)
  PROVE  /\ f \in 1 .. Len(CycleOrder)
         /\ f = 1 \/ (f > part /\ DomainOf(f) \in mask)
         /\ \A n \in part + 1 .. Len(CycleOrder) :
              DomainOf(n) \in mask => f > part /\ f <= n
<1>1. Len(CycleOrder) \in Nat
  BY CycleInOrder
<1>2. PICK later : later = {n \in Runs(mask) : n > part}
  OBVIOUS
<1>3. later = {n \in part + 1 .. Len(CycleOrder) : DomainOf(n) \in mask}
  BY <1>1, <1>2 DEF Runs
<1>4. f = IF later = {} THEN 1 ELSE Min(later)
  BY <1>2 DEF Follows
<1>5. CASE later = {}
  BY <1>1, <1>3, <1>4, <1>5
<1>6. CASE later # {}
  <2>1. later \subseteq Nat
    BY <1>1, <1>3
  <2>2. f \in later /\ \A n \in later : f <= n
    BY <1>4, <1>6, <2>1, LeastOfNats
  <2> QED BY <1>1, <1>3, <2>2
<1> QED BY <1>5, <1>6

LEMMA NextTurn ==
  ASSUME NEW mask, part \in 1 .. Len(CycleOrder), NEW f, f = Follows(mask),
         part >= First => "CORE" \in mask
  PROVE  /\ f \in 1 .. Len(CycleOrder)
         /\ f # 1 => DomainOf(f) \in mask
         /\ At("writeback") => ToCome = {} /\ ComeAt(f) = SimdUnitIds
         /\ At("simd") => /\ Unit \in SimdUnitIds /\ Unit \in ToCome
                          /\ ComeAt(f) = ToCome \ {Unit}
         /\ ~At("writeback") /\ ~At("simd") => ToCome = {} /\ ComeAt(f) = {}
<1>1. /\ First \in Nat /\ First >= 5 /\ Simds \in Nat /\ Len(CycleOrder) \in Nat
      /\ First + Simds < Len(CycleOrder)
  BY OrderConstants, CycleInOrder
<1>2. /\ f \in 1 .. Len(CycleOrder)
      /\ f = 1 \/ (f > part /\ DomainOf(f) \in mask)
      /\ \A n \in part + 1 .. Len(CycleOrder) :
           DomainOf(n) \in mask => f > part /\ f <= n
  BY FollowsFirst
<1>3. /\ At("writeback") <=> part = First
      /\ At("simd") <=> part \in First + 1 .. First + Simds
  BY CoreDomain DEF At
<1>4. part \in First .. First + Simds => f = part + 1
  <2> SUFFICES ASSUME part \in First .. First + Simds
               PROVE  f = part + 1
    OBVIOUS
  <2>1. /\ part + 1 \in First .. Len(CycleOrder)
        /\ part + 1 \in part + 1 .. Len(CycleOrder)
    BY <1>1
  <2>2. DomainOf(part + 1) \in mask
    BY <1>1, <2>1, CoreDomain
  <2> QED BY <1>1, <1>2, <2>1, <2>2
<1>5. CASE part = First
  <2>1. f = First + 1 /\ ToCome = {}
    BY <1>1, <1>4, <1>5 DEF ToCome, ComeAt
  <2>2. ComeAt(f) = {SimdOrder[k].unit : k \in 1 .. Simds}
    <3>1. CASE Simds = 0
      BY <1>1, <2>1, <3>1 DEF ComeAt
    <3>2. CASE Simds # 0
      <4>1. First + 1 \in First + 1 .. First + Simds /\ (First + 1) - First = 1
        BY <1>1, <3>2
      <4> QED BY <2>1, <4>1 DEF ComeAt
    <3> QED BY <3>1, <3>2
  <2>3. ComeAt(f) = SimdUnitIds
    BY <2>2, EverySimd
  <2> QED BY <1>1, <1>2, <1>3, <1>5, <2>1, <2>3
<1>6. CASE part \in First + 1 .. First + Simds
  <2>1. PICK k \in 1 .. Simds : part = First + k
    <3>1. part - First \in 1 .. Simds /\ part = First + (part - First)
      BY <1>1, <1>6
    <3> QED BY <3>1
  <2>2. Unit = SimdOrder[k].unit /\ Unit \in SimdUnitIds
    BY <2>1, CycleInOrder, EverySimd DEF Unit
  <2>3. ToCome = {SimdOrder[j].unit : j \in k .. Simds}
    <3>1. part - First = k
      BY <1>1, <2>1
    <3> QED BY <1>6, <3>1 DEF ToCome, ComeAt
  <2>4. f = First + (k + 1)
    BY <1>1, <1>4, <1>6, <2>1
  <2>5. ComeAt(f) = {SimdOrder[j].unit : j \in k + 1 .. Simds}
    <3>1. CASE k = Simds
      <4>1. f \notin First + 1 .. First + Simds /\ k + 1 .. Simds = {}
        BY <1>1, <2>4, <3>1
      <4> QED BY <4>1 DEF ComeAt
    <3>2. CASE k # Simds
      <4>1. f \in First + 1 .. First + Simds /\ f - First = k + 1
        BY <1>1, <2>4, <3>2
      <4> QED BY <4>1 DEF ComeAt
    <3> QED BY <3>1, <3>2
  <2>6. /\ k .. Simds = (k + 1 .. Simds) \cup {k}
        /\ \A j \in k + 1 .. Simds : j \in 1 .. Simds /\ j # k
    BY <1>1
  <2>7. \A j \in k + 1 .. Simds : SimdOrder[j].unit # Unit
    BY <2>2, <2>6, EverySimd
  <2>8. ToCome = {SimdOrder[j].unit : j \in k + 1 .. Simds} \cup {Unit}
    BY <2>2, <2>3, <2>6
  <2>9. Unit \in ToCome /\ ComeAt(f) = ToCome \ {Unit}
    BY <2>5, <2>7, <2>8
  <2> QED BY <1>1, <1>2, <1>3, <1>6, <2>2, <2>9
<1>7. CASE part \notin First .. First + Simds
  <2>1. ToCome = {}
    BY <1>1, <1>7 DEF ToCome, ComeAt
  <2>2. f \notin First + 1 .. First + Simds
    <3>1. CASE part > First + Simds
      BY <1>1, <1>2, <3>1
    <3>2. CASE part < First
      <4>1. CASE "CORE" \in mask
        <5>1. First \in part + 1 .. Len(CycleOrder) /\ DomainOf(First) \in mask
          BY <1>1, <3>2, <4>1, CoreDomain
        <5> QED BY <1>1, <1>2, <5>1
      <4>2. CASE "CORE" \notin mask
        BY <1>1, <1>2, <4>2, CoreDomain
      <4> QED BY <4>1, <4>2
    <3> QED BY <1>1, <1>7, <3>1, <3>2
  <2>3. ComeAt(f) = {}
    BY <2>2 DEF ComeAt
  <2> QED BY <1>1, <1>2, <1>3, <1>7, <2>1, <2>3
<1>8. part = First \/ part \in First + 1 .. First + Simds
      \/ part \notin First .. First + Simds
  BY <1>1
<1> QED BY <1>5, <1>6, <1>7, <1>8

-----------------------------------------------------------------------------
(* Instructions.                                                           *)

\* An instruction of some warp's program that goes to an arithmetic unit.
IsSimd(i) == i \in Insts /\ Op(i).port # "MEM"

LEMMA OpFacts ==
  ASSUME program \in Programs, NEW i \in Insts
  PROVE  /\ WarpOf(i) \in Warps /\ SchedOf(i) \in SchedIds
         /\ Op(i).port \in Ports /\ i # NoInst
         /\ Op(i).src \in Seq(Nat) /\ IsInjective(Op(i).src)
         /\ Op(i).port # "MEM" =>
              /\ Op(i).interval \in Nat \ {0} /\ Op(i).latency \in Nat
              /\ Op(i).interval <= Op(i).latency
              /\ StartStage(i) \in Stages
<1>0. PICK w \in Warps : \E k \in DOMAIN program[w] : i = <<w, k>>
  BY DEF Insts
<1>1. PICK n \in DOMAIN program[w] : i = <<w, n>>
  BY <1>0
<1>2. program[w] \in Seq(DOMAIN Ops)
  BY <1>1, CollectorAssumption
<1>3. program[w][n] \in DOMAIN Ops
  BY <1>1, <1>2
<1>4. PICK k \in DOMAIN Ops : Op(i) = Ops[k]
  BY <1>1, <1>3 DEF Op
<1>5. /\ Op(i).port \in Ports
      /\ Op(i).src \in Seq(Nat) /\ IsInjective(Op(i).src)
  BY <1>4, CollectorAssumption DEF Ports
<1>6. WarpOf(i) \in Warps /\ i # NoInst
  BY <1>1 DEF WarpOf, NoInst
<1>7. SchedOf(i) \in SchedIds
  <2>1. WarpOf(i) \in Nat /\ Schedulers \in Nat \ {0}
    BY <1>6, CollectorAssumption
  <2> QED BY <2>1, Divided DEF SchedOf, SchedIds
<1>8. ASSUME Op(i).port # "MEM"
      PROVE  /\ Op(i).interval \in Nat \ {0} /\ Op(i).latency \in Nat
             /\ Op(i).interval <= Op(i).latency
             /\ StartStage(i) \in Stages
  <2>1. /\ Op(i).interval \in Nat \ {0} /\ Op(i).latency \in Nat
        /\ Op(i).interval <= Op(i).latency /\ Op(i).latency <= MaxLatency
        /\ MaxLatency \in Nat
    BY <1>4, <1>8, SimdAssumption
  <2> QED BY <2>1 DEF StartStage, Stages
<1> QED BY <1>5, <1>6, <1>7, <1>8

-----------------------------------------------------------------------------
(* A unit.                                                                 *)

\* Where the instruction in the dispatch register is due.
Due0(f) == f.delay + StartStage(f.dispatch)

\* The cycles in which a unit's instructions arrive are its occupied ones,
\* one instruction in each, and no instruction is in the unit twice.
UnitOK(f) ==
  /\ f = [dispatch |-> f.dispatch, delay |-> f.delay, stage |-> f.stage,
          occupied |-> f.occupied]
  /\ f.delay \in Nat
  /\ f.stage \in [Stages -> Insts \cup {NoInst}]
  /\ f.dispatch # NoInst =>
       /\ IsSimd(f.dispatch) /\ f.delay # 0
       /\ \A n \in Stages : f.stage[n] # f.dispatch
       /\ \A n \in Stages : n = Due0(f) => f.stage[n] = NoInst
  /\ \A m, n \in Stages : f.stage[m] # NoInst /\ f.stage[m] = f.stage[n] => m = n
  /\ f.occupied = {n \in Stages : f.stage[n] # NoInst}
                  \cup (IF f.dispatch # NoInst THEN {Due0(f)} ELSE {})

LEMMA MovedOK ==
  ASSUME program \in Programs, NEW f, UnitOK(f)
  PROVE  /\ UnitOK(Moved(f))
         /\ Moved(f).occupied = Shifted(f.occupied)
         /\ InUnit(Moved(f)) \subseteq InUnit(f)
<1>1. MaxLatency \in Nat \ {0} /\ Stages = 0 .. MaxLatency - 1
  BY SimdAssumption DEF Stages
<1>2. PICK stage : stage = [n \in Stages |-> IF n + 1 \in Stages THEN f.stage[n + 1]
                                             ELSE NoInst]
  OBVIOUS
<1>3. PICK delay : delay = IF f.dispatch # NoInst /\ f.delay > 0 THEN f.delay - 1
                           ELSE f.delay
  OBVIOUS
<1>4. /\ f.delay \in Nat /\ f.stage \in [Stages -> Insts \cup {NoInst}]
      /\ delay \in Nat
  BY <1>3 DEF UnitOK
<1>5. \A n \in Stages : stage[n] = IF n + 1 \in Stages THEN f.stage[n + 1] ELSE NoInst
  BY <1>2
<1>6. stage \in [Stages -> Insts \cup {NoInst}]
  BY <1>2, <1>4
<1>7. \A m, n \in Stages : stage[m] # NoInst /\ stage[m] = stage[n] => m = n
  <2> SUFFICES ASSUME NEW m \in Stages, NEW n \in Stages,
                      stage[m] # NoInst, stage[m] = stage[n]
               PROVE  m = n
    OBVIOUS
  <2>1. /\ m + 1 \in Stages /\ n + 1 \in Stages
        /\ f.stage[m + 1] # NoInst /\ f.stage[m + 1] = f.stage[n + 1]
    BY <1>5
  <2>2. m + 1 = n + 1
    BY <2>1 DEF UnitOK
  <2> QED BY <2>2, <1>1
<1>8. {stage[n] : n \in Stages} \ {NoInst} \subseteq {f.stage[n] : n \in Stages}
  BY <1>5
<1>9. {n \in Stages : stage[n] # NoInst}
        = Shifted({n \in Stages : f.stage[n] # NoInst})
  <2>1. ASSUME NEW n \in Stages, stage[n] # NoInst
        PROVE  n \in Shifted({m \in Stages : f.stage[m] # NoInst})
    <3>1. n + 1 \in Stages /\ f.stage[n + 1] # NoInst /\ n + 1 # 0 /\ (n + 1) - 1 = n
      BY <1>1, <1>5, <2>1
    <3>2. PICK m : m = n + 1
      OBVIOUS
    <3> QED BY <3>1, <3>2 DEF Shifted
  <2>2. ASSUME NEW n \in Shifted({m \in Stages : f.stage[m] # NoInst})
        PROVE  n \in Stages /\ stage[n] # NoInst
    <3>1. PICK m \in Stages : m # 0 /\ f.stage[m] # NoInst /\ n = m - 1
      BY DEF Shifted
    <3>2. n \in Stages /\ n + 1 = m
      BY <1>1, <3>1
    <3> QED BY <1>5, <3>1, <3>2
  <2> QED BY <2>1, <2>2
<1>10. CASE f.dispatch = NoInst
  <2>1. Moved(f) = [dispatch |-> f.dispatch, delay |-> delay, stage |-> stage,
                    occupied |-> Shifted(f.occupied)]
    BY <1>2, <1>3, <1>10 DEF Moved
  <2>2. PICK g : g = Moved(f)
    OBVIOUS
  <2>3. /\ g.dispatch = NoInst /\ g.delay = delay /\ g.stage = stage
        /\ g.occupied = Shifted(f.occupied)
        /\ g = [dispatch |-> g.dispatch, delay |-> g.delay, stage |-> g.stage,
                occupied |-> g.occupied]
    BY <1>10, <2>1, <2>2
  <2>4. f.occupied = {n \in Stages : f.stage[n] # NoInst}
    BY <1>10 DEF UnitOK
  <2>5. UnitOK(g)
    BY <1>4, <1>6, <1>7, <1>9, <2>3, <2>4 DEF UnitOK
  <2>6. InUnit(g) \subseteq InUnit(f)
    BY <1>8, <2>3 DEF InUnit
  <2> QED BY <2>2, <2>3, <2>5, <2>6
<1>11. CASE f.dispatch # NoInst
  <2>1. PICK i : i = f.dispatch
    OBVIOUS
  <2>2. PICK s : s = StartStage(i)
    OBVIOUS
  <2>3. /\ i \in Insts /\ Op(i).port # "MEM" /\ i # NoInst /\ f.delay # 0
        /\ delay = f.delay - 1
        /\ s \in Stages
    BY <1>3, <1>4, <1>11, <2>1, <2>2, OpFacts DEF UnitOK, IsSimd
  <2>4. Due0(f) = delay + s + 1 /\ delay + s \in Nat
    BY <1>1, <1>4, <2>1, <2>2, <2>3 DEF Due0
  <2>5. Shifted(f.occupied) = {n \in Stages : stage[n] # NoInst} \cup {delay + s}
    <3>1. f.occupied = {n \in Stages : f.stage[n] # NoInst} \cup {delay + s + 1}
      BY <1>11, <2>4 DEF UnitOK
    <3>2. PICK a : a = {n \in Stages : f.stage[n] # NoInst}
      OBVIOUS
    <3>3. PICK d \in Nat : d = delay + s + 1
      BY <2>4
    <3>4. d # 0 /\ d - 1 = delay + s
      BY <2>4, <3>3
    <3>5. Shifted(a \cup {d}) = Shifted(a) \cup {d - 1}
      BY <3>4 DEF Shifted
    <3> QED BY <1>9, <3>1, <3>2, <3>3, <3>4, <3>5
  <2>6. \A n \in Stages : n = delay + s => stage[n] = NoInst
    <3> SUFFICES ASSUME NEW n \in Stages, n = delay + s, stage[n] # NoInst
                 PROVE  FALSE
      OBVIOUS
    <3>1. n + 1 \in Stages /\ f.stage[n + 1] # NoInst /\ n + 1 = Due0(f)
      BY <1>5, <2>4
    <3> QED BY <3>1, <1>11 DEF UnitOK
  <2>7. \A n \in Stages : stage[n] # i
    BY <1>5, <1>11, <2>1, <2>3 DEF UnitOK
  <2>8. CASE delay = 0
    <3>1. stage[s] = NoInst
      BY <1>1, <2>3, <2>6, <2>8
    <3>2. Moved(f) = [dispatch |-> NoInst, delay |-> 0, stage |-> [stage EXCEPT ![s] = i],
                      occupied |-> Shifted(f.occupied)]
      BY <1>2, <1>3, <1>11, <2>1, <2>2, <2>8, <3>1 DEF Moved
    <3>3. PICK g : g = Moved(f)
      OBVIOUS
    <3>4. PICK st : st = [stage EXCEPT ![s] = i]
      OBVIOUS
    <3>5. /\ g.dispatch = NoInst /\ g.delay = 0 /\ g.stage = st
          /\ g.occupied = Shifted(f.occupied)
          /\ g = [dispatch |-> g.dispatch, delay |-> g.delay, stage |-> g.stage,
                  occupied |-> g.occupied]
      BY <3>2, <3>3, <3>4
    <3>6. /\ st \in [Stages -> Insts \cup {NoInst}]
          /\ \A n \in Stages : st[n] = IF n = s THEN i ELSE stage[n]
      BY <1>6, <2>3, <3>4
    <3>7. \A m, n \in Stages : st[m] # NoInst /\ st[m] = st[n] => m = n
      BY <1>7, <2>7, <3>6
    <3>8. Shifted(f.occupied) = {n \in Stages : st[n] # NoInst}
      <4>1. delay + s = s
        BY <1>1, <2>3, <2>8
      <4> QED BY <2>3, <2>5, <3>6, <4>1
    <3>9. UnitOK(g)
      BY <3>5, <3>6, <3>7, <3>8 DEF UnitOK
    <3>10. InUnit(g) \subseteq InUnit(f)
      BY <1>8, <2>1, <3>5, <3>6 DEF InUnit
    <3> QED BY <3>3, <3>5, <3>9, <3>10
  <2>9. CASE delay # 0
    <3>2. Moved(f) = [dispatch |-> f.dispatch, delay |-> delay, stage |-> stage,
                      occupied |-> Shifted(f.occupied)]
      BY <1>2, <1>3, <2>9 DEF Moved
    <3>3. PICK g : g = Moved(f)
      OBVIOUS
    <3>5. /\ g.dispatch = i /\ g.delay = delay /\ g.stage = stage
          /\ g.occupied = Shifted(f.occupied)
          /\ g = [dispatch |-> g.dispatch, delay |-> g.delay, stage |-> g.stage,
                  occupied |-> g.occupied]
      BY <2>1, <3>2, <3>3
    <3>6. Due0(g) = delay + s
      BY <2>2, <3>5 DEF Due0
    <3>9. UnitOK(g)
      BY <1>4, <1>6, <1>7, <2>3, <2>5, <2>6, <2>7, <2>9, <3>5, <3>6
      DEF UnitOK, IsSimd
    <3>10. InUnit(g) \subseteq InUnit(f)
      BY <1>8, <2>1, <3>5 DEF InUnit
    <3> QED BY <3>3, <3>5, <3>9, <3>10
  <2> QED BY <2>8, <2>9
<1> QED BY <1>10, <1>11

LEMMA TakenOK ==
  ASSUME program \in Programs, NEW f, UnitOK(f), NEW i, IsSimd(i),
         CanIssue(f, i), i \notin InUnit(f)
  PROVE  /\ UnitOK(Taken(f, i))
         /\ Taken(f, i).occupied = f.occupied \cup {Op(i).latency}
         /\ InUnit(Taken(f, i)) = InUnit(f) \cup {i}
<1>1. /\ i \in Insts /\ Op(i).port # "MEM" /\ i # NoInst
      /\ Op(i).interval \in Nat \ {0} /\ Op(i).latency \in Nat
      /\ StartStage(i) \in Stages
  BY OpFacts DEF IsSimd
<1>2. f.dispatch = NoInst /\ Op(i).latency \notin f.occupied
  BY DEF CanIssue
<1>3. PICK g : g = Taken(f, i)
  OBVIOUS
<1>4. f = [dispatch |-> f.dispatch, delay |-> f.delay, stage |-> f.stage,
           occupied |-> f.occupied]
  BY DEF UnitOK
<1>5. /\ g.dispatch = i /\ g.delay = Op(i).interval /\ g.stage = f.stage
      /\ g.occupied = f.occupied \cup {Op(i).latency}
      /\ g = [dispatch |-> g.dispatch, delay |-> g.delay, stage |-> g.stage,
              occupied |-> g.occupied]
  BY <1>3, <1>4 DEF Taken
<1>6. Due0(g) = Op(i).latency
  <2>1. Due0(g) = Op(i).interval + (Op(i).latency - Op(i).interval)
    BY <1>5 DEF Due0, StartStage
  <2> QED BY <1>1, <2>1
<1>7. f.occupied = {n \in Stages : f.stage[n] # NoInst}
  BY <1>2 DEF UnitOK
<1>8. /\ f.stage \in [Stages -> Insts \cup {NoInst}]
      /\ \A m, n \in Stages : f.stage[m] # NoInst /\ f.stage[m] = f.stage[n] => m = n
  BY DEF UnitOK
<1>9. InUnit(g) = InUnit(f) \cup {i}
  BY <1>1, <1>2, <1>5 DEF InUnit
<1>10. \A n \in Stages : f.stage[n] # i
  BY <1>1 DEF InUnit
<1>11. \A n \in Stages : n = Due0(g) => f.stage[n] = NoInst
  BY <1>2, <1>6, <1>7
<1>12. g.occupied = {n \in Stages : g.stage[n] # NoInst} \cup {Due0(g)}
  BY <1>5, <1>6, <1>7
<1>13. UnitOK(g)
  BY <1>1, <1>5, <1>8, <1>10, <1>11, <1>12 DEF UnitOK, IsSimd
<1> QED BY <1>3, <1>5, <1>9, <1>13

\* An instruction that is handed over frees its place of the unit's next ones.
LEMMA ArrivesNow ==
  ASSUME NEW f, UnitOK(f), f.stage[0] # NoInst
  PROVE  0 \in f.occupied
<1>1. 0 \in Stages
  BY SimdAssumption DEF Stages
<1> QED BY <1>1 DEF UnitOK

\* The occupied cycles are those in which an instruction arrives.
LEMMA OccupiedIsDue ==
  ASSUME program \in Programs, NEW f, UnitOK(f), NEW t \in Nat
  PROVE  t \in f.occupied <=> \E i \in InUnit(f) : CyclesLeft(f, i) = t
<1>1. ASSUME NEW n \in Stages, f.stage[n] # NoInst
      PROVE  f.stage[n] \in InUnit(f) /\ CyclesLeft(f, f.stage[n]) = n
  <2>1. f.dispatch # f.stage[n]
    BY <1>1 DEF UnitOK
  <2>2. \A m \in Stages : f.stage[m] = f.stage[n] => m = n
    BY <1>1 DEF UnitOK
  <2>3. (CHOOSE m \in Stages : f.stage[m] = f.stage[n]) = n
    BY <2>2
  <2> QED BY <1>1, <2>1, <2>3 DEF InUnit, CyclesLeft
<1>2. ASSUME f.dispatch # NoInst
      PROVE  f.dispatch \in InUnit(f) /\ CyclesLeft(f, f.dispatch) = Due0(f)
  BY <1>2 DEF InUnit, CyclesLeft, Due0
<1>3. f.occupied = {n \in Stages : f.stage[n] # NoInst}
                   \cup (IF f.dispatch # NoInst THEN {Due0(f)} ELSE {})
  BY DEF UnitOK
<1>4. ASSUME t \in f.occupied
      PROVE  \E i \in InUnit(f) : CyclesLeft(f, i) = t
  <2>1. CASE t \in Stages /\ f.stage[t] # NoInst
    BY <1>1, <2>1
  <2>2. CASE f.dispatch # NoInst /\ t = Due0(f)
    BY <1>2, <2>2
  <2> QED BY <1>3, <1>4, <2>1, <2>2
<1>5. ASSUME NEW i \in InUnit(f), CyclesLeft(f, i) = t
      PROVE  t \in f.occupied
  <2>1. CASE f.dispatch # NoInst /\ i = f.dispatch
    BY <1>2, <1>3, <1>5, <2>1
  <2>2. CASE \E n \in Stages : i = f.stage[n] /\ f.stage[n] # NoInst
    BY <1>1, <1>3, <1>5, <2>2
  <2> QED BY <2>1, <2>2 DEF InUnit
<1> QED BY <1>4, <1>5

-----------------------------------------------------------------------------
(* The result buses and the units.                                         *)

\* Of each cycle to come as many buses are booked as units have an
\* instruction that arrives in it; the units of `come` have not moved yet.
Agree(B, O, come) ==
  \A t \in Nat :
    Cardinality({b \in Buses : t \in B[b]})
    = Cardinality({v \in SimdUnitIds : IF v \in come THEN t + 1 \in O[v]
                                       ELSE t \in O[v]})

LEMMA SimdFinite ==
  /\ IsFiniteSet(SimdUnitIds) /\ IsFiniteSet(Buses)
  /\ Cardinality(Buses) = WbWidth /\ WbWidth \in Nat
<1>1. SimdUnitIds = {SimdOrder[k].unit : k \in 1 .. Simds}
  BY EverySimd
<1>2. IsFiniteSet(1 .. Simds)
  BY OrderConstants, FS_Interval
<1>3. PICK g : g = [k \in 1 .. Simds |-> SimdOrder[k].unit]
  OBVIOUS
<1>4. g \in Surjection(1 .. Simds, SimdUnitIds)
  BY <1>1, <1>3 DEF Surjection
<1>5. IsFiniteSet(SimdUnitIds)
  BY <1>2, <1>4, FS_Surjection
<1>6. WbWidth \in Nat
  BY SimdAssumption
<1>7. IsFiniteSet(Buses) /\ Cardinality(Buses) = WbWidth
  BY <1>6, FS_Interval DEF Buses
<1> QED BY <1>5, <1>6, <1>7

\* The bookings of all buses move on.
LEMMA AgreeShift ==
  ASSUME NEW B, NEW O, NEW B2, Agree(B, O, {}),
         \A b \in Buses : B[b] \subseteq Nat,
         B2 = [b \in Buses |-> Shifted(B[b])]
  PROVE  Agree(B2, O, SimdUnitIds) /\ \A b \in Buses : B2[b] \subseteq Nat
<1>1. \A b \in Buses, t \in Nat : t \in B2[b] <=> t + 1 \in B[b]
  <2> TAKE b \in Buses, t \in Nat
  <2>1. B2[b] = Shifted(B[b])
    OBVIOUS
  <2>2. ASSUME t \in Shifted(B[b])
        PROVE  t + 1 \in B[b]
    <3>1. PICK n \in B[b] : n # 0 /\ t = n - 1
      BY <2>2 DEF Shifted
    <3>2. n \in Nat /\ n = t + 1
      BY <3>1
    <3> QED BY <3>1, <3>2
  <2>3. ASSUME t + 1 \in B[b]
        PROVE  t \in Shifted(B[b])
    <3>1. PICK n \in B[b] : n = t + 1
      BY <2>3
    <3>2. n # 0 /\ t = n - 1
      BY <3>1
    <3> QED BY <3>2 DEF Shifted
  <2> QED BY <2>1, <2>2, <2>3
<1>2. \A b \in Buses : B2[b] \subseteq Nat
  <2> TAKE b \in Buses
  <2>1. B2[b] = Shifted(B[b])
    OBVIOUS
  <2> SUFFICES ASSUME NEW n \in Shifted(B[b])
               PROVE  n \in Nat
    BY <2>1
  <2>2. PICK m \in B[b] : m # 0 /\ n = m - 1
    BY DEF Shifted
  <2> QED BY <2>2
<1>3. ASSUME NEW t \in Nat
      PROVE  Cardinality({b \in Buses : t \in B2[b]})
             = Cardinality({v \in SimdUnitIds : IF v \in SimdUnitIds THEN t + 1 \in O[v]
                                                ELSE t \in O[v]})
  <2>1. t + 1 \in Nat
    OBVIOUS
  <2>2. Cardinality({b \in Buses : t + 1 \in B[b]})
        = Cardinality({v \in SimdUnitIds : IF v \in {} THEN t + 1 + 1 \in O[v]
                                           ELSE t + 1 \in O[v]})
    BY <2>1 DEF Agree
  <2>3. {b \in Buses : t \in B2[b]} = {b \in Buses : t + 1 \in B[b]}
    BY <1>1
  <2>4. {v \in SimdUnitIds : IF v \in {} THEN t + 1 + 1 \in O[v] ELSE t + 1 \in O[v]}
        = {v \in SimdUnitIds : IF v \in SimdUnitIds THEN t + 1 \in O[v]
                               ELSE t \in O[v]}
    OBVIOUS
  <2> QED BY <2>2, <2>3, <2>4
<1> QED BY <1>2, <1>3 DEF Agree

\* A unit moves.
LEMMA AgreeMove ==
  ASSUME NEW B, NEW O, NEW O2, NEW come, NEW u \in come, Agree(B, O, come),
         \A v \in SimdUnitIds \ {u} : O2[v] = O[v],
         \A t \in Nat : t \in O2[u] <=> t + 1 \in O[u]
  PROVE  Agree(B, O2, come \ {u})
<1> SUFFICES ASSUME NEW t \in Nat
             PROVE  {v \in SimdUnitIds : IF v \in come \ {u} THEN t + 1 \in O2[v]
                                         ELSE t \in O2[v]}
                    = {v \in SimdUnitIds : IF v \in come THEN t + 1 \in O[v]
                                           ELSE t \in O[v]}
  BY DEF Agree
<1>1. t \in O2[u] <=> t + 1 \in O[u]
  OBVIOUS
<1> QED BY <1>1

\* X is Y with l added to its set for k.
AddsTo(X, Y, S, k, l) ==
  \A v \in S : X[v] = IF v = k THEN Y[v] \cup {l} ELSE Y[v]

\* A unit takes an instruction, and one more bus is booked.
LEMMA AgreeTake ==
  ASSUME NEW B, NEW O, NEW B2, NEW O2, NEW come,
         NEW u \in SimdUnitIds, u \notin come, NEW c \in Buses, NEW l \in Nat,
         Agree(B, O, come), l \notin O[u], l \notin B[c],
         AddsTo(B2, B, Buses, c, l), AddsTo(O2, O, SimdUnitIds, u, l)
  PROVE  Agree(B2, O2, come)
<1> SUFFICES ASSUME NEW t \in Nat
             PROVE  Cardinality({b \in Buses : t \in B2[b]})
                    = Cardinality({v \in SimdUnitIds : IF v \in come THEN t + 1 \in O2[v]
                                                       ELSE t \in O2[v]})
  BY DEF Agree
<1> DEFINE booked == {b \in Buses : t \in B[b]}
           used == {v \in SimdUnitIds : IF v \in come THEN t + 1 \in O[v]
                                        ELSE t \in O[v]}
           booked2 == {b \in Buses : t \in B2[b]}
           used2 == {v \in SimdUnitIds : IF v \in come THEN t + 1 \in O2[v]
                                         ELSE t \in O2[v]}
<1>5. /\ \A b \in Buses : B2[b] = IF b = c THEN B[b] \cup {l} ELSE B[b]
      /\ \A v \in SimdUnitIds : O2[v] = IF v = u THEN O[v] \cup {l} ELSE O[v]
  BY DEF AddsTo
<1>1. Cardinality(booked) = Cardinality(used)
  BY DEF Agree
<1>2. IsFiniteSet(booked) /\ IsFiniteSet(used)
  BY SimdFinite, FS_Subset
<1>3. CASE t = l
  <2>1. booked2 = booked \cup {c} /\ c \notin booked
    BY <1>3, <1>5
  <2>2. used2 = used \cup {u} /\ u \notin used
    <3>1. u \notin used /\ u \in used2
      BY <1>3, <1>5
    <3>2. ASSUME NEW v \in SimdUnitIds, v # u
          PROVE  v \in used2 <=> v \in used
      <4>1. O2[v] = O[v]
        BY <1>5, <3>2
      <4> QED BY <4>1
    <3> QED BY <3>1, <3>2
  <2> HIDE DEF booked, used, booked2, used2
  <2>3. Cardinality(booked2) = Cardinality(booked) + 1
    BY <1>2, <2>1, FS_AddElement
  <2>4. Cardinality(used2) = Cardinality(used) + 1
    BY <1>2, <2>2, FS_AddElement
  <2>5. Cardinality(booked2) = Cardinality(used2)
    BY <1>1, <2>3, <2>4
  <2> QED BY <2>5 DEF booked2, used2
<1>4. CASE t # l
  <2>1. booked2 = booked
    BY <1>4, <1>5
  <2>2. used2 = used
    <3>1. ASSUME NEW v \in SimdUnitIds
          PROVE  v \in used2 <=> v \in used
      <4>1. CASE v = u
        BY <1>4, <1>5, <4>1
      <4>2. CASE v # u
        <5>1. O2[v] = O[v]
          BY <1>5, <4>2
        <5> QED BY <5>1
      <4> QED BY <4>1, <4>2
    <3> QED BY <3>1
  <2> QED BY <1>1, <2>1, <2>2
<1> QED BY <1>3, <1>4

-----------------------------------------------------------------------------
(* Instructions on their way to the units.                                 *)

\* The instructions that wait for a unit, oldest first, each of them once.
AgeOK ==
  /\ nextInst \in [Warps -> Nat \ {0}]
  /\ age \in Seq(Insts) /\ IsInjective(age)
  /\ \A i \in ToSet(age) : i[2] < nextInst[i[1]]

\* Every register holds an instruction of its unit kind and scheduler.
RegsOK(regs) ==
  /\ regs \in [Ports -> [SchedIds -> Insts \cup {NoInst}]]
  /\ \A p \in Ports, s \in SchedIds : regs[p][s] # NoInst =>
       /\ regs[p][s] \in ToSet(age)
       /\ Op(regs[p][s]).port = p /\ SchedOf(regs[p][s]) = s

\* Every collector holds an instruction of its scheduler.
CollectorOK ==
  /\ collector \in [Units -> [inst : Insts \cup {NoInst}, missing : SUBSET Nat]]
  /\ \A c \in Units :
       /\ collector[c].inst = NoInst => collector[c].missing = {}
       /\ collector[c].inst # NoInst =>
            /\ collector[c].inst \in ToSet(age)
            /\ SchedOf(collector[c].inst) = SchedOfUnit(c)

\* No instruction is in two places.
Apart ==
  /\ \A c, d \in Units :
       collector[c].inst # NoInst /\ collector[c].inst = collector[d].inst => c = d
  /\ \A c \in Units, p \in Ports, s \in SchedIds :
       collector[c].inst # NoInst =>
         collector[c].inst # idOc[p][s] /\ collector[c].inst # ocEx[p][s]
  /\ \A p, q \in Ports, s, t \in SchedIds :
       idOc[p][s] # NoInst => idOc[p][s] # ocEx[q][t]

PlacesOK == AgeOK /\ RegsOK(idOc) /\ RegsOK(ocEx) /\ CollectorOK /\ Apart

LEMMA OldestIn ==
  ASSUME age \in Seq(Insts), NEW insts, insts \subseteq ToSet(age), insts # {}
  PROVE  Oldest(insts) \in insts
<1>1. \A i \in ToSet(age) : Place(i) \in DOMAIN age /\ age[Place(i)] = i
  BY DEF ToSet, Place
<1>2. DOMAIN age \subseteq Nat
  OBVIOUS
<1>3. PICK places : places = {Place(i) : i \in insts}
  OBVIOUS
<1>4. places \subseteq Nat /\ places # {}
  BY <1>1, <1>2, <1>3
<1>5. Min(places) \in places /\ \A n \in places : Min(places) <= n
  BY <1>4, LeastOfNats
<1>6. PICK i \in insts : \A j \in insts : Place(i) <= Place(j)
  BY <1>3, <1>5
<1> QED BY <1>6 DEF Oldest

LEMMA YoungerOf ==
  ASSUME age \in Seq(Insts), IsInjective(age), NEW i \in ToSet(age)
  PROVE  /\ Younger(i) \in Seq(Insts) /\ IsInjective(Younger(i))
         /\ ToSet(Younger(i)) = ToSet(age) \ {i}
<1>1. PICK p \in 1 .. Len(age) : p = Place(i) /\ age[p] = i
  BY DEF ToSet, Place
<1>2. PICK l \in Nat : l = Len(age) /\ DOMAIN age = 1 .. l
  OBVIOUS
<1>3. PICK a : a = SubSeq(age, 1, p - 1)
  OBVIOUS
<1>4. PICK b : b = SubSeq(age, p + 1, l)
  OBVIOUS
<1>5. /\ a \in Seq(Insts) /\ Len(a) = p - 1
      /\ \A n \in 1 .. p - 1 : a[n] = age[n]
  <2>1. /\ a \in Seq(Insts)
        /\ Len(a) = IF 1 <= p - 1 THEN p - 1 - 1 + 1 ELSE 0
        /\ \A n \in 1 .. p - 1 - 1 + 1 : a[n] = age[1 + n - 1]
    <3>1. \A n \in 1 .. p - 1 : age[n] \in Insts
      BY <1>2, ElementOfSeq
    <3> QED BY <1>3, <3>1, SubSeqProperties
  <2> QED BY <2>1
<1>6. /\ b \in Seq(Insts) /\ Len(b) = l - p
      /\ \A n \in 1 .. l - p : b[n] = age[p + n]
  <2>1. /\ b \in Seq(Insts)
        /\ Len(b) = IF p + 1 <= l THEN l - (p + 1) + 1 ELSE 0
        /\ \A n \in 1 .. l - (p + 1) + 1 : b[n] = age[(p + 1) + n - 1]
    <3>1. \A n \in p + 1 .. l : age[n] \in Insts
      BY <1>2, ElementOfSeq
    <3> QED BY <1>4, <3>1, SubSeqProperties
  <2>2. l - (p + 1) + 1 = l - p /\ \A n \in 1 .. l - p : (p + 1) + n - 1 = p + n
    BY <1>2
  <2> QED BY <1>1, <1>2, <2>1, <2>2
<1>7. PICK y : y = a \o b
  OBVIOUS
<1>8. Younger(i) = y
  BY <1>1, <1>2, <1>3, <1>4, <1>7 DEF Younger, RemoveAt
<1>9. y \in Seq(Insts) /\ Joins(y, a, b)
  BY <1>5, <1>6, <1>7, Joined, Zenon
<1>10. /\ Len(y) = l - 1 /\ DOMAIN y = 1 .. l - 1
       /\ \A n \in 1 .. p - 1 : y[n] = age[n]
       /\ \A n \in p .. l - 1 : y[n] = age[n + 1]
  <2>1. Len(y) = l - 1 /\ DOMAIN y = 1 .. l - 1
    BY <1>2, <1>5, <1>6, <1>9 DEF Joins
  <2>2. \A n \in 1 .. p - 1 : y[n] = age[n]
    BY <1>5, <1>9 DEF Joins
  <2>3. ASSUME NEW n \in p .. l - 1
        PROVE  y[n] = age[n + 1]
    <3>1. PICK m \in 1 .. l - p : n = (p - 1) + m
      <4>1. n - (p - 1) \in 1 .. l - p /\ n = (p - 1) + (n - (p - 1))
        BY <1>2
      <4> QED BY <4>1
    <3>2. y[(p - 1) + m] = b[m]
      BY <1>5, <1>6, <1>9 DEF Joins
    <3>3. b[m] = age[p + m] /\ p + m = n + 1
      BY <1>2, <1>6, <3>1
    <3> QED BY <3>1, <3>2, <3>3
  <2> QED BY <2>1, <2>2, <2>3
<1>11. IsInjective(y)
  <2> SUFFICES ASSUME NEW m \in 1 .. l - 1, NEW n \in 1 .. l - 1, y[m] = y[n]
               PROVE  m = n
    BY <1>10 DEF IsInjective
  <2>1. \A j, k \in 1 .. l : age[j] = age[k] => j = k
    BY <1>2 DEF IsInjective
  <2>2. CASE m < p /\ n < p
    BY <1>2, <1>10, <2>1, <2>2
  <2>3. CASE m < p /\ ~(n < p)
    <3>1. y[m] = age[m] /\ y[n] = age[n + 1] /\ m \in 1 .. l /\ n + 1 \in 1 .. l
          /\ m # n + 1
      BY <1>2, <1>10, <2>3
    <3> QED BY <2>1, <3>1
  <2>4. CASE ~(m < p) /\ n < p
    <3>1. y[n] = age[n] /\ y[m] = age[m + 1] /\ n \in 1 .. l /\ m + 1 \in 1 .. l
          /\ n # m + 1
      BY <1>2, <1>10, <2>4
    <3> QED BY <2>1, <3>1
  <2>5. CASE ~(m < p) /\ ~(n < p)
    <3>1. /\ y[m] = age[m + 1] /\ y[n] = age[n + 1]
          /\ m + 1 \in 1 .. l /\ n + 1 \in 1 .. l
      BY <1>2, <1>10, <2>5
    <3>2. age[m + 1] = age[n + 1]
      BY <3>1
    <3>3. m + 1 = n + 1
      BY <2>1, <3>1, <3>2
    <3> QED BY <3>3
  <2> QED BY <2>2, <2>3, <2>4, <2>5
<1>12. ToSet(y) = ToSet(age) \ {i}
  <2>1. ASSUME NEW n \in 1 .. l - 1
        PROVE  \E k \in 1 .. l : k # p /\ y[n] = age[k]
    <3>1. CASE n < p
      BY <1>2, <1>10, <3>1
    <3>2. CASE ~(n < p)
      <4>1. y[n] = age[n + 1] /\ n + 1 \in 1 .. l /\ n + 1 # p
        BY <1>2, <1>10, <3>2
      <4> QED BY <4>1
    <3> QED BY <3>1, <3>2
  <2>2. ASSUME NEW k \in 1 .. l, k # p
        PROVE  \E n \in 1 .. l - 1 : y[n] = age[k]
    <3>1. CASE k < p
      BY <1>2, <1>10, <3>1
    <3>2. CASE ~(k < p)
      <4>1. PICK n \in p .. l - 1 : k = n + 1
        <5>1. k - 1 \in p .. l - 1 /\ k = (k - 1) + 1
          BY <1>2, <2>2, <3>2
        <5> QED BY <5>1
      <4>2. y[n] = age[k] /\ n \in 1 .. l - 1
        BY <1>10, <4>1
      <4> QED BY <4>2
    <3> QED BY <3>1, <3>2
  <2>3. \A k \in 1 .. l : age[k] = i <=> k = p
    BY <1>1, <1>2 DEF IsInjective
  <2>4. ToSet(y) = {y[n] : n \in 1 .. l - 1} /\ ToSet(age) = {age[k] : k \in 1 .. l}
    BY <1>2, <1>10 DEF ToSet
  <2>5. ToSet(y) \subseteq ToSet(age) \ {i}
    BY <2>1, <2>3, <2>4
  <2>6. ToSet(age) \ {i} \subseteq ToSet(y)
    BY <2>2, <2>3, <2>4
  <2> QED BY <2>5, <2>6
<1> QED BY <1>8, <1>9, <1>11, <1>12

\* The instruction that get_ready finds is in the register of its scheduler.
LEMMA ReadyIn ==
  ASSUME program \in Programs, AgeOK, NEW regs, RegsOK(regs), NEW p \in Ports,
         Waiting(regs[p]) # {}, NEW i, i = GetReady(regs[p])
  PROVE  /\ i \in Insts /\ i # NoInst /\ i \in ToSet(age)
         /\ SchedOf(i) \in SchedIds /\ Op(i).port = p
         /\ regs[p][SchedOf(i)] = i
<1>1. Waiting(regs[p]) \subseteq ToSet(age)
  BY DEF Waiting, RegsOK
<1>2. i \in Waiting(regs[p])
  BY <1>1, OldestIn DEF GetReady, AgeOK
<1>3. PICK s \in SchedIds : i = regs[p][s] /\ i # NoInst
  BY <1>2 DEF Waiting
<1>4. i \in ToSet(age) /\ Op(i).port = p /\ SchedOf(i) = s
  BY <1>3 DEF RegsOK
<1>5. i \in Insts
  BY <1>4 DEF AgeOK, ToSet
<1> QED BY <1>3, <1>4, <1>5

\* Nothing of it depends on the rest of the state.
LEMMA SamePlaces ==
  ASSUME PlacesOK, UNCHANGED <<program, nextInst, age, idOc, ocEx, collector>>
  PROVE  PlacesOK'
<1>1. Insts' = Insts /\ \A i : Op(i)' = Op(i)
  BY DEF Insts, Op
<1>2. AgeOK'
  BY <1>1 DEF PlacesOK, AgeOK
<1>3. RegsOK(idOc)' /\ RegsOK(ocEx)'
  BY <1>1 DEF PlacesOK, RegsOK
<1>4. CollectorOK' /\ Apart'
  BY <1>1 DEF PlacesOK, CollectorOK, Apart
<1> QED BY <1>2, <1>3, <1>4 DEF PlacesOK

\* The instructions that wait stay the same.
LEMMA SameAge ==
  ASSUME UNCHANGED <<program, nextInst, age>>
  PROVE  /\ Insts' = Insts /\ (\A j : Op(j)' = Op(j)) /\ ToSet(age)' = ToSet(age)
         /\ AgeOK => AgeOK'
<1>1. Insts' = Insts /\ (\A j : Op(j)' = Op(j)) /\ ToSet(age)' = ToSet(age)
  BY DEF Insts, Op
<1> QED BY <1>1 DEF AgeOK

LEMMA SameIdOc ==
  ASSUME UNCHANGED <<program, age, idOc>>, RegsOK(idOc)
  PROVE  RegsOK(idOc)'
<1>1. Insts' = Insts /\ (\A j : Op(j)' = Op(j)) /\ (\A j : SchedOf(j)' = SchedOf(j))
  BY DEF Insts, Op, SchedOf, WarpOf
<1>2. PICK regs : regs = idOc
  OBVIOUS
<1>3. RegsOK(regs)
  BY <1>2 DEF RegsOK
<1>4. RegsOK(regs)'
  BY <1>1, <1>3 DEF RegsOK
<1> QED BY <1>2, <1>4 DEF RegsOK

LEMMA SameOcEx ==
  ASSUME UNCHANGED <<program, age, ocEx>>, RegsOK(ocEx)
  PROVE  RegsOK(ocEx)'
<1>1. Insts' = Insts /\ (\A j : Op(j)' = Op(j)) /\ (\A j : SchedOf(j)' = SchedOf(j))
  BY DEF Insts, Op, SchedOf, WarpOf
<1>2. PICK regs : regs = ocEx
  OBVIOUS
<1>3. RegsOK(regs)
  BY <1>2 DEF RegsOK
<1>4. RegsOK(regs)'
  BY <1>1, <1>3 DEF RegsOK
<1> QED BY <1>2, <1>4 DEF RegsOK

\* An instruction leaves its input register for its unit.
LEMMA LeavesRegister ==
  ASSUME program \in Programs, PlacesOK, NEW p \in Ports, NEW s \in SchedIds,
         NEW i, i = ocEx[p][s], i # NoInst,
         ocEx' = [ocEx EXCEPT ![p][s] = NoInst], age' = Younger(i),
         UNCHANGED <<program, nextInst, idOc, collector>>
  PROVE  PlacesOK' /\ ToSet(age)' = ToSet(age) \ {i} /\ i \in ToSet(age)
<1>1. Insts' = Insts /\ \A j : Op(j)' = Op(j)
  BY DEF Insts, Op
<1>2. i \in ToSet(age) /\ age \in Seq(Insts) /\ IsInjective(age)
  BY DEF PlacesOK, RegsOK, AgeOK
<1>3. /\ age' \in Seq(Insts) /\ IsInjective(age')
      /\ ToSet(age') = ToSet(age) \ {i}
  BY <1>2, YoungerOf
<1>4. AgeOK'
  BY <1>1, <1>3 DEF PlacesOK, AgeOK
<1>5. ocEx \in [Ports -> [SchedIds -> Insts \cup {NoInst}]]
  BY DEF PlacesOK, RegsOK
<1>6. /\ ocEx' \in [Ports -> [SchedIds -> Insts \cup {NoInst}]]
      /\ \A q \in Ports, t \in SchedIds :
           ocEx'[q][t] = IF q = p /\ t = s THEN NoInst ELSE ocEx[q][t]
  BY <1>5
<1>7. \A q \in Ports, t \in SchedIds :
        ocEx[q][t] = i => q = p /\ t = s
  <2> TAKE q \in Ports, t \in SchedIds
  <2>1. ocEx[q][t] = i => Op(i).port = q /\ SchedOf(i) = t
    BY DEF PlacesOK, RegsOK
  <2>2. Op(i).port = p /\ SchedOf(i) = s
    BY DEF PlacesOK, RegsOK
  <2> QED BY <2>1, <2>2
<1>8. RegsOK(ocEx)'
  <2>1. \A q \in Ports, t \in SchedIds : ocEx'[q][t] # NoInst =>
          /\ ocEx'[q][t] \in ToSet(age')
          /\ Op(ocEx'[q][t]).port = q /\ SchedOf(ocEx'[q][t]) = t
    BY <1>3, <1>6, <1>7 DEF PlacesOK, RegsOK
  <2> QED BY <1>1, <1>6, <2>1 DEF RegsOK
<1>9. RegsOK(idOc)'
  <2>1. \A q \in Ports, t \in SchedIds : idOc[q][t] # NoInst => idOc[q][t] # i
    BY DEF PlacesOK, Apart
  <2>2. \A q \in Ports, t \in SchedIds : idOc[q][t] # NoInst =>
          idOc[q][t] \in ToSet(age')
    BY <1>3, <2>1 DEF PlacesOK, RegsOK
  <2> QED BY <1>1, <2>2 DEF PlacesOK, RegsOK
<1>10. CollectorOK'
  <2>1. \A c \in Units : collector[c].inst # NoInst => collector[c].inst # i
    BY DEF PlacesOK, Apart
  <2>2. \A c \in Units : collector[c].inst # NoInst =>
          collector[c].inst \in ToSet(age')
    BY <1>3, <2>1 DEF PlacesOK, CollectorOK
  <2> QED BY <1>1, <2>2 DEF PlacesOK, CollectorOK
<1>11. Apart'
  <2>1. \A q \in Ports, t \in SchedIds :
          ocEx'[q][t] = ocEx[q][t] \/ ocEx'[q][t] = NoInst
    BY <1>6
  <2> QED BY <2>1 DEF PlacesOK, Apart
<1> QED BY <1>2, <1>3, <1>4, <1>8, <1>9, <1>10, <1>11 DEF PlacesOK

-----------------------------------------------------------------------------
(* Results find their places.                                              *)

Occupied == [u \in SimdUnitIds |-> fu[u].occupied]

\* The instructions in the units wait no more.
UnitsOK ==
  /\ fu = [u \in SimdUnitIds |-> fu[u]]
  /\ \A u \in SimdUnitIds :
       /\ UnitOK(fu[u])
       /\ \A i \in InUnit(fu[u]) : i \in Insts /\ i \notin ToSet(age)
                                  /\ i[2] < nextInst[i[1]]

BookedOK ==
  /\ bus = [b \in Buses |-> bus[b]]
  /\ \A b \in Buses : bus[b] \subseteq Nat
  /\ Agree(bus, Occupied, ToCome)

\* EX_WB has room for the results of the units to come.
RoomOK ==
  /\ IsFiniteSet(exWb)
  /\ Cardinality(exWb) + Cardinality({u \in ToCome : 0 \in Occupied[u]}) <= WbWidth

PipesOK == UnitsOK /\ BookedOK /\ RoomOK

\* Issue may hand out instructions, and a unit take one of those that wait.
LEMMA SameUnits ==
  ASSUME UnitsOK, UNCHANGED <<program, fu>>,
         \A i \in Insts : /\ i[2] < nextInst[i[1]] => (i[2] < nextInst[i[1]])'
                          /\ i[2] < nextInst[i[1]] /\ i \notin ToSet(age)
                               => i \notin ToSet(age)'
  PROVE  UnitsOK'
<1>1. Insts' = Insts /\ \A i : Op(i)' = Op(i)
  BY DEF Insts, Op
<1>2. \A f : UnitOK(f)' <=> UnitOK(f)
  BY <1>1 DEF UnitOK, Due0, StartStage, IsSimd
<1> QED BY <1>1, <1>2 DEF UnitsOK

\* While neither units nor buses move, all of it stays.
LEMMA SamePipes ==
  ASSUME PipesOK, UNCHANGED <<program, fu, bus, exWb>>, ToCome' = ToCome,
         \A i \in Insts : /\ i[2] < nextInst[i[1]] => (i[2] < nextInst[i[1]])'
                          /\ i[2] < nextInst[i[1]] /\ i \notin ToSet(age)
                               => i \notin ToSet(age)'
  PROVE  PipesOK'
<1>1. UnitsOK'
  BY SameUnits DEF PipesOK
<1>2. Occupied' = Occupied
  BY DEF Occupied
<1>3. BookedOK'
  BY <1>2 DEF PipesOK, BookedOK
<1>4. RoomOK'
  BY <1>2 DEF PipesOK, RoomOK
<1> QED BY <1>1, <1>3, <1>4 DEF PipesOK

\* Writeback empties EX_WB, and the bookings move on.
LEMMA WritebackPipes ==
  ASSUME PipesOK, ToCome = {}, ToCome' = SimdUnitIds, exWb' = {}, bus' = ShiftBuses,
         UNCHANGED <<program, nextInst, age, fu>>
  PROVE  PipesOK'
<1>1. UnitsOK'
  BY SameUnits DEF PipesOK
<1>2. Occupied' = Occupied
  BY DEF Occupied
<1>3. bus' = [b \in Buses |-> Shifted(bus[b])]
  BY DEF ShiftBuses
<1>4. Agree(bus, Occupied, {}) /\ \A b \in Buses : bus[b] \subseteq Nat
  BY DEF PipesOK, BookedOK
<1>5. Agree(bus', Occupied, SimdUnitIds) /\ \A b \in Buses : bus'[b] \subseteq Nat
  BY <1>3, <1>4, AgreeShift
<1>6. bus' = [b \in Buses |-> bus'[b]]
  BY <1>3
<1>7. BookedOK'
  BY <1>2, <1>5, <1>6 DEF BookedOK
<1>8. RoomOK'
  <2>1. PICK n : n = {b \in Buses : 0 \in bus[b]}
    OBVIOUS
  <2>2. Cardinality(n) <= WbWidth /\ Cardinality(n) \in Nat
    <3>1. n \subseteq Buses
      BY <2>1
    <3> QED BY <3>1, SimdFinite, FS_Subset, FS_CardinalityType
  <2>3. Cardinality(n) = Cardinality({u \in SimdUnitIds : 0 \in Occupied[u]})
    <3>1. 0 \in Nat /\ \A u \in SimdUnitIds :
            (IF u \in {} THEN 0 + 1 \in Occupied[u] ELSE 0 \in Occupied[u])
              <=> 0 \in Occupied[u]
      OBVIOUS
    <3>2. Cardinality({b \in Buses : 0 \in bus[b]})
          = Cardinality({u \in SimdUnitIds : IF u \in {} THEN 0 + 1 \in Occupied[u]
                                             ELSE 0 \in Occupied[u]})
      BY <1>4, <3>1 DEF Agree
    <3> QED BY <2>1, <3>1, <3>2
  <2>4. IsFiniteSet(exWb') /\ Cardinality(exWb') = 0
    BY FS_EmptySet
  <2> QED BY <1>2, <2>2, <2>3, <2>4 DEF RoomOK
<1> QED BY <1>1, <1>7, <1>8 DEF PipesOK

\* A unit hands over what arrives and has had its turn.
LEMMA HandsOver ==
  ASSUME PipesOK, NEW u \in ToCome, NEW O2, ToCome \subseteq SimdUnitIds,
         exWb' = IF fu[u].stage[0] = NoInst THEN exWb ELSE exWb \cup {fu[u].stage[0]},
         \A v \in SimdUnitIds \ {u} : O2[v] = Occupied[v]
  PROVE  /\ IsFiniteSet(exWb')
         /\ Cardinality(exWb') + Cardinality({v \in ToCome \ {u} : 0 \in O2[v]}) <= WbWidth
<1>1. PICK X : X = {v \in ToCome : 0 \in Occupied[v]}
  OBVIOUS
<1>2. {v \in ToCome \ {u} : 0 \in O2[v]} = X \ {u}
  BY <1>1
<1>3. IsFiniteSet(X) /\ Cardinality(X) \in Nat
  <2>1. X \subseteq SimdUnitIds
    BY <1>1
  <2> QED BY <2>1, SimdFinite, FS_Subset, FS_CardinalityType
<1>4. /\ IsFiniteSet(exWb) /\ Cardinality(exWb) \in Nat
      /\ Cardinality(exWb) + Cardinality(X) <= WbWidth
  BY <1>1, FS_CardinalityType DEF PipesOK, RoomOK
<1>5. WbWidth \in Nat
  BY SimdFinite
<1>6. PICK m \in Nat : m = Cardinality(X \ {u}) /\ IsFiniteSet(X \ {u})
                       /\ m = IF u \in X THEN Cardinality(X) - 1 ELSE Cardinality(X)
  BY <1>3, FS_RemoveElement, FS_CardinalityType
<1>9. PICK x \in Nat : x = Cardinality(X)
  BY <1>3
<1>10. PICK e \in Nat : e = Cardinality(exWb)
  BY <1>4
<1>11. e + x <= WbWidth /\ m = IF u \in X THEN x - 1 ELSE x
  BY <1>4, <1>6, <1>9, <1>10
<1>12. Cardinality({v \in ToCome \ {u} : 0 \in O2[v]}) = m
  BY <1>2, <1>6, Zenon
<1>7. CASE fu[u].stage[0] = NoInst
  <2>1. exWb' = exWb
    BY <1>7
  <2>2. e + m <= WbWidth
    BY <1>5, <1>11
  <2>3. IsFiniteSet(exWb') /\ Cardinality(exWb') = e
    BY <1>4, <1>10, <2>1
  <2> QED BY <1>12, <2>2, <2>3
<1>8. CASE fu[u].stage[0] # NoInst
  <2>1. UnitOK(fu[u]) /\ u \in SimdUnitIds
    BY DEF PipesOK, UnitsOK
  <2>2. 0 \in fu[u].occupied
    BY <1>8, <2>1, ArrivesNow
  <2>3. u \in X
    BY <1>1, <2>1, <2>2 DEF Occupied
  <2>4. PICK d : d = fu[u].stage[0]
    OBVIOUS
  <2>5. exWb' = exWb \cup {d}
    BY <1>8, <2>4
  <2>6. /\ IsFiniteSet(exWb')
        /\ Cardinality(exWb') = IF d \in exWb THEN e ELSE e + 1
    BY <1>4, <1>10, <2>5, FS_AddElement
  <2>7. PICK e2 \in Nat : e2 = Cardinality(exWb')
    BY <2>6
  <2>8. e2 <= e + 1
    BY <2>6, <2>7
  <2>9. e2 + m <= WbWidth
    BY <1>5, <1>11, <2>3, <2>8
  <2> QED BY <1>12, <2>6, <2>7, <2>9
<1> QED BY <1>7, <1>8

LEMMA ExecutePipes ==
  ASSUME program \in Programs, PlacesOK, PipesOK, NEW u \in SimdUnitIds, u \in ToCome,
         ToCome \subseteq SimdUnitIds, SimdCycle(u), ToCome' = ToCome \ {u},
         UNCHANGED <<program, nextInst, idOc, collector>>
  PROVE  PipesOK' /\ PlacesOK'
<1>1. PICK f : f = Moved(fu[u])
  OBVIOUS
<1>2. UnitOK(fu[u]) /\ fu = [v \in SimdUnitIds |-> fu[v]]
  BY DEF PipesOK, UnitsOK
<1>3. /\ UnitOK(f) /\ f.occupied = Shifted(fu[u].occupied)
      /\ InUnit(f) \subseteq InUnit(fu[u])
  BY <1>1, <1>2, MovedOK
<1>4. exWb' = IF fu[u].stage[0] = NoInst THEN exWb ELSE exWb \cup {fu[u].stage[0]}
  BY DEF SimdCycle
<1>5. Insts' = Insts /\ \A i : Op(i)' = Op(i)
  BY DEF Insts, Op
<1>6. \A g : UnitOK(g)' <=> UnitOK(g)
  BY <1>5 DEF UnitOK, Due0, StartStage, IsSimd
<1>7. fu[u].occupied \subseteq Nat
  <2>1. UnitOK(fu[u]) /\ Stages \subseteq Nat
    BY <1>2, SimdAssumption DEF Stages
  <2>2. fu[u].dispatch # NoInst => Due0(fu[u]) \in Nat
    <3> SUFFICES ASSUME fu[u].dispatch # NoInst
                 PROVE  Due0(fu[u]) \in Nat
      OBVIOUS
    <3>1. IsSimd(fu[u].dispatch) /\ fu[u].delay \in Nat
      BY <2>1 DEF UnitOK
    <3>2. StartStage(fu[u].dispatch) \in Nat
      BY <2>1, <3>1, OpFacts DEF IsSimd
    <3> QED BY <3>1, <3>2 DEF Due0
  <2> QED BY <2>1, <2>2 DEF UnitOK
<1>8. \A t \in Nat : t \in f.occupied <=> t + 1 \in fu[u].occupied
  <2> TAKE t \in Nat
  <2>1. PICK bits : bits = fu[u].occupied
    OBVIOUS
  <2>2. bits \subseteq Nat /\ f.occupied = {n - 1 : n \in bits \ {0}}
    BY <1>3, <1>7, <2>1 DEF Shifted
  <2>3. t \in f.occupied => t + 1 \in bits
    <3> SUFFICES ASSUME t \in f.occupied
                 PROVE  t + 1 \in bits
      OBVIOUS
    <3>1. PICK n \in bits : t = n - 1
      BY <2>2
    <3>2. n = t + 1
      BY <2>2, <3>1
    <3> QED BY <3>1, <3>2
  <2>4. t + 1 \in bits => t \in f.occupied
    <3> SUFFICES ASSUME t + 1 \in bits
                 PROVE  t \in f.occupied
      OBVIOUS
    <3>1. PICK n \in bits : n = t + 1
      OBVIOUS
    <3>2. t = n - 1 /\ n # 0
      BY <3>1
    <3> QED BY <2>2, <3>2
  <2> QED BY <2>1, <2>3, <2>4
<1>9. PICK i : i = ocEx[u[1]][u[2]]
  OBVIOUS
<1>10. u[1] \in Ports /\ u[2] \in SchedIds /\ u[1] # "MEM"
  BY CollectorAssumption DEF SimdUnitIds, Ports
<1>11. PICK l : l = Op(i).latency
  OBVIOUS
<1>12. PICK O1 : O1 = [v \in SimdUnitIds |-> IF v = u THEN f.occupied ELSE fu[v].occupied]
  OBVIOUS
<1>13. Agree(bus, O1, ToCome \ {u})
  <2>1. Agree(bus, Occupied, ToCome)
    BY DEF PipesOK, BookedOK
  <2>2. \A v \in SimdUnitIds \ {u} : O1[v] = Occupied[v]
    BY <1>12 DEF Occupied
  <2>3. \A t \in Nat : t \in O1[u] <=> t + 1 \in Occupied[u]
    BY <1>8, <1>12 DEF Occupied
  <2> QED BY <2>1, <2>2, <2>3, AgreeMove
<1>14. PICK issues : issues = (i # NoInst /\ CanIssue(f, i) /\ FreeBuses(l) # {})
  OBVIOUS
<1>15. CASE ~issues
  <2>1. fu' = [fu EXCEPT ![u] = f] /\ UNCHANGED <<bus, ocEx, age>>
    BY <1>1, <1>9, <1>11, <1>14, <1>15, Zenon DEF SimdCycle
  <2>2. PlacesOK'
    BY <2>1, SamePlaces
  <2>3. fu' = [v \in SimdUnitIds |-> IF v = u THEN f ELSE fu[v]]
    BY <1>2, <2>1
  <2>4. UnitsOK'
    <3>1. fu' = [v \in SimdUnitIds |-> fu'[v]]
      BY <2>3
    <3>2. ASSUME NEW v \in SimdUnitIds
          PROVE  /\ UnitOK(fu[v])'
                 /\ \A j \in InUnit(fu[v])' :
                      j \in Insts' /\ j \notin ToSet(age)' /\ j[2] < nextInst'[j[1]]
      <4>1. PICK h : h = IF v = u THEN f ELSE fu[v]
        OBVIOUS
      <4>2. UnitOK(h) /\ InUnit(h) \subseteq InUnit(fu[v])
        BY <1>3, <4>1 DEF PipesOK, UnitsOK
      <4>3. fu[v]' = h
        BY <2>3, <4>1
      <4>4. UnitOK(fu[v])' /\ InUnit(fu[v])' = InUnit(h)
        <5>1. UnitOK(h)'
          BY <1>6, <4>2
        <5> QED BY <4>3, <5>1 DEF UnitOK, Due0, StartStage, IsSimd, InUnit
      <4>5. \A j \in InUnit(fu[v]) : j \in Insts /\ j \notin ToSet(age)
                                      /\ j[2] < nextInst[j[1]]
        BY DEF PipesOK, UnitsOK
      <4> QED BY <1>5, <2>1, <4>2, <4>4, <4>5
    <3> QED BY <3>1, <3>2 DEF UnitsOK
  <2>5. Occupied' = O1
    BY <1>12, <2>3 DEF Occupied
  <2>6. BookedOK'
    BY <1>13, <2>1, <2>5 DEF PipesOK, BookedOK
  <2>7. RoomOK'
    <3>1. \A v \in SimdUnitIds \ {u} : O1[v] = Occupied[v]
      BY <1>12 DEF Occupied
    <3> QED BY <1>4, <2>5, <3>1, HandsOver DEF RoomOK
  <2> QED BY <2>2, <2>4, <2>6, <2>7 DEF PipesOK
<1>16. CASE issues
  <2>1. i # NoInst /\ CanIssue(f, i) /\ FreeBuses(l) # {}
    BY <1>14, <1>16
  <2>2. PICK c : c = Min(FreeBuses(l))
    OBVIOUS
  <2>3. /\ fu' = [fu EXCEPT ![u] = Taken(f, i)]
        /\ bus' = [bus EXCEPT ![c] = @ \cup {l}]
        /\ ocEx' = [ocEx EXCEPT ![u[1]][u[2]] = NoInst]
        /\ age' = Younger(i)
    BY <1>1, <1>9, <1>11, <2>1, <2>2, Zenon DEF SimdCycle
  <2>4. PlacesOK' /\ ToSet(age)' = ToSet(age) \ {i} /\ i \in ToSet(age)
    BY <1>9, <1>10, <2>1, <2>3, LeavesRegister
  <2>5. /\ i \in Insts /\ Op(i).port = u[1] /\ IsSimd(i)
        /\ i[2] < nextInst[i[1]]
    <3>1. i \in Insts /\ i[2] < nextInst[i[1]]
      BY <2>4 DEF PlacesOK, AgeOK, ToSet
    <3>2. Op(i).port = u[1]
      BY <1>9, <1>10, <2>1 DEF PlacesOK, RegsOK
    <3> QED BY <1>10, <3>1, <3>2 DEF IsSimd
  <2>6. l \in Nat
    BY <1>11, <2>5, OpFacts DEF IsSimd
  <2>7. i \notin InUnit(fu[u])
    BY <2>4 DEF PipesOK, UnitsOK
  <2>8. PICK g : g = Taken(f, i)
    OBVIOUS
  <2>9. /\ UnitOK(g) /\ g.occupied = f.occupied \cup {l}
        /\ InUnit(g) = InUnit(f) \cup {i}
    <3>1. i \notin InUnit(f)
      BY <1>3, <2>7
    <3> QED BY <1>3, <1>11, <2>1, <2>5, <2>8, <3>1, TakenOK
  <2>10. fu' = [v \in SimdUnitIds |-> IF v = u THEN g ELSE fu[v]]
    BY <1>2, <2>3, <2>8
  <2>11. UnitsOK'
    <3>1. fu' = [v \in SimdUnitIds |-> fu'[v]]
      BY <2>10
    <3>2. ASSUME NEW v \in SimdUnitIds
          PROVE  /\ UnitOK(fu[v])'
                 /\ \A j \in InUnit(fu[v])' :
                      j \in Insts' /\ j \notin ToSet(age)' /\ j[2] < nextInst'[j[1]]
      <4>1. PICK h : h = IF v = u THEN g ELSE fu[v]
        OBVIOUS
      <4>2. UnitOK(h) /\ InUnit(h) \subseteq InUnit(fu[v]) \cup {i}
        BY <1>3, <2>9, <4>1 DEF PipesOK, UnitsOK
      <4>3. fu[v]' = h
        BY <2>10, <4>1
      <4>4. UnitOK(fu[v])' /\ InUnit(fu[v])' = InUnit(h)
        <5>1. UnitOK(h)'
          BY <1>6, <4>2
        <5> QED BY <4>3, <5>1 DEF UnitOK, Due0, StartStage, IsSimd, InUnit
      <4>5. \A j \in InUnit(fu[v]) : j \in Insts /\ j \notin ToSet(age)
                                      /\ j[2] < nextInst[j[1]]
        BY DEF PipesOK, UnitsOK
      <4> QED BY <1>5, <2>4, <2>5, <4>2, <4>4, <4>5
    <3> QED BY <3>1, <3>2 DEF UnitsOK
  <2>12. PICK O2 : O2 = [v \in SimdUnitIds |-> IF v = u THEN g.occupied ELSE fu[v].occupied]
    OBVIOUS
  <2>13. Occupied' = O2
    BY <2>10, <2>12 DEF Occupied
  <2>14. c \in Buses /\ l \notin bus[c]
    <3>1. FreeBuses(l) \subseteq Nat /\ FreeBuses(l) \subseteq Buses
      BY SimdFinite DEF FreeBuses, Buses
    <3>2. c \in FreeBuses(l)
      BY <2>1, <2>2, <3>1, LeastOfNats
    <3> QED BY <3>2 DEF FreeBuses
  <2>15. /\ bus = [b \in Buses |-> bus[b]]
         /\ \A b \in Buses : bus[b] \subseteq Nat
    BY DEF PipesOK, BookedOK
  <2>16. /\ bus' = [b \in Buses |-> bus'[b]]
         /\ \A b \in Buses : bus'[b] = IF b = c THEN bus[b] \cup {l} ELSE bus[b]
         /\ \A b \in Buses : bus'[b] \subseteq Nat
    BY <2>3, <2>6, <2>14, <2>15
  <2>17. Agree(bus', O2, ToCome \ {u})
    <3>1. l \notin O1[u]
      BY <1>11, <1>12, <2>1 DEF CanIssue
    <3>2. AddsTo(O2, O1, SimdUnitIds, u, l)
      BY <1>12, <2>9, <2>12 DEF AddsTo
    <3>4. PICK B2 : B2 = bus'
      OBVIOUS
    <3>5. PICK come : come = ToCome \ {u}
      OBVIOUS
    <3>9. PICK B1 : B1 = bus
      OBVIOUS
    <3>10. l \notin B1[c] /\ Agree(B1, O1, come)
      BY <1>13, <2>14, <3>5, <3>9
    <3>6. AddsTo(B2, B1, Buses, c, l)
      BY <2>16, <3>4, <3>9 DEF AddsTo
    <3>7. u \notin come
      BY <3>5
    <3>8. Agree(B2, O2, come)
      BY <2>6, <2>14, <3>1, <3>2, <3>6, <3>7, <3>10, AgreeTake
    <3> QED BY <3>4, <3>5, <3>8
  <2>18. BookedOK'
    BY <2>13, <2>16, <2>17 DEF BookedOK
  <2>19. RoomOK'
    <3>1. \A v \in SimdUnitIds \ {u} : O2[v] = Occupied[v]
      BY <2>12 DEF Occupied
    <3> QED BY <1>4, <2>13, <3>1, HandsOver DEF RoomOK
  <2> QED BY <2>4, <2>11, <2>18, <2>19 DEF PipesOK
<1> QED BY <1>15, <1>16

-----------------------------------------------------------------------------
(* The turns of a cycle.                                                   *)

LEMMA ToComeAreUnits == ToCome \subseteq SimdUnitIds
<1>1. \A k \in 1 .. Simds : SimdOrder[k].unit \in SimdUnitIds
  BY EverySimd
<1>2. PICK n : n = part
  OBVIOUS
<1>3. ASSUME n \in First + 1 .. First + Simds, NEW k \in n - First .. Simds
      PROVE  k \in 1 .. Simds
  BY <1>3, OrderConstants
<1> QED BY <1>1, <1>2, <1>3 DEF ToCome, ComeAt

\* What a part of a cycle leaves to come.
TurnTaken ==
  /\ PartOK'
  /\ At("writeback") => ToCome = {} /\ ToCome' = SimdUnitIds
  /\ At("simd") => Unit \in SimdUnitIds /\ Unit \in ToCome /\ ToCome' = ToCome \ {Unit}
  /\ ~At("writeback") /\ ~At("simd") => ToCome' = ToCome

LEMMA TurnStep ==
  ASSUME PartOK, NextPart, ticks' = ticks
  PROVE  TurnTaken
<1>1. part \in 1 .. Len(CycleOrder)
  BY DEF PartOK
<1>2. part >= First => "CORE" \in ticks
  BY <1>1, CoreDomain, OrderConstants DEF PartOK
<1>3. PICK f : f = Follows(ticks)
  OBVIOUS
<1>4. part' = f
  BY <1>3 DEF NextPart
<1>5. PICK mask : mask = ticks
  OBVIOUS
<1>6. /\ f \in 1 .. Len(CycleOrder)
      /\ f # 1 => DomainOf(f) \in mask
      /\ At("writeback") => ToCome = {} /\ ComeAt(f) = SimdUnitIds
      /\ At("simd") => /\ Unit \in SimdUnitIds /\ Unit \in ToCome
                       /\ ComeAt(f) = ToCome \ {Unit}
      /\ ~At("writeback") /\ ~At("simd") => ToCome = {} /\ ComeAt(f) = {}
  BY <1>1, <1>2, <1>3, <1>5, NextTurn
<1>7. ToCome' = ComeAt(f)
  BY <1>4 DEF ToCome, ComeAt
<1>8. PartOK'
  BY <1>4, <1>5, <1>6 DEF PartOK
<1> QED BY <1>6, <1>7, <1>8 DEF TurnTaken

LEMMA ClockStep ==
  ASSUME PartOK, At("clock"), part' = Follows(Due), ticks' = Due
  PROVE  TurnTaken
<1>1. part \in 1 .. Len(CycleOrder)
  BY DEF PartOK
<1>2. part < First
  BY <1>1, CoreDomain DEF At
<1>3. PICK mask : mask = Due
  OBVIOUS
<1>4. PICK f : f = Follows(mask)
  OBVIOUS
<1>5. part' = f
  BY <1>3, <1>4
<1>6. /\ f \in 1 .. Len(CycleOrder)
      /\ f # 1 => DomainOf(f) \in mask
      /\ At("writeback") => ToCome = {} /\ ComeAt(f) = SimdUnitIds
      /\ At("simd") => /\ Unit \in SimdUnitIds /\ Unit \in ToCome
                       /\ ComeAt(f) = ToCome \ {Unit}
      /\ ~At("writeback") /\ ~At("simd") => ToCome = {} /\ ComeAt(f) = {}
  <2>1. part >= First => "CORE" \in mask
    BY <1>1, <1>2, OrderConstants
  <2> QED BY <1>1, <1>4, <2>1, NextTurn
<1>7. ToCome' = ComeAt(f)
  BY <1>5 DEF ToCome, ComeAt
<1>8. PartOK'
  BY <1>3, <1>5, <1>6 DEF PartOK
<1> QED BY <1>6, <1>7, <1>8 DEF TurnTaken

-----------------------------------------------------------------------------
(* The inductive invariant.                                                *)

\* The banks hold one request for every operand a collector waits for.
RequestsOK ==
  /\ requests \in [Banks -> Seq([cu : Units, reg : Nat])]
  /\ \A b \in Banks : IsInjective(requests[b])
  /\ \A b \in Banks, c \in Units, r \in Nat :
       Operand(c, r) \in ToSet(requests[b])
       <=> /\ collector[c].inst # NoInst /\ r \in collector[c].missing
           /\ b = BankOf(collector[c].inst, r)

LastCuOK == lastCu \in [OutPortIds -> Nat]

IInv == program \in Programs /\ PartOK /\ LastCuOK /\ PlacesOK /\ PipesOK /\ RequestsOK

\* The parts outside the register file and the units leave it alone.
LEMMA ElsewhereKeeps ==
  ASSUME IInv, TurnTaken, ~At("writeback"), ~At("simd"),
         UNCHANGED <<program, nextInst, age, idOc, ocEx, collector, requests, lastCu, simdVars>>
  PROVE  IInv'
<1>1. program' \in Programs /\ PartOK' /\ LastCuOK'
  BY DEF IInv, TurnTaken, LastCuOK
<1>2. PlacesOK'
  BY SamePlaces DEF IInv
<1>3. PipesOK'
  <2>1. ToCome' = ToCome
    BY DEF TurnTaken
  <2>2. \A i \in Insts : /\ i[2] < nextInst[i[1]] => (i[2] < nextInst[i[1]])'
                         /\ i[2] < nextInst[i[1]] /\ i \notin ToSet(age)
                              => i \notin ToSet(age)'
    OBVIOUS
  <2> QED BY <2>1, <2>2, SamePipes DEF IInv, simdVars
<1>4. RequestsOK'
  BY DEF IInv, RequestsOK, BankOf, WarpOf, SchedOf
<1> QED BY <1>1, <1>2, <1>3, <1>4 DEF IInv

\* The memory side and the memory unit, but for its issue.
LEMMA ElsewhereSteps ==
  ASSUME IInv, NextDomains \/ Reply \/ NoReply \/ Request \/ IcntCycle
               \/ UnitWriteback \/ UnitRespond \/ UnitLatency \/ UnitAccess \/ UnitRetire
               \/ FreeBanks
  PROVE  IInv'
<1>1. PartOK
  BY DEF IInv
<1>2. CASE NextDomains
  <2>1. TurnTaken
    BY <1>1, <1>2, ClockStep DEF NextDomains, NextClockDomain
  <2> QED BY <1>2, <2>1, ElsewhereKeeps DEF NextDomains, coreVars, collectorVars, At
<1>3. ASSUME NextPart, ticks' = ticks
      PROVE  TurnTaken
  BY <1>1, <1>3, TurnStep
<1>4. CASE Reply
  <2>1. TurnTaken
    BY <1>3, <1>4 DEF Reply, ReplyOf
  <2> QED BY <1>4, <2>1, ElsewhereKeeps DEF Reply, coreVars, collectorVars, At
<1>5. CASE NoReply
  <2>1. TurnTaken
    BY <1>3, <1>5 DEF NoReply, memoryVars
  <2> QED BY <1>5, <2>1, ElsewhereKeeps DEF NoReply, coreVars, collectorVars, At
<1>6. CASE Request
  <2>1. TurnTaken
    BY <1>3, <1>6 DEF Request, RequestTo
  <2> QED BY <1>6, <2>1, ElsewhereKeeps DEF Request, collectorVars, At
<1>7. CASE IcntCycle
  <2>1. TurnTaken
    BY <1>3, <1>7 DEF IcntCycle
  <2> QED BY <1>7, <2>1, ElsewhereKeeps DEF IcntCycle, collectorVars, At
<1>8. CASE UnitWriteback
  <2>1. TurnTaken
    BY <1>3, <1>8 DEF UnitWriteback, memoryVars
  <2> QED BY <1>8, <2>1, ElsewhereKeeps DEF UnitWriteback, At
<1>9. ASSUME NEW name, NEW step, name # "writeback", name # "simd",
             At(name), NextPart,
             UNCHANGED <<memoryVars, program, nextInst, membar, clusterFifo,
                         collectorVars, simdVars>>
      PROVE  IInv'
  <2>1. TurnTaken
    BY <1>3, <1>9 DEF memoryVars
  <2> QED BY <1>9, <2>1, ElsewhereKeeps DEF collectorVars, At
<1>10. CASE UnitRespond
  BY <1>9, <1>10 DEF UnitRespond, UnitStep
<1>11. CASE UnitLatency
  BY <1>9, <1>11 DEF UnitLatency, UnitStep
<1>12. CASE UnitAccess
  BY <1>9, <1>12 DEF UnitAccess, UnitStep
<1>13. CASE UnitRetire
  BY <1>9, <1>13 DEF UnitRetire, UnitStep
<1>14. CASE FreeBanks
  <2>1. TurnTaken
    BY <1>3, <1>14 DEF FreeBanks, CollectorStep, memoryVars
  <2> QED BY <1>14, <2>1, ElsewhereKeeps DEF FreeBanks, CollectorStep, ProcessBanks, At
<1> QED BY <1>2, <1>4, <1>5, <1>6, <1>7, <1>8, <1>10, <1>11, <1>12, <1>13, <1>14

\* Neither collectors nor banks change.
LEMMA SameRequests ==
  ASSUME RequestsOK, UNCHANGED <<program, requests, collector>>
  PROVE  RequestsOK'
BY DEF RequestsOK, BankOf, WarpOf, SchedOf

LEMMA WritebackStep ==
  ASSUME IInv, Writeback
  PROVE  IInv'
<1>1. At("writeback") /\ ticks' = ticks /\ NextPart
  BY DEF Writeback, memoryVars
<1>2. PartOK' /\ ToCome = {} /\ ToCome' = SimdUnitIds
  BY <1>1, TurnStep DEF IInv, TurnTaken
<1>3. UNCHANGED <<program, nextInst, age, idOc, ocEx, collector, requests, lastCu, fu>>
  BY DEF Writeback
<1>4. PipesOK'
  BY <1>2, <1>3, WritebackPipes DEF IInv, Writeback
<1>5. PlacesOK' /\ RequestsOK' /\ LastCuOK'
  BY <1>3, SamePlaces, SameRequests DEF IInv, LastCuOK
<1> QED BY <1>2, <1>3, <1>4, <1>5 DEF IInv

LEMMA ExecuteStep ==
  ASSUME IInv, Execute
  PROVE  IInv'
<1>1. At("simd") /\ ticks' = ticks /\ NextPart
  BY DEF Execute, memoryVars
<1>2. PICK u : u = Unit
  OBVIOUS
<1>3. PartOK' /\ u \in SimdUnitIds /\ u \in ToCome /\ ToCome' = ToCome \ {u}
  BY <1>1, <1>2, TurnStep DEF IInv, TurnTaken
<1>4. UNCHANGED <<program, nextInst, idOc, collector, requests, lastCu>> /\ SimdCycle(u)
  BY <1>2 DEF Execute
<1>5. PipesOK' /\ PlacesOK'
  BY <1>3, <1>4, ToComeAreUnits, ExecutePipes DEF IInv
<1>6. RequestsOK' /\ LastCuOK'
  BY <1>4, SameRequests DEF IInv, LastCuOK
<1> QED BY <1>3, <1>4, <1>5, <1>6 DEF IInv

LEMMA UnitIssueStep ==
  ASSUME IInv, UnitIssue
  PROVE  IInv'
<1>1. At("ldst_issue") /\ ticks' = ticks /\ NextPart
  BY DEF UnitIssue, memoryVars
<1>2. PartOK' /\ ToCome' = ToCome
  <2>1. ~At("writeback") /\ ~At("simd")
    BY <1>1 DEF At
  <2> QED BY <1>1, <2>1, TurnStep DEF IInv, TurnTaken
<1>3. UNCHANGED <<program, nextInst, idOc, collector, requests, lastCu, fu, bus, exWb>>
  BY DEF UnitIssue, simdVars
<1>4. RequestsOK' /\ LastCuOK'
  BY <1>3, SameRequests DEF IInv, LastCuOK
<1>5. CASE UNCHANGED <<ocEx, age>>
  <2>1. PlacesOK'
    BY <1>3, <1>5, SamePlaces DEF IInv
  <2>2. \A i \in Insts : /\ i[2] < nextInst[i[1]] => (i[2] < nextInst[i[1]])'
                         /\ i[2] < nextInst[i[1]] /\ i \notin ToSet(age)
                              => i \notin ToSet(age)'
    BY <1>3, <1>5
  <2>3. PipesOK'
    BY <1>2, <1>3, <2>2, SamePipes DEF IInv
  <2> QED BY <1>2, <1>3, <1>4, <2>1, <2>3 DEF IInv
<1>6. CASE ~ UNCHANGED <<ocEx, age>>
  <2>1. PICK i : i = GetReady(ocEx["MEM"])
    OBVIOUS
  <2>2. PICK s : s = SchedOf(i)
    OBVIOUS
  <2>3. /\ Waiting(ocEx["MEM"]) # {}
        /\ ocEx' = [ocEx EXCEPT !["MEM"][s] = NoInst]
        /\ age' = Younger(i)
    BY <1>6, <2>1, <2>2, Zenon DEF UnitIssue, LdstIssue
  <2>4. "MEM" \in Ports
    BY DEF Ports
  <2>5. /\ i \in Insts /\ i # NoInst /\ i \in ToSet(age)
        /\ s \in SchedIds /\ ocEx["MEM"][s] = i
    BY <2>1, <2>2, <2>3, <2>4, ReadyIn DEF IInv, PlacesOK
  <2>6. PlacesOK' /\ ToSet(age)' = ToSet(age) \ {i}
    BY <1>3, <2>3, <2>4, <2>5, LeavesRegister DEF IInv
  <2>7. \A j \in Insts : /\ j[2] < nextInst[j[1]] => (j[2] < nextInst[j[1]])'
                         /\ j[2] < nextInst[j[1]] /\ j \notin ToSet(age)
                              => j \notin ToSet(age)'
    BY <1>3, <2>6
  <2>8. PipesOK'
    BY <1>2, <1>3, <2>7, SamePipes DEF IInv
  <2> QED BY <1>2, <1>3, <1>4, <2>6, <2>8 DEF IInv
<1> QED BY <1>5, <1>6

\* A collector that has all its operands hands its instruction on.
LEMMA CollectorDispatches ==
  ASSUME program \in Programs, PlacesOK, RequestsOK, NEW c \in Units, Ready(c), Dispatched(c),
         UNCHANGED <<program, nextInst, age, idOc, requests>>
  PROVE  PlacesOK' /\ RequestsOK'
<1>1. PICK i : i = collector[c].inst
  OBVIOUS
<1>2. PICK p : p = Op(i).port
  OBVIOUS
<1>3. PICK s : s = SchedOfUnit(c)
  OBVIOUS
<1>4. i # NoInst /\ collector[c].missing = {} /\ ocEx[p][s] = NoInst
  BY <1>1, <1>2, <1>3 DEF Ready
<1>5. /\ collector' = [collector EXCEPT ![c] = FreeUnit]
      /\ ocEx' = [ocEx EXCEPT ![p][s] = i]
  BY <1>1, <1>2, <1>3 DEF Dispatched
<1>6. i \in ToSet(age) /\ SchedOf(i) = s
  BY <1>1, <1>3, <1>4 DEF PlacesOK, CollectorOK
<1>7. i \in Insts
  BY <1>6 DEF PlacesOK, AgeOK, ToSet
<1>8. p \in Ports /\ s \in SchedIds
  BY <1>2, <1>6, <1>7, OpFacts
<1>9. /\ AgeOK' /\ RegsOK(idOc)' /\ ToSet(age)' = ToSet(age)
      /\ Insts' = Insts /\ \A j : Op(j)' = Op(j)
  BY SameAge, SameIdOc DEF PlacesOK
<1>10. ocEx \in [Ports -> [SchedIds -> Insts \cup {NoInst}]]
  BY DEF PlacesOK, RegsOK
<1>11. /\ ocEx' \in [Ports -> [SchedIds -> Insts \cup {NoInst}]]
       /\ \A q \in Ports, t \in SchedIds :
            ocEx'[q][t] = IF q = p /\ t = s THEN i ELSE ocEx[q][t]
  BY <1>5, <1>7, <1>8, <1>10
<1>12. RegsOK(ocEx)'
  <2>1. ASSUME NEW q \in Ports, NEW t \in SchedIds, ocEx'[q][t] # NoInst
        PROVE  /\ ocEx'[q][t] \in ToSet(age)
               /\ Op(ocEx'[q][t]).port = q /\ SchedOf(ocEx'[q][t]) = t
    <3>1. CASE q = p /\ t = s
      BY <1>2, <1>6, <1>11, <3>1
    <3>2. CASE ~(q = p /\ t = s)
      <4>1. ocEx'[q][t] = ocEx[q][t]
        BY <1>11, <3>2
      <4> QED BY <2>1, <4>1 DEF PlacesOK, RegsOK
    <3> QED BY <3>1, <3>2
  <2> QED BY <1>9, <1>11, <2>1 DEF RegsOK, SchedOf, WarpOf
<1>13. collector \in [Units -> [inst : Insts \cup {NoInst}, missing : SUBSET Nat]]
  BY DEF PlacesOK, CollectorOK
<1>14. /\ collector' \in [Units -> [inst : Insts \cup {NoInst}, missing : SUBSET Nat]]
       /\ \A e \in Units : collector'[e] = IF e = c THEN FreeUnit ELSE collector[e]
       /\ FreeUnit.inst = NoInst /\ FreeUnit.missing = {}
  BY <1>5, <1>13 DEF FreeUnit
<1>15. CollectorOK'
  BY <1>9, <1>14 DEF PlacesOK, CollectorOK, SchedOf, WarpOf
<1>16. Apart'
  <2>1. \A e \in Units : collector'[e].inst # NoInst =>
          e # c /\ collector'[e].inst = collector[e].inst
    BY <1>14
  <2>2. \A e, d \in Units :
          collector'[e].inst # NoInst /\ collector'[e].inst = collector'[d].inst => e = d
    BY <2>1 DEF PlacesOK, Apart
  <2>3. ASSUME NEW e \in Units, NEW q \in Ports, NEW t \in SchedIds,
               collector'[e].inst # NoInst
        PROVE  collector'[e].inst # idOc'[q][t] /\ collector'[e].inst # ocEx'[q][t]
    <3>1. e # c /\ collector'[e].inst = collector[e].inst
      BY <2>1, <2>3
    <3>2. collector[e].inst # i /\ collector[e].inst # idOc[q][t]
          /\ collector[e].inst # ocEx[q][t]
      BY <1>1, <1>4, <2>3, <3>1 DEF PlacesOK, Apart
    <3> QED BY <1>11, <3>1, <3>2
  <2>4. ASSUME NEW q \in Ports, NEW z \in Ports, NEW t \in SchedIds, NEW y \in SchedIds,
               idOc'[q][t] # NoInst
        PROVE  idOc'[q][t] # ocEx'[z][y]
    <3>1. idOc[q][t] # i /\ idOc[q][t] # ocEx[z][y]
      BY <1>1, <1>4, <2>4 DEF PlacesOK, Apart
    <3> QED BY <1>11, <3>1
  <2> QED BY <2>2, <2>3, <2>4 DEF Apart
<1>17. RequestsOK'
  <2>1. ASSUME NEW b \in Banks, NEW e \in Units, NEW r \in Nat
        PROVE  Operand(e, r) \in ToSet(requests[b])
               <=> /\ collector'[e].inst # NoInst /\ r \in collector'[e].missing
                   /\ b = BankOf(collector'[e].inst, r)
    <3>1. CASE e = c
      BY <1>4, <1>14, <3>1 DEF RequestsOK
    <3>2. CASE e # c
      <4>1. collector'[e] = collector[e]
        BY <1>14, <3>2
      <4> QED BY <4>1 DEF RequestsOK
    <3> QED BY <3>1, <3>2
  <2> QED BY <2>1 DEF RequestsOK, BankOf, WarpOf, SchedOf
<1> QED BY <1>9, <1>12, <1>15, <1>16, <1>17 DEF PlacesOK

\* The head of a sequence without repetitions is not in its tail.
LEMMA TailOf ==
  ASSUME NEW S, NEW q \in Seq(S), q # <<>>, IsInjective(q)
  PROVE  /\ Tail(q) \in Seq(S) /\ IsInjective(Tail(q)) /\ Head(q) \in S
         /\ Head(q) \in ToSet(q) /\ ToSet(Tail(q)) = ToSet(q) \ {Head(q)}
<1>1. PICK t : t = Tail(q)
  OBVIOUS
<1>2. /\ Len(q) \in Nat /\ Len(q) >= 1 /\ Head(q) = q[1]
      /\ t \in Seq(S) /\ Len(t) = Len(q) - 1
      /\ \A n \in 1 .. Len(t) : t[n] = q[n + 1]
      /\ DOMAIN q = 1 .. Len(q) /\ DOMAIN t = 1 .. Len(t)
  BY <1>1
<1>3. \A m, n \in 1 .. Len(q) : q[m] = q[n] => m = n
  BY <1>2 DEF IsInjective
<1>4. ASSUME NEW m \in 1 .. Len(t), NEW n \in 1 .. Len(t), t[m] = t[n]
      PROVE  m = n
  <2>1. m + 1 \in 1 .. Len(q) /\ n + 1 \in 1 .. Len(q) /\ q[m + 1] = q[n + 1]
    BY <1>2, <1>4
  <2> QED BY <1>3, <2>1
<1>5. IsInjective(t)
  BY <1>2, <1>4 DEF IsInjective
<1>6. ToSet(t) = ToSet(q) \ {q[1]}
  <2>1. ASSUME NEW n \in 1 .. Len(t)
        PROVE  t[n] \in ToSet(q) \ {q[1]}
    <3>1. n + 1 \in 1 .. Len(q) /\ 1 \in 1 .. Len(q) /\ t[n] = q[n + 1] /\ n + 1 # 1
      BY <1>2
    <3> QED BY <1>2, <1>3, <3>1 DEF ToSet
  <2>2. ASSUME NEW n \in 1 .. Len(q), q[n] # q[1]
        PROVE  q[n] \in ToSet(t)
    <3>1. n - 1 \in 1 .. Len(t) /\ (n - 1) + 1 = n
      BY <1>2, <2>2
    <3>2. t[n - 1] = q[n]
      BY <1>2, <3>1
    <3> QED BY <1>2, <3>1, <3>2 DEF ToSet
  <2>3. ToSet(q) = {q[n] : n \in 1 .. Len(q)} /\ ToSet(t) = {t[n] : n \in 1 .. Len(t)}
    BY <1>2 DEF ToSet
  <2> QED BY <2>1, <2>2, <2>3
<1>7. 1 \in 1 .. Len(q)
  BY <1>2
<1>8. q[1] \in ToSet(q) /\ q[1] \in S
  BY <1>2, <1>7 DEF ToSet
<1> QED BY <1>1, <1>2, <1>5, <1>6, <1>8

LEMMA UnitsAreNumbers == NumUnits \in Nat \ {0} /\ Units \subseteq Nat
BY OrderConstants, CollectorAssumption DEF NumUnits, Units

\* The units' turns of the round robin are units.
LEMMA RoundRobinUnits ==
  ASSUME NEW d \in OutPortIds, LastCuOK, NEW n \in 1 .. NumUnits
  PROVE  RoundRobin(d)[n] \in Units
<1>1. /\ NumUnits \in Nat \ {0} /\ UnitsPerSched \in Nat \ {0}
      /\ lastCu[d] \in Nat
  BY OrderConstants, CollectorAssumption DEF NumUnits, LastCuOK
<1>2. PICK l \in Nat : l = lastCu[d]
  BY <1>1
<1>3. PICK first : first = l + UnitsPerSched - (l % UnitsPerSched)
  OBVIOUS
<1>4. first \in Nat
  <2>1. l % UnitsPerSched \in 0 .. UnitsPerSched - 1
    BY <1>1, Divided
  <2> QED BY <1>1, <1>3, <2>1
<1>5. PICK k \in Nat : k = first + n - 1
  BY <1>4
<1>6. RoundRobin(d)[n] = k % NumUnits
  BY <1>2, <1>3, <1>5 DEF RoundRobin
<1>7. k % NumUnits \in 0 .. NumUnits - 1
  BY <1>1, Divided
<1> QED BY <1>6, <1>7 DEF Units

\* A step of the collectors that leaves the age of the instructions alone.
LEMMA CollectorTurn ==
  ASSUME IInv, NEW name, name # "writeback", name # "simd", At(name), NextPart,
         UNCHANGED <<memoryVars, program, nextInst, age, simdVars>>
  PROVE  PartOK' /\ PipesOK'
<1>1. ticks' = ticks
  BY DEF memoryVars
<1>2. ~At("writeback") /\ ~At("simd")
  BY DEF At
<1>3. PartOK' /\ ToCome' = ToCome
  BY <1>1, <1>2, TurnStep DEF IInv, TurnTaken
<1>4. \A i \in Insts : /\ i[2] < nextInst[i[1]] => (i[2] < nextInst[i[1]])'
                       /\ i[2] < nextInst[i[1]] /\ i \notin ToSet(age)
                            => i \notin ToSet(age)'
  OBVIOUS
<1>5. PipesOK'
  BY <1>3, <1>4, SamePipes DEF IInv, simdVars
<1> QED BY <1>3, <1>5

LEMMA DispatchCuStep ==
  ASSUME IInv, DispatchCu
  PROVE  IInv'
<1>1. PICK d : d = Unit[1] + 1
  OBVIOUS
<1>2. d \in OutPortIds
  BY <1>1, CoreDomain DEF IInv, PartOK, DispatchCu, At, Unit
<1>3. /\ DispatchReadyCu(d) /\ At("dispatch") /\ NextPart
      /\ UNCHANGED <<memoryVars, program, nextInst, simdVars>>
  BY <1>1 DEF DispatchCu, CollectorStep
<1>4. UNCHANGED <<age, idOc, requests>>
  BY <1>3 DEF DispatchReadyCu
<1>5. PartOK' /\ PipesOK'
  BY <1>3, <1>4, CollectorTurn
<1>6. PICK turns : turns = {n \in 1 .. NumUnits : Ready(RoundRobin(d)[n])}
  OBVIOUS
<1>7. CASE turns = {}
  <2>1. UNCHANGED <<collector, ocEx, lastCu>>
    BY <1>3, <1>6, <1>7 DEF DispatchReadyCu
  <2>2. PlacesOK' /\ RequestsOK' /\ LastCuOK'
    BY <1>3, <1>4, <2>1, SamePlaces, SameRequests DEF IInv, LastCuOK
  <2> QED BY <1>3, <1>5, <2>2 DEF IInv
<1>8. CASE turns # {}
  <2>1. PICK n : n = Min(turns)
    OBVIOUS
  <2>2. n \in turns
    <3>1. turns \subseteq Nat
      BY <1>6
    <3> QED BY <1>8, <2>1, <3>1, LeastOfNats
  <2>3. PICK c : c = RoundRobin(d)[n]
    OBVIOUS
  <2>4. c \in Units /\ Ready(c)
    <3>1. n \in 1 .. NumUnits /\ Ready(RoundRobin(d)[n])
      BY <1>6, <2>2
    <3> QED BY <1>2, <2>3, <3>1, RoundRobinUnits DEF IInv
  <2>5. Dispatched(c) /\ lastCu' = [lastCu EXCEPT ![d] = c]
    BY <1>3, <1>6, <1>8, <2>1, <2>3 DEF DispatchReadyCu
  <2>6. PlacesOK' /\ RequestsOK'
    BY <1>3, <1>4, <2>4, <2>5, CollectorDispatches DEF IInv
  <2>7. LastCuOK'
    <3>1. c \in Nat
      BY <2>4, UnitsAreNumbers
    <3> QED BY <2>5, <3>1 DEF IInv, LastCuOK
  <2> QED BY <1>3, <1>5, <2>6, <2>7 DEF IInv
<1> QED BY <1>7, <1>8

\* Every bank serves its oldest request.
LEMMA BanksServe ==
  ASSUME program \in Programs, PlacesOK, RequestsOK, AllocateReads,
         UNCHANGED <<program, nextInst>>
  PROVE  PlacesOK' /\ RequestsOK'
<1>1. PICK C2 : C2 = [c \in Units |-> [collector[c] EXCEPT !.missing = @ \ ReadFor(c)]]
  OBVIOUS
<1>2. collector \in [Units -> [inst : Insts \cup {NoInst}, missing : SUBSET Nat]]
  BY DEF PlacesOK, CollectorOK
<1>3. \A c \in Units : /\ C2[c] \in [inst : Insts \cup {NoInst}, missing : SUBSET Nat]
                       /\ C2[c].inst = collector[c].inst
                       /\ C2[c].missing = collector[c].missing \ ReadFor(c)
  BY <1>1, <1>2
<1>4. /\ collector' = C2 /\ requests' = AfterGrants
      /\ UNCHANGED <<age, idOc, ocEx>>
  BY <1>1 DEF AllocateReads
<1>5. C2 \in [Units -> [inst : Insts \cup {NoInst}, missing : SUBSET Nat]]
  BY <1>1, <1>3
<1>6. /\ Insts' = Insts /\ \A j : Op(j)' = Op(j)
      /\ AgeOK' /\ RegsOK(idOc)' /\ RegsOK(ocEx)' /\ ToSet(age)' = ToSet(age)
  <2>1. UNCHANGED <<program, nextInst, age, idOc, ocEx>>
    BY <1>4
  <2> QED BY <2>1, SameAge, SameIdOc, SameOcEx DEF PlacesOK
<1>7. CollectorOK'
  BY <1>3, <1>4, <1>5, <1>6 DEF PlacesOK, CollectorOK, SchedOf, WarpOf
<1>8. Apart'
  BY <1>3, <1>4 DEF PlacesOK, Apart
<1>9. ASSUME NEW b \in Banks
      PROVE  /\ AfterGrants[b] \in Seq([cu : Units, reg : Nat])
             /\ IsInjective(AfterGrants[b])
             /\ b \in Granted => /\ Head(requests[b]) \in [cu : Units, reg : Nat]
                                 /\ ToSet(AfterGrants[b]) = ToSet(requests[b]) \ {Head(requests[b])}
                                 /\ Head(requests[b]) \in ToSet(requests[b])
             /\ b \notin Granted => AfterGrants[b] = requests[b]
  <2>1. PICK q : q = requests[b]
    OBVIOUS
  <2>2. q \in Seq([cu : Units, reg : Nat]) /\ IsInjective(q)
    BY <2>1 DEF RequestsOK
  <2>3. CASE b \notin Granted
    BY <2>1, <2>2, <2>3 DEF AfterGrants
  <2>4. CASE b \in Granted
    <3>1. q # <<>> /\ AfterGrants[b] = Tail(q)
      BY <2>1, <2>4 DEF AfterGrants, Granted
    <3>2. PICK S : S = [cu : Units, reg : Nat]
      OBVIOUS
    <3>3. /\ Tail(q) \in Seq(S) /\ IsInjective(Tail(q)) /\ Head(q) \in S
          /\ Head(q) \in ToSet(q) /\ ToSet(Tail(q)) = ToSet(q) \ {Head(q)}
      BY <2>2, <3>1, <3>2, TailOf
    <3> QED BY <2>1, <2>4, <3>1, <3>2, <3>3
  <2> QED BY <2>3, <2>4
<1>10. ASSUME NEW b \in Banks, NEW c \in Units, NEW r \in Nat
       PROVE  Operand(c, r) \in ToSet(AfterGrants[b])
              <=> /\ C2[c].inst # NoInst /\ r \in C2[c].missing
                  /\ b = BankOf(C2[c].inst, r)
  <2>1. Operand(c, r) \in ToSet(requests[b])
        <=> /\ collector[c].inst # NoInst /\ r \in collector[c].missing
            /\ b = BankOf(collector[c].inst, r)
    BY DEF RequestsOK
  <2>2. \A g \in Granted : g \in Banks
    BY DEF Granted
  <2>3. \A x \in [cu : Units, reg : Nat] : x.cu = c /\ x.reg = r <=> x = Operand(c, r)
    BY DEF Operand
  <2>4. r \in ReadFor(c) <=> \E g \in Granted : Head(requests[g]) = Operand(c, r)
    BY <1>9, <2>2, <2>3 DEF ReadFor
  <2>5. ASSUME collector[c].inst # NoInst, b = BankOf(collector[c].inst, r),
               r \in collector[c].missing
        PROVE  r \in ReadFor(c) <=> b \in Granted /\ Head(requests[b]) = Operand(c, r)
    <3>1. ASSUME NEW g \in Granted, Head(requests[g]) = Operand(c, r)
          PROVE  g = b
      <4>1. g \in Banks /\ Operand(c, r) \in ToSet(requests[g])
        BY <1>9, <2>2, <3>1
      <4> QED BY <2>5, <4>1 DEF RequestsOK
    <3> QED BY <2>4, <3>1
  <2>6. Operand(c, r) \in ToSet(AfterGrants[b])
        <=> /\ Operand(c, r) \in ToSet(requests[b])
            /\ ~(b \in Granted /\ Head(requests[b]) = Operand(c, r))
    BY <1>9
  <2> QED BY <1>3, <2>1, <2>5, <2>6
<1>11. RequestsOK'
  <2>1. AfterGrants = [b \in Banks |-> AfterGrants[b]]
    BY DEF AfterGrants
  <2>2. PICK R2 : R2 = AfterGrants
    OBVIOUS
  <2>3. R2 \in [Banks -> Seq([cu : Units, reg : Nat])] /\ \A b \in Banks : IsInjective(R2[b])
    BY <1>9, <2>1, <2>2
  <2>4. requests' = R2 /\ collector' = C2
    BY <1>4, <2>2
  <2>5. \A b \in Banks, c \in Units, r \in Nat :
          Operand(c, r) \in ToSet(R2[b])
          <=> /\ C2[c].inst # NoInst /\ r \in C2[c].missing
              /\ b = BankOf(C2[c].inst, r)
    BY <1>10, <2>2
  <2> QED BY <2>3, <2>4, <2>5 DEF RequestsOK, BankOf, WarpOf, SchedOf
<1> QED BY <1>6, <1>7, <1>8, <1>11 DEF PlacesOK

LEMMA ReadBanksStep ==
  ASSUME IInv, ReadBanks
  PROVE  IInv'
<1>1. /\ AllocateReads /\ At("reads") /\ NextPart
      /\ UNCHANGED <<memoryVars, program, nextInst, simdVars>>
  BY DEF ReadBanks, CollectorStep
<1>2. UNCHANGED <<age, lastCu>>
  BY <1>1 DEF AllocateReads
<1>3. PartOK' /\ PipesOK'
  BY <1>1, <1>2, CollectorTurn
<1>4. PlacesOK' /\ RequestsOK'
  BY <1>1, BanksServe DEF IInv
<1> QED BY <1>1, <1>2, <1>3, <1>4 DEF IInv, LastCuOK

\* One more element at the end.
LEMMA OneMore ==
  ASSUME NEW S, NEW q \in Seq(S), IsInjective(q), NEW x \in S, x \notin ToSet(q)
  PROVE  /\ Append(q, x) \in Seq(S) /\ IsInjective(Append(q, x))
         /\ ToSet(Append(q, x)) = ToSet(q) \cup {x}
<1>1. PICK t : t = Append(q, x)
  OBVIOUS
<1>2. /\ Len(q) \in Nat /\ t \in Seq(S) /\ Len(t) = Len(q) + 1
      /\ \A n \in 1 .. Len(q) : t[n] = q[n]
      /\ t[Len(q) + 1] = x
      /\ DOMAIN q = 1 .. Len(q) /\ DOMAIN t = 1 .. Len(t)
  BY <1>1
<1>3. ToSet(q) = {q[n] : n \in 1 .. Len(q)} /\ ToSet(t) = {t[n] : n \in 1 .. Len(t)}
  BY <1>2 DEF ToSet
<1>4. \A n \in 1 .. Len(q) : q[n] # x
  BY <1>3
<1>5. \A m, n \in 1 .. Len(q) : q[m] = q[n] => m = n
  BY <1>2 DEF IsInjective
<1>6. \A n \in 1 .. Len(t) : n \in 1 .. Len(q) \/ n = Len(q) + 1
  BY <1>2
<1>7. \A m, n \in 1 .. Len(t) : t[m] = t[n] => m = n
  BY <1>2, <1>4, <1>5, <1>6
<1>8. IsInjective(t)
  BY <1>2, <1>7 DEF IsInjective
<1>9. ToSet(t) = ToSet(q) \cup {x}
  <2>1. \A n \in 1 .. Len(q) : n \in 1 .. Len(t)
    BY <1>2
  <2>2. Len(q) + 1 \in 1 .. Len(t)
    BY <1>2
  <2> QED BY <1>2, <1>3, <1>6, <2>1, <2>2
<1> QED BY <1>1, <1>2, <1>8, <1>9

\* g[k] is the queue of bank b when the first k registers of src are asked
\* for by collector c.
IsAsked(q, b, c, i, src, n, g) ==
  g = [k \in 0 .. n |->
         IF k = 0 THEN q
         ELSE IF BankOf(i, src[k]) = b THEN Append(g[k - 1], Operand(c, src[k]))
         ELSE g[k - 1]]

LEMMA AskedExists ==
  ASSUME NEW q, NEW b, NEW c, NEW i, NEW src, NEW M \in Nat
  PROVE  \E g : IsAsked(q, b, c, i, src, M, g)
<1> DEFINE Next1(k, x) == IF k = 0 THEN q
                          ELSE IF BankOf(i, src[k]) = b THEN Append(x, Operand(c, src[k]))
                          ELSE x
           Is(n, g) == g = [k \in 0 .. n |-> Next1(k, g[k - 1])]
           S == {n \in Nat : \E g : Is(n, g)}
<1>1. \A n, g : Is(n, g) <=> IsAsked(q, b, c, i, src, n, g)
  BY DEF IsAsked
<1>2. \A x : Next1(0, x) = q
  OBVIOUS
<1> HIDE DEF Next1
<1>3. 0 \in S
  <2>1. PICK g : g = [k \in 0 .. 0 |-> q]
    OBVIOUS
  <2>2. Is(0, g)
    BY <2>1, <1>2
  <2> QED BY <2>2
<1>4. ASSUME NEW n \in Nat, n \in S
      PROVE  n + 1 \in S
  <2>1. PICK g : Is(n, g)
    BY <1>4
  <2>2. PICK h : h = [k \in 0 .. n + 1 |-> IF k <= n THEN g[k] ELSE Next1(n + 1, g[n])]
    OBVIOUS
  <2>3. ASSUME NEW k \in 0 .. n + 1
        PROVE  h[k] = Next1(k, h[k - 1])
    <3>1. CASE k = 0
      <4>1. h[k] = g[0] /\ g[0] = Next1(0, g[0 - 1])
        BY <2>1, <2>2, <3>1
      <4> QED BY <4>1, <3>1, <1>2
    <3>2. CASE k # 0
      <4>1. k - 1 \in 0 .. n + 1 /\ k - 1 <= n
        BY <3>2
      <4>2. h[k - 1] = g[k - 1]
        BY <4>1, <2>2
      <4>3. CASE k <= n
        <5>1. k \in 0 .. n /\ h[k] = g[k]
          BY <4>3, <2>2
        <5> QED BY <5>1, <4>2, <2>1
      <4>4. CASE k = n + 1
        BY <4>2, <4>4, <2>2
      <4> QED BY <4>3, <4>4
    <3> QED BY <3>1, <3>2
  <2>4. h = [k \in 0 .. n + 1 |-> Next1(k, h[k - 1])]
    BY <2>2, <2>3
  <2> QED BY <2>4
<1> HIDE DEF S
<1>5. \A n \in 0 .. M : n \in S
  BY <1>3, <1>4, CountUp
<1>6. M \in S
  BY <1>5
<1> QED BY <1>1, <1>6 DEF S

\* Requested is the last of these queues.
LEMMA RequestedIs ==
  ASSUME NEW b, NEW c, NEW i, NEW src, src = Op(i).src, NEW M \in Nat, M = Len(src)
  PROVE  \E g : IsAsked(requests[b], b, c, i, src, M, g) /\ Requested(b, c, i) = g[M]
<1> DEFINE Con(v) == v = [n \in 0 .. Len(Op(i).src) |->
             IF n = 0 THEN requests[b]
             ELSE IF BankOf(i, Op(i).src[n]) = b
                  THEN Append(v[n - 1], Operand(c, Op(i).src[n]))
             ELSE v[n - 1]]
           it == CHOOSE v : Con(v)
<1>1. \A v : Con(v) <=> IsAsked(requests[b], b, c, i, src, M, v)
  BY DEF IsAsked
<1>2. \E v : Con(v)
  BY <1>1, AskedExists
<1>3. Con(it)
  <2> HIDE DEF Con
  <2> QED BY <1>2
<1>4. Requested(b, c, i) = it[Len(Op(i).src)]
  BY DEF Requested
<1> HIDE DEF Con, it
<1> QED BY <1>1, <1>3, <1>4

\* The operands of an instruction queue up behind the others, each at its
\* bank and once.
LEMMA RequestedOnce ==
  ASSUME NEW S, NEW b, NEW c, NEW i, NEW src \in Seq(Nat), src = Op(i).src, IsInjective(src),
         requests[b] \in Seq(S), IsInjective(requests[b]),
         \A r \in Nat : Operand(c, r) \in S /\ Operand(c, r) \notin ToSet(requests[b]),
         NEW t, t = Requested(b, c, i)
  PROVE  /\ t \in Seq(S) /\ IsInjective(t)
         /\ ToSet(t) = ToSet(requests[b])
              \cup {Operand(c, r) : r \in {s \in ToSet(src) : BankOf(i, s) = b}}
<1>1. PICK M \in Nat : M = Len(src)
  OBVIOUS
<1>2. PICK g : IsAsked(requests[b], b, c, i, src, M, g) /\ t = g[M]
  BY <1>1, RequestedIs
<1>3. PICK q : q = requests[b]
  OBVIOUS
<1>4. /\ g[0] = q
      /\ \A k \in 1 .. M :
           g[k] = IF BankOf(i, src[k]) = b THEN Append(g[k - 1], Operand(c, src[k]))
                  ELSE g[k - 1]
  <2>1. g = [k \in 0 .. M |->
               IF k = 0 THEN q
               ELSE IF BankOf(i, src[k]) = b THEN Append(g[k - 1], Operand(c, src[k]))
               ELSE g[k - 1]]
    BY <1>2, <1>3 DEF IsAsked
  <2>2. 0 \in 0 .. M /\ \A k \in 1 .. M : k \in 0 .. M /\ k # 0
    OBVIOUS
  <2> QED BY <2>1, <2>2
<1>5. \A m, n \in 1 .. M : src[m] = src[n] => m = n
  BY <1>1 DEF IsInjective
<1>6. \A n \in 1 .. M : src[n] \in Nat
  BY <1>1
<1>7. \A r, s : Operand(c, r) = Operand(c, s) => r = s
  BY DEF Operand
<1> DEFINE Some(n) == {Operand(c, src[k]) : k \in {m \in 1 .. n : BankOf(i, src[m]) = b}}
           Fine(n) == g[n] \in Seq(S) /\ IsInjective(g[n]) /\ ToSet(g[n]) = ToSet(q) \cup Some(n)
           F == {n \in Nat : Fine(n)}
<1>8. 0 \in F
  <2>1. Some(0) = {}
    OBVIOUS
  <2> QED BY <1>3, <1>4, <2>1
<1>9. ASSUME NEW n \in Nat, n < M, n \in F
      PROVE  n + 1 \in F
  <2>1. Fine(n)
    BY <1>9
  <2>2. n + 1 \in 1 .. M /\ (n + 1) - 1 = n
    BY <1>9
  <2>3. \A k \in 1 .. n + 1 : k \in 1 .. n \/ k = n + 1
    OBVIOUS
  <2>4. \A k \in 1 .. n : k \in 1 .. n + 1 /\ k \in 1 .. M /\ k # n + 1
    BY <1>9
  <2>5. CASE BankOf(i, src[n + 1]) = b
    <3>1. g[n + 1] = Append(g[n], Operand(c, src[n + 1]))
      BY <1>4, <2>2, <2>5
    <3>2. src[n + 1] \in Nat /\ n + 1 \in 1 .. n + 1
      BY <1>6, <2>2
    <3>3. Operand(c, src[n + 1]) \notin Some(n)
      BY <1>5, <1>7, <2>2, <2>4
    <3>4. Operand(c, src[n + 1]) \in S /\ Operand(c, src[n + 1]) \notin ToSet(q)
      BY <1>3, <3>2
    <3>5. Some(n + 1) = Some(n) \cup {Operand(c, src[n + 1])}
      BY <2>3, <2>4, <2>5, <3>2
    <3> HIDE DEF Some
    <3>6. Operand(c, src[n + 1]) \notin ToSet(g[n])
      BY <2>1, <3>3, <3>4
    <3>7. /\ g[n + 1] \in Seq(S) /\ IsInjective(g[n + 1])
          /\ ToSet(g[n + 1]) = ToSet(g[n]) \cup {Operand(c, src[n + 1])}
      BY <2>1, <3>1, <3>4, <3>6, OneMore
    <3>8. Fine(n + 1)
      BY <2>1, <3>5, <3>7
    <3> QED BY <3>8
  <2>6. CASE BankOf(i, src[n + 1]) # b
    <3>1. g[n + 1] = g[n]
      BY <1>4, <2>2, <2>6
    <3>2. Some(n + 1) = Some(n)
      BY <2>3, <2>4, <2>6
    <3> HIDE DEF Some
    <3>3. Fine(n + 1)
      BY <2>1, <3>1, <3>2
    <3> QED BY <3>3
  <2> QED BY <2>5, <2>6
<1>10. M \in F
  <2> HIDE DEF F
  <2>1. \A n \in 0 .. M : n \in F
    BY <1>8, <1>9, CountUp
  <2> QED BY <2>1
<1>11. Some(M) = {Operand(c, r) : r \in {s \in ToSet(src) : BankOf(i, s) = b}}
  BY <1>1 DEF ToSet
<1>12. Fine(M)
  BY <1>10
<1> HIDE DEF Some
<1> QED BY <1>2, <1>3, <1>11, <1>12

\* An instruction moves from its input register to a free collector.
LEMMA CollectorTakes ==
  ASSUME program \in Programs, PlacesOK, NEW p \in Ports, NEW s \in SchedIds,
         NEW i, i = idOc[p][s], i # NoInst, NEW c \in Units,
         collector[c].inst = NoInst, SchedOfUnit(c) = s,
         NEW m \in SUBSET Nat,
         idOc' = [idOc EXCEPT ![p][s] = NoInst],
         collector' = [collector EXCEPT ![c] = [inst |-> i, missing |-> m]],
         UNCHANGED <<program, nextInst, age, ocEx>>
  PROVE  PlacesOK'
<1>1. i \in ToSet(age) /\ SchedOf(i) = s /\ Op(i).port = p
  BY DEF PlacesOK, RegsOK
<1>2. i \in Insts
  BY <1>1 DEF PlacesOK, AgeOK, ToSet
<1>3. /\ AgeOK' /\ RegsOK(ocEx)' /\ ToSet(age)' = ToSet(age)
      /\ Insts' = Insts /\ \A j : Op(j)' = Op(j)
  BY SameAge, SameOcEx DEF PlacesOK
<1>4. idOc \in [Ports -> [SchedIds -> Insts \cup {NoInst}]]
  BY DEF PlacesOK, RegsOK
<1>5. /\ idOc' \in [Ports -> [SchedIds -> Insts \cup {NoInst}]]
      /\ \A q \in Ports, t \in SchedIds :
           idOc'[q][t] = IF q = p /\ t = s THEN NoInst ELSE idOc[q][t]
  BY <1>4
<1>6. RegsOK(idOc)'
  <2>1. \A q \in Ports, t \in SchedIds : idOc'[q][t] # NoInst =>
          /\ idOc'[q][t] \in ToSet(age)
          /\ Op(idOc'[q][t]).port = q /\ SchedOf(idOc'[q][t]) = t
    BY <1>5 DEF PlacesOK, RegsOK
  <2> QED BY <1>3, <1>5, <2>1 DEF RegsOK, SchedOf, WarpOf
<1>7. PICK x : x = [inst |-> i, missing |-> m]
  OBVIOUS
<1>8. collector \in [Units -> [inst : Insts \cup {NoInst}, missing : SUBSET Nat]]
  BY DEF PlacesOK, CollectorOK
<1>9. /\ x \in [inst : Insts \cup {NoInst}, missing : SUBSET Nat]
      /\ x.inst = i /\ x.missing = m
  BY <1>2, <1>7
<1>10. /\ collector' \in [Units -> [inst : Insts \cup {NoInst}, missing : SUBSET Nat]]
       /\ \A e \in Units : collector'[e] = IF e = c THEN x ELSE collector[e]
  BY <1>7, <1>8, <1>9
<1>11. CollectorOK'
  <2>1. ASSUME NEW e \in Units
        PROVE  /\ collector'[e].inst = NoInst => collector'[e].missing = {}
               /\ collector'[e].inst # NoInst =>
                    /\ collector'[e].inst \in ToSet(age)
                    /\ SchedOf(collector'[e].inst) = SchedOfUnit(e)
    <3>1. CASE e = c
      BY <1>1, <1>9, <1>10, <3>1
    <3>2. CASE e # c
      <4>1. collector'[e] = collector[e]
        BY <1>10, <3>2
      <4> QED BY <4>1 DEF PlacesOK, CollectorOK
    <3> QED BY <3>1, <3>2
  <2> QED BY <1>3, <1>10, <2>1 DEF CollectorOK, SchedOf, WarpOf
<1>12. Apart'
  <2>1. \A e \in Units : /\ e # c => collector'[e].inst = collector[e].inst
                         /\ e = c => collector'[e].inst = i
    BY <1>9, <1>10
  <2>2. \A e \in Units : collector[e].inst # NoInst => collector[e].inst # i
    BY DEF PlacesOK, Apart
  <2>3. \A q \in Ports, t \in SchedIds : idOc'[q][t] # i /\ ocEx[q][t] # i
    <3> TAKE q \in Ports, t \in SchedIds
    <3>1. idOc[q][t] = i => q = p /\ t = s
      BY <1>1 DEF PlacesOK, RegsOK
    <3>2. ocEx[q][t] # i
      BY DEF PlacesOK, Apart
    <3> QED BY <1>5, <3>1, <3>2
  <2>4. \A q \in Ports, t \in SchedIds : idOc'[q][t] = NoInst \/ idOc'[q][t] = idOc[q][t]
    BY <1>5
  <2>5. \A e, d \in Units :
          collector'[e].inst # NoInst /\ collector'[e].inst = collector'[d].inst => e = d
    BY <2>1, <2>2 DEF PlacesOK, Apart
  <2>6. ASSUME NEW e \in Units, NEW q \in Ports, NEW t \in SchedIds,
               collector'[e].inst # NoInst
        PROVE  collector'[e].inst # idOc'[q][t] /\ collector'[e].inst # ocEx[q][t]
    <3>1. CASE e = c
      BY <2>1, <2>3, <3>1
    <3>2. CASE e # c
      <4>1. collector[e].inst # idOc[q][t] /\ collector[e].inst # ocEx[q][t]
        BY <2>1, <2>6, <3>2 DEF PlacesOK, Apart
      <4> QED BY <2>1, <2>4, <2>6, <3>2, <4>1
    <3> QED BY <3>1, <3>2
  <2>7. \A q, z \in Ports, t, y \in SchedIds :
          idOc'[q][t] # NoInst => idOc'[q][t] # ocEx[z][y]
    BY <2>4 DEF PlacesOK, Apart
  <2> QED BY <2>5, <2>6, <2>7 DEF Apart
<1> QED BY <1>3, <1>6, <1>11, <1>12 DEF PlacesOK

\* RequestsOK of the queues and collectors of the next state.
QueuesOK(R, C) ==
  /\ R \in [Banks -> Seq([cu : Units, reg : Nat])]
  /\ \A b \in Banks : IsInjective(R[b])
  /\ \A b \in Banks, c \in Units, r \in Nat :
       Operand(c, r) \in ToSet(R[b])
       <=> /\ C[c].inst # NoInst /\ r \in C[c].missing
           /\ b = BankOf(C[c].inst, r)

LEMMA RequestsFrom ==
  ASSUME NEW R, NEW C, requests' = R, collector' = C, QueuesOK(R, C)
  PROVE  RequestsOK'
BY DEF RequestsOK, QueuesOK, BankOf, WarpOf, SchedOf

\* Its operands are asked for.
LEMMA CollectorAsks ==
  ASSUME program \in Programs, PlacesOK, RequestsOK, NEW i \in Insts, NEW c \in Units,
         collector[c].inst = NoInst,
         collector' = [collector EXCEPT ![c] = [inst |-> i, missing |-> ToSet(Op(i).src)]],
         requests' = [b \in Banks |-> Requested(b, c, i)], program' = program
  PROVE  RequestsOK'
<1>1. PICK src : src = Op(i).src
  OBVIOUS
<1>2. src \in Seq(Nat) /\ IsInjective(src) /\ i # NoInst
  BY <1>1, OpFacts
<1>3. PICK S : S = [cu : Units, reg : Nat]
  OBVIOUS
<1>4. PICK R : R = [b \in Banks |-> Requested(b, c, i)]
  OBVIOUS
<1>5. \A e \in Units, r \in Nat :
        Operand(e, r) \in S /\ Operand(e, r).cu = e /\ Operand(e, r).reg = r
  BY <1>3 DEF Operand
<1>6. PICK x : x = [inst |-> i, missing |-> ToSet(src)]
  OBVIOUS
<1>7. PICK C2 : C2 = [e \in Units |-> IF e = c THEN x ELSE collector[e]]
  OBVIOUS
<1>8. collector' = C2
  BY <1>1, <1>6, <1>7 DEF PlacesOK, CollectorOK
<1>9. x.inst = i /\ x.missing = ToSet(src)
  BY <1>6
<1>10. ASSUME NEW b \in Banks
       PROVE  /\ R[b] \in Seq(S) /\ IsInjective(R[b])
              /\ ToSet(R[b]) = ToSet(requests[b])
                   \cup {Operand(c, r) : r \in {s \in ToSet(src) : BankOf(i, s) = b}}
  <2>1. requests[b] \in Seq(S) /\ IsInjective(requests[b])
    BY <1>3 DEF RequestsOK
  <2>2. \A r \in Nat : Operand(c, r) \in S /\ Operand(c, r) \notin ToSet(requests[b])
    BY <1>5 DEF RequestsOK
  <2>3. PICK t : t = Requested(b, c, i)
    OBVIOUS
  <2>4. R[b] = t
    BY <1>4, <2>3
  <2> QED BY <1>1, <1>2, <2>1, <2>2, <2>3, <2>4, RequestedOnce
<1>11. ASSUME NEW b \in Banks, NEW e \in Units, NEW r \in Nat
       PROVE  Operand(e, r) \in ToSet(R[b])
              <=> /\ C2[e].inst # NoInst /\ r \in C2[e].missing
                  /\ b = BankOf(C2[e].inst, r)
  <2>1. \A s \in ToSet(src) : s \in Nat
    BY <1>2 DEF ToSet
  <2>2. CASE e = c
    <3>1. Operand(e, r) \notin ToSet(requests[b])
      BY <2>2 DEF RequestsOK
    <3>2. Operand(e, r) \in ToSet(R[b]) <=> r \in ToSet(src) /\ BankOf(i, r) = b
      <4>1. \A s \in Nat : Operand(c, s) = Operand(e, r) <=> s = r
        BY <1>5, <2>2
      <4>2. PICK new : new = {Operand(c, t) : t \in {s \in ToSet(src) : BankOf(i, s) = b}}
        OBVIOUS
      <4>3. ToSet(R[b]) = ToSet(requests[b]) \cup new
        BY <1>10, <4>2
      <4>4. Operand(e, r) \in new <=> r \in ToSet(src) /\ BankOf(i, r) = b
        BY <2>1, <4>1, <4>2
      <4> QED BY <3>1, <4>3, <4>4
    <3>3. C2[e].inst = i /\ C2[e].missing = ToSet(src)
      BY <1>7, <1>9, <2>2
    <3> QED BY <1>2, <3>2, <3>3
  <2>3. CASE e # c
    <3>1. \A s \in Nat : Operand(c, s) # Operand(e, r)
      BY <1>5, <2>3
    <3>2. Operand(e, r) \in ToSet(R[b]) <=> Operand(e, r) \in ToSet(requests[b])
      <4>1. PICK new : new = {Operand(c, t) : t \in {s \in ToSet(src) : BankOf(i, s) = b}}
        OBVIOUS
      <4>2. ToSet(R[b]) = ToSet(requests[b]) \cup new
        BY <1>10, <4>1
      <4>3. Operand(e, r) \notin new
        BY <2>1, <3>1, <4>1
      <4> QED BY <4>2, <4>3
    <3>3. C2[e] = collector[e]
      BY <1>7, <2>3
    <3> QED BY <3>2, <3>3 DEF RequestsOK
  <2> QED BY <2>2, <2>3
<1>12. requests' = R
  BY <1>4
<1>13. /\ R \in [Banks -> Seq([cu : Units, reg : Nat])]
       /\ \A b \in Banks : IsInjective(R[b])
  <2>1. R = [b \in Banks |-> R[b]]
    BY <1>4
  <2>2. R \in [Banks -> Seq(S)] /\ \A b \in Banks : IsInjective(R[b])
    BY <1>10, <2>1
  <2> QED BY <1>3, <2>2
<1>14. \A b \in Banks, e \in Units, r \in Nat :
         Operand(e, r) \in ToSet(R[b])
         <=> /\ C2[e].inst # NoInst /\ r \in C2[e].missing
             /\ b = BankOf(C2[e].inst, r)
  BY <1>11
<1>15. QueuesOK(R, C2)
  BY <1>13, <1>14 DEF QueuesOK
<1> QED BY <1>8, <1>12, <1>15, RequestsFrom

LEMMA TakeInStep ==
  ASSUME IInv, TakeIn
  PROVE  IInv'
<1>1. PICK p : p = Unit[1]
  OBVIOUS
<1>2. p \in Ports
  BY <1>1, CoreDomain DEF IInv, PartOK, TakeIn, At, Unit
<1>3. /\ AllocateCu(p) /\ At("allocate") /\ NextPart
      /\ UNCHANGED <<memoryVars, program, nextInst, simdVars>>
  BY <1>1 DEF TakeIn, CollectorStep
<1>4. UNCHANGED <<age, lastCu, ocEx>>
  BY <1>3 DEF AllocateCu
<1>5. PartOK' /\ PipesOK' /\ LastCuOK'
  BY <1>3, <1>4, CollectorTurn DEF IInv, LastCuOK
<1>6. CASE UNCHANGED <<idOc, collector, requests>>
  <2>1. PlacesOK' /\ RequestsOK'
    BY <1>3, <1>4, <1>6, SamePlaces, SameRequests DEF IInv
  <2> QED BY <1>3, <1>5, <2>1 DEF IInv
<1>7. CASE ~ UNCHANGED <<idOc, collector, requests>>
  <2>1. PICK i : i = GetReady(idOc[p])
    OBVIOUS
  <2>2. PICK s : s = SchedOf(i)
    OBVIOUS
  <2>3. PICK free : free = {c \in Units : SchedOfUnit(c) = s /\ collector[c].inst = NoInst}
    OBVIOUS
  <2>4. PICK c : c = Min(free)
    OBVIOUS
  <2>5. /\ Waiting(idOc[p]) # {} /\ free # {}
        /\ idOc' = [idOc EXCEPT ![p][s] = NoInst]
        /\ collector' = [collector EXCEPT ![c] = [inst |-> i, missing |-> ToSet(Op(i).src)]]
        /\ requests' = [b \in Banks |-> Requested(b, c, i)]
    BY <1>3, <1>7, <2>1, <2>2, <2>3, <2>4, Zenon DEF AllocateCu
  <2>6. i \in Insts /\ i # NoInst /\ s \in SchedIds /\ idOc[p][s] = i
    BY <1>2, <2>1, <2>2, <2>5, ReadyIn DEF IInv, PlacesOK
  <2>7. c \in Units /\ SchedOfUnit(c) = s /\ collector[c].inst = NoInst
    <3>1. free \subseteq Nat
      BY <2>3, UnitsAreNumbers
    <3>2. c \in free
      BY <2>4, <2>5, <3>1, LeastOfNats
    <3> QED BY <2>3, <3>2
  <2>8. ToSet(Op(i).src) \in SUBSET Nat
    <3>1. Op(i).src \in Seq(Nat)
      BY <2>6, OpFacts DEF IInv
    <3> QED BY <3>1 DEF ToSet
  <2>9. PlacesOK'
    BY <1>2, <1>3, <1>4, <2>5, <2>6, <2>7, <2>8, CollectorTakes DEF IInv
  <2>10. RequestsOK'
    BY <1>3, <2>5, <2>6, <2>7, CollectorAsks DEF IInv
  <2> QED BY <1>3, <1>5, <2>9, <2>10 DEF IInv
<1> QED BY <1>6, <1>7

-----------------------------------------------------------------------------
(* Issue.                                                                  *)

\* A sequence of the elements of a set, each once.
LEMMA EachOnce ==
  ASSUME NEW S, IsFiniteSet(S), NEW q \in SetToSeqs(S)
  PROVE  q \in Seq(S) /\ IsInjective(q) /\ ToSet(q) = S
<1>1. PICK n \in Nat : n = Cardinality(S)
  BY FS_CardinalityType
<1>2. q \in [1 .. n -> S] /\ \A i, j \in 1 .. n : i # j => q[i] # q[j]
  BY <1>1 DEF SetToSeqs
<1>3. IsInjective(q)
  BY <1>2 DEF IsInjective
<1>4. q \in Injection(1 .. n, S)
  BY <1>2, <1>3 DEF Injection
<1>5. Cardinality(1 .. n) = n
  BY FS_Interval
<1>6. PICK D : D = 1 .. n
  OBVIOUS
<1>7. q \in Injection(D, S) /\ Cardinality(D) = Cardinality(S)
  BY <1>1, <1>4, <1>5, <1>6
<1>8. q \in Surjection(D, S)
  BY <1>7, FS_Injection
<1>9. \A x \in S : \E k \in 1 .. n : q[k] = x
  BY <1>6, <1>8 DEF Surjection
<1>10. ToSet(q) = S
  BY <1>2, <1>9 DEF ToSet
<1>11. q \in Seq(S)
  BY <1>2, SeqOfLength
<1> QED BY <1>3, <1>10, <1>11

\* Two sequences without repetitions that share nothing.
LEMMA BothOnce ==
  ASSUME NEW S, NEW s \in Seq(S), NEW t \in Seq(S), IsInjective(s), IsInjective(t),
         ToSet(s) \cap ToSet(t) = {}
  PROVE  /\ s \o t \in Seq(S) /\ IsInjective(s \o t)
         /\ ToSet(s \o t) = ToSet(s) \cup ToSet(t)
<1>0. PICK u : u = s \o t
  OBVIOUS
<1>1. u \in Seq(S) /\ Joins(u, s, t)
  BY <1>0, Joined, Zenon
<1>2. PICK m \in Nat : m = Len(s)
  OBVIOUS
<1>3. PICK n \in Nat : n = Len(t)
  OBVIOUS
<1>4. /\ DOMAIN s = 1 .. m /\ DOMAIN t = 1 .. n /\ DOMAIN u = 1 .. m + n
      /\ \A i \in 1 .. m : u[i] = s[i]
      /\ \A i \in 1 .. n : u[m + i] = t[i]
  BY <1>1, <1>2, <1>3 DEF Joins
<1>5. /\ ToSet(s) = {s[i] : i \in 1 .. m} /\ ToSet(t) = {t[i] : i \in 1 .. n}
      /\ ToSet(u) = {u[i] : i \in 1 .. m + n}
  BY <1>4 DEF ToSet
<1>6. \A i, j \in 1 .. m : s[i] = s[j] => i = j
  BY <1>4 DEF IsInjective
<1>7. \A i, j \in 1 .. n : t[i] = t[j] => i = j
  BY <1>4 DEF IsInjective
<1>8. \A i \in 1 .. m, j \in 1 .. n : s[i] # t[j]
  BY <1>5
<1>9. ASSUME NEW k \in 1 .. m + n
      PROVE  \/ k \in 1 .. m /\ u[k] = s[k]
             \/ \E j \in 1 .. n : k = m + j /\ u[k] = t[j]
  <2>1. CASE k <= m
    BY <1>4, <2>1
  <2>2. CASE k > m
    <3>1. k - m \in 1 .. n /\ k = m + (k - m)
      BY <2>2
    <3> QED BY <1>4, <3>1
  <2>3. k <= m \/ k > m
    OBVIOUS
  <2> QED BY <2>1, <2>2, <2>3, Zenon
<1>10. ASSUME NEW k \in 1 .. m + n, NEW l \in 1 .. m + n, u[k] = u[l]
       PROVE  k = l
  <2>1. CASE k \in 1 .. m /\ u[k] = s[k]
    <3>1. CASE l \in 1 .. m /\ u[l] = s[l]
      BY <1>6, <1>10, <2>1, <3>1
    <3>2. CASE \E j \in 1 .. n : l = m + j /\ u[l] = t[j]
      BY <1>8, <1>10, <2>1, <3>2
    <3> QED BY <1>9, <3>1, <3>2
  <2>2. CASE \E j \in 1 .. n : k = m + j /\ u[k] = t[j]
    <3>1. CASE l \in 1 .. m /\ u[l] = s[l]
      BY <1>8, <1>10, <2>2, <3>1
    <3>2. CASE \E j \in 1 .. n : l = m + j /\ u[l] = t[j]
      BY <1>7, <1>10, <2>2, <3>2
    <3> QED BY <1>9, <3>1, <3>2
  <2> QED BY <1>9, <2>1, <2>2
<1>11. IsInjective(u)
  BY <1>4, <1>10 DEF IsInjective
<1>12. ToSet(u) = ToSet(s) \cup ToSet(t)
  <2>1. \A k \in 1 .. m : k \in 1 .. m + n
    OBVIOUS
  <2>2. \A j \in 1 .. n : m + j \in 1 .. m + n
    OBVIOUS
  <2>3. ASSUME NEW x \in ToSet(u)
        PROVE  x \in ToSet(s) \cup ToSet(t)
    <3>1. PICK k \in 1 .. m + n : x = u[k]
      BY <1>5
    <3> QED BY <1>5, <1>9, <3>1
  <2>4. \A x \in ToSet(s) : x \in ToSet(u)
    BY <1>4, <1>5, <2>1
  <2>5. \A x \in ToSet(t) : x \in ToSet(u)
    BY <1>4, <1>5, <2>2
  <2> QED BY <2>3, <2>4, <2>5
<1> QED BY <1>0, <1>1, <1>11, <1>12

\* s holds elements of S, each of them once; u is s and t in a row.
OnceIn(s, S) == s \in Seq(S) /\ IsInjective(s)
InARow(u, s, t) == u = s \o t /\ ToSet(s) \cap ToSet(t) = {}

\* The same of a sequence that is known to be the two in a row.
LEMMA OnceWhenJoined ==
  ASSUME NEW S, NEW s, NEW t, NEW u, OnceIn(s, S), OnceIn(t, S), InARow(u, s, t)
  PROVE  OnceIn(u, S) /\ ToSet(u) = ToSet(s) \cup ToSet(t)
<1>0. /\ s \in Seq(S) /\ IsInjective(s) /\ t \in Seq(S) /\ IsInjective(t)
      /\ ToSet(s) \cap ToSet(t) = {}
  BY Zenon DEF OnceIn, InARow
<1>1. /\ s \o t \in Seq(S) /\ IsInjective(s \o t)
      /\ ToSet(s \o t) = ToSet(s) \cup ToSet(t)
  BY <1>0, BothOnce, ZenonT(60)
<1> QED BY <1>1, Zenon DEF OnceIn, InARow

\* The instructions that are issued are new.
LEMMA IssuedAreNew ==
  ASSUME program \in Programs, AgeOK, NEW S \in IssueChoices,
         NEW insts, insts = {NextOf(w) : w \in S}
  PROVE  /\ S \subseteq Warps /\ IsFiniteSet(insts)
         /\ insts \subseteq Insts /\ insts \cap ToSet(age) = {}
         /\ \A i \in insts : i[1] \in S /\ i[2] = nextInst[i[1]]
<1>1. S \subseteq {w \in Warps : Issuable(w)}
  BY DEF IssueChoices
<1>2. \A i \in insts : i[1] \in S /\ i[2] = nextInst[i[1]] /\ i = NextOf(i[1])
  BY DEF NextOf
<1>3. IsFiniteSet(insts)
  <2>1. IsFiniteSet(S)
    BY <1>1, CollectorAssumption, FS_Subset
  <2>2. PICK f : f = [w \in S |-> NextOf(w)]
    OBVIOUS
  <2>3. f \in Surjection(S, insts)
    BY <2>2 DEF Surjection
  <2> QED BY <2>1, <2>3, FS_Surjection
<1>4. ASSUME NEW w \in S
      PROVE  NextOf(w) \in Insts
  <2>1. w \in Warps /\ ~Over(w)
    BY <1>1 DEF Issuable
  <2>2. program[w] \in Seq(DOMAIN Ops)
    BY <2>1, CollectorAssumption
  <2>3. PICK n \in Nat \ {0} : n = nextInst[w]
    BY <2>1 DEF AgeOK
  <2>4. n \in DOMAIN program[w]
    BY <2>1, <2>2, <2>3 DEF Over
  <2> QED BY <2>1, <2>3, <2>4 DEF Insts, NextOf
<1>5. insts \cap ToSet(age) = {}
  <2> SUFFICES ASSUME NEW i \in insts, i \in ToSet(age)
               PROVE  FALSE
    OBVIOUS
  <2>1. i[2] < nextInst[i[1]] /\ i[2] = nextInst[i[1]] /\ i[1] \in Warps
    BY <1>1, <1>2 DEF AgeOK
  <2>2. nextInst[i[1]] \in Nat
    BY <2>1 DEF AgeOK
  <2> QED BY <2>1, <2>2
<1> QED BY <1>1, <1>2, <1>3, <1>4, <1>5

\* Apart of the registers and collectors of the next state.
ApartIn(I, O, C) ==
  /\ \A c, d \in Units : C[c].inst # NoInst /\ C[c].inst = C[d].inst => c = d
  /\ \A c \in Units, p \in Ports, s \in SchedIds :
       C[c].inst # NoInst => C[c].inst # I[p][s] /\ C[c].inst # O[p][s]
  /\ \A p, q \in Ports, s, t \in SchedIds : I[p][s] # NoInst => I[p][s] # O[q][t]

LEMMA ApartFrom ==
  ASSUME NEW I, idOc' = I, UNCHANGED <<ocEx, collector>>, ApartIn(I, ocEx, collector)
  PROVE  Apart'
BY DEF Apart, ApartIn

\* New instructions wait in the input registers.
LEMMA IssuePlaces ==
  ASSUME program \in Programs, PlacesOK, NEW insts, insts \subseteq Insts,
         insts \cap ToSet(age) = {}, AgeOK', ToSet(age)' = ToSet(age) \cup insts,
         idOc' = [p \in Ports |-> [s \in SchedIds |->
                    IF \E i \in insts : Op(i).port = p /\ SchedOf(i) = s
                    THEN CHOOSE i \in insts : Op(i).port = p /\ SchedOf(i) = s
                    ELSE idOc[p][s]]],
         UNCHANGED <<program, ocEx, collector>>
  PROVE  PlacesOK'
<1>1. Insts' = Insts /\ \A j : Op(j)' = Op(j)
  BY DEF Insts, Op
<1>2. ASSUME NEW p \in Ports, NEW s \in SchedIds
      PROVE  \/ idOc'[p][s] = idOc[p][s]
             \/ /\ idOc'[p][s] \in insts
                /\ Op(idOc'[p][s]).port = p /\ SchedOf(idOc'[p][s]) = s
  <2>1. CASE \E i \in insts : Op(i).port = p /\ SchedOf(i) = s
    <3>1. PICK j : j = CHOOSE i \in insts : Op(i).port = p /\ SchedOf(i) = s
      OBVIOUS
    <3>2. j \in insts /\ Op(j).port = p /\ SchedOf(j) = s
      BY <2>1, <3>1
    <3>3. idOc'[p][s] = j
      BY <2>1, <3>1
    <3> QED BY <3>2, <3>3
  <2>2. CASE ~ \E i \in insts : Op(i).port = p /\ SchedOf(i) = s
    BY <2>2
  <2> QED BY <2>1, <2>2
<1>3. /\ RegsOK(idOc) /\ RegsOK(ocEx)
      /\ idOc \in [Ports -> [SchedIds -> Insts \cup {NoInst}]]
  BY DEF PlacesOK, RegsOK
<1>4. PICK I2 : I2 = idOc'
  OBVIOUS
<1>5. ASSUME NEW p \in Ports, NEW s \in SchedIds
      PROVE  \/ I2[p][s] = idOc[p][s]
             \/ I2[p][s] \in insts /\ Op(I2[p][s]).port = p /\ SchedOf(I2[p][s]) = s
  BY <1>2, <1>4
<1>6. I2 \in [Ports -> [SchedIds -> Insts \cup {NoInst}]]
  <2>1. \A p \in Ports, s \in SchedIds : I2[p][s] \in Insts \cup {NoInst}
    BY <1>3, <1>5
  <2>2. I2 = [p \in Ports |-> [s \in SchedIds |-> I2[p][s]]]
    BY <1>4
  <2>3. \A p \in Ports : I2[p] \in [SchedIds -> Insts \cup {NoInst}]
    BY <2>1, <2>2
  <2> QED BY <2>2, <2>3
<1>7. RegsOK(idOc)'
  <2>1. ASSUME NEW p \in Ports, NEW s \in SchedIds, I2[p][s] # NoInst
        PROVE  /\ I2[p][s] \in ToSet(age) \cup insts
               /\ Op(I2[p][s]).port = p /\ SchedOf(I2[p][s]) = s
    BY <1>3, <1>5, <2>1 DEF RegsOK
  <2> QED BY <1>1, <1>4, <1>6, <2>1 DEF RegsOK, SchedOf, WarpOf
<1>8. RegsOK(ocEx)'
  BY <1>1, <1>3 DEF RegsOK, SchedOf, WarpOf
<1>9. CollectorOK'
  BY <1>1 DEF PlacesOK, CollectorOK, SchedOf, WarpOf
<1>10. Apart'
  <2>1. \A c \in Units : collector[c].inst # NoInst => collector[c].inst \notin insts
    BY DEF PlacesOK, CollectorOK
  <2>2. \A p \in Ports, s \in SchedIds : ocEx[p][s] # NoInst => ocEx[p][s] \notin insts
    BY <1>3 DEF RegsOK
  <2>3. \A c, d \in Units :
          collector[c].inst # NoInst /\ collector[c].inst = collector[d].inst => c = d
    BY DEF PlacesOK, Apart
  <2>4. ASSUME NEW c \in Units, NEW p \in Ports, NEW s \in SchedIds,
               collector[c].inst # NoInst
        PROVE  collector[c].inst # I2[p][s] /\ collector[c].inst # ocEx[p][s]
    BY <1>5, <2>1, <2>4 DEF PlacesOK, Apart
  <2>5. ASSUME NEW p \in Ports, NEW q \in Ports, NEW s \in SchedIds, NEW t \in SchedIds,
               I2[p][s] # NoInst
        PROVE  I2[p][s] # ocEx[q][t]
    <3>1. CASE I2[p][s] = idOc[p][s]
      BY <2>5, <3>1 DEF PlacesOK, Apart
    <3>2. CASE I2[p][s] \in insts
      BY <2>2, <2>5, <3>2
    <3> QED BY <1>5, <3>1, <3>2
  <2>6. ApartIn(I2, ocEx, collector)
    BY <2>3, <2>4, <2>5 DEF ApartIn
  <2> QED BY <1>4, <2>6, ApartFrom
<1> QED BY <1>7, <1>8, <1>9, <1>10 DEF PlacesOK

LEMMA IssueStep ==
  ASSUME IInv, Issue
  PROVE  IInv'
<1>1. PICK S \in IssueChoices : IssueSet(S)
  BY DEF Issue
<1>2. PICK insts : insts = {NextOf(w) : w \in S}
  OBVIOUS
<1>3. /\ At("issue") /\ NextPart
      /\ idOc' = [p \in Ports |-> [s \in SchedIds |->
                    IF \E i \in insts : Op(i).port = p /\ SchedOf(i) = s
                    THEN CHOOSE i \in insts : Op(i).port = p /\ SchedOf(i) = s
                    ELSE idOc[p][s]]]
      /\ \E new \in SetToSeqs(insts) : age' = age \o new
      /\ nextInst' = [w \in Warps |-> IF w \in S THEN nextInst[w] + 1 ELSE nextInst[w]]
      /\ UNCHANGED <<memoryVars, program, collector, requests, lastCu, ocEx, simdVars>>
  BY <1>1, <1>2 DEF IssueSet
<1>4. program \in Programs /\ AgeOK /\ PlacesOK
  BY DEF IInv, PlacesOK
<1>5. /\ S \subseteq Warps /\ IsFiniteSet(insts)
      /\ insts \subseteq Insts /\ insts \cap ToSet(age) = {}
      /\ \A i \in insts : i[1] \in S /\ i[2] = nextInst[i[1]]
  BY <1>2, <1>4, IssuedAreNew
<1>6. PICK new \in SetToSeqs(insts) : age' = age \o new
  BY <1>3
<1>7. new \in Seq(insts) /\ IsInjective(new) /\ ToSet(new) = insts
  BY <1>5, EachOnce
<1>8. new \in Seq(Insts)
  BY <1>5, <1>7
<1>9. age \in Seq(Insts) /\ IsInjective(age) /\ ToSet(age) \cap ToSet(new) = {}
  BY <1>4, <1>5, <1>7 DEF AgeOK
<1>10. PICK a : a = age \o new
  OBVIOUS
<1>11. a \in Seq(Insts) /\ IsInjective(a) /\ ToSet(a) = ToSet(age) \cup insts
  <2>1. PICK old : old = age
    OBVIOUS
  <2>2. PICK all : all = Insts
    OBVIOUS
  <2>3. OnceIn(old, all) /\ OnceIn(new, all)
    BY <1>8, <1>7, <1>9, <2>1, <2>2, Zenon DEF OnceIn
  <2>4. InARow(a, old, new)
    BY <1>9, <1>10, <2>1, Zenon DEF InARow
  <2>5. OnceIn(a, all) /\ ToSet(a) = ToSet(old) \cup ToSet(new)
    BY <2>3, <2>4, OnceWhenJoined
  <2> QED BY <1>7, <2>1, <2>2, <2>5, Zenon DEF OnceIn
<1>12. age' = a
  BY <1>6, <1>10
<1>13. ToSet(age)' = ToSet(age) \cup insts
  <2>1. ToSet(age)' = ToSet(age')
    BY DEF ToSet
  <2> QED BY <1>11, <1>12, <2>1
<1>14. nextInst \in [Warps -> Nat \ {0}]
  BY <1>4 DEF AgeOK
<1>15. ASSUME NEW i \in Insts
       PROVE  /\ i[1] \in Warps /\ i[2] \in Nat
              /\ nextInst[i[1]] \in Nat
              /\ nextInst'[i[1]] = IF i[1] \in S THEN nextInst[i[1]] + 1
                                   ELSE nextInst[i[1]]
  <2>1. PICK w \in Warps : i \in {w} \X DOMAIN program[w]
    BY DEF Insts
  <2>2. program[w] \in Seq(DOMAIN Ops)
    BY <1>4, CollectorAssumption
  <2>3. i[1] = w /\ i[2] \in Nat
    BY <2>1, <2>2
  <2> QED BY <1>3, <1>14, <2>3
<1>16. AgeOK'
  <2>1. Insts' = Insts
    BY <1>3 DEF Insts
  <2>2. nextInst' \in [Warps -> Nat \ {0}]
    BY <1>3, <1>14
  <2>3. ASSUME NEW i \in ToSet(age) \cup insts
        PROVE  i[2] < nextInst'[i[1]]
    <3>1. i \in Insts
      BY <1>5, <1>9 DEF ToSet
    <3>2. i[2] <= nextInst[i[1]] /\ (i[2] = nextInst[i[1]] => i[1] \in S)
      <4>1. CASE i \in ToSet(age)
        BY <1>4, <1>15, <3>1, <4>1 DEF AgeOK
      <4>2. CASE i \in insts
        BY <1>5, <1>15, <3>1, <4>2
      <4> QED BY <4>1, <4>2
    <3> QED BY <1>15, <3>1, <3>2
  <2>4. \A i \in ToSet(a) : i[2] < nextInst'[i[1]]
    BY <1>11, <2>3
  <2> QED BY <1>11, <1>12, <2>1, <2>2, <2>4 DEF AgeOK
<1>17. PlacesOK'
  BY <1>3, <1>4, <1>5, <1>13, <1>16, IssuePlaces
<1>18. PartOK' /\ ToCome' = ToCome
  <2>1. ~At("writeback") /\ ~At("simd") /\ ticks' = ticks
    BY <1>3 DEF At, memoryVars
  <2> QED BY <1>3, <2>1, TurnStep DEF IInv, TurnTaken
<1>19. PipesOK'
  <2>1. ASSUME NEW i \in Insts
        PROVE  /\ i[2] < nextInst[i[1]] => i[2] < nextInst'[i[1]]
               /\ i[2] < nextInst[i[1]] /\ i \notin ToSet(age) => i \notin ToSet(age)'
    <3>1. i[2] < nextInst[i[1]] => i[2] < nextInst'[i[1]]
      BY <1>15
    <3>2. i \in insts => ~(i[2] < nextInst[i[1]])
      BY <1>5, <1>15
    <3> QED BY <1>13, <3>1, <3>2
  <2> QED BY <1>3, <1>18, <2>1, SamePipes DEF IInv, simdVars
<1>20. RequestsOK' /\ LastCuOK'
  BY <1>3, SameRequests DEF IInv, LastCuOK
<1> QED BY <1>3, <1>17, <1>18, <1>19, <1>20 DEF IInv

-----------------------------------------------------------------------------
(* The invariant holds.                                                    *)

LEMMA EmptySequence ==
  ASSUME NEW S
  PROVE  <<>> \in Seq(S) /\ IsInjective(<<>>) /\ ToSet(<<>>) = {}
BY DEF IsInjective, ToSet

LEMMA InitOK == Init => IInv
<1> SUFFICES ASSUME Init
             PROVE  IInv
  OBVIOUS
<1>1. program \in Programs /\ part = 1 /\ nextInst = [w \in Warps |-> 1]
  BY DEF Init
<1>2. CollectorInit /\ SimdInit
  BY DEF Init
<1>3. PartOK
  BY <1>1, CycleInOrder, OrderConstants DEF PartOK
<1>4. LastCuOK
  BY <1>2 DEF CollectorInit, LastCuOK
<1>5. AgeOK
  <2>1. age = <<>>
    BY <1>2 DEF CollectorInit
  <2>2. age \in Seq(Insts) /\ IsInjective(age) /\ ToSet(age) = {}
    BY <2>1, EmptySequence
  <2> QED BY <1>1, <2>2 DEF AgeOK
<1>6. RegsOK(idOc) /\ RegsOK(ocEx)
  BY <1>2 DEF CollectorInit, RegsOK
<1>7. \A c \in Units : collector[c].inst = NoInst /\ collector[c].missing = {}
  BY <1>2 DEF CollectorInit, FreeUnit
<1>8. CollectorOK
  BY <1>2, <1>7 DEF CollectorInit, CollectorOK, FreeUnit
<1>9. Apart
  <2>1. \A p \in Ports, s \in SchedIds : idOc[p][s] = NoInst
    BY <1>2 DEF CollectorInit
  <2> QED BY <1>7, <2>1 DEF Apart
<1>10. RequestsOK
  <2>1. PICK S : S = [cu : Units, reg : Nat]
    OBVIOUS
  <2>2. requests = [b \in Banks |-> <<>>]
    BY <1>2 DEF CollectorInit
  <2>3. \A b \in Banks : /\ requests[b] \in Seq(S) /\ IsInjective(requests[b])
                         /\ ToSet(requests[b]) = {}
    BY <2>2, EmptySequence
  <2>4. requests \in [Banks -> Seq(S)]
    BY <2>2, <2>3
  <2> QED BY <1>7, <2>1, <2>3, <2>4 DEF RequestsOK
<1>11. fu = [u \in SimdUnitIds |-> IdleUnit] /\ bus = [b \in Buses |-> {}] /\ exWb = {}
  BY <1>2 DEF SimdInit
<1>12. UnitOK(IdleUnit) /\ InUnit(IdleUnit) = {} /\ IdleUnit.occupied = {}
  <2>1. /\ IdleUnit.dispatch = NoInst /\ IdleUnit.delay = 0 /\ IdleUnit.occupied = {}
        /\ IdleUnit.stage = [n \in Stages |-> NoInst]
        /\ IdleUnit = [dispatch |-> IdleUnit.dispatch, delay |-> IdleUnit.delay,
                       stage |-> IdleUnit.stage, occupied |-> IdleUnit.occupied]
    BY DEF IdleUnit
  <2>2. \A n \in Stages : IdleUnit.stage[n] = NoInst
    BY <2>1
  <2>3. UnitOK(IdleUnit)
    BY <2>1, <2>2 DEF UnitOK
  <2> QED BY <2>1, <2>2, <2>3 DEF InUnit
<1>13. UnitsOK
  BY <1>11, <1>12 DEF UnitsOK
<1>14. ToCome = {}
  <2>1. 1 \notin First + 1 .. First + Simds
    BY OrderConstants
  <2> QED BY <1>1, <2>1 DEF ToCome, ComeAt
<1>15. Agree(bus, Occupied, {})
  <2> SUFFICES ASSUME NEW t \in Nat
               PROVE  Cardinality({b \in Buses : t \in bus[b]})
                      = Cardinality({v \in SimdUnitIds : IF v \in {} THEN t + 1 \in Occupied[v]
                                                         ELSE t \in Occupied[v]})
    BY DEF Agree
  <2>1. {b \in Buses : t \in bus[b]} = {}
    BY <1>11
  <2>2. {v \in SimdUnitIds : IF v \in {} THEN t + 1 \in Occupied[v] ELSE t \in Occupied[v]} = {}
    BY <1>11, <1>12 DEF Occupied
  <2> QED BY <2>1, <2>2
<1>16. BookedOK
  BY <1>11, <1>14, <1>15 DEF BookedOK
<1>17. RoomOK
  <2>1. IsFiniteSet({}) /\ Cardinality({}) = 0
    BY FS_EmptySet
  <2>2. {u \in ToCome : 0 \in Occupied[u]} = {}
    BY <1>14
  <2>3. WbWidth \in Nat
    BY SimdFinite
  <2> QED BY <1>11, <2>1, <2>2, <2>3 DEF RoomOK
<1> QED BY <1>1, <1>3, <1>4, <1>5, <1>6, <1>8, <1>9, <1>10, <1>13, <1>16, <1>17
       DEF IInv, PlacesOK, PipesOK

LEMMA NextOK == IInv /\ [Next]_vars => IInv'
<1> SUFFICES ASSUME IInv, [Next]_vars
             PROVE  IInv'
  OBVIOUS
<1>1. CASE \/ NextDomains \/ Reply \/ NoReply \/ Request \/ IcntCycle
           \/ UnitWriteback \/ UnitRespond \/ UnitLatency \/ UnitAccess \/ UnitRetire
           \/ FreeBanks
  BY <1>1, ElsewhereSteps
<1>2. CASE Writeback
  BY <1>2, WritebackStep
<1>3. CASE Execute
  BY <1>3, ExecuteStep
<1>4. CASE UnitIssue
  BY <1>4, UnitIssueStep
<1>5. CASE DispatchCu
  BY <1>5, DispatchCuStep
<1>6. CASE ReadBanks
  BY <1>6, ReadBanksStep
<1>7. CASE TakeIn
  BY <1>7, TakeInStep
<1>8. CASE Issue
  BY <1>8, IssueStep
<1>9. CASE UNCHANGED vars
  <2>1. UNCHANGED <<part, ticks, program, nextInst, age, idOc, ocEx, collector, requests,
                    lastCu, fu, bus, exWb>>
    BY <1>9 DEF vars, coreVars, memoryVars, collectorVars, simdVars
  <2>2. PartOK' /\ LastCuOK'
    BY <2>1 DEF IInv, PartOK, LastCuOK
  <2>3. ToCome' = ToCome
    BY <2>1 DEF ToCome, ComeAt
  <2>4. \A i \in Insts : /\ i[2] < nextInst[i[1]] => (i[2] < nextInst[i[1]])'
                         /\ i[2] < nextInst[i[1]] /\ i \notin ToSet(age)
                              => i \notin ToSet(age)'
    BY <2>1
  <2>5. PlacesOK' /\ PipesOK' /\ RequestsOK'
    BY <2>1, <2>3, <2>4, SamePlaces, SamePipes, SameRequests DEF IInv
  <2> QED BY <2>1, <2>2, <2>5 DEF IInv
<1> QED BY <1>1, <1>2, <1>3, <1>4, <1>5, <1>6, <1>7, <1>8, <1>9 DEF Next

LEMMA Inductive == Spec => []IInv
<1> QED BY InitOK, NextOK, PTL DEF Spec

\* The buses are booked for the instructions in the units, so EX_WB has room.
LEMMA ResultsHavePlaces == IInv => WritebackBooked
<1> SUFFICES ASSUME IInv
             PROVE  WritebackBooked
  OBVIOUS
<1>1. Cardinality(exWb) <= WbWidth
  <2>1. PICK X : X = {u \in ToCome : 0 \in Occupied[u]}
    OBVIOUS
  <2>2. /\ IsFiniteSet(exWb) /\ Cardinality(exWb) \in Nat
        /\ Cardinality(exWb) + Cardinality(X) <= WbWidth
    BY <2>1, FS_CardinalityType DEF IInv, PipesOK, RoomOK
  <2>3. Cardinality(X) \in Nat /\ WbWidth \in Nat
    <3>1. X \subseteq SimdUnitIds
      BY <2>1, ToComeAreUnits
    <3> QED BY <3>1, SimdFinite, FS_Subset, FS_CardinalityType
  <2> QED BY <2>2, <2>3
<1>2. ASSUME Cycling, NEW t \in 0 .. MaxLatency
      PROVE  Cardinality({b \in Buses : t \in bus[b]})
             = Cardinality({u \in SimdUnitIds : \E i \in InUnit(fu[u]) : CyclesLeft(fu[u], i) = t})
  <2>1. ToCome = {}
    <3>1. 1 \notin First + 1 .. First + Simds
      BY OrderConstants
    <3> QED BY <1>2, <3>1 DEF Cycling, ToCome, ComeAt
  <2>2. t \in Nat
    OBVIOUS
  <2>3. Agree(bus, Occupied, {})
    BY <2>1 DEF IInv, PipesOK, BookedOK
  <2>4. PICK X : X = {v \in SimdUnitIds : IF v \in {} THEN t + 1 \in Occupied[v]
                                          ELSE t \in Occupied[v]}
    OBVIOUS
  <2>5. Cardinality({b \in Buses : t \in bus[b]}) = Cardinality(X)
    BY <2>2, <2>3, <2>4 DEF Agree
  <2>6. \A u \in SimdUnitIds :
          t \in fu[u].occupied <=> \E i \in InUnit(fu[u]) : CyclesLeft(fu[u], i) = t
    BY <2>2, OccupiedIsDue DEF IInv, PipesOK, UnitsOK
  <2>7. X = {u \in SimdUnitIds : \E i \in InUnit(fu[u]) : CyclesLeft(fu[u], i) = t}
    BY <2>4, <2>6 DEF Occupied
  <2> QED BY <2>5, <2>7
<1> QED BY <1>1, <1>2 DEF WritebackBooked

\* The bank of an instruction's register.
LEMMA BankOfInst ==
  ASSUME program \in Programs, NEW i \in Insts, NEW r \in Nat
  PROVE  BankOf(i, r) \in Banks
<1>1. /\ Schedulers \in Nat \ {0} /\ BanksPerSched \in Nat \ {0}
      /\ SchedOf(i) \in SchedIds /\ WarpOf(i) \in Nat
  BY OrderConstants, CollectorAssumption, OpFacts
<1>2. PICK s \in Nat : s = SchedOf(i) /\ s <= Schedulers - 1
  BY <1>1 DEF SchedIds
<1>3. PICK x : x = (r + WarpOf(i)) % BanksPerSched
  OBVIOUS
<1>4. x \in 0 .. BanksPerSched - 1
  <2>1. r + WarpOf(i) \in Nat
    BY <1>1
  <2> QED BY <1>1, <1>3, <2>1, Divided
<1>5. BankOf(i, r) = x + s * BanksPerSched
  BY <1>2, <1>3 DEF BankOf
<1>6. PICK d \in Nat : Schedulers = s + 1 + d
  <2>1. Schedulers - 1 - s \in Nat /\ Schedulers = s + 1 + (Schedulers - 1 - s)
    BY <1>1, <1>2
  <2> QED BY <2>1
<1>7. Schedulers * BanksPerSched = s * BanksPerSched + BanksPerSched + d * BanksPerSched
  BY <1>1, <1>6
<1>8. PICK y \in Nat, z \in Nat : y = s * BanksPerSched /\ z = d * BanksPerSched
  BY <1>1
<1>9. PICK n \in Nat : n = Schedulers * BanksPerSched /\ n = y + BanksPerSched + z
  BY <1>1, <1>7, <1>8
<1>10. x + y \in 0 .. n - 1
  BY <1>1, <1>4, <1>9
<1> QED BY <1>5, <1>8, <1>9, <1>10 DEF Banks

\* The requests are those of the invariant.
LEMMA OperandsAsked == IInv => OperandsRequestedOnce
<1> SUFFICES ASSUME IInv, NEW c \in Units, NEW i, i = collector[c].inst
             PROVE  /\ i # NoInst => SchedOf(i) = SchedOfUnit(c)
                    /\ \A r \in Registers :
                         LET asked == {p \in UNION {{b} \X DOMAIN requests[b] : b \in Banks} :
                                         requests[p[1]][p[2]] = Operand(c, r)}
                         IN  IF i # NoInst /\ r \in collector[c].missing
                             THEN \E n \in 1 .. Len(requests[BankOf(i, r)]) :
                                    asked = {<<BankOf(i, r), n>>}
                             ELSE asked = {}
  BY DEF OperandsRequestedOnce
<1>1. i # NoInst => SchedOf(i) = SchedOfUnit(c)
  BY DEF IInv, PlacesOK, CollectorOK
<1>2. ASSUME NEW r \in Registers,
             NEW asked, asked = {p \in UNION {{b} \X DOMAIN requests[b] : b \in Banks} :
                                   requests[p[1]][p[2]] = Operand(c, r)}
      PROVE  IF i # NoInst /\ r \in collector[c].missing
             THEN \E n \in 1 .. Len(requests[BankOf(i, r)]) : asked = {<<BankOf(i, r), n>>}
             ELSE asked = {}
  <2>1. \A p \in asked : \E b \in Banks : \E n \in DOMAIN requests[b] :
          p = <<b, n>> /\ requests[b][n] = Operand(c, r)
    BY <1>2
  <2>2. \A b \in Banks : \A n \in DOMAIN requests[b] :
          requests[b][n] = Operand(c, r) => <<b, n>> \in asked
    BY <1>2
  <2>3. collector[c].missing \subseteq Nat /\ i \in Insts \cup {NoInst}
    BY DEF IInv, PlacesOK, CollectorOK
  <2>4. ASSUME NEW b \in Banks, NEW n \in DOMAIN requests[b], requests[b][n] = Operand(c, r)
        PROVE  i # NoInst /\ r \in collector[c].missing /\ b = BankOf(i, r)
    <3>1. PICK S : S = [cu : Units, reg : Nat]
      OBVIOUS
    <3>2. requests[b] \in Seq(S)
      BY <3>1 DEF IInv, RequestsOK
    <3>3. Operand(c, r) \in S /\ Operand(c, r) \in ToSet(requests[b])
      BY <2>4, <3>2 DEF ToSet
    <3>4. r \in Nat
      BY <3>1, <3>3 DEF Operand
    <3> QED BY <3>3, <3>4 DEF IInv, RequestsOK
  <2>5. CASE ~(i # NoInst /\ r \in collector[c].missing)
    BY <2>1, <2>4, <2>5
  <2>6. CASE i # NoInst /\ r \in collector[c].missing
    <3>1. PICK b : b = BankOf(i, r)
      OBVIOUS
    <3>2. b \in Banks /\ r \in Nat
      BY <2>3, <2>6, <3>1, BankOfInst DEF IInv
    <3>3. Operand(c, r) \in ToSet(requests[b])
      BY <2>6, <3>1, <3>2 DEF IInv, RequestsOK
    <3>4. PICK q : q = requests[b]
      OBVIOUS
    <3>5. PICK S : S = [cu : Units, reg : Nat]
      OBVIOUS
    <3>6. q \in Seq(S) /\ IsInjective(q)
      BY <3>2, <3>4, <3>5 DEF IInv, RequestsOK
    <3>7. DOMAIN q = 1 .. Len(q)
      BY <3>6
    <3>8. PICK n \in 1 .. Len(q) : q[n] = Operand(c, r)
      BY <3>3, <3>4, <3>7 DEF ToSet
    <3>9. <<b, n>> \in asked
      BY <2>2, <3>2, <3>4, <3>7, <3>8
    <3>10. \A m \in 1 .. Len(q) : q[m] = Operand(c, r) => m = n
      BY <3>6, <3>7, <3>8 DEF IsInjective
    <3>11. ASSUME NEW p \in asked
           PROVE  p = <<b, n>>
      <4>1. PICK e \in Banks : \E m \in DOMAIN requests[e] :
              p = <<e, m>> /\ requests[e][m] = Operand(c, r)
        BY <2>1
      <4>2. PICK m \in DOMAIN requests[e] : p = <<e, m>> /\ requests[e][m] = Operand(c, r)
        BY <4>1
      <4>3. e = b
        BY <2>4, <3>1, <4>2
      <4>4. m = n
        BY <3>4, <3>7, <3>10, <4>2, <4>3
      <4> QED BY <4>2, <4>3, <4>4
    <3>12. asked = {<<b, n>>}
      BY <3>9, <3>11
    <3> QED BY <2>6, <3>1, <3>4, <3>8, <3>12
  <2> QED BY <2>5, <2>6
<1> QED BY <1>1, <1>2

\* Every result has its place: EX_WB never holds more than it has room for,
\* although no unit is stalled any more when its result arrives, because at
\* the start of each cycle the result buses are booked exactly for the cycles
\* in which results arrive (WritebackBooked; the assert of
\* register_set::get_free).
THEOREM BookedWriteback == Spec => []WritebackBooked
BY Inductive, ResultsHavePlaces, PTL

\* Every operand a collector waits for is asked for exactly once, at the bank
\* of its register, and no collector has an instruction of another scheduler
\* (OperandsRequestedOnce; the arbiter's queues in opndcoll_rfu_t).
THEOREM OperandsOnce == Spec => []OperandsRequestedOnce
BY Inductive, OperandsAsked, PTL
=============================================================================
