------------------------- MODULE DeviceMemoryProofs --------------------------
(***************************************************************************)
(* Theorems about DeviceMemory and DeviceCopies, for every layout of the   *)
(* address space, alignment, width of the integers, sizes of objects and   *)
(* number of them.                                                         *)
(***************************************************************************)
EXTENDS DeviceCopies, SequenceTheorems, TLAPS

-----------------------------------------------------------------------------
(* The inductive invariant.                                                *)

\* What an application may hold.
Objects ==
  [kind : {"linear", "symbol"}, base : Nat, size : Nat]
    \cup [kind : {"pitched"}, base : Nat, size : Nat, width : Nat, height : Nat]
    \cup [kind : {"array"}, base : Nat, size : Nat, width : Nat, height : Nat,
          given : Nat]

\* How far sign extension moves an address of the upper half of 2^32.
Moved == AddrRange - PtrRange

\* Globals lie below the windows, everything else from the heap's start on,
\* arrays there or as far from it as sign extension moves them.
Inside(o) ==
  \/ o.base + o.size <= globalNext
  \/ GLOBAL_HEAP_START <= o.base /\ o.base + o.size <= heapNext
  \/ /\ Moved + GLOBAL_HEAP_START <= o.base /\ o.base + o.size <= AddrRange
     /\ o.base + o.size <= Moved + heapNext

Before(o, p) == o.base + o.size <= p.base

MemoryType ==
  /\ heapNext \in Nat /\ globalNext \in Nat
  /\ GLOBAL_HEAP_START <= heapNext /\ heapNext <= HeapLimit
  /\ globalNext < STATIC_ALLOC_LIMIT
  /\ pinned \in [HostPtrs -> Int]
  /\ objects \in Seq(Objects)

\* The objects whose bytes are where they should be.
KeptIds == {i \in Ids : Kept(objects[i])}

\* Pitched memory has no more and no fewer bytes than its rows.
Layout ==
  /\ \A i \in KeptIds : Inside(objects[i])
  /\ \A i \in Of({"pitched"}) :
       objects[i].size = objects[i].width * objects[i].height
  /\ \A i, j \in KeptIds : i # j => \/ Before(objects[i], objects[j])
                                    \/ Before(objects[j], objects[i])

MemoryInv == MemoryType /\ Layout

-----------------------------------------------------------------------------
(* The address space.                                                      *)

\* The windows lie between the globals and the heap.
LEMMA WindowsBetween ==
  STATIC_ALLOC_LIMIT \in Nat /\ STATIC_ALLOC_LIMIT <= GLOBAL_HEAP_START
<1>1. \A a, b \in Nat : a * b \in Nat
  OBVIOUS
<1>2. TOTAL_SHARED_MEM \in Nat
  BY <1>1, AddressAssumption DEF TOTAL_SHARED_MEM
<1>3. TOTAL_LOCAL_MEM_PER_SM \in Nat
  BY <1>1, AddressAssumption DEF TOTAL_LOCAL_MEM_PER_SM
<1>4. TOTAL_LOCAL_MEM \in Nat
  BY <1>1, <1>3, AddressAssumption DEF TOTAL_LOCAL_MEM
<1> QED BY <1>2, <1>4, AddressAssumption DEF STATIC_ALLOC_LIMIT

\* The heap ends before the addresses that sign extension gives.
LEMMA RangesInOrder ==
  /\ AddrRange \in Nat \ {0} /\ PtrRange \in Nat \ {0} /\ Moved \in Nat
  /\ HeapLimit \in Nat /\ HeapLimit <= Moved /\ Moved < AddrRange
  /\ GLOBAL_HEAP_START \in Nat /\ GLOBAL_HEAP_START <= HeapLimit
  /\ STATIC_ALLOC_LIMIT \in Nat /\ STATIC_ALLOC_LIMIT <= GLOBAL_HEAP_START
  /\ AddrRange = Moved + PtrRange
BY WindowsBetween, MemoryAssumption, AddressAssumption DEF Moved

\* gpu_malloc moves on by the size and by less than the alignment.
LEMMA PaddingSmall ==
  ASSUME NEW size \in Nat
  PROVE  Padding(size) \in 0 .. Align - 1
<1>1. Align \in Nat \ {0}
  BY MemoryAssumption
<1>2. size % Align \in 0 .. Align - 1
  BY <1>1
<1> QED BY <1>1, <1>2 DEF Padding

\* What an allocation does to the heap.
LEMMA AllocateEffect ==
  ASSUME MemoryType, NEW size \in Nat, Allocate(size)
  PROVE  /\ heapNext' \in Nat /\ heapNext' <= HeapLimit
         /\ heapNext + size <= heapNext'
<1>1. Padding(size) \in 0 .. Align - 1 /\ Align \in Nat \ {0}
  BY PaddingSmall, MemoryAssumption
<1>2. HeapLimit \in Nat
  BY MemoryAssumption
<1>3. heapNext' = heapNext + size + Padding(size)
      /\ heapNext + size + Align <= HeapLimit
  BY DEF Allocate
<1>4. heapNext \in Nat
  BY DEF MemoryType
<1> HIDE DEF Padding
<1> QED BY <1>1, <1>2, <1>3, <1>4

\* The numbers below a modulus are their own remainders.
LEMMA SmallRemainder ==
  ASSUME NEW r \in Nat \ {0}, NEW x \in 0 .. r - 1
  PROVE  x % r = x
OBVIOUS

\* What devPtr32 makes of an address: an address, and of one below 2^32 the
\* same or one moved to the top.
LEMMA SignExtension ==
  ASSUME NEW a \in Nat
  PROVE  /\ SignExtended(a) \in Nat
         /\ a < PtrRange => SignExtended(a) \in {a, Moved + a}
<1>1. a % PtrRange \in 0 .. PtrRange - 1 /\ (a < PtrRange => a % PtrRange = a)
  BY RangesInOrder, SmallRemainder
<1>2. PICK low \in 0 .. PtrRange - 1 : low = a % PtrRange
  BY <1>1
<1>3. SignExtended(a) \in {low, Moved + low}
  BY <1>2, RangesInOrder DEF SignExtended, Moved
<1> QED BY <1>1, <1>2, <1>3, RangesInOrder

\* A number reduced to an unsigned int is a number.
LEMMA UintIsNat ==
  ASSUME NEW n \in Nat
  PROVE  n % UintRange \in Nat
<1>1. UintRange \in Nat \ {0}
  BY MemoryAssumption
<1> QED BY <1>1

\* What the invariant says of an object.
LEMMA ObjectTypes ==
  ASSUME MemoryType
  PROVE  /\ Len(objects) \in Nat /\ Ids = 1 .. Len(objects)
         /\ KeptIds \subseteq Ids
         /\ \A i \in Ids : /\ objects[i] \in Objects
                            /\ objects[i].base \in Nat
                            /\ objects[i].size \in Nat
BY DEF MemoryType, Ids, Objects, KeptIds

-----------------------------------------------------------------------------
(* The invariant is kept.                                                  *)

\* An object that begins where the heap or the globals ended; an array that
\* lies below 2^32 may have been moved to the top.
Begins(o) ==
  /\ objects' = Append(objects, o)
  /\ o.kind = "pitched" => o.size = o.width * o.height
  /\ UNCHANGED pinned
  /\ \/ /\ globalNext' \in Nat /\ globalNext' < STATIC_ALLOC_LIMIT
        /\ o.base = globalNext /\ o.base + o.size <= globalNext'
        /\ UNCHANGED heapNext
     \/ /\ heapNext' \in Nat /\ heapNext' <= HeapLimit
        /\ heapNext + o.size <= heapNext'
        /\ Kept(o) => \/ o.base = heapNext
                      \/ /\ o.base = Moved + heapNext
                         /\ o.base + o.size <= AddrRange
        /\ UNCHANGED globalNext

LEMMA NewObject ==
  ASSUME MemoryInv, NEW o \in Objects, Begins(o)
  PROVE  MemoryInv'
<1>1. MemoryType /\ Layout
  BY DEF MemoryInv
<1>2. /\ o.base \in Nat /\ o.size \in Nat
      /\ heapNext \in Nat /\ globalNext \in Nat /\ GLOBAL_HEAP_START \in Nat
      /\ STATIC_ALLOC_LIMIT \in Nat /\ STATIC_ALLOC_LIMIT <= GLOBAL_HEAP_START
      /\ HeapLimit \in Nat /\ Moved \in Nat /\ HeapLimit <= Moved
      /\ AddrRange \in Nat
  BY <1>1, RangesInOrder DEF Objects, MemoryType
<1>3. /\ objects' \in Seq(Objects) /\ Len(objects) \in Nat
      /\ Len(objects') = Len(objects) + 1
      /\ \A i \in 1 .. Len(objects) : objects'[i] = objects[i]
      /\ objects'[Len(objects) + 1] = o
  BY <1>1 DEF MemoryType, Begins
<1> DEFINE n == Len(objects) + 1
<1>4. /\ Ids = 1 .. Len(objects) /\ Ids' = 1 .. n
      /\ \A i \in KeptIds' : i = n \/ i \in KeptIds
      /\ n \in KeptIds' => Kept(o)
  BY <1>3 DEF Ids, KeptIds, Kept
<1>5. /\ heapNext <= heapNext' /\ globalNext <= globalNext'
      /\ heapNext' \in Nat /\ globalNext' \in Nat
      /\ GLOBAL_HEAP_START <= heapNext /\ heapNext' <= HeapLimit
      /\ globalNext' < STATIC_ALLOC_LIMIT
  BY <1>1, <1>2 DEF MemoryType, Begins
<1>6. MemoryType'
  BY <1>1, <1>2, <1>3, <1>5, MemoryAssumption DEF MemoryType, Begins
<1>7. ASSUME Kept(o)
      PROVE  \/ o.base = globalNext /\ o.base + o.size <= globalNext'
             \/ o.base = heapNext /\ o.base + o.size <= heapNext'
             \/ /\ o.base = Moved + heapNext /\ o.base + o.size <= AddrRange
                /\ o.base + o.size <= Moved + heapNext'
  BY <1>2, <1>5, <1>7 DEF Begins
<1>8. ASSUME NEW i \in KeptIds
      PROVE  /\ Inside(objects[i])'
             /\ Kept(o) => Before(objects[i], o) \/ Before(o, objects[i])
  <2>1. /\ i \in Ids /\ objects'[i] = objects[i] /\ objects[i].base \in Nat
        /\ objects[i].size \in Nat /\ Inside(objects[i])
    BY <1>1, <1>3, <1>4, ObjectTypes DEF Layout
  <2> DEFINE first == objects[i].base
             past  == objects[i].base + objects[i].size
  <2>2. first \in Nat /\ past \in Nat /\ first <= past
    BY <2>1
  <2>3. \/ past <= globalNext
        \/ GLOBAL_HEAP_START <= first /\ past <= heapNext
        \/ /\ Moved + GLOBAL_HEAP_START <= first /\ past <= AddrRange
           /\ past <= Moved + heapNext
    BY <2>1 DEF Inside
  <2> HIDE DEF first, past
  <2>4. \/ past <= globalNext'
        \/ GLOBAL_HEAP_START <= first /\ past <= heapNext'
        \/ /\ Moved + GLOBAL_HEAP_START <= first /\ past <= AddrRange
           /\ past <= Moved + heapNext'
    <3>1. PICK m \in Nat : m = Moved
      BY <1>2
    <3>2. past <= m + heapNext => past <= m + heapNext'
      <4>1. PICK h, k, p \in Nat : h = heapNext /\ k = heapNext' /\ p = past
        BY <1>2, <1>5, <2>2
      <4>2. h <= k
        BY <1>5, <4>1
      <4>3. p <= m + h => p <= m + k
        BY <4>2
      <4> QED BY <4>1, <4>3
    <3>3. past <= globalNext => past <= globalNext'
      BY <1>2, <1>5, <2>2
    <3>4. past <= heapNext => past <= heapNext'
      BY <1>2, <1>5, <2>2
    <3> QED BY <2>3, <3>1, <3>2, <3>3, <3>4
  <2>5. Inside(objects[i])'
    BY <2>1, <2>4 DEF Inside, first, past, Moved
  <2>6. Kept(o) => past <= o.base \/ o.base + o.size <= first
    <3> SUFFICES ASSUME Kept(o)
                 PROVE  past <= o.base \/ o.base + o.size <= first
      OBVIOUS
    <3>1. PICK b, e, m \in Nat : b = o.base /\ e = o.base + o.size /\ m = Moved
      BY <1>2
    <3>2. CASE b = globalNext /\ e <= globalNext'
      BY <1>2, <1>5, <2>2, <2>3, <3>1, <3>2
    <3>3. CASE b = heapNext /\ e <= heapNext'
      BY <1>2, <1>5, <2>2, <2>3, <3>1, <3>3
    <3>4. CASE b = m + heapNext /\ e <= m + heapNext'
      BY <1>2, <1>5, <2>2, <2>3, <3>1, <3>4
    <3> QED BY <1>7, <3>1, <3>2, <3>3, <3>4
  <2> QED BY <2>1, <2>5, <2>6 DEF Before, first, past
<1>9. Kept(o) => Inside(o)'
  BY <1>2, <1>5, <1>7 DEF Inside, Moved
<1>10. \A i \in KeptIds' : Inside(objects[i])'
  BY <1>3, <1>4, <1>8, <1>9 DEF Inside
<1>11. \A i, j \in KeptIds' : i # j =>
         Before(objects[i], objects[j])' \/ Before(objects[j], objects[i])'
  <2> TAKE i \in KeptIds', j \in KeptIds'
  <2>1. CASE i \in KeptIds /\ j \in KeptIds
    BY <2>1, <1>1, <1>3, <1>4, ObjectTypes DEF Layout, Before
  <2>2. CASE i \in KeptIds /\ j = n
    BY <2>2, <1>1, <1>3, <1>4, <1>8, ObjectTypes DEF Before
  <2>3. CASE i = n /\ j \in KeptIds
    BY <2>3, <1>1, <1>3, <1>4, <1>8, ObjectTypes DEF Before
  <2> QED BY <2>1, <2>2, <2>3, <1>4
<1>12. \A i \in Of({"pitched"})' :
         objects'[i].size = objects'[i].width * objects'[i].height
  <2> TAKE i \in Of({"pitched"})'
  <2>1. i \in Ids' /\ objects'[i].kind = "pitched"
    BY DEF Of
  <2>2. CASE i = n
    BY <2>1, <2>2, <1>3 DEF Begins
  <2>3. CASE i \in Ids
    BY <2>1, <2>3, <1>1, <1>3, <1>4 DEF Layout, Of
  <2> QED BY <2>1, <2>2, <2>3, <1>3, <1>4
<1> QED BY <1>6, <1>10, <1>11, <1>12 DEF MemoryInv, Layout

\* Only the pinned sizes may change when no object begins.
NoneBegins ==
  /\ UNCHANGED <<heapNext, globalNext, objects>>
  /\ pinned' \in [HostPtrs -> Int]

\* What the calls do to the objects.
LEMMA StepShapes ==
  ASSUME MemoryInv, Next
  PROVE  NoneBegins \/ \E o \in Objects : Begins(o)
<1> DEFINE Shaped == NoneBegins \/ \E o \in Objects : Begins(o)
<1>1. MemoryType
  BY DEF MemoryInv
<1>2. Sizes \subseteq Nat /\ globalNext \in Nat /\ heapNext \in Nat
      /\ HeapLimit \in Nat
  BY <1>1, MemoryAssumption DEF MemoryType
<1>3. ASSUME NEW o \in Objects, NEW size \in Nat,
             o.size = size, Allocate(size), Own(o),
             Kept(o) => \/ o.base = heapNext
                        \/ /\ o.base = Moved + heapNext
                           /\ o.base + o.size <= AddrRange,
             o.kind = "pitched" => o.size = o.width * o.height,
             UNCHANGED <<globalNext, pinned>>
      PROVE  Shaped
  BY <1>1, <1>3, AllocateEffect DEF Own, Begins
<1>4. ASSUME NEW s \in Sizes, Malloc(s)
      PROVE  Shaped
  <2>1. Plain("linear", heapNext, s) \in Objects
    BY <1>2 DEF Plain, Objects
  <2> QED BY <1>2, <1>3, <1>4, <2>1 DEF Malloc, Plain
<1>5. ASSUME NEW s \in Sizes, LoadGlobal(s)
      PROVE  Shaped
  <2>1. Plain("symbol", globalNext, s) \in Objects
    BY <1>2 DEF Plain, Objects
  <2> QED BY <1>2, <1>5, <2>1 DEF LoadGlobal, Plain, Own, Begins
<1>6. ASSUME NEW h \in HostPtrs, NEW s \in Sizes, HostAlloc(h, s)
      PROVE  Shaped
  <2>1. pinned' \in [HostPtrs -> Int]
    BY <1>1, <1>2, <1>6 DEF HostAlloc, MemoryType
  <2>2. UNCHANGED <<heapNext, globalNext, objects>>
    BY <1>6 DEF HostAlloc
  <2> QED BY <2>1, <2>2 DEF NoneBegins
<1>7. ASSUME NEW w \in Sizes, NEW h \in Sizes, MallocPitch(w, h)
      PROVE  Shaped
  <2> DEFINE pitch == w % UintRange
             size  == pitch * h
             o     == Pitched(heapNext, size, pitch, h)
  <2>1. pitch \in Nat /\ h \in Nat
    BY <1>2, UintIsNat
  <2>2. size \in Nat
    BY <2>1
  <2>3. Allocate(size) /\ Own(o) /\ UNCHANGED <<globalNext, pinned>>
    BY <1>7 DEF MallocPitch
  <2> HIDE DEF pitch
  <2>4. /\ o \in Objects /\ o.base = heapNext /\ o.size = size
        /\ o.size = o.width * o.height
    BY <1>2, <2>1, <2>2 DEF Pitched, Objects
  <2> HIDE DEF size, o
  <2> QED BY <1>3, <2>2, <2>3, <2>4
<1>8. ASSUME NEW w \in Sizes, NEW h \in Sizes, MallocArray(w, h)
      PROVE  Shaped
  <2> DEFINE size == (w * h) % UintRange
             o    == Array(heapNext, SignExtended(heapNext), size, w, h)
  <2>1. w \in Nat /\ h \in Nat /\ w * h \in Nat
    BY <1>2
  <2>2. size \in Nat
    BY <2>1, UintIsNat
  <2>3. Allocate(size) /\ Own(o) /\ UNCHANGED <<globalNext, pinned>>
    BY <1>8 DEF MallocArray
  <2>4. /\ SignExtended(heapNext) \in Nat
        /\ heapNext < PtrRange => SignExtended(heapNext) \in {heapNext, Moved + heapNext}
    BY <1>2, SignExtension
  <2> HIDE DEF size
  <2>5. /\ o \in Objects /\ o.base = SignExtended(heapNext) /\ o.size = size
        /\ o.kind = "array" /\ o.given = heapNext
    BY <1>2, <2>1, <2>2, <2>4 DEF Array, Objects
  <2> HIDE DEF o
  <2>6. Kept(o) => \/ o.base = heapNext
                   \/ /\ o.base = Moved + heapNext
                      /\ o.base + o.size <= AddrRange
    BY <1>2, <2>2, <2>4, <2>5, RangesInOrder DEF Kept
  <2> QED BY <1>3, <2>2, <2>3, <2>5, <2>6
<1>9. ASSUME NEW h \in HostPtrs, HostGetDevicePointer(h)
      PROVE  Shaped
  <2>1. pinned[h] \in Nat
    BY <1>9 DEF HostGetDevicePointer
  <2>2. Plain("linear", heapNext, pinned[h]) \in Objects
    BY <1>2, <2>1 DEF Plain, Objects
  <2> QED BY <1>3, <1>9, <2>1, <2>2 DEF HostGetDevicePointer, Plain
<1>10. ASSUME UNCHANGED <<heapNext, globalNext, objects, pinned>>
       PROVE  Shaped
  BY <1>1, <1>10 DEF NoneBegins, MemoryType
<1>11. ASSUME NEW sm, NEW t, NEW a, SharedAccess(sm, t, a) \/ LocalAccess(sm, t, a)
       PROVE  Shaped
  BY <1>10, <1>11 DEF SharedAccess, LocalAccess
<1> QED
  BY <1>4, <1>5, <1>6, <1>7, <1>8, <1>9, <1>11 DEF Next, FilledObject, Other

\* Every step of the allocation calls keeps the invariant.
LEMMA NextKeeps ==
  ASSUME MemoryInv, Next
  PROVE  MemoryInv'
<1>1. CASE NoneBegins
  BY <1>1 DEF NoneBegins, MemoryInv, MemoryType, Layout, Inside, Before, Of, Ids,
                 KeptIds, Kept
<1> QED BY <1>1, StepShapes, NewObject

LEMMA InitOK == Init => MemoryInv
<1> SUFFICES ASSUME Init PROVE MemoryInv
  OBVIOUS
<1>1. /\ objects = <<>> /\ Len(objects) = 0 /\ Ids = {} /\ Of({"pitched"}) = {}
      /\ KeptIds = {}
  BY DEF Init, Ids, Of, KeptIds
<1>2. MemoryType
  BY <1>1, MemoryAssumption, AddressAssumption DEF Init, MemoryType
<1> QED BY <1>1, <1>2 DEF MemoryInv, Layout

-----------------------------------------------------------------------------
(* No byte has two owners.                                                 *)

\* The bytes of an object that is kept follow one another.
LEMMA KeptBytes ==
  ASSUME MemoryInv, NEW i \in KeptIds
  PROVE  /\ objects[i].base + objects[i].size <= AddrRange
         /\ \A n \in 0 .. objects[i].size - 1 :
              /\ Byte(objects[i], n) = objects[i].base + n
              /\ Byte(objects[i], n) \in 0 .. AddrRange - 1
         /\ Bytes(objects[i])
              = objects[i].base .. objects[i].base + objects[i].size - 1
<1>1. PICK b, s \in Nat : b = objects[i].base /\ s = objects[i].size
  BY ObjectTypes DEF MemoryInv
<1>2. b + s <= AddrRange
  <2>1. /\ Inside(objects[i]) /\ globalNext \in Nat /\ heapNext \in Nat
        /\ globalNext < STATIC_ALLOC_LIMIT /\ heapNext <= HeapLimit
    BY DEF MemoryInv, Layout, MemoryType
  <2> QED BY <1>1, <2>1, RangesInOrder DEF Inside
<1>3. ASSUME NEW n \in 0 .. s - 1
      PROVE  Byte(objects[i], n) = b + n /\ b + n \in 0 .. AddrRange - 1
  <2>1. b + n \in 0 .. AddrRange - 1
    BY <1>1, <1>2, RangesInOrder
  <2> QED BY <1>1, <2>1, RangesInOrder, SmallRemainder DEF Byte
<1>4. Bytes(objects[i]) = {b + n : n \in 0 .. s - 1}
  BY <1>1, <1>3 DEF Bytes
<1>5. {b + n : n \in 0 .. s - 1} = b .. b + s - 1
  <2>1. ASSUME NEW a \in b .. b + s - 1
        PROVE  \E n \in 0 .. s - 1 : a = b + n
    <3>1. a - b \in 0 .. s - 1 /\ a = b + (a - b)
      BY <1>1
    <3> QED BY <3>1
  <2> QED BY <1>1, <2>1
<1> QED BY <1>1, <1>2, <1>3, <1>4, <1>5

\* The invariant in one statement about two objects.
LEMMA KeptApart ==
  ASSUME MemoryInv, NEW i \in KeptIds, NEW j \in KeptIds
  PROVE  /\ i # j => Bytes(objects[i]) \cap Bytes(objects[j]) = {}
         /\ \A b \in Bytes(objects[i]) : whichspace(b) = "global"
<1>1. MemoryType /\ Layout
  BY DEF MemoryInv
<1>2. /\ objects[i].base \in Nat /\ objects[i].size \in Nat
      /\ objects[j].base \in Nat /\ objects[j].size \in Nat
  BY <1>1, ObjectTypes
<1>3. i # j => Bytes(objects[i]) \cap Bytes(objects[j]) = {}
  <2>1. /\ Bytes(objects[i]) = objects[i].base .. objects[i].base + objects[i].size - 1
        /\ Bytes(objects[j]) = objects[j].base .. objects[j].base + objects[j].size - 1
    BY KeptBytes
  <2>2. i # j => \/ objects[i].base + objects[i].size <= objects[j].base
                 \/ objects[j].base + objects[j].size <= objects[i].base
    BY <1>1 DEF Layout, Before
  <2> SUFFICES ASSUME i # j, NEW a \in Bytes(objects[i]), a \in Bytes(objects[j])
               PROVE  FALSE
    OBVIOUS
  <2>3. PICK b, c, s, t \in Nat : /\ b = objects[i].base /\ s = objects[i].size
                                  /\ c = objects[j].base /\ t = objects[j].size
    BY <1>2
  <2>4. a \in b .. b + s - 1 /\ a \in c .. c + t - 1
    BY <2>1, <2>3
  <2>5. b + s <= c \/ c + t <= b
    BY <2>2, <2>3
  <2> QED BY <2>4, <2>5
<1>4. \A b \in Bytes(objects[i]) : whichspace(b) = "global"
  <2> TAKE b \in Bytes(objects[i])
  <2>1. b \in Int /\ objects[i].base <= b /\ b < objects[i].base + objects[i].size
    <3>1. Bytes(objects[i]) = objects[i].base .. objects[i].base + objects[i].size - 1
      BY KeptBytes
    <3> QED BY <1>2, <3>1
  <2>2. Inside(objects[i]) /\ globalNext \in Nat /\ globalNext < STATIC_ALLOC_LIMIT
    BY <1>1 DEF Layout, MemoryType
  <2>3. b < STATIC_ALLOC_LIMIT \/ b >= GLOBAL_HEAP_START
    BY <1>2, <2>1, <2>2, RangesInOrder DEF Inside
  <2> QED BY <2>3 DEF whichspace, isspace_global
<1> QED BY <1>3, <1>4

LEMMA InvKeepsApart == MemoryInv => ObjectsApart
<1> SUFFICES ASSUME MemoryInv, NEW i \in Ids, NEW j \in Ids,
                    Kept(objects[i]), Kept(objects[j])
             PROVE  /\ i # j => Bytes(objects[i]) \cap Bytes(objects[j]) = {}
                    /\ \A b \in Bytes(objects[i]) : whichspace(b) = "global"
  BY ObjectTypes DEF MemoryInv, ObjectsApart
<1>1. i \in KeptIds /\ j \in KeptIds
  BY DEF KeptIds
<1> QED BY <1>1, KeptApart

\* Where the bytes of all objects that are kept lie, as state formulas.
Placed ==
  \A i \in KeptIds :
    /\ Bytes(objects[i]) = objects[i].base .. objects[i].base + objects[i].size - 1
    /\ \A k \in 0 .. objects[i].size - 1 : /\ Byte(objects[i], k) = objects[i].base + k
                                           /\ Byte(objects[i], k) \in 0 .. AddrRange - 1

Apart ==
  \A i, j \in KeptIds : i # j => Bytes(objects[i]) \cap Bytes(objects[j]) = {}

LEMMA InvPlaces == MemoryInv => Placed /\ Apart
BY KeptBytes, KeptApart DEF Placed, Apart

\* The variables of the allocation calls make up the invariant.
LEMMA VarsKeep ==
  ASSUME MemoryInv, UNCHANGED vars
  PROVE  MemoryInv' /\ Ids' = Ids /\ KeptIds' = KeptIds /\ objects' = objects
BY DEF vars, MemoryInv, MemoryType, Layout, Inside, Before, Of, Ids, KeptIds, Kept

\* Globals, pitched, pinned and plain allocations, and the arrays that lie below
\* 2^32 of address, never share a byte, and whichspace calls every byte of them
\* global: gpu_malloc and the loading of the .ptx globals hand out disjoint
\* ranges outside the windows, and the sign extension of devPtr32 moves arrays
\* past the end of the heap and keeps them apart there.
THEOREM ObjectsStayApart == CopySpec => []ObjectsApart
<1>1. CopyInit => MemoryInv
  BY InitOK DEF CopyInit
<1>2. MemoryInv /\ [CopyNext]_<<vars, copyVars>> => MemoryInv'
  <2> SUFFICES ASSUME MemoryInv, [CopyNext]_<<vars, copyVars>>
               PROVE  MemoryInv'
    OBVIOUS
  <2>1. CASE Next
    BY <2>1, NextKeeps
  <2>2. CASE UNCHANGED vars
    BY <2>2, VarsKeep
  <2> QED BY <2>1, <2>2 DEF CopyNext, Copy, Allocation, Filling, Next
<1> QED BY <1>1, <1>2, InvKeepsApart, PTL DEF CopySpec

-----------------------------------------------------------------------------
(* Every object holds what was written to it.                              *)

\* The objects that hold what the application wrote, but for the bytes gone
\* astray.
Contents ==
  /\ memory \in [Addresses -> Values]
  /\ stored \in Seq(Seq(Values)) /\ Len(stored) = Len(objects)
  /\ \A i \in Ids : Len(stored[i]) = objects[i].size
  /\ \A i \in KeptIds : \A m \in 1 .. objects[i].size :
       Byte(objects[i], m - 1) \notin astray =>
         memory[Byte(objects[i], m - 1)] = stored[i][m]

\* Only what belongs to an object has been written, or gone astray.
Fresh ==
  \A a \in Addresses :
    a \in astray \/ memory[a] = 0 \/ \E i \in KeptIds : a \in Bytes(objects[i])

CopyInv == MemoryInv /\ Contents /\ Fresh

\* A function on 1 .. n is a sequence of length n.
LEMMA FunctionIsSeq ==
  ASSUME NEW S, NEW n \in Nat, NEW f \in [1 .. n -> S]
  PROVE  f \in Seq(S) /\ Len(f) = n /\ DOMAIN f = 1 .. n
OBVIOUS

\* A number and its remainder differ by the modulus some times.
LEMMA RemainderUnique ==
  ASSUME NEW r \in Nat \ {0}, NEW x \in Int, NEW q \in Int, NEW a \in 0 .. r - 1,
         x = r * q + a
  PROVE  x % r = a
OBVIOUS

\* The offset of an address from the first one leads back to it.
LEMMA OffsetBack ==
  ASSUME NEW r \in Nat \ {0}, NEW first \in Nat, NEW a \in 0 .. r - 1
  PROVE  /\ (a - first) % r \in 0 .. r - 1
         /\ (first + ((a - first) % r)) % r = a
<1>1. PICK x \in Int : x = a - first
  OBVIOUS
<1>2. /\ x % r \in 0 .. r - 1 /\ x \div r \in Int
      /\ x = r * (x \div r) + (x % r)
  OBVIOUS
<1>3. PICK k \in 0 .. r - 1, q \in Int : k = x % r /\ q = x \div r
  BY <1>2
<1>4. x = r * q + k
  BY <1>2, <1>3
<1>5. r * (-q) = -(r * q)
  OBVIOUS
<1>6. first + k = r * (-q) + a
  <2>1. PICK y \in Int : y = r * q
    OBVIOUS
  <2> QED BY <1>1, <1>4, <1>5, <2>1
<1>7. (first + k) % r = a
  <2>1. first + k \in Int /\ -q \in Int
    OBVIOUS
  <2> QED BY <1>6, <2>1, RemainderUnique
<1> QED BY <1>1, <1>3, <1>7

\* What a write does to an address: it holds the byte of the source whose number
\* leads to it, or what it held before, and then no number that does not
\* pass the last address leads to it.
Wrote(first, n, bytes, a) ==
  \/ \E k \in 0 .. n - 1 :
       a = (first + k) % AddrRange /\ memory'[a] = bytes[k + 1]
  \/ /\ memory'[a] = memory[a]
     /\ \A k \in 0 .. n - 1 : a # first + k

LEMMA WriteEffect ==
  ASSUME NEW first \in Nat, NEW n \in Nat, NEW bytes \in [1 .. n -> Values],
         Write(first, bytes), NEW a \in Addresses
  PROVE  Wrote(first, n, bytes, a)
<1>1. DOMAIN bytes = 1 .. n
  BY FunctionIsSeq
<1>2. PICK r \in Nat \ {0} : r = AddrRange
  BY MemoryAssumption
<1>3. a \in 0 .. r - 1
  BY <1>2 DEF Addresses
<1>4. PICK k \in 0 .. r - 1 : k = (a - first) % r
  BY <1>3, OffsetBack
<1>5. (first + k) % r = a
  BY <1>3, <1>4, OffsetBack
<1>6. memory'[a] = IF k + 1 \in DOMAIN bytes THEN bytes[k + 1] ELSE memory[a]
  BY <1>2, <1>4 DEF Write
<1>7. CASE k + 1 \in 1 .. n
  <2>1. k \in 0 .. n - 1
    BY <1>7
  <2> QED BY <1>1, <1>2, <1>5, <1>6, <1>7, <2>1 DEF Wrote
<1>8. CASE k + 1 \notin 1 .. n
  <2>1. memory'[a] = memory[a]
    BY <1>1, <1>6, <1>8
  <2>2. ASSUME NEW m \in 0 .. n - 1, a = first + m
        PROVE  FALSE
    <3>1. m \in 0 .. r - 1 /\ a - first = m
      BY <1>3, <2>2
    <3>2. k = m
      BY <1>4, <3>1, SmallRemainder
    <3> QED BY <1>8, <2>2, <3>2
  <2> QED BY <2>1, <2>2 DEF Wrote
<1> QED BY <1>7, <1>8

\* A write gives bytes of the source or leaves what was there.
LEMMA WriteType ==
  ASSUME NEW first \in Nat, NEW n \in Nat, NEW bytes \in [1 .. n -> Values],
         Write(first, bytes), memory \in [Addresses -> Values]
  PROVE  memory' \in [Addresses -> Values]
<1>1. ASSUME NEW a \in Addresses
      PROVE  memory'[a] \in Values
  <2>1. CASE memory'[a] = memory[a]
    BY <2>1
  <2>2. ASSUME NEW k \in 0 .. n - 1, memory'[a] = bytes[k + 1]
        PROVE  memory'[a] \in Values
    <3>1. k + 1 \in 1 .. n
      OBVIOUS
    <3> QED BY <2>2, <3>1
  <2> QED BY <2>1, <2>2, WriteEffect DEF Wrote
<1>2. memory' = [a \in Addresses |-> memory'[a]]
  BY DEF Write
<1> QED BY <1>1, <1>2

\* What of a write to an object is not lost stays inside the object, and is
\* what the application expects there.
WritesOwn(i, offset, n, bytes, words) ==
  \A k \in 0 .. n - 1 :
    \/ Byte(objects[i], offset + k) \in astray'
    \/ /\ i \in KeptIds /\ offset + k < objects[i].size
       /\ bytes[k + 1] = words[k + 1]

\* Such a write changes the object as expected, and what it does to another
\* object has gone astray.
LEMMA WriteKeeps ==
  ASSUME CopyInv, UNCHANGED vars, NEW i \in Ids, NEW offset \in Nat,
         NEW n \in Nat, NEW bytes \in [1 .. n -> Values],
         NEW words \in [1 .. n -> Values],
         Write(objects[i].base + offset, bytes), Stored(i, offset, words),
         astray \subseteq astray', WritesOwn(i, offset, n, bytes, words)
  PROVE  CopyInv'
<1>1. MemoryInv /\ MemoryType /\ Contents /\ Fresh
  BY DEF CopyInv, MemoryInv
<1>2. MemoryInv' /\ objects' = objects /\ Ids' = Ids /\ KeptIds' = KeptIds
  BY <1>1, VarsKeep
<1>3. DOMAIN bytes = 1 .. n /\ DOMAIN words = 1 .. n
  BY FunctionIsSeq
<1>4. \A k \in Ids : objects[k].base \in Nat /\ objects[k].size \in Nat
  BY <1>1, ObjectTypes
<1>5. PICK base, size \in Nat : base = objects[i].base /\ size = objects[i].size
  BY <1>4
<1>6. memory' \in [Addresses -> Values]
  <2>1. Write(base + offset, bytes) /\ base + offset \in Nat
    BY <1>5
  <2> QED BY <1>1, <2>1, WriteType DEF Contents
<1>7. ASSUME NEW a \in Addresses, a \notin astray'
      PROVE  \/ /\ i \in KeptIds
                /\ \E k \in 0 .. n - 1 :
                     /\ offset + k < size /\ a = Byte(objects[i], offset + k)
                     /\ memory'[a] = words[k + 1]
             \/ /\ memory'[a] = memory[a]
                /\ \A k \in 0 .. n - 1 : a # base + offset + k
  <2>1. Write(base + offset, bytes) /\ base + offset \in Nat
    BY <1>5
  <2>2. \/ \E k \in 0 .. n - 1 : /\ a = (base + offset + k) % AddrRange
                                 /\ memory'[a] = bytes[k + 1]
        \/ /\ memory'[a] = memory[a]
           /\ \A k \in 0 .. n - 1 : a # base + offset + k
    <3>1. Wrote(base + offset, n, bytes, a)
      BY <2>1, WriteEffect
    <3> QED BY <3>1 DEF Wrote
  <2>3. ASSUME NEW k \in 0 .. n - 1, a = (base + offset + k) % AddrRange,
               memory'[a] = bytes[k + 1]
        PROVE  /\ i \in KeptIds /\ offset + k < size
               /\ a = Byte(objects[i], offset + k) /\ memory'[a] = words[k + 1]
    <3>1. a = Byte(objects[i], offset + k)
      <4>1. base + offset + k = base + (offset + k)
        OBVIOUS
      <4> QED BY <1>5, <2>3, <4>1 DEF Byte
    <3> QED BY <1>5, <1>7, <2>3, <3>1 DEF WritesOwn
  <2> QED BY <2>2, <2>3
<1>8. Fresh'
  <2> SUFFICES ASSUME NEW a \in Addresses, a \notin astray'
               PROVE  memory'[a] = 0 \/ \E k \in KeptIds : a \in Bytes(objects[k])
    BY <1>2 DEF Fresh, Addresses, Bytes, Byte
  <2>1. CASE memory'[a] = memory[a]
    BY <1>1, <2>1 DEF Fresh
  <2>2. ASSUME i \in KeptIds, NEW k \in 0 .. n - 1, offset + k < size,
               a = Byte(objects[i], offset + k)
        PROVE  a \in Bytes(objects[i])
    <3>1. offset + k \in 0 .. size - 1
      BY <2>2
    <3> QED BY <1>5, <2>2, <3>1 DEF Bytes
  <2> QED BY <1>7, <2>1, <2>2
<1> DEFINE new == [m \in DOMAIN stored[i] |->
                     IF m - offset \in 1 .. n THEN words[m - offset]
                     ELSE stored[i][m]]
<1>9. /\ stored' = [stored EXCEPT ![i] = new]
      /\ DOMAIN stored = Ids /\ stored[i] \in Seq(Values)
      /\ DOMAIN stored[i] = 1 .. size
  <2>1. stored' = [stored EXCEPT ![i] = new]
    BY <1>3 DEF Stored
  <2>2. DOMAIN stored = Ids /\ stored[i] \in Seq(Values)
    BY <1>1, ObjectTypes DEF Contents
  <2>3. Len(stored[i]) = size
    BY <1>1, <1>5 DEF Contents
  <2> QED BY <2>1, <2>2, <2>3
<1>10. new \in Seq(Values) /\ Len(new) = size
  <2>1. ASSUME NEW m \in 1 .. size
        PROVE  new[m] \in Values
    BY <1>9, <2>1
  <2>2. new = [m \in 1 .. size |-> new[m]]
    BY <1>9
  <2> HIDE DEF new
  <2>3. new \in [1 .. size -> Values]
    BY <2>1, <2>2
  <2> QED BY <1>5, <2>3, FunctionIsSeq
<1>11. ASSUME NEW j \in KeptIds, NEW m \in 1 .. objects[j].size,
              Byte(objects[j], m - 1) \notin astray'
       PROVE  memory'[Byte(objects[j], m - 1)] = stored'[j][m]
  <2>1. j \in Ids /\ objects[j].base \in Nat /\ objects[j].size \in Nat
    BY <1>1, <1>4, ObjectTypes
  <2>2. PICK a : a = Byte(objects[j], m - 1)
    OBVIOUS
  <2>3. m \in Nat /\ m - 1 \in 0 .. objects[j].size - 1
    BY <2>1
  <2>4. a = objects[j].base + (m - 1) /\ a \in Addresses
    BY <1>1, <2>2, <2>3, KeptBytes DEF Addresses
  <2>5. a \in Bytes(objects[j])
    BY <2>2, <2>3 DEF Bytes
  <2>6. a \notin astray' /\ a \notin astray
    BY <1>11, <2>2
  <2>7. memory[a] = stored[j][m]
    BY <1>1, <2>2, <2>6 DEF Contents
  <2>8. ASSUME i \in KeptIds, NEW k \in 0 .. n - 1, offset + k < size,
               a = Byte(objects[i], offset + k), memory'[a] = words[k + 1]
        PROVE  memory'[a] = stored'[j][m]
    <3>1. offset + k \in 0 .. size - 1
      BY <2>8
    <3>2. a \in Bytes(objects[i])
      BY <1>5, <2>8, <3>1 DEF Bytes
    <3>3. i = j
      BY <1>1, <2>5, <2>8, <3>2, KeptApart
    <3>4. a = base + (offset + k)
      <4>1. PICK x \in 0 .. size - 1 : x = offset + k
        BY <3>1
      <4>2. Byte(objects[i], x) = base + x
        BY <1>1, <1>5, <2>8, KeptBytes
      <4> QED BY <2>8, <4>1, <4>2
    <3>5. m - offset = k + 1
      BY <1>5, <2>3, <2>4, <3>3, <3>4
    <3>6. m - offset \in 1 .. n
      BY <3>5
    <3>7. m \in DOMAIN stored[i]
      BY <1>5, <1>9, <3>3
    <3>8. new[m] = words[m - offset]
      BY <3>6, <3>7
    <3>9. stored'[j] = new
      BY <1>9, <3>3
    <3> QED BY <2>8, <3>5, <3>8, <3>9
  <2>9. ASSUME memory'[a] = memory[a], \A k \in 0 .. n - 1 : a # base + offset + k
        PROVE  memory'[a] = stored'[j][m]
    <3>1. CASE j # i
      <4>1. stored'[j] = stored[j]
        BY <1>9, <2>1, <3>1
      <4> QED BY <2>7, <2>9, <4>1
    <3>2. CASE j = i
      <4>1. m - offset \notin 1 .. n
        <5> SUFFICES ASSUME m - offset \in 1 .. n PROVE FALSE
          OBVIOUS
        <5>1. m - offset - 1 \in 0 .. n - 1
          OBVIOUS
        <5>2. a = base + offset + (m - offset - 1)
          BY <1>5, <2>3, <2>4, <3>2
        <5> QED BY <2>9, <5>1, <5>2
      <4>2. m \in DOMAIN stored[i]
        BY <1>5, <1>9, <3>2
      <4>3. new[m] = stored[i][m]
        BY <4>1, <4>2
      <4>4. stored'[j] = new
        BY <1>9, <3>2
      <4> QED BY <2>7, <2>9, <3>2, <4>3, <4>4
    <3> QED BY <3>1, <3>2
  <2>10. memory'[a] = stored'[j][m]
    BY <1>7, <2>4, <2>6, <2>8, <2>9
  <2> QED BY <2>2, <2>10
<1> HIDE DEF new
<1>12. /\ stored' \in Seq(Seq(Values)) /\ Len(stored') = Len(objects')
       /\ \A k \in Ids' : Len(stored'[k]) = objects'[k].size
  <2>1. stored \in Seq(Seq(Values)) /\ Len(stored) = Len(objects)
    BY <1>1 DEF Contents
  <2>2. stored' \in Seq(Seq(Values)) /\ Len(stored') = Len(stored)
    BY <1>9, <1>10, <2>1
  <2>3. ASSUME NEW k \in Ids
        PROVE  Len(stored'[k]) = objects[k].size
    <3>1. CASE k = i
      <4>1. stored'[k] = new
        BY <1>9, <3>1
      <4> QED BY <1>5, <1>10, <3>1, <4>1
    <3>2. CASE k # i
      <4>1. stored'[k] = stored[k]
        BY <1>9, <3>2
      <4> QED BY <1>1, <4>1 DEF Contents
    <3> QED BY <3>1, <3>2
  <2> QED BY <1>2, <2>1, <2>2, <2>3
<1>13. Contents'
  <2>1. memory' \in [Addresses' -> Values]
    BY <1>6 DEF Addresses
  <2>2. \A k \in KeptIds' : \A m \in 1 .. objects'[k].size :
          (Byte(objects[k], m - 1) \notin astray)' =>
            (memory[Byte(objects[k], m - 1)] = stored[k][m])'
    BY <1>2, <1>11 DEF Byte
  <2> QED BY <1>12, <2>1, <2>2 DEF Contents
<1> QED BY <1>2, <1>8, <1>13 DEF CopyInv

\* Every call that writes to an object keeps to it, or says what goes astray.
LEMMA CopyKeeps ==
  ASSUME CopyInv, Copy
  PROVE  CopyInv'
<1>1. MemoryInv /\ MemoryType /\ Contents /\ Layout /\ Sizes \subseteq Nat
  BY MemoryAssumption DEF CopyInv, MemoryInv
<1>2. UNCHANGED vars
  BY DEF Copy
<1>3. \A k \in Ids : objects[k].base \in Nat /\ objects[k].size \in Nat
  BY <1>1, ObjectTypes
<1>4. ASSUME NEW v \in Values, NEW count \in Nat
      PROVE  Same(v, count) \in [1 .. count -> Values]
  BY DEF Same
<1>5. ASSUME NEW i \in Ids, objects[i].kind # "array", NEW v \in Values,
             NEW count \in Nat, NEW offset \in Nat,
             offset + count <= objects[i].size,
             Write(objects[i].base + offset, Same(v, count)),
             Stored(i, offset, Same(v, count)), UNCHANGED astray
      PROVE  CopyInv'
  <2>1. i \in KeptIds
    BY <1>5 DEF KeptIds, Kept
  <2>2. PICK bytes \in [1 .. count -> Values] : bytes = Same(v, count)
    BY <1>4
  <2>3. WritesOwn(i, offset, count, bytes, bytes)
    BY <1>3, <1>5, <2>1 DEF WritesOwn
  <2> QED BY <1>2, <1>5, <2>2, <2>3, WriteKeeps
<1>6. ASSUME NEW i \in Ids, NEW v \in Values, NEW count \in Nat,
             Write(objects[i].base, Same(v, count)),
             Stored(i, 0, Same(v, count)),
             \/ /\ objects[i].kind # "array" /\ count <= objects[i].size
                /\ UNCHANGED astray
             \/ astray' = astray \cup Beyond(objects[i], count)
      PROVE  CopyInv'
  <2>1. objects[i].base + 0 = objects[i].base /\ 0 + count = count
    BY <1>3
  <2>2. CASE /\ objects[i].kind # "array" /\ count <= objects[i].size
             /\ UNCHANGED astray
    BY <1>5, <1>6, <2>1, <2>2
  <2>3. CASE astray' = astray \cup Beyond(objects[i], count)
    <3>1. PICK bytes \in [1 .. count -> Values] : bytes = Same(v, count)
      BY <1>4
    <3>2. ASSUME NEW k \in 0 .. count - 1, Byte(objects[i], 0 + k) \notin astray'
          PROVE  i \in KeptIds /\ 0 + k < objects[i].size
      <4>1. 0 + k = k /\ Byte(objects[i], k) \notin Beyond(objects[i], count)
        BY <2>3, <3>2
      <4>2. k \notin (IF Kept(objects[i]) THEN objects[i].size ELSE 0) .. count - 1
        BY <4>1 DEF Beyond
      <4> QED BY <1>3, <4>1, <4>2 DEF KeptIds
    <3>3. WritesOwn(i, 0, count, bytes, bytes)
      BY <3>2 DEF WritesOwn
    <3> QED BY <1>2, <1>6, <2>1, <2>3, <3>1, <3>3, WriteKeeps
  <2> QED BY <1>6, <2>2, <2>3
<1>7. ASSUME NEW i \in Ids, NEW v \in Values, NEW n \in Sizes, Set(i, n, v)
      PROVE  CopyInv'
  <2>1. objects[i].kind # "array" /\ n \in Nat
    BY <1>1, <1>7 DEF Set, Of
  <2> QED BY <1>6, <1>7, <2>1 DEF Set
<1>8. ASSUME NEW i \in Ids, NEW v \in Values, NEW n \in Sizes, Memcpy2D(i, n, v)
      PROVE  CopyInv'
  <2> DEFINE o == objects[i]
  <2>1. o.kind = "pitched" /\ n <= o.height /\ o \in Objects
    BY <1>1, <1>8, ObjectTypes DEF Memcpy2D, Of
  <2>2. o.width \in Nat /\ o.height \in Nat /\ o.size = o.width * o.height
    BY <1>1, <2>1 DEF Objects, Layout, Of
  <2>3. o.width * n \in Nat /\ o.width * n <= o.width * o.height
    BY <1>1, <2>1, <2>2
  <2>4. /\ Write(o.base, Same(v, o.width * n)) /\ Stored(i, 0, Same(v, o.width * n))
        /\ UNCHANGED astray /\ o.kind # "array"
    BY <1>8, <2>1 DEF Memcpy2D, Bytes2D
  <2> QED BY <1>6, <2>2, <2>3, <2>4
<1>9. ASSUME NEW i \in Ids, NEW v \in Values, Memcpy2DToArray(i, v)
      PROVE  CopyInv'
  <2> DEFINE o     == objects[i]
             count == o.width * o.height
  <2>1. o.kind = "array" /\ o \in Objects
    BY <1>1, <1>9, ObjectTypes DEF Memcpy2DToArray, Of
  <2>2. o.width \in Nat /\ o.height \in Nat
    BY <2>1 DEF Objects
  <2>3. count \in Nat
    BY <2>2
  <2>4. /\ Write(o.base, Same(v, count)) /\ Stored(i, 0, Same(v, count))
        /\ astray' = astray \cup Beyond(o, count)
    BY <1>9 DEF Memcpy2DToArray, Bytes2D
  <2> HIDE DEF count
  <2> QED BY <1>6, <2>3, <2>4
<1>10. ASSUME NEW i \in Ids, NEW v \in Values, NEW n \in Sizes,
              MemcpyToArray(i, n, v)
       PROVE  CopyInv'
  BY <1>1, <1>6, <1>10 DEF MemcpyToArray
<1>11. ASSUME NEW i \in Ids, NEW v \in Values, NEW n \in Sizes,
              NEW offset \in Sizes, MemcpyToSymbol(i, offset, n, v)
       PROVE  CopyInv'
  <2>1. objects[i].kind # "array"
    BY <1>11 DEF MemcpyToSymbol, Of
  <2> QED BY <1>1, <1>5, <1>11, <2>1 DEF MemcpyToSymbol
<1>12. ASSUME NEW i \in Ids, NEW j \in Ids, NEW n \in Sizes,
              MemcpyGpuToGpu(i, j, n)
       PROVE  CopyInv'
  <2>1. n \in Nat /\ n <= objects[i].size /\ n <= objects[j].size
    BY <1>1, <1>12 DEF MemcpyGpuToGpu
  <2>2. PICK bytes : bytes = Read(objects[i].base, n)
    OBVIOUS
  <2>3. PICK words : words = SubSeq(stored[i], 1, n)
    OBVIOUS
  <2>4. bytes \in [1 .. n -> Values]
    <3>1. ASSUME NEW m \in 1 .. n
          PROVE  memory[(objects[i].base + m - 1) % AddrRange] \in Values
      <4>1. PICK x \in Int : x = objects[i].base + m - 1
        BY <1>3
      <4>2. x % AddrRange \in Addresses
        BY RangesInOrder DEF Addresses
      <4> QED BY <1>1, <4>1, <4>2 DEF Contents
    <3> QED BY <2>2, <3>1 DEF Read
  <2>5. words \in [1 .. n -> Values] /\ \A m \in 1 .. n : words[m] = stored[i][m]
    <3>1. PICK f \in Seq(Values) : f = stored[i] /\ Len(f) = objects[i].size
      <4>1. stored \in Seq(Seq(Values)) /\ i \in 1 .. Len(stored)
        BY <1>1 DEF Contents, Ids
      <4>2. stored[i] \in Seq(Values)
        BY <4>1
      <4> QED BY <1>1, <4>2 DEF Contents
    <3>2. SubSeq(f, 1, n) \in Seq(Values) /\ Len(SubSeq(f, 1, n)) = n
          /\ \A m \in 1 .. n : SubSeq(f, 1, n)[m] = f[m]
      BY <1>3, <2>1, <3>1, SubSeqProperties
    <3>3. /\ words \in Seq(Values) /\ Len(words) = n
          /\ \A m \in 1 .. n : words[m] = stored[i][m]
      BY <2>3, <3>1, <3>2
    <3>4. words \in [1 .. n -> Values]
      BY <3>3
    <3> QED BY <3>3, <3>4
  <2>6. /\ Write(objects[j].base, bytes) /\ Stored(j, 0, words)
        /\ astray' = astray \cup Beyond(objects[j], n)
                        \cup {Byte(objects[j], m) : m \in Lost(i, n)}
    BY <1>12, <2>2, <2>3 DEF MemcpyGpuToGpu
  <2>7. ASSUME NEW k \in 0 .. n - 1, Byte(objects[j], 0 + k) \notin astray'
        PROVE  j \in KeptIds /\ 0 + k < objects[j].size /\ bytes[k + 1] = words[k + 1]
    <3>1. /\ 0 + k = k /\ Byte(objects[j], k) \notin Beyond(objects[j], n)
          /\ Byte(objects[j], k) \notin {Byte(objects[j], m) : m \in Lost(i, n)}
      BY <2>6, <2>7
    <3>2. k \notin (IF Kept(objects[j]) THEN objects[j].size ELSE 0) .. n - 1
      BY <3>1 DEF Beyond
    <3>3. j \in KeptIds /\ k < objects[j].size
      BY <1>3, <3>2 DEF KeptIds
    <3>4. k \notin Lost(i, n)
      BY <3>1
    <3>5. i \in KeptIds /\ Byte(objects[i], k) \notin astray
      BY <3>4 DEF Lost, KeptIds
    <3>6. k + 1 \in 1 .. n /\ k + 1 \in 1 .. objects[i].size /\ (k + 1) - 1 = k
      BY <1>3, <2>1
    <3>7. memory[Byte(objects[i], k)] = stored[i][k + 1]
      BY <1>1, <3>5, <3>6 DEF Contents
    <3>8. bytes[k + 1] = memory[Byte(objects[i], k)]
      <4>1. objects[i].base + (k + 1) - 1 = objects[i].base + k
        BY <1>3
      <4> QED BY <2>2, <3>6, <4>1 DEF Read, Byte
    <3> QED BY <2>5, <3>1, <3>3, <3>6, <3>7, <3>8
  <2>8. WritesOwn(j, 0, n, bytes, words)
    BY <2>7 DEF WritesOwn
  <2>9. objects[j].base + 0 = objects[j].base
    BY <1>3
  <2> QED BY <1>2, <2>1, <2>4, <2>5, <2>6, <2>8, <2>9, WriteKeeps
<1> QED
  BY <1>7, <1>8, <1>9, <1>10, <1>11, <1>12 DEF Copy

\* What a new object leaves as it was.
LEMMA NewIds ==
  ASSUME MemoryInv, NEW o \in Objects, objects' = Append(objects, o)
  PROVE  /\ Len(objects) \in Nat /\ Len(objects') = Len(objects) + 1
         /\ objects'[Len(objects) + 1] = o /\ Last(objects') = o
         /\ o.base \in Nat /\ o.size \in Nat /\ objects' # objects
         /\ Ids' = 1 .. Len(objects) + 1 /\ Ids = 1 .. Len(objects)
         /\ \A i \in Ids : objects'[i] = objects[i]
         /\ KeptIds \subseteq KeptIds'
         /\ \A i \in KeptIds' : i \in KeptIds \/ i = Len(objects) + 1
<1>1. objects \in Seq(Objects)
  BY DEF MemoryInv, MemoryType
<1>2. /\ Len(objects) \in Nat /\ Len(objects') = Len(objects) + 1
      /\ objects'[Len(objects) + 1] = o
      /\ \A i \in 1 .. Len(objects) : objects'[i] = objects[i]
  BY <1>1
<1>3. /\ Ids' = 1 .. Len(objects) + 1 /\ Ids = 1 .. Len(objects)
      /\ \A i \in Ids : objects'[i] = objects[i]
  BY <1>2 DEF Ids
<1>4. Last(objects') = o /\ objects' # objects
  BY <1>2 DEF Last
<1>5. o.base \in Nat /\ o.size \in Nat
  BY DEF Objects
<1>6. /\ KeptIds \subseteq KeptIds'
      /\ \A i \in KeptIds' : i \in KeptIds \/ i = Len(objects) + 1
  BY <1>2, <1>3 DEF KeptIds, Kept
<1> QED BY <1>2, <1>3, <1>4, <1>5, <1>6

\* What is stored of a new object, all of one value.
LEMMA NewStored ==
  ASSUME MemoryInv, Contents, NEW o \in Objects, objects' = Append(objects, o),
         NEW v \in Values, stored' = Append(stored, Same(v, o.size))
  PROVE  /\ stored' \in Seq(Seq(Values)) /\ Len(stored') = Len(objects')
         /\ \A i \in Ids' : Len(stored'[i]) = objects'[i].size
         /\ \A i \in Ids : stored'[i] = stored[i]
         /\ \A m \in 1 .. o.size : stored'[Len(objects) + 1][m] = v
<1>1. PICK new : new = Same(v, o.size)
  OBVIOUS
<1>2. o.size \in Nat /\ Len(objects) \in Nat /\ Len(objects') = Len(objects) + 1
  BY NewIds
<1>3. /\ new \in [1 .. o.size -> Values] /\ \A m \in 1 .. o.size : new[m] = v
  BY <1>1 DEF Same
<1>4. new \in Seq(Values) /\ Len(new) = o.size
  BY <1>2, <1>3, FunctionIsSeq
<1>5. /\ stored' \in Seq(Seq(Values)) /\ Len(stored') = Len(objects) + 1
      /\ stored'[Len(objects) + 1] = new
      /\ \A i \in 1 .. Len(objects) : stored'[i] = stored[i]
  <2>1. stored \in Seq(Seq(Values)) /\ Len(stored) = Len(objects)
    BY DEF Contents
  <2>2. stored' = Append(stored, new)
    BY <1>1
  <2> QED BY <1>2, <1>4, <2>1, <2>2
<1>6. \A i \in Ids : stored'[i] = stored[i] /\ Len(stored[i]) = objects[i].size
  BY <1>5, NewIds DEF Contents
<1>7. \A i \in Ids' : Len(stored'[i]) = objects'[i].size
  <2> TAKE i \in Ids'
  <2>1. CASE i \in Ids
    BY <1>6, <2>1, NewIds
  <2>2. CASE i = Len(objects) + 1
    BY <1>4, <1>5, <2>2, NewIds
  <2>3. i \in Ids \/ i = Len(objects) + 1
    <3>1. Ids' = 1 .. Len(objects) + 1 /\ Ids = 1 .. Len(objects)
      BY NewIds
    <3> QED BY <1>2, <3>1
  <2> QED BY <2>1, <2>2, <2>3
<1> QED BY <1>2, <1>3, <1>5, <1>6, <1>7

\* A new object lies where nothing has been written.
LEMMA AllocationKeeps ==
  ASSUME CopyInv, Allocation
  PROVE  CopyInv'
<1>1. MemoryInv /\ Contents /\ Fresh /\ Next /\ memory' = memory /\ astray' = astray
  BY DEF CopyInv, Allocation, Next
<1>2. MemoryInv'
  BY <1>1, NextKeeps
<1>3. CASE NoneBegins
  <2>1. objects' = objects /\ stored' = stored
    BY <1>3 DEF NoneBegins, Allocation
  <2> QED BY <1>1, <1>2, <2>1
     DEF CopyInv, Contents, Fresh, Addresses, Ids, KeptIds, Kept, Bytes, Byte
<1>4. ASSUME NEW o \in Objects, Begins(o)
      PROVE  CopyInv'
  <2>1. objects' = Append(objects, o)
    BY <1>4 DEF Begins
  <2>2. stored' = Append(stored, Same(0, o.size))
    <3>1. objects' # objects /\ Last(objects') = o
      BY <1>1, <2>1, NewIds
    <3> QED BY <3>1 DEF Allocation
  <2> DEFINE n == Len(objects) + 1
  <2>3. /\ stored' \in Seq(Seq(Values)) /\ Len(stored') = Len(objects')
        /\ \A i \in Ids' : Len(stored'[i]) = objects'[i].size
        /\ \A i \in Ids : stored'[i] = stored[i]
        /\ \A m \in 1 .. o.size : stored'[n][m] = 0
    BY <1>1, <2>1, <2>2, ValuesAssumption, NewStored
  <2>4. /\ objects'[n] = o /\ o.size \in Nat
        /\ \A i \in Ids : objects'[i] = objects[i]
        /\ KeptIds \subseteq KeptIds' /\ KeptIds \subseteq Ids
        /\ n \notin KeptIds
        /\ \A i \in KeptIds' : i \in KeptIds \/ i = n
    <3>1. KeptIds \subseteq Ids
      BY DEF KeptIds
    <3>2. Ids = 1 .. Len(objects) /\ Len(objects) \in Nat
      BY <1>1, <2>1, NewIds
    <3> QED BY <1>1, <2>1, <3>1, <3>2, NewIds
  <2> HIDE DEF n
  <2>5. ASSUME NEW i \in KeptIds', NEW m \in 1 .. objects'[i].size,
               Byte(objects'[i], m - 1) \notin astray
        PROVE  memory[Byte(objects'[i], m - 1)] = stored'[i][m]
    <3>1. CASE i \in KeptIds
      BY <1>1, <2>3, <2>4, <2>5, <3>1 DEF Contents
    <3>2. CASE i = n
      <4>1. PICK a : a = Byte(objects'[n], m - 1)
        OBVIOUS
      <4>2. m - 1 \in 0 .. o.size - 1
        BY <2>4, <2>5, <3>2
      <4>3. a \in Bytes(objects'[n])
        BY <2>4, <4>1, <4>2 DEF Bytes
      <4>4. a \in Addresses
        <5>1. Placed'
          BY <1>2, InvPlaces, PTL
        <5>2. \A k \in 0 .. objects'[i].size - 1 :
                 Byte(objects'[i], k) \in 0 .. AddrRange - 1
          BY <5>1 DEF Placed, Byte
        <5> QED BY <2>4, <3>2, <4>1, <4>2, <5>2 DEF Addresses
      <4>5. ASSUME NEW j \in KeptIds, a \in Bytes(objects[j])
            PROVE  FALSE
        <5>1. j \in KeptIds' /\ j # n /\ objects'[j] = objects[j]
          BY <2>4
        <5>2. Apart'
          BY <1>2, InvPlaces, PTL
        <5>3. Bytes(objects'[i]) \cap Bytes(objects'[j]) = {}
          BY <3>2, <5>1, <5>2 DEF Apart, Bytes, Byte
        <5> QED BY <3>2, <4>3, <4>5, <5>1, <5>3
      <4>6. memory[a] = 0
        BY <1>1, <2>5, <3>2, <4>1, <4>4, <4>5 DEF Fresh
      <4> QED BY <2>3, <2>4, <2>5, <3>2, <4>1, <4>6
    <3> QED BY <2>4, <3>1, <3>2
  <2>6. Contents'
    <3>1. (\A k \in KeptIds : \A m \in 1 .. objects[k].size :
             Byte(objects[k], m - 1) \notin astray =>
               memory[Byte(objects[k], m - 1)] = stored[k][m])'
      BY <1>1, <2>5 DEF Byte
    <3>2. memory' \in [Addresses' -> Values]
      BY <1>1 DEF Contents, Addresses
    <3> QED BY <2>3, <3>1, <3>2 DEF Contents
  <2>7. Fresh'
    <3> SUFFICES ASSUME NEW a \in Addresses, NEW k \in KeptIds, a \in Bytes(objects[k])
                 PROVE  k \in KeptIds' /\ a \in Bytes(objects'[k])
      BY <1>1 DEF Fresh, Addresses, Bytes, Byte
    <3> QED BY <2>4
  <2> QED BY <1>2, <2>6, <2>7 DEF CopyInv
<1> QED BY <1>1, <1>3, <1>4, StepShapes

\* The contents a new object comes with are written to its bytes only.
LEMMA FillingKeeps ==
  ASSUME CopyInv, NEW v \in Values, Filling(v)
  PROVE  CopyInv'
<1>1. MemoryInv /\ Contents /\ Fresh /\ Next /\ astray' = astray
  BY DEF CopyInv, Filling, Next
<1>2. MemoryInv'
  BY <1>1, NextKeeps
<1>3. PICK o \in Objects : objects' = Append(objects, o) /\ o.kind # "array"
  <2>1. ASSUME NEW s \in Sizes, LoadGlobal(s)
        PROVE  \E o \in Objects : objects' = Append(objects, o) /\ o.kind # "array"
    <3>1. Plain("symbol", globalNext, s) \in Objects
      BY <1>1, MemoryAssumption DEF Plain, Objects, MemoryInv, MemoryType
    <3>2. Plain("symbol", globalNext, s).kind # "array"
      BY DEF Plain
    <3> QED BY <2>1, <3>1, <3>2 DEF LoadGlobal, Own
  <2>2. ASSUME NEW h \in HostPtrs, HostGetDevicePointer(h)
        PROVE  \E o \in Objects : objects' = Append(objects, o) /\ o.kind # "array"
    <3>1. Plain("linear", heapNext, pinned[h]) \in Objects
      BY <1>1, <2>2
      DEF Plain, Objects, MemoryInv, MemoryType, HostGetDevicePointer
    <3>2. Plain("linear", heapNext, pinned[h]).kind # "array"
      BY DEF Plain
    <3> QED BY <2>2, <3>1, <3>2 DEF HostGetDevicePointer, Own
  <2> QED BY <2>1, <2>2 DEF Filling, FilledObject
<1> DEFINE n == Len(objects) + 1
<1>4. /\ objects'[n] = o /\ o.size \in Nat /\ o.base \in Nat
      /\ \A i \in Ids : objects'[i] = objects[i]
      /\ KeptIds \subseteq KeptIds' /\ KeptIds \subseteq Ids
      /\ n \notin KeptIds /\ n \in KeptIds' /\ Last(objects') = o
      /\ \A i \in KeptIds' : i \in KeptIds \/ i = n
  <2>1. KeptIds \subseteq Ids
    BY DEF KeptIds
  <2>2. /\ Ids = 1 .. Len(objects) /\ Len(objects) \in Nat /\ Ids' = 1 .. n
        /\ objects'[n] = o
    BY <1>1, <1>3, NewIds
  <2>3. n \in KeptIds'
    BY <1>3, <2>2 DEF KeptIds, Kept
  <2> QED BY <1>1, <1>3, <2>1, <2>2, <2>3, NewIds
<1>5. PICK bytes \in [1 .. o.size -> Values] : bytes = Same(v, o.size)
  BY DEF Same
<1>6. Write(o.base, bytes) /\ stored' = Append(stored, Same(v, o.size))
  BY <1>4, <1>5 DEF Filling
<1>7. /\ stored' \in Seq(Seq(Values)) /\ Len(stored') = Len(objects')
      /\ \A i \in Ids' : Len(stored'[i]) = objects'[i].size
      /\ \A i \in Ids : stored'[i] = stored[i]
      /\ \A m \in 1 .. o.size : stored'[n][m] = v
  BY <1>1, <1>3, <1>6, NewStored
<1> HIDE DEF n
<1>8. memory' \in [Addresses -> Values]
  BY <1>1, <1>4, <1>6, WriteType DEF Contents
<1>9. /\ Bytes(o) = o.base .. o.base + o.size - 1
      /\ \A k \in 0 .. o.size - 1 : /\ Byte(o, k) = o.base + k
                                    /\ Byte(o, k) \in 0 .. AddrRange - 1
  <2>1. Placed'
    BY <1>2, InvPlaces, PTL
  <2>2. \A i \in KeptIds' :
          /\ Bytes(objects'[i])
               = objects'[i].base .. objects'[i].base + objects'[i].size - 1
          /\ \A k \in 0 .. objects'[i].size - 1 :
               /\ Byte(objects'[i], k) = objects'[i].base + k
               /\ Byte(objects'[i], k) \in 0 .. AddrRange - 1
    BY <2>1 DEF Placed, Bytes, Byte
  <2> QED BY <1>4, <2>2
<1>10. ASSUME NEW a \in Addresses
       PROVE  /\ a \in Bytes(o) => memory'[a] = v
              /\ a \notin Bytes(o) => memory'[a] = memory[a]
  <2>1. \/ \E k \in 0 .. o.size - 1 :
             a = (o.base + k) % AddrRange /\ memory'[a] = bytes[k + 1]
        \/ /\ memory'[a] = memory[a]
           /\ \A k \in 0 .. o.size - 1 : a # o.base + k
    <3>1. Wrote(o.base, o.size, bytes, a)
      BY <1>4, <1>6, WriteEffect
    <3> QED BY <3>1 DEF Wrote
  <2>2. ASSUME NEW k \in 0 .. o.size - 1, a = (o.base + k) % AddrRange,
               memory'[a] = bytes[k + 1]
        PROVE  a \in Bytes(o) /\ memory'[a] = v
    <3>1. a \in Bytes(o)
      BY <2>2 DEF Bytes, Byte
    <3>2. k + 1 \in 1 .. o.size
      BY <1>4
    <3> QED BY <1>5, <2>2, <3>1, <3>2 DEF Same
  <2>3. ASSUME \A k \in 0 .. o.size - 1 : a # o.base + k
        PROVE  a \notin Bytes(o)
    <3> SUFFICES ASSUME a \in o.base .. o.base + o.size - 1 PROVE FALSE
      BY <1>9
    <3>1. a - o.base \in 0 .. o.size - 1 /\ a = o.base + (a - o.base)
      BY <1>4
    <3> QED BY <2>3, <3>1
  <2> QED BY <2>1, <2>2, <2>3
<1>11. ASSUME NEW j \in KeptIds
       PROVE  Bytes(objects[j]) \cap Bytes(o) = {}
  <2>1. Apart'
    BY <1>2, InvPlaces, PTL
  <2>2. Bytes(objects'[j]) \cap Bytes(objects'[n]) = {}
    BY <1>4, <2>1 DEF Apart, Bytes, Byte
  <2> QED BY <1>4, <2>2
<1>12. ASSUME NEW i \in KeptIds', NEW m \in 1 .. objects'[i].size,
              Byte(objects'[i], m - 1) \notin astray
       PROVE  memory'[Byte(objects'[i], m - 1)] = stored'[i][m]
  <2>1. CASE i \in KeptIds
    <3>1. PICK a : a = Byte(objects[i], m - 1)
      OBVIOUS
    <3>2. objects'[i] = objects[i] /\ stored'[i] = stored[i] /\ objects[i].size \in Nat
      BY <1>1, <1>4, <1>7, <2>1, ObjectTypes DEF MemoryInv
    <3>3. m - 1 \in 0 .. objects[i].size - 1
      BY <1>12, <3>2
    <3>4. a \in Bytes(objects[i]) /\ a \in Addresses
      BY <1>1, <2>1, <3>1, <3>3, KeptBytes DEF Bytes, Addresses
    <3>5. memory[a] = stored[i][m]
      BY <1>1, <1>12, <2>1, <3>1, <3>2 DEF Contents
    <3> QED BY <1>10, <1>11, <2>1, <3>1, <3>2, <3>4, <3>5
  <2>2. CASE i = n
    <3>1. PICK a : a = Byte(o, m - 1)
      OBVIOUS
    <3>2. m \in 1 .. o.size /\ m - 1 \in 0 .. o.size - 1
      BY <1>4, <1>12, <2>2
    <3>3. a \in Bytes(o) /\ a \in Addresses
      BY <1>9, <3>1, <3>2 DEF Bytes, Addresses
    <3> QED BY <1>4, <1>7, <1>10, <2>2, <3>1, <3>2, <3>3
  <2> QED BY <1>4, <2>1, <2>2
<1>13. Contents'
  <2>1. (\A k \in KeptIds : \A m \in 1 .. objects[k].size :
           Byte(objects[k], m - 1) \notin astray =>
             memory[Byte(objects[k], m - 1)] = stored[k][m])'
    BY <1>1, <1>12 DEF Byte
  <2>2. memory' \in [Addresses' -> Values]
    BY <1>8 DEF Addresses
  <2> QED BY <1>7, <2>1, <2>2 DEF Contents
<1>14. Fresh'
  <2> SUFFICES ASSUME NEW a \in Addresses, a \notin astray
               PROVE  memory'[a] = 0 \/ \E k \in KeptIds' : a \in Bytes(objects'[k])
    BY <1>1 DEF Fresh, Addresses, Bytes, Byte
  <2>1. CASE a \in Bytes(o)
    BY <1>4, <2>1
  <2>2. CASE a \notin Bytes(o)
    <3>1. memory'[a] = memory[a]
      BY <1>10, <2>2
    <3>2. CASE memory[a] = 0
      BY <3>1, <3>2
    <3>3. ASSUME NEW k \in KeptIds, a \in Bytes(objects[k])
          PROVE  \E l \in KeptIds' : a \in Bytes(objects'[l])
      BY <1>4, <3>3
    <3> QED BY <1>1, <3>2, <3>3 DEF Fresh
  <2> QED BY <2>1, <2>2
<1> QED BY <1>2, <1>13, <1>14 DEF CopyInv

\* Whatever is allocated, set and copied in whatever order, every object holds
\* what the application last wrote to it: the first address and the number
\* of bytes each call of the runtime computes stay within the object, and no
\* allocation hands out bytes that have been written.  Only the calls on arrays
\* that were given too few bytes, or lie where devPtr32 cannot tell, write
\* elsewhere, and no further than they say.
THEOREM ContentsAreKept == CopySpec => []ContentsKept
<1>1. CopyInit => CopyInv
  <2> SUFFICES ASSUME CopyInit PROVE CopyInv
    OBVIOUS
  <2>1. MemoryInv /\ objects = <<>> /\ stored = <<>> /\ Ids = {} /\ KeptIds = {}
    BY InitOK DEF CopyInit, Init, Ids, KeptIds
  <2>2. memory = [a \in Addresses |-> 0]
    BY DEF CopyInit
  <2>3. Contents
    BY <2>1, <2>2, ValuesAssumption DEF Contents
  <2> QED BY <2>1, <2>2, <2>3 DEF CopyInv, Fresh
<1>2. CopyInv /\ [CopyNext]_<<vars, copyVars>> => CopyInv'
  <2> SUFFICES ASSUME CopyInv, [CopyNext]_<<vars, copyVars>>
               PROVE  CopyInv'
    OBVIOUS
  <2>1. CASE UNCHANGED <<vars, copyVars>>
    <3>1. UNCHANGED vars /\ UNCHANGED copyVars /\ MemoryInv /\ Contents /\ Fresh
      BY <2>1 DEF CopyInv
    <3>2. /\ MemoryInv' /\ Ids' = Ids /\ KeptIds' = KeptIds /\ objects' = objects
      BY <3>1, VarsKeep
    <3> QED BY <3>1, <3>2 DEF copyVars, CopyInv, Contents, Fresh, Addresses, Bytes, Byte
  <2> QED BY <2>1, AllocationKeeps, FillingKeeps, CopyKeeps DEF CopyNext
<1>3. CopyInv => ContentsKept
  <2> SUFFICES ASSUME CopyInv, NEW i \in Ids, Kept(objects[i]),
                      NEW n \in 1 .. objects[i].size,
                      Byte(objects[i], n - 1) \notin astray
               PROVE  Read(objects[i].base, objects[i].size)[n] = stored[i][n]
    BY DEF ContentsKept, CopyInv, Contents
  <2>1. i \in KeptIds /\ objects[i].base \in Nat /\ objects[i].size \in Nat
    BY ObjectTypes DEF KeptIds, CopyInv, MemoryInv
  <2>2. objects[i].base + n - 1 = objects[i].base + (n - 1)
    BY <2>1
  <2>3. Read(objects[i].base, objects[i].size)[n] = memory[Byte(objects[i], n - 1)]
    BY <2>2 DEF Read, Byte
  <2> QED BY <2>1, <2>3 DEF CopyInv, Contents
<1> QED BY <1>1, <1>2, <1>3, PTL DEF CopySpec
-----------------------------------------------------------------------------
(* Positions in blocks of equal size.                                      *)

\* Products of numbers.
LEMMA Multiples ==
  ASSUME NEW b \in Nat, NEW i \in Nat, NEW j \in Nat
  PROVE  i * b \in Nat /\ (i < j => i * b + b <= j * b)
<1>1. \A a, c \in Nat : a * c \in Nat
  OBVIOUS
<1>2. ASSUME i < j PROVE i * b + b <= j * b
  <2>1. PICK d \in Nat : j = i + 1 + d
    BY <1>2, j = i + 1 + (j - i - 1)
  <2>2. d * b \in Nat /\ j * b = i * b + b + d * b
    BY <1>1, <2>1
  <2>3. i * b \in Nat
    BY <1>1
  <2> QED BY <2>2, <2>3
<1> QED BY <1>1, <1>2

\* A number in the i-th block of b numbers is in no other block.
LEMMA Digits ==
  ASSUME NEW b \in Nat, NEW i \in Nat, NEW j \in Nat, NEW x \in 0 .. b - 1
  PROVE  j * b <= i * b + x /\ i * b + x < j * b + b <=> i = j
<1>1. i * b \in Nat /\ j * b \in Nat
  BY Multiples
<1>2. i < j => i * b + b <= j * b
  BY Multiples
<1>3. j < i => j * b + b <= i * b
  BY Multiples
<1> QED BY <1>1, <1>2, <1>3

\* A number is in one way a block and a place in it.
LEMMA DigitsUnique ==
  ASSUME NEW b \in Nat, NEW i \in Nat, NEW j \in Nat,
         NEW x \in 0 .. b - 1, NEW y \in 0 .. b - 1
  PROVE  i * b + x = j * b + y <=> i = j /\ x = y
<1>1. i * b \in Nat /\ j * b \in Nat
  BY Multiples
<1>2. i < j => i * b + b <= j * b
  BY Multiples
<1>3. j < i => j * b + b <= i * b
  BY Multiples
<1> QED BY <1>1, <1>2, <1>3

-----------------------------------------------------------------------------
(* Generic addresses.                                                      *)

\* The shared window of an SM lies above the local ones and below the heap.
LEMMA SharedWindowPlace ==
  ASSUME NEW sm \in SMs, NEW addr \in 0 .. SHARED_MEM_SIZE_MAX - 1
  PROVE  /\ SharedWindow(sm) + addr \in Int
         /\ LOCAL_GENERIC_START <= SHARED_GENERIC_START
         /\ SHARED_GENERIC_START <= SharedWindow(sm) + addr
         /\ SharedWindow(sm) + addr < GLOBAL_HEAP_START
<1>1. PICK B \in Nat : B = SHARED_MEM_SIZE_MAX
  BY AddressAssumption
<1>2. PICK M \in Nat : M = MAX_STREAMING_MULTIPROCESSORS
  BY AddressAssumption
<1>3. sm * B \in Nat /\ sm * B + B <= M * B /\ M * B \in Nat
  BY <1>1, <1>2, Multiples DEF SMs
<1>4. GLOBAL_HEAP_START \in Nat /\ SHARED_GENERIC_START = GLOBAL_HEAP_START - M * B
  BY <1>1, <1>2, AddressAssumption DEF SHARED_GENERIC_START, TOTAL_SHARED_MEM
<1>5. SharedWindow(sm) = SHARED_GENERIC_START + sm * B
  BY <1>1 DEF SharedWindow
<1>6. TOTAL_LOCAL_MEM \in Nat
  BY Multiples, AddressAssumption DEF TOTAL_LOCAL_MEM, TOTAL_LOCAL_MEM_PER_SM
<1>7. LOCAL_GENERIC_START <= SHARED_GENERIC_START
  BY <1>3, <1>4, <1>6 DEF LOCAL_GENERIC_START
<1> QED BY <1>1, <1>3, <1>4, <1>5, <1>7

\* A shared address leads back to its SM and its place there.
LEMMA SharedResolves ==
  ASSUME NEW sm \in SMs, NEW addr \in 0 .. SHARED_MEM_SIZE_MAX - 1
  PROVE  /\ whichspace(shared_to_generic(sm, addr)) = "shared"
         /\ generic_to_shared(sm, shared_to_generic(sm, addr)) = addr
         /\ \A v \in SMs :
              isspace_shared(v, shared_to_generic(sm, addr)) <=> v = sm
<1>1. PICK g : g = shared_to_generic(sm, addr)
  OBVIOUS
<1>2. PICK b \in Int : b = SHARED_GENERIC_START
  BY Multiples, AddressAssumption DEF SHARED_GENERIC_START, TOTAL_SHARED_MEM
<1>3. PICK B \in Nat : B = SHARED_MEM_SIZE_MAX
  BY AddressAssumption
<1>4. sm \in Nat /\ \A v \in SMs : v \in Nat /\ v * B \in Nat
  BY <1>3, Multiples DEF SMs
<1>5. g = b + sm * B + addr /\ \A v \in SMs : SharedWindow(v) = b + v * B
  BY <1>1, <1>2, <1>3 DEF shared_to_generic, SharedWindow
<1>6. whichspace(g) = "shared"
  <2>1. /\ g \in Int /\ LOCAL_GENERIC_START <= b /\ b <= g
        /\ g < GLOBAL_HEAP_START
    BY <1>1, <1>2, SharedWindowPlace DEF shared_to_generic
  <2>2. STATIC_ALLOC_LIMIT = LOCAL_GENERIC_START
    BY Multiples, AddressAssumption DEF STATIC_ALLOC_LIMIT, LOCAL_GENERIC_START,
       SHARED_GENERIC_START, TOTAL_SHARED_MEM, TOTAL_LOCAL_MEM,
       TOTAL_LOCAL_MEM_PER_SM
  <2>3. LOCAL_GENERIC_START \in Int /\ GLOBAL_HEAP_START \in Int
    BY <2>2, AddressAssumption
  <2> QED BY <1>2, <2>1, <2>2, <2>3 DEF whichspace, isspace_global
<1>7. \A v \in SMs : isspace_shared(v, g) <=> v = sm
  <2> SUFFICES ASSUME NEW v \in SMs PROVE isspace_shared(v, g) <=> v = sm
    OBVIOUS
  <2>1. v * B <= sm * B + addr /\ sm * B + addr < v * B + B <=> sm = v
    BY <1>3, <1>4, Digits
  <2>2. isspace_shared(v, g) <=> b + v * B <= g /\ g < b + v * B + B
    BY <1>3, <1>5 DEF isspace_shared
  <2> QED BY <1>2, <1>3, <1>4, <1>5, <2>1, <2>2
<1>8. generic_to_shared(sm, g) = addr
  BY <1>2, <1>3, <1>4, <1>5 DEF generic_to_shared
<1> QED BY <1>1, <1>6, <1>7, <1>8

\* A local address leads back to its SM, its thread and its place there.
LEMMA LocalResolves ==
  ASSUME NEW sm \in SMs, NEW t \in HwThreads,
         NEW addr \in 0 .. LOCAL_MEM_SIZE_MAX - 1
  PROVE  /\ whichspace(local_to_generic(sm, t, addr)) = "local"
         /\ generic_to_local(sm, t, local_to_generic(sm, t, addr)) = addr
         /\ \A v \in SMs, u \in HwThreads :
              isspace_local(v, u, local_to_generic(sm, t, addr))
                <=> v = sm /\ u = t
<1>1. PICK g : g = local_to_generic(sm, t, addr)
  OBVIOUS
<1>2. PICK b \in Int : b = LOCAL_GENERIC_START
  BY Multiples, AddressAssumption DEF LOCAL_GENERIC_START, TOTAL_LOCAL_MEM,
     SHARED_GENERIC_START, TOTAL_SHARED_MEM, TOTAL_LOCAL_MEM_PER_SM
<1>3. PICK L \in Nat : L = LOCAL_MEM_SIZE_MAX
  BY AddressAssumption
<1>4. PICK T \in Nat : T = MAX_THREAD_PER_SM
  BY AddressAssumption
<1>5. PICK M \in Nat : M = MAX_STREAMING_MULTIPROCESSORS
  BY AddressAssumption
<1>6. PICK P \in Nat : P = T * L
  BY Multiples
<1>7. /\ sm \in Nat /\ t \in Nat /\ sm * P \in Nat /\ t * L \in Nat
      /\ \A v \in SMs : v \in Nat /\ v < M /\ v * P \in Nat
      /\ \A u \in HwThreads : u \in Nat /\ u * L \in Nat /\ u * L + L <= P
  BY <1>4, <1>5, <1>6, Multiples DEF SMs, HwThreads
<1>8. \A v \in SMs, u \in HwThreads : LocalWindow(v, u) = b + v * P + u * L
  <2> SUFFICES ASSUME NEW v \in SMs, NEW u \in HwThreads
               PROVE  LocalWindow(v, u) = b + v * P + u * L
    OBVIOUS
  <2>1. LocalWindow(v, u) = b + P * v + L * u
    BY <1>2, <1>3, <1>4, <1>6 DEF LocalWindow, TOTAL_LOCAL_MEM_PER_SM
  <2> QED BY <2>1, <1>7
<1>9. g = b + sm * P + t * L + addr
  BY <1>1, <1>8 DEF local_to_generic
<1>10. whichspace(g) = "local"
  <2>1. b = STATIC_ALLOC_LIMIT
    BY <1>2, Multiples, AddressAssumption DEF STATIC_ALLOC_LIMIT,
       LOCAL_GENERIC_START, SHARED_GENERIC_START, TOTAL_SHARED_MEM,
       TOTAL_LOCAL_MEM, TOTAL_LOCAL_MEM_PER_SM
  <2>2. sm * P + P <= M * P /\ M * P \in Nat
    BY <1>7, Multiples
  <2>3. TOTAL_LOCAL_MEM = M * P
    BY <1>3, <1>4, <1>5, <1>6 DEF TOTAL_LOCAL_MEM, TOTAL_LOCAL_MEM_PER_SM
  <2>4. PICK S \in Nat : S = TOTAL_SHARED_MEM
    BY Multiples, AddressAssumption DEF TOTAL_SHARED_MEM
  <2>5. PICK G \in Nat : G = GLOBAL_HEAP_START
    BY AddressAssumption
  <2>6. SHARED_GENERIC_START = G - S /\ b = G - S - M * P
    BY <1>2, <2>3, <2>4, <2>5 DEF LOCAL_GENERIC_START, SHARED_GENERIC_START
  <2>7. t * L + addr < P
    BY <1>3, <1>7
  <2>8. b <= g /\ g < G - S /\ g \in Int
    BY <1>7, <1>9, <2>2, <2>6, <2>7
  <2> QED BY <2>1, <2>4, <2>5, <2>6, <2>8 DEF whichspace, isspace_global
<1>11. \A v \in SMs, u \in HwThreads :
         isspace_local(v, u, g) <=> v = sm /\ u = t
  <2> SUFFICES ASSUME NEW v \in SMs, NEW u \in HwThreads
               PROVE  isspace_local(v, u, g) <=> v = sm /\ u = t
    OBVIOUS
  <2>1. isspace_local(v, u, g)
          <=> b + v * P + u * L <= g /\ g < b + v * P + u * L + L
    BY <1>3, <1>8 DEF isspace_local
  <2>2. u * L <= t * L + addr /\ t * L + addr < u * L + L <=> t = u
    BY <1>3, <1>7, Digits
  <2>3. t * L + addr \in 0 .. P - 1 /\ u * L + L <= P
    BY <1>3, <1>7
  <2>4. v * P <= sm * P + (t * L + addr) /\ sm * P + (t * L + addr) < v * P + P
          <=> sm = v
    BY <1>7, <2>3, Digits
  <2> QED BY <1>3, <1>7, <1>9, <2>1, <2>2, <2>3, <2>4
<1>12. generic_to_local(sm, t, g) = addr
  BY <1>7, <1>8, <1>9 DEF generic_to_local
<1> QED BY <1>1, <1>10, <1>11, <1>12

-----------------------------------------------------------------------------
(* Local memory in the timing model.                                       *)

\* The hardware threads a kernel may use, and the place of a thread among all
\* threads of the machine, by which the mapping interleaves their words.
ThreadsOf(m) == 0 .. (IF m.map THEN m.padded * m.maxCta ELSE m.threads) - 1

Place(m, sm, t) ==
  IF m.map THEN (sm + m.shaders * (t \div m.padded)) * m.padded + (t % m.padded)
  ELSE sm * m.threads + t

\* A number is quotient and remainder.
LEMMA DivMod ==
  ASSUME NEW n \in Nat, NEW b \in Nat \ {0}
  PROVE  /\ n \div b \in Nat /\ n % b \in 0 .. b - 1
         /\ n = (n \div b) * b + (n % b)
OBVIOUS

\* A multiple is its quotient, without a remainder.
LEMMA DivMultiple ==
  ASSUME NEW n \in Nat, NEW b \in Nat \ {0}
  PROVE  (b * n) \div b = n /\ (b * n) % b = 0
<1>1. PICK p \in Nat : p = n * b /\ p = b * n
  BY Multiples
<1>2. /\ p \div b \in Nat /\ p % b \in 0 .. b - 1
      /\ p = (p \div b) * b + (p % b)
  BY DivMod
<1>3. n * b + 0 = (p \div b) * b + (p % b)
  BY <1>1, <1>2
<1>4. n = p \div b /\ 0 = p % b
  BY <1>2, <1>3, DigitsUnique
<1> QED BY <1>1, <1>4

\* Every thread of the machine has a place of its own.
LEMMA PlaceUnique ==
  ASSUME NEW m \in Machines,
         NEW sm \in 0 .. m.shaders - 1, NEW t \in ThreadsOf(m)
  PROVE  /\ Place(m, sm, t) \in 0 .. MaxConcurrent(m) - 1
         /\ ThreadBase(m, sm, t) = WordSize * Place(m, sm, t)
         /\ \A v \in 0 .. m.shaders - 1, u \in ThreadsOf(m) :
              Place(m, sm, t) = Place(m, v, u) <=> sm = v /\ t = u
<1>1. PICK S \in Nat : S = m.shaders
  BY MachineAssumption
<1>2. sm \in Nat /\ sm < S
  BY <1>1
<1>3. CASE m.map
  <2>1. PICK p \in Nat \ {0} : p = m.padded
    BY MachineAssumption
  <2>2. PICK c \in Nat : c = m.maxCta
    BY MachineAssumption
  <2>3. ASSUME NEW u \in ThreadsOf(m)
        PROVE  /\ u \div p \in 0 .. c - 1 /\ u % p \in 0 .. p - 1
               /\ u = (u \div p) * p + (u % p)
    <3>1. u \in Nat /\ u < c * p
      BY <1>3, <2>1, <2>2, <2>3 DEF ThreadsOf
    <3>2. /\ u \div p \in Nat /\ u % p \in 0 .. p - 1
          /\ u = (u \div p) * p + (u % p)
      BY <2>1, <3>1, DivMod
    <3>3. PICK q \in Nat : q = u \div p
      BY <3>2
    <3>4. PICK r \in 0 .. p - 1 : r = u % p
      BY <3>2
    <3>5. u = q * p + r
      BY <3>2, <3>3, <3>4
    <3>6. c * p \in Nat /\ q * p \in Nat /\ (c < q => c * p + p <= q * p)
      BY <2>1, <2>2, Multiples
    <3>7. ~ c < q /\ q # c
      BY <2>1, <3>1, <3>4, <3>5, <3>6
    <3>8. q \in 0 .. c - 1
      BY <2>2, <3>7
    <3> QED BY <3>2, <3>3, <3>8
  <2> DEFINE Cta(v, u) == v + S * (u \div p)
  <2>4. \A v \in 0 .. S - 1, u \in ThreadsOf(m) :
          Cta(v, u) = (u \div p) * S + v /\ Cta(v, u) \in Nat
    <3> SUFFICES ASSUME NEW v \in 0 .. S - 1, NEW u \in ThreadsOf(m)
                 PROVE  Cta(v, u) = (u \div p) * S + v /\ Cta(v, u) \in Nat
      OBVIOUS
    <3>1. u \div p \in Nat
      BY <2>3
    <3>2. (u \div p) * S \in Nat
      BY <1>1, <3>1, Multiples
    <3> QED BY <1>1, <3>1, <3>2
  <2>5. \A v \in 0 .. S - 1, u \in ThreadsOf(m) :
          Place(m, v, u) = Cta(v, u) * p + (u % p)
    <3> SUFFICES ASSUME NEW v \in 0 .. S - 1, NEW u \in ThreadsOf(m)
                 PROVE  Place(m, v, u) = Cta(v, u) * p + (u % p)
      OBVIOUS
    <3>1. Place(m, v, u)
            = (v + m.shaders * (u \div m.padded)) * m.padded + (u % m.padded)
      BY <1>3 DEF Place
    <3> QED BY <1>1, <2>1, <3>1
  <2>6. MaxConcurrent(m) = (c * S) * p
    BY <1>1, <1>3, <2>1, <2>2 DEF MaxConcurrent
  <2>7. Place(m, sm, t) \in 0 .. MaxConcurrent(m) - 1
    <3>1. PICK q \in Nat : q = t \div p /\ q < c
      BY <2>2, <2>3
    <3>2. PICK k \in Nat : k = Cta(sm, t) /\ k = q * S + sm
      BY <1>1, <2>4, <3>1
    <3>3. q * S + S <= c * S /\ q * S \in Nat /\ c * S \in Nat
      BY <1>1, <2>2, <3>1, Multiples
    <3>4. k < c * S
      BY <1>1, <1>2, <3>2, <3>3
    <3>5. k * p + p <= (c * S) * p /\ k * p \in Nat /\ (c * S) * p \in Nat
      BY <2>1, <3>2, <3>3, <3>4, Multiples
    <3>6. t % p \in 0 .. p - 1
      BY <2>3
    <3>7. Place(m, sm, t) = k * p + (t % p)
      BY <1>1, <2>5, <3>2
    <3> QED BY <2>1, <2>6, <3>5, <3>6, <3>7
  <2>8. ThreadBase(m, sm, t) = WordSize * Place(m, sm, t)
    <3>1. PICK k \in Nat : k = Cta(sm, t)
      BY <1>1, <2>4
    <3>2. ThreadBase(m, sm, t) = WordSize * (p * k + (t % p))
      BY <1>1, <1>3, <2>1, <3>1 DEF ThreadBase
    <3>3. Place(m, sm, t) = k * p + (t % p) /\ k * p = p * k
      BY <1>1, <2>1, <2>5, <3>1
    <3> QED BY <3>2, <3>3
  <2>9. \A v \in 0 .. S - 1, u \in ThreadsOf(m) :
          Place(m, sm, t) = Place(m, v, u) <=> sm = v /\ t = u
    <3> SUFFICES ASSUME NEW v \in 0 .. S - 1, NEW u \in ThreadsOf(m)
                 PROVE  Place(m, sm, t) = Place(m, v, u) => sm = v /\ t = u
      OBVIOUS
    <3>1. /\ u \div p \in Nat /\ t \div p \in Nat
          /\ u % p \in 0 .. p - 1 /\ t % p \in 0 .. p - 1
      BY <2>3
    <3>2. Cta(sm, t) \in Nat /\ Cta(v, u) \in Nat
      BY <1>1, <2>4
    <3>3. Place(m, sm, t) = Place(m, v, u)
            => Cta(sm, t) = Cta(v, u) /\ t % p = u % p
      <4>1. PICK k, l \in Nat : k = Cta(sm, t) /\ l = Cta(v, u)
        BY <3>2
      <4>2. PICK x, y \in 0 .. p - 1 : x = t % p /\ y = u % p
        BY <3>1
      <4>3. Place(m, sm, t) = k * p + x /\ Place(m, v, u) = l * p + y
        BY <1>1, <2>5, <4>1, <4>2
      <4>4. k * p + x = l * p + y <=> k = l /\ x = y
        BY DigitsUnique
      <4> HIDE DEF Cta
      <4> QED BY <4>1, <4>2, <4>3, <4>4
    <3>4. Cta(sm, t) = Cta(v, u) => t \div p = u \div p /\ sm = v
      <4>1. /\ Cta(sm, t) = (t \div p) * S + sm
            /\ Cta(v, u) = (u \div p) * S + v
        BY <1>1, <2>4
      <4> HIDE DEF Cta
      <4> QED BY <1>1, <3>1, <4>1, DigitsUnique
    <3> QED BY <2>3, <3>3, <3>4
  <2> QED BY <1>1, <2>7, <2>8, <2>9
<1>4. CASE ~m.map
  <2>1. PICK n \in Nat : n = m.threads
    BY MachineAssumption
  <2>2. \A u \in ThreadsOf(m) : u \in 0 .. n - 1
    BY <1>4, <2>1 DEF ThreadsOf
  <2>3. \A v \in 0 .. S - 1, u \in ThreadsOf(m) : Place(m, v, u) = v * n + u
    BY <1>4, <2>1 DEF Place
  <2>4. MaxConcurrent(m) = S * n
    BY <1>1, <1>4, <2>1 DEF MaxConcurrent
  <2>5. sm * n + n <= S * n /\ sm * n \in Nat /\ S * n \in Nat
    BY <1>1, <1>2, <2>1, Multiples
  <2>6. Place(m, sm, t) \in 0 .. MaxConcurrent(m) - 1
    BY <1>1, <2>1, <2>2, <2>3, <2>4, <2>5
  <2>7. ThreadBase(m, sm, t) = WordSize * Place(m, sm, t)
    BY <1>1, <1>2, <1>4, <2>1, <2>3 DEF ThreadBase
  <2>8. \A v \in 0 .. S - 1, u \in ThreadsOf(m) :
          Place(m, sm, t) = Place(m, v, u) <=> sm = v /\ t = u
    <3> TAKE v \in 0 .. S - 1, u \in ThreadsOf(m)
    <3>1. Place(m, sm, t) = sm * n + t /\ Place(m, v, u) = v * n + u
      BY <1>1, <2>3
    <3>2. sm \in Nat /\ v \in Nat /\ t \in 0 .. n - 1 /\ u \in 0 .. n - 1
      BY <1>1, <1>2, <2>2
    <3>3. sm * n + t = v * n + u <=> sm = v /\ t = u
      BY <3>2, DigitsUnique
    <3> QED BY <3>1, <3>3
  <2> QED BY <1>1, <2>6, <2>7, <2>8
<1> QED BY <1>3, <1>4

\* The word that holds a byte, counted over the words of all threads.
Word(m, sm, t, w) == w * MaxConcurrent(m) + Place(m, sm, t)

\* An address of local memory is that of its word.
LEMMA WordNumber ==
  ASSUME NEW m \in Machines,
         NEW sm \in 0 .. m.shaders - 1, NEW t \in ThreadsOf(m), NEW w \in Nat
  PROVE  /\ MaxConcurrent(m) \in Nat
         /\ Word(m, sm, t, w) \in Nat
         /\ LinearAddress(m, sm, t, w)
              = Word(m, sm, t, w) * WordSize + LOCAL_GENERIC_START
<1>1. PICK p : p = Place(m, sm, t)
  OBVIOUS
<1>2. PICK n : n = MaxConcurrent(m)
  OBVIOUS
<1>3. p \in 0 .. n - 1 /\ ThreadBase(m, sm, t) = WordSize * p
  BY <1>1, <1>2, PlaceUnique
<1>4. n \in Nat
  <2>1. /\ m.shaders \in Nat /\ m.threads \in Nat
        /\ m.padded \in Nat /\ m.maxCta \in Nat
    BY MachineAssumption
  <2>2. m.padded * m.maxCta \in Nat
    BY <2>1, Multiples
  <2> QED BY <1>2, <2>1, <2>2, Multiples DEF MaxConcurrent
<1>5. w * n \in Nat
  BY <1>4, Multiples
<1>6. Word(m, sm, t, w) = w * n + p
  BY <1>1, <1>2 DEF Word
<1>7. Word(m, sm, t, w) \in Nat
  BY <1>3, <1>4, <1>5, <1>6
<1>8. LinearAddress(m, sm, t, w)
        = Word(m, sm, t, w) * WordSize + LOCAL_GENERIC_START
  <2>1. PICK z \in Nat : z = WordSize
    BY AddressAssumption
  <2>2. LinearAddress(m, sm, t, w) = w * n * z + z * p + LOCAL_GENERIC_START
    BY <1>2, <1>3, <2>1 DEF LinearAddress
  <2>3. p \in Nat
    BY <1>3, <1>4
  <2>4. (w * n + p) * z = w * n * z + z * p
    <3>1. PICK a \in Nat : a = w * n
      BY <1>5
    <3>2. (a + p) * z = a * z + z * p
      BY <2>1, <2>3, <3>1
    <3> QED BY <3>1, <3>2
  <2> QED BY <1>6, <2>1, <2>2, <2>4
<1> QED BY <1>2, <1>4, <1>7, <1>8

\* Words of local memory are numbered apart: by thread and place in it.
LEMMA WordsApart ==
  ASSUME NEW m \in Machines,
         NEW sm \in 0 .. m.shaders - 1, NEW t \in ThreadsOf(m), NEW w \in Nat,
         NEW v \in 0 .. m.shaders - 1, NEW u \in ThreadsOf(m), NEW x \in Nat
  PROVE  Word(m, sm, t, w) = Word(m, v, u, x) <=> w = x /\ sm = v /\ t = u
<1>1. PICK p, q : p = Place(m, sm, t) /\ q = Place(m, v, u)
  OBVIOUS
<1>2. PICK n \in Nat : n = MaxConcurrent(m)
  BY WordNumber
<1>3. p \in 0 .. n - 1 /\ q \in 0 .. n - 1 /\ (p = q <=> sm = v /\ t = u)
  BY <1>1, <1>2, PlaceUnique
<1>4. Word(m, sm, t, w) = w * n + p /\ Word(m, v, u, x) = x * n + q
  BY <1>1, <1>2 DEF Word
<1>5. w * n + p = x * n + q <=> w = x /\ p = q
  BY <1>3, DigitsUnique
<1> QED BY <1>3, <1>4, <1>5

\* translate_local_memaddr on a byte gives one address, in the byte's word.
LEMMA ByteAddress ==
  ASSUME NEW m \in Machines,
         NEW sm \in 0 .. m.shaders - 1, NEW t \in ThreadsOf(m), NEW a \in Nat
  PROVE  TranslateLocal(m, sm, t, a, 1)
           = {Word(m, sm, t, a \div WordSize) * WordSize + (a % WordSize)
                + LOCAL_GENERIC_START}
<1>1. PICK z \in Nat \ {0} : z = WordSize
  BY AddressAssumption
<1>2. PICK L \in Int : L = LOCAL_GENERIC_START
  BY Multiples, AddressAssumption DEF LOCAL_GENERIC_START, TOTAL_LOCAL_MEM,
     SHARED_GENERIC_START, TOTAL_SHARED_MEM, TOTAL_LOCAL_MEM_PER_SM
<1>3. a \div z \in Nat /\ a % z \in 0 .. z - 1
  BY <1>1, DivMod
<1>4. PICK d \in Nat : d = a \div z
  BY <1>3
<1>5. PICK e \in Nat : e = Word(m, sm, t, d)
  BY <1>4, WordNumber
<1>6. LinearAddress(m, sm, t, d) = e * z + L /\ e * z \in Nat
  BY <1>1, <1>2, <1>4, <1>5, WordNumber, Multiples
<1>7. CASE z = 1
  <2>1. TranslateLocal(m, sm, t, a, 1)
          = {LinearAddress(m, sm, t, d + i) : i \in 0 .. (1 \div z) - 1}
    BY <1>1, <1>4, <1>7 DEF TranslateLocal
  <2>2. 0 .. (1 \div z) - 1 = {0}
    BY <1>7
  <2>3. TranslateLocal(m, sm, t, a, 1) = {LinearAddress(m, sm, t, d)}
    BY <1>4, <2>1, <2>2
  <2>4. a % z = 0
    BY <1>3, <1>7
  <2> QED BY <1>1, <1>2, <1>4, <1>5, <1>6, <2>3, <2>4
<1>8. CASE z # 1
  <2>1. ~ 1 >= z
    BY <1>8
  <2>2. TranslateLocal(m, sm, t, a, 1) = {LinearAddress(m, sm, t, d) + (a % z)}
    BY <1>1, <1>4, <2>1 DEF TranslateLocal
  <2>3. e * z + L + (a % z) = e * z + (a % z) + L
    BY <1>2, <1>3, <1>6
  <2> QED BY <1>1, <1>2, <1>4, <1>5, <1>6, <2>2, <2>3
<1> QED BY <1>7, <1>8

\* The local bytes of the threads of a machine lie apart.
LEMMA BytesOfThreadsApart ==
  ASSUME NEW m \in Machines,
         NEW sm \in 0 .. m.shaders - 1, NEW t \in ThreadsOf(m), NEW a \in Nat,
         NEW v \in 0 .. m.shaders - 1, NEW u \in ThreadsOf(m), NEW b \in Nat
  PROVE  TranslateLocal(m, sm, t, a, 1) = TranslateLocal(m, v, u, b, 1)
           <=> sm = v /\ t = u /\ a = b
<1>1. PICK z \in Nat \ {0} : z = WordSize
  BY AddressAssumption
<1>2. PICK L \in Int : L = LOCAL_GENERIC_START
  BY Multiples, AddressAssumption DEF LOCAL_GENERIC_START, TOTAL_LOCAL_MEM,
     SHARED_GENERIC_START, TOTAL_SHARED_MEM, TOTAL_LOCAL_MEM_PER_SM
<1>3. /\ a \div z \in Nat /\ a % z \in 0 .. z - 1
      /\ a = (a \div z) * z + (a % z)
  BY <1>1, DivMod
<1>4. /\ b \div z \in Nat /\ b % z \in 0 .. z - 1
      /\ b = (b \div z) * z + (b % z)
  BY <1>1, DivMod
<1>5. PICK c, d \in Nat : c = a \div z /\ d = b \div z
  BY <1>3, <1>4
<1>6. PICK x, y \in 0 .. z - 1 : x = a % z /\ y = b % z
  BY <1>3, <1>4
<1>7. PICK e, f \in Nat : e = Word(m, sm, t, c) /\ f = Word(m, v, u, d)
  BY <1>5, WordNumber
<1>8. e = f <=> c = d /\ sm = v /\ t = u
  <2>1. Word(m, sm, t, c) = Word(m, v, u, d) <=> c = d /\ sm = v /\ t = u
    BY WordsApart
  <2> QED BY <2>1, <1>7
<1>9. e * z \in Nat /\ f * z \in Nat
  BY <1>1, <1>7, Multiples
<1>10. /\ TranslateLocal(m, sm, t, a, 1) = {e * z + x + L}
       /\ TranslateLocal(m, v, u, b, 1) = {f * z + y + L}
  BY <1>1, <1>2, <1>5, <1>6, <1>7, ByteAddress
<1>11. e * z + x + L = f * z + y + L <=> e = f /\ x = y
  <2>1. e * z + x + L = f * z + y + L <=> e * z + x = f * z + y
    BY <1>2, <1>6, <1>9
  <2>2. e * z + x = f * z + y <=> e = f /\ x = y
    BY DigitsUnique
  <2> QED BY <2>1, <2>2
<1>12. a = c * z + x /\ b = d * z + y
  BY <1>3, <1>4, <1>5, <1>6
<1>13. a = b <=> c = d /\ x = y
  BY <1>1, <1>5, <1>6, <1>12, DigitsUnique
<1>14. {e * z + x + L} = {f * z + y + L} <=> e * z + x + L = f * z + y + L
  OBVIOUS
<1> QED BY <1>8, <1>10, <1>11, <1>13, <1>14

\* An access to the whole local memory reaches the words its bytes lie in.
LEMMA WordsCoverMemory ==
  ASSUME NEW m \in Machines,
         NEW sm \in 0 .. m.shaders - 1, NEW t \in ThreadsOf(m)
  PROVE  TranslateLocal(m, sm, t, 0, LOCAL_MEM_SIZE_MAX)
           = UNION {TranslateLocal(m, sm, t, WordSize * w, 1) :
                      w \in 0 .. (LOCAL_MEM_SIZE_MAX \div WordSize) - 1}
<1>1. PICK z \in Nat \ {0} : z = WordSize
  BY AddressAssumption
<1>2. PICK s \in Nat \ {0} : s = LOCAL_MEM_SIZE_MAX
  BY AddressAssumption
<1>3. s \div z \in Nat /\ s = (s \div z) * z + (s % z) /\ s % z = 0
  <2>1. s % z = 0
    BY <1>1, <1>2, MachineAssumption
  <2>2. s \div z \in Nat /\ s = (s \div z) * z + (s % z)
    BY DivMod
  <2> QED BY <2>1, <2>2
<1>4. PICK n \in Nat : n = s \div z
  BY <1>3
<1>5. s >= z
  <2>1. s = n * z
    <3>1. s = n * z + 0
      BY <1>3, <1>4
    <3>2. n * z \in Nat
      BY <1>1, <1>4, Multiples
    <3> QED BY <3>1, <3>2
  <2>2. n # 0
    BY <1>1, <1>2, <2>1
  <2>3. 0 * z + z <= n * z
    BY <1>1, <1>4, <2>2, Multiples
  <2> QED BY <1>1, <2>1, <2>3
<1>6. 0 \div z = 0
  BY <1>1, DivMultiple, z * 0 = 0
<1>7. TranslateLocal(m, sm, t, 0, s)
        = {LinearAddress(m, sm, t, i) : i \in 0 .. n - 1}
  <2>1. TranslateLocal(m, sm, t, 0, s)
          = {LinearAddress(m, sm, t, 0 \div z + i) : i \in 0 .. n - 1}
    BY <1>1, <1>4, <1>5 DEF TranslateLocal
  <2>2. \A i \in 0 .. n - 1 : 0 \div z + i = i
    BY <1>4, <1>6
  <2> QED BY <2>1, <2>2
<1>8. ASSUME NEW w \in 0 .. n - 1
      PROVE  TranslateLocal(m, sm, t, z * w, 1) = {LinearAddress(m, sm, t, w)}
  <2>1. w \in Nat /\ z * w \in Nat
    BY <1>1, <1>4, Multiples
  <2>2. (z * w) \div z = w /\ (z * w) % z = 0
    BY <1>1, <2>1, DivMultiple
  <2>3. PICK L \in Int : L = LOCAL_GENERIC_START
    BY Multiples, AddressAssumption DEF LOCAL_GENERIC_START, TOTAL_LOCAL_MEM,
       SHARED_GENERIC_START, TOTAL_SHARED_MEM, TOTAL_LOCAL_MEM_PER_SM
  <2>4. PICK e \in Nat : e = Word(m, sm, t, w)
    BY <2>1, WordNumber
  <2>5. e * z \in Nat /\ LinearAddress(m, sm, t, w) = e * z + L
    BY <1>1, <2>1, <2>3, <2>4, WordNumber, Multiples
  <2>6. TranslateLocal(m, sm, t, z * w, 1) = {e * z + 0 + L}
    <3>1. PICK a \in Nat : a = z * w
      BY <2>1
    <3>2. TranslateLocal(m, sm, t, a, 1)
            = {Word(m, sm, t, a \div z) * z + (a % z) + L}
      BY <1>1, <2>3, ByteAddress
    <3> QED BY <2>2, <2>4, <3>1, <3>2
  <2> QED BY <2>3, <2>5, <2>6
<1>9. UNION {TranslateLocal(m, sm, t, z * w, 1) : w \in 0 .. n - 1}
        = {LinearAddress(m, sm, t, w) : w \in 0 .. n - 1}
  <2> DEFINE A(w) == TranslateLocal(m, sm, t, z * w, 1)
             B(w) == LinearAddress(m, sm, t, w)
             W    == 0 .. n - 1
  <2>1. \A w \in W : A(w) = {B(w)}
    BY <1>8
  <2> HIDE DEF A, B, W
  <2>2. UNION {A(w) : w \in W} = {B(w) : w \in W}
    BY <2>1
  <2> QED BY <2>2 DEF A, B, W
<1> QED BY <1>1, <1>2, <1>4, <1>7, <1>9

-----------------------------------------------------------------------------
(* Every access resolves.                                                  *)

\* The last access is one the program may make.
AccessInv ==
  /\ machine \in Machines
  /\ \/ access = NoAccess
     \/ \E sm \in 0 .. machine.shaders - 1, t \in ThreadsOf(machine) :
          \/ \E a \in 0 .. SHARED_MEM_SIZE_MAX - 1 :
               access = [space |-> "shared", sm |-> sm, thread |-> t, addr |-> a,
                         generic |-> shared_to_generic(sm, a)]
          \/ \E a \in 0 .. LOCAL_MEM_SIZE_MAX - 1 :
               access = [space |-> "local", sm |-> sm, thread |-> t, addr |-> a,
                         generic |-> local_to_generic(sm, t, a)]

\* Every step leaves no access or one the program may make.
LEMMA AccessKeeps ==
  ASSUME AccessInv, [CopyNext]_<<vars, copyVars>>
  PROVE  AccessInv'
<1>1. CASE UNCHANGED vars
  BY <1>1 DEF vars, AccessInv
<1>2. CASE Next
  <2>1. ASSUME UNCHANGED machine, access' = NoAccess
        PROVE  AccessInv'
    BY <2>1 DEF AccessInv
  <2>2. ASSUME NEW s \in Sizes, Malloc(s) \/ LoadGlobal(s)
        PROVE  AccessInv'
    BY <2>1, <2>2 DEF Malloc, LoadGlobal, Own
  <2>3. ASSUME NEW h \in HostPtrs, NEW s \in Sizes, HostAlloc(h, s)
        PROVE  AccessInv'
    BY <2>3 DEF HostAlloc, AccessInv
  <2>4. ASSUME NEW w \in Sizes, NEW h \in Sizes,
               MallocPitch(w, h) \/ MallocArray(w, h)
        PROVE  AccessInv'
    BY <2>1, <2>4 DEF MallocPitch, MallocArray, Own
  <2>5. ASSUME NEW h \in HostPtrs, HostGetDevicePointer(h)
        PROVE  AccessInv'
    BY <2>1, <2>5 DEF HostGetDevicePointer, Own
  <2>6. ASSUME NEW sm \in 0 .. machine.shaders - 1, NEW t \in KernelThreads,
               NEW a \in 0 .. SHARED_MEM_SIZE_MAX - 1, SharedAccess(sm, t, a)
        PROVE  AccessInv'
    <3>1. t \in ThreadsOf(machine)
      BY DEF KernelThreads, ThreadsOf
    <3> QED BY <2>6, <3>1 DEF SharedAccess, AccessInv
  <2>7. ASSUME NEW sm \in 0 .. machine.shaders - 1, NEW t \in KernelThreads,
               NEW a \in 0 .. LOCAL_MEM_SIZE_MAX - 1, LocalAccess(sm, t, a)
        PROVE  AccessInv'
    <3>1. t \in ThreadsOf(machine)
      BY DEF KernelThreads, ThreadsOf
    <3> QED BY <2>7, <3>1 DEF LocalAccess, AccessInv
  <2> QED BY <1>2, <2>2, <2>3, <2>4, <2>5, <2>6, <2>7 DEF Next, FilledObject, Other
<1> QED BY <1>1, <1>2 DEF CopyNext, Copy, Allocation, Filling, Next

\* The SMs and threads of a machine are among those with windows.
LEMMA MachineFits ==
  ASSUME NEW m \in Machines
  PROVE  0 .. m.shaders - 1 \subseteq SMs /\ ThreadsOf(m) \subseteq HwThreads
<1>1. PICK M, T \in Nat : M = MAX_STREAMING_MULTIPROCESSORS /\ T = MAX_THREAD_PER_SM
  BY AddressAssumption
<1>2. PICK p, c, n \in Nat : p = m.padded /\ c = m.maxCta /\ n = m.threads
  BY MachineAssumption
<1>3. p * c <= n /\ n <= T /\ m.shaders \in 1 .. M
  BY <1>1, <1>2, MachineAssumption
<1>4. p * c \in Nat
  BY Multiples
<1>5. ThreadsOf(m) \subseteq 0 .. T - 1
  BY <1>2, <1>3, <1>4 DEF ThreadsOf
<1> QED BY <1>1, <1>3, <1>5 DEF SMs, HwThreads

\* A thread reaches its own bytes only.
LEMMA AccessResolves == AccessInv => AddressesResolve
<1> SUFFICES ASSUME AccessInv PROVE AddressesResolve
  OBVIOUS
<1>1. machine \in Machines
  BY DEF AccessInv
<1>2. CASE access = NoAccess
  <2>1. access.space = "none"
    BY <1>2 DEF NoAccess
  <2> QED BY <2>1 DEF AddressesResolve, GenericResolves, LocalBytesApart, Spaces
<1>3. ASSUME NEW sm \in 0 .. machine.shaders - 1, NEW t \in ThreadsOf(machine),
             NEW a \in 0 .. SHARED_MEM_SIZE_MAX - 1,
             access = [space |-> "shared", sm |-> sm, thread |-> t, addr |-> a,
                       generic |-> shared_to_generic(sm, a)]
      PROVE  AddressesResolve
  <2>1. PICK g : g = shared_to_generic(sm, a)
    OBVIOUS
  <2>2. /\ access.space = "shared" /\ access.sm = sm /\ access.addr = a
        /\ access.generic = g
    BY <1>3, <2>1
  <2>3. sm \in SMs
    BY <1>1, MachineFits
  <2>4. /\ whichspace(g) = "shared" /\ generic_to_shared(sm, g) = a
        /\ \A v \in SMs : isspace_shared(v, g) <=> v = sm
    BY <2>1, <2>3, SharedResolves
  <2>5. GenericResolves
    BY <2>2, <2>4 DEF GenericResolves, InWindow
  <2> QED BY <2>2, <2>5 DEF AddressesResolve, LocalBytesApart
<1>4. ASSUME NEW sm \in 0 .. machine.shaders - 1, NEW t \in ThreadsOf(machine),
             NEW a \in 0 .. LOCAL_MEM_SIZE_MAX - 1,
             access = [space |-> "local", sm |-> sm, thread |-> t, addr |-> a,
                       generic |-> local_to_generic(sm, t, a)]
      PROVE  AddressesResolve
  <2>1. PICK g : g = local_to_generic(sm, t, a)
    OBVIOUS
  <2>2. /\ access.space = "local" /\ access.sm = sm /\ access.addr = a
        /\ access.generic = g /\ access.thread = t
    BY <1>4, <2>1
  <2>3. sm \in SMs /\ t \in HwThreads
    BY <1>1, MachineFits
  <2>4. /\ whichspace(g) = "local" /\ generic_to_local(sm, t, g) = a
        /\ \A v \in SMs, u \in HwThreads :
             isspace_local(v, u, g) <=> v = sm /\ u = t
    BY <2>1, <2>3, LocalResolves
  <2>5. GenericResolves
    BY <2>2, <2>4 DEF GenericResolves, InWindow
  <2>6. LocalBytesApart
    <3>1. \A v \in 0 .. machine.shaders - 1, u \in KernelThreads,
             b \in 0 .. LOCAL_MEM_SIZE_MAX - 1 :
            TimingAddress(v, u, b) = TimingAddress(sm, t, a)
              <=> <<v, u, b>> = <<sm, t, a>>
      <4> SUFFICES ASSUME NEW v \in 0 .. machine.shaders - 1,
                          NEW u \in ThreadsOf(machine),
                          NEW b \in 0 .. LOCAL_MEM_SIZE_MAX - 1
                   PROVE  TimingAddress(v, u, b) = TimingAddress(sm, t, a)
                            <=> <<v, u, b>> = <<sm, t, a>>
        BY DEF KernelThreads, ThreadsOf
      <4>1. LOCAL_MEM_SIZE_MAX \in Nat
        BY AddressAssumption
      <4>2. a \in Nat /\ b \in Nat
        BY <4>1
      <4>3. TranslateLocal(machine, v, u, b, 1)
              = TranslateLocal(machine, sm, t, a, 1) <=> v = sm /\ u = t /\ b = a
        BY <1>1, <4>2, BytesOfThreadsApart
      <4> QED BY <4>3 DEF TimingAddress
    <3>2. TranslateLocal(machine, sm, t, 0, LOCAL_MEM_SIZE_MAX)
            = UNION {TimingAddress(sm, t, WordSize * w) :
                       w \in 0 .. (LOCAL_MEM_SIZE_MAX \div WordSize) - 1}
      BY <1>1, WordsCoverMemory DEF TimingAddress
    <3> QED BY <2>2, <3>1, <3>2 DEF LocalBytesApart
  <2> QED BY <2>5, <2>6 DEF AddressesResolve
<1> QED BY <1>2, <1>3, <1>4 DEF AccessInv

\* whichspace and the conversions of generic addresses lead every access of a
\* thread back to the memory it was made of, translate_local_memaddr gives no
\* byte of local memory to two threads and a wide access the words its bytes lie
\* in, and every object holds what was last written to it.
THEOREM AddressesAlwaysReach == CopySpec => []AddressesReach
<1>1. CopyInit => AccessInv
  BY DEF CopyInit, Init, AccessInv
<1>2. AccessInv /\ [CopyNext]_<<vars, copyVars>> => AccessInv'
  BY AccessKeeps
<1>3. AccessInv => AddressesResolve
  BY AccessResolves
<1>4. AddressesResolve /\ ContentsKept => AddressesReach
  BY DEF AddressesReach
<1> QED BY <1>1, <1>2, <1>3, <1>4, ContentsAreKept, PTL DEF CopySpec
=============================================================================
