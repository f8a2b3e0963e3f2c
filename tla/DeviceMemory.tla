---------------------------- MODULE DeviceMemory -----------------------------
(***************************************************************************)
(* Who owns which address of the simulated device: the globals of the      *)
(* loaded .ptx files, what the allocation calls of the CUDA runtime hand   *)
(* out, and the local and shared memory the threads of a kernel reach      *)
(* through generic addresses.                                              *)
(*                                                                         *)
(* cudaFree does nothing, so no address is handed out again.               *)
(***************************************************************************)
EXTENDS AddressSpace, Sequences

CONSTANTS
  Align,      \* gpu_malloc aligns to 256 bytes
  StaticStart,\* the first address of a global, 0x100
  AddrRange,  \* 2^64: the addresses of the device
  PtrRange,   \* 2^32: the values of an array's devPtr32
  UintRange,  \* 2^32: the values of an unsigned int
  Sizes,      \* sizes the application asks for
  HostPtrs,   \* what malloc returns for pinned host memory
  Machines,   \* the machines and kernels, see TranslateLocal
  HeapLimit,  \* bound: the application stops allocating there
  MaxObjects  \* bound: objects of a behaviour

ASSUME MemoryAssumption ==
  /\ {Align, AddrRange, PtrRange, UintRange} \subseteq Nat \ {0}
  /\ StaticStart \in Nat /\ Sizes \subseteq Nat /\ HeapLimit \in Nat
  /\ GLOBAL_HEAP_START <= HeapLimit /\ HeapLimit + PtrRange <= AddrRange
  /\ StaticStart < STATIC_ALLOC_LIMIT
  /\ MaxObjects \in Nat

\* reg_options stops at more threads than MAX_THREAD_PER_SM; max_cta fits the
\* padded CTAs of a kernel into the threads of an SM; a thread's local memory
\* is made of whole words.
ASSUME MachineAssumption ==
  /\ LOCAL_MEM_SIZE_MAX % WordSize = 0
  /\ \A m \in Machines :
       /\ m.shaders \in 1 .. MAX_STREAMING_MULTIPROCESSORS
       /\ m.threads \in 1 .. MAX_THREAD_PER_SM
       /\ {m.padded, m.maxCta} \subseteq Nat \ {0}
       /\ m.padded * m.maxCta <= m.threads

VARIABLES
  machine,    \* the machine
  heapNext,   \* m_dev_malloc
  globalNext, \* m_global_next of the symbol table
  objects,    \* what was handed out, in that order: [kind, base, size], of
              \*   pitched memory and arrays [width, height] too, and of
              \*   arrays [given], the address before devPtr32 kept it
  pinned,     \* pinned_memory_size
  access      \* the last access: [space, sm, thread, addr, generic]

vars == <<machine, heapNext, globalNext, objects, pinned, access>>

Spaces == {"shared", "local"}
NoAccess == [space |-> "none"]

\* The window a generic address of the space falls into.
InWindow(space, sm, t, addr) ==
  IF space = "shared" THEN isspace_shared(sm, addr)
  ELSE isspace_local(sm, t, addr)

-----------------------------------------------------------------------------
\* Mutant: the next free address is rounded down.
MutPadding(size) == -(size % Align)

Padding(size) == IF size % Align = 0 THEN 0 ELSE Align - (size % Align)

\* gpu_malloc and gpu_mallocarray: the next free address, whatever the size.
Allocate(size) ==
  /\ heapNext + size + Align <= HeapLimit
  /\ heapNext' = heapNext + size + Padding(size)

Own(object) ==
  /\ Len(objects) < MaxObjects
  /\ objects' = Append(objects, object)
  /\ access' = NoAccess

Plain(kind, base, size) == [kind |-> kind, base |-> base, size |-> size]

Pitched(base, size, width, height) ==
  [kind |-> "pitched", base |-> base, size |-> size, width |-> width,
   height |-> height]

Array(given, base, size, width, height) ==
  [kind |-> "array", base |-> base, size |-> size, width |-> width,
   height |-> height, given |-> given]

\* devPtr32 is a signed int and devPtr is made of it: of the address its lower
\* half is left, extended by its sign.
SignExtended(addr) ==
  LET low == addr % PtrRange IN
  IF low < PtrRange \div 2 THEN low ELSE AddrRange - PtrRange + low

\* cudaMalloc
Malloc(size) ==
  /\ Allocate(size)
  /\ Own(Plain("linear", heapNext, size))
  /\ UNCHANGED <<machine, globalNext, pinned>>

\* cudaMallocPitch keeps the width in an unsigned int and adds no padding to
\* the rows.
MallocPitch(width, height) ==
  LET pitch == width % UintRange
      size  == pitch * height
  IN
  /\ Allocate(size)
  /\ Own(Pitched(heapNext, size, pitch, height))
  /\ UNCHANGED <<machine, globalNext, pinned>>

\* cudaMallocArray, for elements of one byte, computes the size in an unsigned
\* int; the array's address is devPtr.
MallocArray(width, height) ==
  LET size == (width * height) % UintRange IN
  /\ Allocate(size)
  /\ Own(Array(heapNext, SignExtended(heapNext), size, width, height))
  /\ UNCHANGED <<machine, globalNext, pinned>>

\* cudaMallocHost, cudaMallocHostSST and cudaHostAlloc note the size only.
HostAlloc(h, size) ==
  /\ pinned' = [pinned EXCEPT ![h] = size]
  /\ UNCHANGED <<machine, heapNext, globalNext, objects, access>>

\* cudaHostGetDevicePointer allocates the device copy, another one each time;
\* it asserts that the host memory is pinned.  DeviceCopies fills the copy.
HostGetDevicePointer(h) ==
  /\ pinned[h] \in Nat
  /\ Allocate(pinned[h])
  /\ Own(Plain("linear", heapNext, pinned[h]))
  /\ UNCHANGED <<machine, globalNext, pinned>>

\* A global with an initializer: load_static_globals and load_constants
\* assert that it lies below the limit.  DeviceCopies writes its value.
LoadGlobal(size) ==
  /\ globalNext + size < STATIC_ALLOC_LIMIT
  /\ globalNext' = globalNext + size
  /\ Own(Plain("symbol", globalNext, size))
  /\ UNCHANGED <<machine, heapNext, pinned>>

\* The hardware threads of an SM a kernel may use on the machine.
KernelThreads ==
  0 .. (IF machine.map THEN machine.padded * machine.maxCta
        ELSE machine.threads) - 1

\* A thread of a kernel makes a generic address of its shared or local
\* memory; the conversions assert that the address lies within it. Bound: no
\* object changes an address, so accesses come before the first object only.
SharedAccess(sm, t, addr) ==
  /\ addr < SHARED_MEM_SIZE_MAX /\ objects = <<>>
  /\ access' = [space |-> "shared", sm |-> sm, thread |-> t, addr |-> addr,
                generic |-> shared_to_generic(sm, addr)]
  /\ UNCHANGED <<machine, heapNext, globalNext, objects, pinned>>

LocalAccess(sm, t, addr) ==
  /\ addr < LOCAL_MEM_SIZE_MAX /\ objects = <<>>
  /\ access' = [space |-> "local", sm |-> sm, thread |-> t, addr |-> addr,
                generic |-> local_to_generic(sm, t, addr)]
  /\ UNCHANGED <<machine, heapNext, globalNext, objects, pinned>>

-----------------------------------------------------------------------------
Init ==
  /\ machine \in Machines
  /\ heapNext = GLOBAL_HEAP_START
  /\ globalNext = StaticStart
  /\ objects = <<>>
  /\ pinned = [h \in HostPtrs |-> -1]
  /\ access = NoAccess

\* What is handed out with contents, and everything else.
FilledObject ==
  \/ \E s \in Sizes : LoadGlobal(s)
  \/ \E h \in HostPtrs : HostGetDevicePointer(h)

Other ==
  \/ \E s \in Sizes : Malloc(s)
  \/ \E h \in HostPtrs, s \in Sizes : HostAlloc(h, s)
  \/ \E w, h \in Sizes : MallocPitch(w, h)
  \/ \E w, h \in Sizes : MallocArray(w, h)
  \/ \E sm \in 0 .. machine.shaders - 1, t \in KernelThreads :
       \/ \E a \in 0 .. SHARED_MEM_SIZE_MAX - 1 : SharedAccess(sm, t, a)
       \/ \E a \in 0 .. LOCAL_MEM_SIZE_MAX - 1 : LocalAccess(sm, t, a)

Next == FilledObject \/ Other

Spec == Init /\ [][Next]_vars
-----------------------------------------------------------------------------
(* Properties.                                                             *)

\* The address of the n-th byte of an object, from zero.
Byte(o, n) == (o.base + n) % AddrRange

Bytes(o) == {Byte(o, n) : n \in 0 .. o.size - 1}

\* What the allocator gave is the object's: always, but for an array that does
\* not lie below what devPtr32 can tell.
Kept(o) ==
  o.kind = "array" => o.given < PtrRange /\ o.given + o.size <= PtrRange

\* No byte belongs to two objects, of the heap, an array or a global, and
\* every byte is one whichspace calls global, as long as the arrays among them
\* were allocated below 2^32: their addresses are then moved, not mixed up.
ObjectsApart ==
  \A i, j \in 1 .. Len(objects) :
    Kept(objects[i]) /\ Kept(objects[j]) =>
      /\ i # j => Bytes(objects[i]) \cap Bytes(objects[j]) = {}
      /\ \A b \in Bytes(objects[i]) : whichspace(b) = "global"

\* A generic address leads back to the memory it was made of: whichspace
\* tells its space, the window of its owner and no other holds it, and the
\* conversion back gives the address.
GenericResolves ==
  access.space \in Spaces =>
    LET a == access IN
    /\ whichspace(a.generic) = a.space
    /\ \A sm \in SMs, t \in HwThreads :
         InWindow(a.space, sm, t, a.generic)
           <=> sm = a.sm /\ (a.space = "local" => t = a.thread)
    /\ a.addr = IF a.space = "shared" THEN generic_to_shared(a.sm, a.generic)
                ELSE generic_to_local(a.sm, a.thread, a.generic)

\* The address of a byte of local memory in the timing model.
TimingAddress(sm, t, addr) == TranslateLocal(machine, sm, t, addr, 1)

\* The timing model keeps the local bytes of all threads of the machine apart,
\* with either mapping, and reaches the same words with accesses of any size.
LocalBytesApart ==
  access.space = "local" =>
    LET own == <<access.sm, access.thread, access.addr>> IN
    /\ \A sm \in 0 .. machine.shaders - 1, t \in KernelThreads,
          a \in 0 .. LOCAL_MEM_SIZE_MAX - 1 :
         TimingAddress(sm, t, a) = TimingAddress(own[1], own[2], own[3])
           <=> <<sm, t, a>> = own
    /\ TranslateLocal(machine, own[1], own[2], 0, LOCAL_MEM_SIZE_MAX)
         = UNION {TimingAddress(own[1], own[2], WordSize * w) :
                    w \in 0 .. (LOCAL_MEM_SIZE_MAX \div WordSize) - 1}

\* The address arithmetic of functional and timing model loses nothing.
AddressesResolve == GenericResolves /\ LocalBytesApart
=============================================================================
