---------------------------- MODULE DeviceCopies -----------------------------
(***************************************************************************)
(* The bytes of the device's global memory under the copy and set calls of *)
(* the CUDA runtime.  Each call turns what the application names, a        *)
(* pointer, an array, a pitched rectangle or a symbol, into a first        *)
(* address and a number of bytes.  cudaMemcpy and the symbol copies reach  *)
(* the memory through the stream manager, the others at once.              *)
(*                                                                         *)
(* stored is what the application may rely on: the bytes of each object    *)
(* as it wrote them, whatever their addresses.  astray says where it may   *)
(* not: the calls on arrays write beyond what the array was given when its *)
(* size did not fit an unsigned int or its address not devPtr32.           *)
(***************************************************************************)
EXTENDS DeviceMemory, SequencesExt

CONSTANT Values   \* values of a byte

ASSUME ValuesAssumption == 0 \in Values

VARIABLES
  memory,  \* m_global_mem
  stored,  \* the bytes of each object as the application wrote them
  astray   \* the addresses that do not hold what their owner wrote there,
           \*   because an array's bytes are not where they should be

copyVars == <<memory, stored, astray>>

Addresses == 0 .. AddrRange - 1

Ids == 1 .. Len(objects)

Of(kinds) == {i \in Ids : objects[i].kind \in kinds}

-----------------------------------------------------------------------------
(* What gpgpu_t does with a range of addresses.                            *)

\* memcpy_to_gpu and gpu_memset: byte after byte.
Write(first, bytes) ==
  memory' = [a \in Addresses |->
    LET n == ((a - first) % AddrRange) + 1 IN
    IF n \in DOMAIN bytes THEN bytes[n] ELSE memory[a]]

\* memcpy_from_gpu
Read(first, count) == [n \in 1 .. count |-> memory[(first + n - 1) % AddrRange]]

Same(v, count) == [n \in 1 .. count |-> v]

\* What the application expects of an object after a write at an offset.
Stored(i, offset, bytes) ==
  stored' = [stored EXCEPT ![i] =
    [n \in DOMAIN stored[i] |-> IF n - offset \in DOMAIN bytes
                               THEN bytes[n - offset] ELSE stored[i][n]]]

-----------------------------------------------------------------------------
(* The calls.  The application stays within the object it names.           *)

\* cudaMemcpy to linear memory; cudaMemset, and cudaMemsetAsync, which does
\* not wait for its stream.
Set(i, count, v) ==
  /\ i \in Of({"linear"}) /\ count <= objects[i].size
  /\ Write(objects[i].base, Same(v, count))
  /\ Stored(i, 0, Same(v, count))
  /\ UNCHANGED astray

\* Mutant: the rectangle is taken to be one row longer.
MutBytes2D(pitch, height) == pitch * (height + 1)

\* cudaMemcpy2D and cudaMemcpy2DToArray copy whole rows of the source pitch.
Bytes2D(pitch, height) == pitch * height

\* cudaMemcpy2D asserts that both pitches are the same.
Memcpy2D(i, height, v) ==
  LET o == objects[i] IN
  /\ i \in Of({"pitched"}) /\ height <= o.height
  /\ Write(o.base, Same(v, Bytes2D(o.width, height)))
  /\ Stored(i, 0, Same(v, o.width * height))
  /\ UNCHANGED astray

\* Where a write of count bytes to an object leaves what the object owns.
Beyond(o, count) == {Byte(o, n) : n \in (IF Kept(o) THEN o.size ELSE 0) .. count - 1}

\* cudaMemcpy2DToArray asserts that the copy is the whole array: its height and
\* its width, which the array keeps in an int.  It writes that many rows,
\* whatever size was allocated.
Memcpy2DToArray(i, v) ==
  LET o     == objects[i]
      count == Bytes2D(o.width, o.height)
  IN
  /\ i \in Of({"array"}) /\ o.width < UintRange
  /\ Write(o.base, Same(v, count))
  /\ Stored(i, 0, Same(v, count))
  /\ astray' = astray \cup Beyond(o, count)

\* cudaMemcpyToArray writes to the start of the array: it ignores wOffset and
\* hOffset, so they are zero here.
MemcpyToArray(i, count, v) ==
  /\ i \in Of({"array"}) /\ count <= objects[i].size
  /\ Write(objects[i].base, Same(v, count))
  /\ Stored(i, 0, Same(v, count))
  /\ astray' = astray \cup Beyond(objects[i], count)

\* cudaMemcpyToSymbol: gpgpu_ptx_sim_memcpy_symbol looks the host variable up
\* among the registered constants and globals, and both kinds in the global
\* memory at the symbol's address.
MemcpyToSymbol(i, offset, count, v) ==
  /\ i \in Of({"symbol"}) /\ offset + count <= objects[i].size
  /\ Write(objects[i].base + offset, Same(v, count))
  /\ Stored(i, offset, Same(v, count))
  /\ UNCHANGED astray

\* The first bytes of an object that may not be what was written there.
Lost(i, count) ==
  {n \in 0 .. count - 1 : ~Kept(objects[i]) \/ Byte(objects[i], n) \in astray}

\* memcpy_gpu_to_gpu between the starts of two objects: what is lost in one is
\* lost in the other.
MemcpyGpuToGpu(i, j, count) ==
  /\ i # j /\ count <= objects[i].size /\ count <= objects[j].size
  /\ Write(objects[j].base, Read(objects[i].base, count))
  /\ Stored(j, 0, SubSeq(stored[i], 1, count))
  /\ astray' = astray \cup Beyond(objects[j], count)
                     \cup {Byte(objects[j], n) : n \in Lost(i, count)}

-----------------------------------------------------------------------------
CopyInit ==
  /\ Init
  /\ memory = [a \in Addresses |-> 0]
  /\ stored = <<>>
  /\ astray = {}

\* A new object has not been written.
Allocation ==
  /\ Other
  /\ stored' = IF objects' = objects THEN stored
               ELSE Append(stored, Same(0, Last(objects').size))
  /\ UNCHANGED <<memory, astray>>

\* The initializer of a global is written, and what the application had in
\* its pinned memory is copied, by the call that makes the object.
Filling(v) ==
  /\ FilledObject
  /\ LET o == Last(objects') IN
     /\ Write(o.base, Same(v, o.size))
     /\ stored' = Append(stored, Same(v, o.size))
  /\ UNCHANGED astray

Copy ==
  /\ UNCHANGED vars
  /\ \E i \in Ids, v \in Values, n \in Sizes :
       \/ Set(i, n, v)
       \/ Memcpy2D(i, n, v)
       \/ Memcpy2DToArray(i, v)
       \/ MemcpyToArray(i, n, v)
       \/ \E offset \in Sizes : MemcpyToSymbol(i, offset, n, v)
       \/ \E j \in Ids : MemcpyGpuToGpu(i, j, n)

CopyNext == Allocation \/ (\E v \in Values : Filling(v)) \/ Copy

CopySpec == CopyInit /\ [][CopyNext]_<<vars, copyVars>>
-----------------------------------------------------------------------------
(* Properties.                                                             *)

\* Every object holds what the application last wrote to it, whatever was
\* written to the others and however its bytes were addressed: but for arrays
\* that lie beyond devPtr32, and for the bytes the calls on such arrays, and on
\* arrays whose size was truncated, went on to.
ContentsKept ==
  /\ Len(stored) = Len(objects)
  /\ \A i \in Ids : Kept(objects[i]) =>
       \A n \in 1 .. objects[i].size :
         Byte(objects[i], n - 1) \notin astray =>
           Read(objects[i].base, objects[i].size)[n] = stored[i][n]

\* What the address arithmetic of the runtime, of the functional and of the
\* timing model reaches is what was meant.
AddressesReach == AddressesResolve /\ ContentsKept
=============================================================================
