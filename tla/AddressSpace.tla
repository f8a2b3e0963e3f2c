---------------------------- MODULE AddressSpace -----------------------------
(***************************************************************************)
(* The addresses of the simulated device.  Below STATIC_ALLOC_LIMIT lie    *)
(* the globals of the .ptx files and from GLOBAL_HEAP_START on what        *)
(* cudaMalloc hands out; between them one window of generic addresses per  *)
(* thread for its local and one per SM for its shared memory.  The timing  *)
(* model moves the local memory of all threads into one interleaved space. *)
(***************************************************************************)
EXTENDS Integers

CONSTANTS
  GLOBAL_HEAP_START,
  SHARED_MEM_SIZE_MAX,           \* bytes of shared memory of an SM
  LOCAL_MEM_SIZE_MAX,            \* bytes of local memory of a thread
  MAX_STREAMING_MULTIPROCESSORS,
  MAX_THREAD_PER_SM,
  WordSize                       \* 4 bytes

TOTAL_LOCAL_MEM_PER_SM == MAX_THREAD_PER_SM * LOCAL_MEM_SIZE_MAX
TOTAL_SHARED_MEM == MAX_STREAMING_MULTIPROCESSORS * SHARED_MEM_SIZE_MAX
TOTAL_LOCAL_MEM  == MAX_STREAMING_MULTIPROCESSORS * TOTAL_LOCAL_MEM_PER_SM

SHARED_GENERIC_START == GLOBAL_HEAP_START - TOTAL_SHARED_MEM
LOCAL_GENERIC_START  == SHARED_GENERIC_START - TOTAL_LOCAL_MEM
STATIC_ALLOC_LIMIT   == GLOBAL_HEAP_START - (TOTAL_LOCAL_MEM + TOTAL_SHARED_MEM)

ASSUME AddressAssumption ==
  /\ {SHARED_MEM_SIZE_MAX, LOCAL_MEM_SIZE_MAX, MAX_STREAMING_MULTIPROCESSORS,
      MAX_THREAD_PER_SM, WordSize} \subseteq Nat \ {0}
  /\ GLOBAL_HEAP_START \in Nat /\ STATIC_ALLOC_LIMIT \in Nat

SMs      == 0 .. MAX_STREAMING_MULTIPROCESSORS - 1
HwThreads == 0 .. MAX_THREAD_PER_SM - 1

-----------------------------------------------------------------------------
(* Generic addresses.                                                      *)

SharedWindow(sm) == SHARED_GENERIC_START + sm * SHARED_MEM_SIZE_MAX

LocalWindow(sm, t) ==
  LOCAL_GENERIC_START + TOTAL_LOCAL_MEM_PER_SM * sm + LOCAL_MEM_SIZE_MAX * t

shared_to_generic(sm, addr)   == SharedWindow(sm) + addr
local_to_generic(sm, t, addr) == LocalWindow(sm, t) + addr
global_to_generic(addr)       == addr

isspace_shared(sm, addr) ==
  SharedWindow(sm) <= addr /\ addr < SharedWindow(sm) + SHARED_MEM_SIZE_MAX

isspace_local(sm, t, addr) ==
  LocalWindow(sm, t) <= addr /\ addr < LocalWindow(sm, t) + LOCAL_MEM_SIZE_MAX

isspace_global(addr) == addr >= GLOBAL_HEAP_START \/ addr < STATIC_ALLOC_LIMIT

whichspace(addr) ==
  IF isspace_global(addr) THEN "global"
  ELSE IF addr >= SHARED_GENERIC_START THEN "shared"
  ELSE "local"

generic_to_shared(sm, addr)   == addr - SharedWindow(sm)
generic_to_local(sm, t, addr) == addr - LocalWindow(sm, t)

-----------------------------------------------------------------------------
(* translate_local_memaddr, for the machine [shaders, threads, map, padded, *)
(* maxCta]: num_shader, n_thread_per_shader, gpgpu_local_mem_map, and the   *)
(* padded CTA size and the CTAs per SM of the kernel on the SM.             *)

\* Mutant: the CTA's place is not multiplied by the number of SMs.
MutThreadBase(m, sm, t) ==
  IF m.map
  THEN WordSize * (m.padded * (sm + t \div m.padded) + (t % m.padded))
  ELSE WordSize * (m.threads * sm + t)

ThreadBase(m, sm, t) ==
  IF m.map
  THEN WordSize * (m.padded * (sm + m.shaders * (t \div m.padded))
                   + (t % m.padded))
  ELSE WordSize * (m.threads * sm + t)

MaxConcurrent(m) ==
  IF m.map THEN m.padded * m.maxCta * m.shaders ELSE m.shaders * m.threads

LinearAddress(m, sm, t, word) ==
  word * MaxConcurrent(m) * WordSize + ThreadBase(m, sm, t)
    + LOCAL_GENERIC_START

\* The addresses of an access of size bytes at a local address: one per
\* word, or the one inside a word.
TranslateLocal(m, sm, t, addr, size) ==
  IF size >= WordSize
  THEN {LinearAddress(m, sm, t, addr \div WordSize + i) :
          i \in 0 .. size \div WordSize - 1}
  ELSE {LinearAddress(m, sm, t, addr \div WordSize) + (addr % WordSize)}
=============================================================================
