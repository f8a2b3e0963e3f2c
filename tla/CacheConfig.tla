---------------------------- MODULE CacheConfig ----------------------------
(***************************************************************************)
(* The division of a core's unified memory between the L1 data cache and   *)
(* shared memory, which the simulator keeps in m_shader_config, one for    *)
(* all cores. A kernel launch applies the preference of                    *)
(* cudaFuncSetCacheConfig (change_cache_config); the first max_cta of a    *)
(* kernel carves the shared memory its CTAs need out of the L1 cache.      *)
(***************************************************************************)
EXTENDS Naturals, FiniteSetsExt

CONSTANTS
  ShmemOptions,  \* shmem_opt_list
  UnifiedSize,   \* m_unified_cache_size in bytes
  MaxAssoc       \* the associativity of an L1 cache of that size

ASSUME CarveOutAssumption ==
  /\ UnifiedSize \in Nat \ {0} /\ MaxAssoc \in Nat \ {0}
  /\ ShmemOptions \subseteq 0 .. UnifiedSize

\* A shared memory option takes whole ways of the cache, so nothing is rounded
\* in max_cta; in the configurations a way has half a kilobyte, and the options
\* are in kilobytes.
ASSUME WholeWays == \A o \in ShmemOptions : (MaxAssoc * o) % UnifiedSize = 0

None == "none"      \* a NULL kernel pointer

Missing == 0        \* a shared memory size that no option gave

FuncCaches == {"prefer none", "prefer L1", "prefer shared"}

\* The shared memory sizes of a configuration: only the default must be there.
SizesOf == {s \in [FuncCaches -> Nat] : s["prefer none"] # Missing}

\* change_cache_config: the size of the preference if it has one, and the L1
\* cache as its configuration string says, whatever was carved out of it.
ChangeCacheConfig(sizes, preference) ==
  LET got == IF sizes[preference] = Missing THEN "prefer none" ELSE preference
  IN  [status |-> got, shmem |-> sizes[got], ways |-> MaxAssoc,
       alloc |-> "configured", carvedFor |-> None]

\* The least shared memory option that holds the bytes.
CarveOut(bytes) == Min({o \in ShmemOptions : bytes <= o})

\* max_assoc * l1_ratio, rounded to the nearest.
WaysLeft(carved) ==
  (2 * MaxAssoc * (UnifiedSize - carved) + UnifiedSize) \div (2 * UnifiedSize)

\* Mutant: the cache keeps the ways that shared memory got.
MutCarve(l1d, k, bytes) ==
  [l1d EXCEPT !.ways = MaxAssoc, !.carvedFor = k,
              !.alloc = IF bytes = 0 THEN "on miss" ELSE "on fill"]

\* The adaptive configuration at the end of max_cta.
Carve(l1d, k, bytes) ==
  [l1d EXCEPT !.ways = WaysLeft(CarveOut(bytes)), !.carvedFor = k,
              !.alloc = IF bytes = 0 THEN "on miss" ELSE "on fill"]
=============================================================================
