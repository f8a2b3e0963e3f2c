-------------------------- MODULE MCKernelDispatch --------------------------
(* Kernels for TLC: "a" has CTAs of two warps, the second one partial, "b"  *)
(* of three warps, "c" of one.                                              *)
EXTENDS KernelDispatch

KernelsDef   == {"a", "b", "c"}
ThreadsDef   == [k \in KernelsDef |-> CASE k = "a" -> 3 [] k = "b" -> 6 [] OTHER -> 2]
SharedMemDef == [k \in KernelsDef |-> CASE k = "a" -> 5 [] k = "b" -> 0 [] OTHER -> 8]
RegsDef      == [k \in KernelsDef |-> CASE k = "a" -> 3 [] k = "b" -> 1 [] OTHER -> 0]
BlocksDef    == [k \in KernelsDef |-> CASE k = "a" -> 3 [] k = "b" -> 3 [] OTHER -> 1]

PreferenceDef ==
  [k \in {"b", "c"} |-> IF k = "b" THEN "prefer L1" ELSE "prefer shared"]

Option(concurrent, limit, rfq, smemq, small) ==
  [concurrent |-> concurrent, ctaLimit |-> limit, rfqDepth |-> rfq,
   smemqDepth |-> smemq,
   shmem |-> [p \in FuncCaches |-> CASE p = "prefer none" -> 40
                                    [] p = "prefer L1" -> small
                                    [] OTHER -> Missing]]

\* Cores bound to a kernel with an RFQ; shared cores with SMEM queues, where
\* gpgpu_max_cta cuts the dispatch before the last three CTAs.
BothModes == {Option(FALSE, 0, 2, 0, 8), Option(TRUE, 4, 0, 1, 24)}
=============================================================================
