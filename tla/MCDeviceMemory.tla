--------------------------- MODULE MCDeviceMemory ----------------------------
(* Two SMs of four threads; a kernel of CTAs of two threads, two or one on  *)
(* an SM, or the legacy mapping.                                            *)
EXTENDS DeviceCopies

Machine(shaders, map, maxCta) ==
  [shaders |-> shaders, threads |-> 4, map |-> map, padded |-> 2,
   maxCta |-> maxCta]

MCMachines == {Machine(2, TRUE, 2), Machine(2, TRUE, 1), Machine(2, FALSE, 1)}
=============================================================================
