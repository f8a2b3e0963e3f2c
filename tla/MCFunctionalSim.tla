--------------------------- MODULE MCFunctionalSim ---------------------------
(* A grid of two by two CTAs; no checkpoint, one in the second kernel, one  *)
(* without an instruction count, whose CTAs run to their end first, and one *)
(* of CTA 0 alone, with which all CTAs begin from files.  The last warp is  *)
(* whole or not.                                                            *)
EXTENDS FunctionalSim

MCGrid == [x |-> 2, y |-> 2, z |-> 1]

Option(on, kernel, cta, ctaT, insn, threads) ==
  [on |-> on, kernel |-> kernel, cta |-> cta, ctaT |-> ctaT, insn |-> insn,
   threads |-> threads]

MCOptions == {Option(FALSE, 1, 0, 0, 0, 6), Option(FALSE, 1, 0, 0, 0, 5),
              Option(TRUE, 2, 1, 3, 5, 6), Option(TRUE, 2, 1, 3, 5, 5),
              Option(TRUE, 1, 0, 2, 0, 6),
              Option(TRUE, 2, 0, 1, 5, 6), Option(TRUE, 2, 0, 1, 5, 5)}
=============================================================================
