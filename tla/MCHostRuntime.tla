--------------------------- MODULE MCHostRuntime ---------------------------
(***************************************************************************)
(* Two kernels of two fat binaries, launched on the default stream and on  *)
(* a created one, and a call whose grid may be empty, for TLC.             *)
(***************************************************************************)
EXTENDS HostRuntime

CONSTANTS f, g, e1
MCBinaryOf == (f :> 1) @@ (g :> 2)
\* A byte, a pair of bytes and a word; a 64-bit pointer after a 12-byte struct.
MCFormals == (f :> << [size |-> 1, align |-> 0], [size |-> 2, align |-> 0],
                      [size |-> 4, align |-> 0] >>)
             @@ (g :> << [size |-> 12, align |-> 4], [size |-> 8, align |-> 8] >>)
MCSites == {[fn |-> f, grid |-> "full", stream |-> 0],
            [fn |-> g, grid |-> "full", stream |-> 1],
            [fn |-> g, grid |-> "empty", stream |-> 1]}
=============================================================================
