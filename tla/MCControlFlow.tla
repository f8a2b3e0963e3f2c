--------------------------- MODULE MCControlFlow ---------------------------
(***************************************************************************)
(* Function bodies for TLC: every body of BranchSize instructions with     *)
(* branches and exits, and of BreakSize instructions with breaks, calls    *)
(* and at most one label that nobody jumps to.                             *)
(***************************************************************************)
EXTENDS ControlFlow

CONSTANTS BranchSize, BreakSize

Plain(ops, preds) == {Instr(op, p, 0) : op \in ops, p \in preds}
Jumps(op, preds, n) == {Instr(op, p, t) : p \in preds, t \in 2 .. n}

Branches(n) ==
  [size |-> n, unused |-> {{}},
   instrs |-> Plain({"op"}, {FALSE}) \cup Plain({"exit"}, {TRUE})
                \cup Jumps("bra", BOOLEAN, n)]
Breaks(n) ==
  [size |-> n, unused |-> {{}, {3}},
   instrs |-> Plain({"op"}, {FALSE}) \cup Plain({"call"}, {TRUE})
                \cup Plain({"break"}, BOOLEAN)
                \cup Jumps("breakaddr", {FALSE}, n)
                \cup Jumps("bra", BOOLEAN, n)]

MCShapes == {Branches(BranchSize), Breaks(BreakSize)}
=============================================================================
