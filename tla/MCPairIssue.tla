---------------------------- MODULE MCPairIssue ----------------------------
(* A producer, its consumer and a second consumer.                         *)
EXTENDS PairIssue

I(op, unit, dst, src) == [op |-> op, unit |-> unit, dst |-> dst, src |-> src,
                          to |-> 0]
Q(i, kind, mask, vector, addr) ==
  i @@ [queue |-> kind, mask |-> mask, vector |-> vector, addr |-> addr]
Qload(a) == Q(I("qload", "MEM", {}, {}), "rfq", {1, 2}, 3, <<a, a + 1, a + 2>>)
Qmov     == Q(I("qmov", "INT", {1}, {}), "rfq", {1, 2}, 3, <<>>)
Sload    == Q(I("qload", "MEM", {}, {}), "smemq", {2}, 1, <<1>>)
Smov     == Q(I("qmov", "INT", {1}, {}), "smemq", {2}, 1, <<>>)
Load  == I("load", "MEM", {1}, {})
Fma   == I("alu", "SP", {1}, {1})
Add   == I("alu", "INT", {2}, {})
Bar   == I("bar", "INT", {}, {})
Exit  == I("exit", "INT", {}, {})
Pexit == I("pexit", "INT", {}, {})
Skip(pc) == [I("branch", "INT", {}, {}) EXCEPT !.to = pc]

Program(a, b, c) == [w \in Warps |-> CASE w = 0 -> a [] w = 1 -> b [] w = 2 -> c]

MCPrograms == {
  Program(<<Qload(1), Qload(4), Qload(7), Exit>>, <<Qmov, Qmov, Qmov, Exit>>,
          <<Load, Exit>>),
  Program(<<Skip(3), Add, Sload, Pexit, Exit>>, <<Fma, Smov, Bar, Exit>>,
          <<Bar, Exit>>),
  Program(<<Load, Fma, Exit>>, <<Bar, Exit>>, <<Bar, Exit>>)}

Mode(p, c, m) == [policy |-> p, coissue |-> c, maxIssue |-> m]
MCModes == {Mode("lrr", TRUE, 1), Mode("gto", TRUE, 2), Mode("old", TRUE, 1),
            Mode("rrr", FALSE, 1), Mode("warp_limiting", FALSE, 1),
            Mode("two_level_active", FALSE, 1)}
=============================================================================
