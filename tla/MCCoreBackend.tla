--------------------------- MODULE MCCoreBackend ---------------------------
(* Instructions and programs for TLC. Registers 1 and 3 share a bank: the    *)
(* results of "sfu", "ldv" and "lds" stop there. *)
EXTENDS CoreBackend

Alu(port, src, dst, latency, interval) ==
  [port |-> port, src |-> src, dst |-> dst, latency |-> latency,
   interval |-> interval, space |-> "none", load |-> FALSE, queue |-> FALSE,
   bypass |-> FALSE, blocks |-> <<>>]

Mem(space, load, src, dst, blocks) ==
  [port |-> "MEM", src |-> src, dst |-> dst, latency |-> 1, interval |-> 1,
   space |-> space, load |-> load, queue |-> FALSE, bypass |-> FALSE,
   blocks |-> blocks]

OpsDef == [k \in {"add", "mul", "sfu", "ld", "ldv", "ldcg", "ldc", "lds", "st", "stcg", "ldq", "ldn", "membar", "sts"} |->
  CASE k = "add"  -> Alu("SP", <<1, 2>>, <<3>>, 2, 1)
    [] k = "mul"  -> Alu("SP", <<3, 1>>, <<2>>, 3, 2)
    [] k = "sfu"  -> Alu("SFU", <<1>>, <<1, 3, 2>>, 3, 3)
    [] k = "ld"   -> Mem("global", TRUE, <<1>>, <<2>>, <<0, 1>>)
    [] k = "ldv"  -> Mem("global", TRUE, <<3>>, <<1, 3>>, <<0>>)
    [] k = "ldcg" -> [Mem("global", TRUE, <<1>>, <<3>>, <<2, 3>>) EXCEPT !.bypass = TRUE]
    [] k = "ldc"  -> Mem("const", TRUE, <<>>, <<1>>, <<4, 5>>)
    [] k = "lds"  -> [Mem("shared", TRUE, <<2>>, <<1, 3>>, <<>>) EXCEPT !.interval = 2]
    [] k = "sts"  -> Mem("shared", FALSE, <<2>>, <<>>, <<>>)
    [] k = "st"   -> Mem("global", FALSE, <<1, 3>>, <<>>, <<0, 2>>)
    [] k = "stcg" -> [Mem("global", FALSE, <<2>>, <<>>, <<1>>) EXCEPT !.bypass = TRUE]
    [] k = "ldq"  -> [Mem("global", TRUE, <<1>>, <<>>, <<0, 1>>) EXCEPT !.queue = TRUE]
    [] k = "ldn"  -> Mem("global", TRUE, <<1>>, <<2>>, <<>>)
    [] OTHER      -> Mem("membar", FALSE, <<>>, <<>>, <<>>)]

\* The domains of the repository's configurations, with their one ratio
\* (CORE, ICNT and L2 together, DRAM faster) rounded.
Periods == [d \in Domains |-> IF d = "DRAM" THEN 2 ELSE 3]

SimdPortsDef == <<"SP", "SFU">>

P(a, b, c) == [w \in 0 .. 2 |-> CASE w = 0 -> a [] w = 1 -> b [] OTHER -> c]

Mixed == {
  P(<<"sfu", "add">>, <<"mul", "sfu">>, <<"add", "mul">>),
  P(<<"ld", "mul">>, <<"lds", "add">>, <<"ldq">>),
  P(<<"ldc", "sfu">>, <<"st", "lds">>, <<"ldcg">>),
  P(<<"lds", "lds">>, <<"ldcg">>, <<"lds", "add">>),
  P(<<"ldv", "add">>, <<"stcg">>, <<"ldn", "membar", "sts">>) }
=============================================================================
