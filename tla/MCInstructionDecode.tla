------------------------ MODULE MCInstructionDecode ------------------------
(* Tables, units and parsed instructions for InstructionDecode. *)
EXTENDS InstructionDecode

Table(latency, interval) == [latency |-> latency, interval |-> interval]

\* The tables of the configurations of the repository, with four units of
\* every kind for four schedulers: one each. One instruction at a time.
Configured ==
  [INT |-> Table(<<4, 13, 4, 5, 145, 21>>, <<2, 2, 2, 2, 8, 4>>),
   SP |-> Table(<<4, 13, 4, 5, 39>>, <<1, 1, 1, 1, 4>>),
   DP |-> Table(<<8, 19, 8, 8, 330>>, <<2, 2, 2, 2, 130>>),
   SFU |-> Table(<<100>>, <<8>>), TENSOR |-> Table(<<64>>, <<64>>),
   units |-> [SP |-> 1, DP |-> 1, INT |-> 1, SFU |-> 1, TENSOR |-> 1],
   room |-> 1]

\* The same order of latencies in few cycles, with several under way.
Scaled ==
  [INT |-> Table(<<2, 4, 2, 3, 7, 5>>, <<1, 1, 1, 2, 3, 2>>),
   SP |-> Table(<<2, 4, 2, 3, 5>>, <<1, 1, 1, 1, 2>>),
   DP |-> Table(<<3, 5, 3, 4, 9>>, <<2, 2, 2, 2, 4>>),
   SFU |-> Table(<<6>>, <<3>>), TENSOR |-> Table(<<4>>, <<4>>),
   units |-> [SP |-> 1, DP |-> 1, INT |-> 1, SFU |-> 1, TENSOR |-> 1],
   room |-> 2]

\* No integer and no double precision units: their work falls to the single
\* precision and the special function unit. MAX is the slowest on the former.
Old == [Scaled EXCEPT !.units = [@ EXCEPT !.INT = 0, !.DP = 0],
                      !.SP = Table(<<2, 5, 2, 3, 5>>, <<1, 1, 1, 1, 2>>)]

MCMachines == {Configured, Scaled, Old}

Reg(r)     == [kind |-> "reg", regs |-> <<r>>]
Vector(rs) == [kind |-> "vector", regs |-> rs]
Memory(rs) == [kind |-> "memory", regs |-> rs]
Queue(q)   == [kind |-> "name", regs |-> <<>>, id |-> q]
Literal    == [kind |-> "name", regs |-> <<>>]

Plain == [opcode |-> "NOP", type |-> "S32", type2 |-> "S32", operands |-> <<>>,
          hasDst |-> FALSE, pred |-> 0, queue |-> None, reads |-> FALSE,
          writes |-> FALSE, builtin |-> FALSE, cache |-> None, bar |-> None]

Arith(opcode, type, operands) ==
  [Plain EXCEPT !.opcode = opcode, !.type = type, !.operands = operands,
                !.hasDst = TRUE]

Load(opcode, operands) ==
  [Arith(opcode, "F32", operands) EXCEPT !.reads = TRUE]

Two   == <<Reg(1), Reg(2), Literal>>
Three == <<Reg(1), Reg(2), Literal, Reg(3), Reg(4)>>

MCInstructions ==
  {Arith(o, t, Two) : o \in {"ADD", "MAX", "MUL", "DIV"},
                      t \in {"S32", "S64", "F16", "F32", "F64"}}
  \cup {Arith("MAD", t, Three) : t \in {"S32", "F32", "F64"}}
  \cup {Arith("MAD24", "S32", Three), Arith("SIN", "F32", Two),
        Arith("RCP", "F64", Two), Arith("MOV", "F64", Two),
        Arith("SHFL", "B32", Three),
        Arith("MMA", "F16", <<Vector(<<1, 2>>), Vector(<<3, 4>>), Vector(<<5, 6>>),
                              Vector(<<7, 8>>)>>),
        [Arith("SET", "S32", Two) EXCEPT !.type2 = "F32", !.pred = 9]}
  \cup {Load("LD", <<Reg(1), Memory(<<2>>)>>),
        Load("LD", <<Vector(<<1, 2, 3, 4>>), Memory(<<5>>)>>),
        Load("LD", <<Reg(1), Memory(<<>>)>>),
        [Load("ATOM", <<Reg(1), Memory(<<2>>), Reg(3)>>) EXCEPT !.writes = TRUE],
        [Load("LD", <<Queue(1), Memory(<<2>>)>>) EXCEPT !.queue = "load"],
        [Load("LD", <<Reg(6) @@ [id |-> 6], Memory(<<2>>)>>)
           EXCEPT !.queue = "load"],
        [Arith("MOV", "F32", <<Reg(1), Queue(1)>>) EXCEPT !.queue = "move"],
        [Plain EXCEPT !.opcode = "ST", !.writes = TRUE, !.pred = 9,
                      !.operands = <<Memory(<<5>>), Vector(<<1, 2, 3, 4>>)>>],
        [Plain EXCEPT !.opcode = "BAR", !.bar = "SYNC"],
        [Plain EXCEPT !.opcode = "BRA", !.pred = 9],
        [Plain EXCEPT !.opcode = "MEMBAR"],
        [Plain EXCEPT !.opcode = "CALL"], [Plain EXCEPT !.opcode = "RET"],
        [Plain EXCEPT !.opcode = "EXIT"]}
=============================================================================
