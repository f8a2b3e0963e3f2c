------------------------- MODULE InstructionDecode -------------------------
(***************************************************************************)
(* From a parsed PTX instruction to the unit that executes it. pre_decode  *)
(* fills in the fields the timing model works with: the operation class,   *)
(* latency and initiation interval from the configured tables, and the     *)
(* registers the scoreboard and the operand collector see. The scheduler   *)
(* picks a register set by the operation class, the units behind it accept *)
(* the classes their can_issue lists, and an accepted instruction enters   *)
(* the pipeline of the unit at the stage its latency asks for. The four    *)
(* tables are written in four places and have to agree.                    *)
(*                                                                         *)
(* The operand collector and the load/store unit stand aside here: an      *)
(* instruction is ready for its unit once issued, and what the load/store  *)
(* unit accepts leaves the picture.                                        *)
(***************************************************************************)
EXTENDS Integers, Sequences, FiniteSets, SequencesExt

CONSTANTS
  Machines,      \* latency and interval tables, units of each kind, and the
                 \* instructions this instance lets be under way
  Instructions,  \* parsed instructions
  None

VARIABLES
  machine,       \* the configuration
  buffer,        \* the decoded instruction the scheduler looks at
  port,          \* the register set of each kind of unit
  unit           \* the units

vars == <<machine, buffer, port, unit>>

Kinds == {"SP", "DP", "INT", "SFU", "TENSOR", "MEM"}
Pipelined == Kinds \ {"MEM"}

Larger(a, b) == IF a > b THEN a ELSE b
-----------------------------------------------------------------------------
(* set_opcode_and_latency.                                                 *)

\* Operations that do no arithmetic, and their class.
PlainOp(i) ==
  CASE i.opcode \in {"LD", "LDU", "TEX", "ATOM"}     -> "LOAD"
    [] i.opcode = "ST"                               -> "STORE"
    [] i.opcode = "MMA_LD"                           -> "TENSOR_LOAD"
    [] i.opcode = "MMA_ST"                           -> "TENSOR_STORE"
    [] i.opcode = "MOV" /\ i.writes                  -> "STORE"
    [] i.opcode = "MOV" /\ i.reads                   -> "LOAD"
    [] i.opcode \in {"BRA", "BREAKADDR"}             -> "BRANCH"
    [] i.opcode \in {"BAR", "SST"}                   -> "BARRIER"
    [] i.opcode = "MEMBAR"                           -> "MEMORY_BARRIER"
    [] i.opcode \in {"CALL", "CALLP"} /\ ~ i.builtin -> "CALL"
    [] i.opcode \in {"RET", "RETP"}                  -> "RET"
    [] OTHER                                         -> "ALU"

\* The column of the tables an operation that goes by its type takes; 0 is
\* none.
Column(opcode) ==
  CASE opcode \in {"ADD", "ADDP", "ADDC", "SUB", "SUBC"} -> 1
    [] opcode \in {"MAX", "MIN"}                         -> 2
    [] opcode = "MUL"                                    -> 3
    [] opcode \in {"MAD", "MADC", "MADP", "FMA"}         -> 4
    [] opcode \in {"DIV", "REM"}                         -> 5
    [] OTHER                                             -> 0

Timed(op, table, col, extra) ==
  [op |-> op, latency |-> table.latency[col] + extra,
   interval |-> table.interval[col] + extra]

\* The unit a type of number is computed on; half precision and every
\* integer type take the integer settings.
Domain(type) ==
  CASE type = "F32"            -> "SP"
    [] type \in {"F64", "FF64"} -> "DP"
    [] OTHER                   -> "INT"

\* Addition to multiply-add run where their type says.
ByType(i) == Timed(Domain(i.type), machine[Domain(i.type)], Column(i.opcode), 0)

\* A division takes the time of its type and the special function unit.
Division(i) == [ByType(i) EXCEPT !.op = "SFU"]

\* The class, latency and initiation interval of an instruction.
SetOpcodeAndLatency(i) ==
  CASE Column(i.opcode) \in 1 .. 4      -> ByType(i)
    [] i.opcode \in {"DIV", "REM"}      -> Division(i)
    [] i.opcode = "MUL24"               -> Timed("INT", machine["INT"], 3, 1)
    [] i.opcode = "MAD24"               -> Timed("INT", machine["INT"], 4, 1)
    [] i.opcode = "SHFL"                -> Timed("ALU", machine["INT"], 6, 0)
    [] i.opcode \in {"SQRT", "SIN", "COS", "EX2", "LG2", "RSQRT", "RCP"} ->
         Timed("SFU", machine["SFU"], 1, 0)
    [] i.opcode = "MMA"                 -> Timed("TENSOR", machine["TENSOR"], 1, 0)
    [] OTHER -> [op |-> PlainOp(i), latency |-> 1, interval |-> 1]

FloatTypes == {"F16", "F32", "F64", "FF64"}
ControlOps ==
  {"MEMBAR", "SSY", "BRA", "BAR", "EXIT", "NOP", "RETP", "RET", "CALLP", "CALL"}

\* set_fp_or_int_archop: conversions and selections go by their second type.
OperandType(i) ==
  LET type == IF i.opcode \in {"CVT", "SET", "SLCT"} THEN i.type2 ELSE i.type
  IN  IF i.opcode \in ControlOps THEN "UN"
      ELSE IF type \in FloatTypes THEN "FP" ELSE "INT"

\* set_mul_div_or_other_archop: the class the energy model counts.
EnergyClass(i, op) ==
  LET double == i.type \in {"F64", "FF64"}
      float  == i.type \in FloatTypes
      family == IF double THEN "DP" ELSE IF float THEN "FP" ELSE "INT"
      home   == IF double THEN "DP" ELSE IF float THEN "SP" ELSE "INT"
  IN
  CASE i.opcode \in ControlOps                            -> <<"OTHER">>
    [] i.opcode = "MMA"                                   -> <<"TENSOR">>
    [] i.opcode = "TEX"                                   -> <<"TEX">>
    [] ~ float /\ i.opcode \in {"MUL24", "MAD24"}         -> <<"INT", "MUL24">>
    [] i.opcode \in {"MUL", "MAD", "FMA"}                 ->
         IF ~ float /\ i.type \in {"U32", "S32", "B32"}
         THEN <<"INT", "MUL32">> ELSE <<family, "MUL">>
    [] i.opcode \in {"DIV", "REM"}                        -> <<family, "DIV">>
    [] float /\ i.opcode = "RCP"                          -> <<family, "DIV">>
    [] float /\ i.opcode = "LG2"                          -> <<"FP", "LG">>
    [] float /\ i.opcode \in {"RSQRT", "SQRT"}            -> <<"FP", "SQRT">>
    [] float /\ i.opcode \in {"SIN", "COS"}               -> <<"FP", "SIN">>
    [] float /\ i.opcode = "EX2"                          -> <<"FP", "EXP">>
    [] OTHER -> IF op \in {home, "ALU"} THEN <<family>> ELSE <<"OTHER">>
-----------------------------------------------------------------------------
(* pre_decode: the registers. An operand is a register, a vector, an       *)
(* address, a number or a name; only the first three name registers.       *)

\* datatype2size, in bytes.
DataSize(type) ==
  CASE type \in {"B8", "S8", "U8"}                             -> 1
    [] type \in {"B16", "S16", "U16", "F16"}                   -> 2
    [] type \in {"B32", "S32", "U32", "F32"}                   -> 4
    [] type \in {"B64", "BB64", "S64", "U64", "F64", "FF64"}   -> 8
    [] type = "BB128"                                          -> 16

\* The cache operation a memory instruction gets when it names none.
CacheOp(i) ==
  IF i.cache # None THEN i.cache
  ELSE CASE i.opcode \in {"MMA_LD", "LD", "LDU"} -> "ALL"
         [] i.opcode \in {"MMA_ST", "ST"}        -> "WRITE_BACK"
         [] i.opcode = "ATOM"                    -> "GLOBAL"
         [] OTHER                                -> None

\* set_bar_type.
BarType(i) ==
  CASE i.opcode = "BAR" -> i.bar
    [] i.opcode = "SST" -> "SYNC"
    [] OTHER            -> None

Destinations(i) == IF i.hasDst THEN SubSeq(i.operands, 1, 1) ELSE <<>>
Sources(i) == IF i.hasDst THEN Tail(i.operands) ELSE i.operands

\* The registers an operand list names in the order they get their places.
Places(operands) ==
  FlattenSeq([k \in DOMAIN operands |->
    LET o == operands[k] IN
    IF o.kind \in {"reg", "vector"}
    THEN [n \in DOMAIN o.regs |-> [reg |-> o.regs[n], kind |-> o.kind]]
    ELSE <<>>])

RegsOf(places) == {places[k].reg : k \in DOMAIN places}

\* in[]: only the first three scalar sources are taken down.
InRegs(i) ==
  LET places == Places(Sources(i)) IN
  RegsOf([k \in {n \in DOMAIN places : n <= 3 \/ places[n].kind = "vector"} |->
           places[k]])

\* Mutant: a queue load keeps its destination.
MutOutRegs(i) == RegsOf(Places(Destinations(i)))

\* out[]: a queue load writes its queue and no register.
OutRegs(i) == IF i.queue = "load" THEN {} ELSE RegsOf(Places(Destinations(i)))

\* ar1: the register of the last memory operand that has one.
AddressReg(i) ==
  LET memory == SelectSeq(i.operands,
                          LAMBDA o : o.kind = "memory" /\ o.regs # <<>>)
  IN  IF (i.reads \/ i.writes) /\ memory # <<>> THEN Last(memory).regs[1] ELSE 0

\* arch_reg.src, what the operand collector reads: the address register takes
\* the fifth place, whatever was in it.
SrcRegs(i) ==
  LET places == Places(Sources(i)) IN
  IF AddressReg(i) = 0 THEN RegsOf(places)
  ELSE {AddressReg(i)} \cup {places[k].reg : k \in DOMAIN places \ {5}}

\* wasp_queue_id_from_operand: a number, or the digits a name ends in.
OperandId(o) == o.id

\* The queue operand of a load is its first, of a MOV its second.
QueueId(i) ==
  CASE i.queue = "load" -> OperandId(i.operands[1])
    [] i.queue = "move" -> OperandId(i.operands[2])
    [] OTHER            -> None

PreDecode(i) ==
  LET timing == SetOpcodeAndLatency(i)
      memory == i.reads \/ i.writes
  IN
  [parsed |-> i, op |-> timing.op, latency |-> timing.latency,
   interval |-> timing.interval,
   operandType |-> OperandType(i), energy |-> EnergyClass(i, timing.op),
   dataSize |-> IF memory THEN DataSize(i.type) ELSE 0,
   memoryOp |-> IF i.reads THEN "load" ELSE IF i.writes THEN "store" ELSE None,
   cacheOp |-> CacheOp(i), bar |-> BarType(i), queueId |-> QueueId(i),
   in |-> InRegs(i), out |-> OutRegs(i), pred |-> i.pred,
   ar1 |-> AddressReg(i), src |-> SrcRegs(i)]
-----------------------------------------------------------------------------
(* The scheduler and the units.                                            *)

Units(kind) == machine.units[kind]

MemoryOps == {"LOAD", "STORE", "TENSOR_LOAD", "TENSOR_STORE"}

\* Integer units take everything but single precision; without them all of it
\* goes to the single precision units.
AluTarget(d) == IF Units("INT") > 0 /\ d.op # "SP" THEN "INT" ELSE "SP"

\* scheduler_unit::cycle: the register set an instruction goes to.
IssueTarget(d) ==
  CASE d.op \in MemoryOps \cup {"MEMORY_BARRIER"}       -> "MEM"
    [] d.op = "DP"                                      ->
         IF Units("DP") > 0 THEN "DP" ELSE "SFU"
    [] d.op \in {"SFU", "TENSOR"}                       -> d.op
    [] OTHER                                            -> AluTarget(d)

\* Mutant: double precision falls through to the single precision unit.
MutCoIssueTarget(d) ==
  CASE d.op \in {"BARRIER", "MEMORY_BARRIER"}           -> None
    [] d.op \in MemoryOps                               -> "MEM"
    [] d.op = "DP" /\ Units("DP") > 0                   -> "DP"
    [] d.op \in {"SFU", "TENSOR"}                       -> d.op
    [] OTHER                                            -> AluTarget(d)

\* classify_issue_target, for the co-issue of a pair; barriers do not.
CoIssueTarget(d) ==
  CASE d.op \in {"BARRIER", "MEMORY_BARRIER"}           -> None
    [] d.op \in MemoryOps                               -> "MEM"
    [] d.op = "DP"                                      ->
         IF Units("DP") > 0 THEN "DP" ELSE "SFU"
    [] d.op \in {"SFU", "TENSOR"}                       -> d.op
    [] OTHER                                            ->
         IF Units("INT") > 0 /\ d.op # "SP" THEN "INT"
         ELSE IF Units("SP") > 0 THEN "SP" ELSE None

\* Mutant: the load/store unit takes no memory barriers.
MutAccepts(kind, op) == kind # "MEM" \/ op \in MemoryOps

\* The operation classes the can_issue of each kind of unit accepts.
Accepts(kind, op) ==
  CASE kind = "SFU"    -> op \in {"SFU", "DP"}
    [] kind = "DP"     -> op = "DP"
    [] kind = "TENSOR" -> op = "TENSOR"
    [] kind = "INT"    ->
         op \notin {"SFU", "SP", "DP", "MEMORY_BARRIER"} \cup MemoryOps
    [] kind = "SP"     -> op \notin {"SFU", "DP", "MEMORY_BARRIER"} \cup MemoryOps
    [] kind = "MEM"    -> op \in {"MEMORY_BARRIER"} \cup MemoryOps

\* set_pipeline_latency: a division in double precision is taken to be the
\* slowest on the special function unit, MAX on the others.
DepthOf(m, kind) ==
  CASE kind = "SFU"    -> Larger(m["DP"].latency[5], m["SFU"].latency[1])
    [] kind = "SP"     -> m["SP"].latency[2]
    [] kind = "INT"    -> Larger(m["INT"].latency[2], m["INT"].latency[6])
    [] kind = "DP"     -> m["DP"].latency[2]
    [] kind = "TENSOR" -> m["TENSOR"].latency[1]

\* m_pipeline_depth.
Depth(kind) == DepthOf(machine, kind)

\* The start stage of a column is one of the unit of that kind.
Fits(m, kind, table, col) ==
  /\ table.latency[col] \in Nat /\ table.interval[col] \in Nat \ {0}
  /\ table.interval[col] <= table.latency[col]
  /\ table.latency[col] - table.interval[col] < DepthOf(m, kind)

\* What set_pipeline_latency assumes of the tables and nothing checks: no
\* instruction starts behind the pipeline of the unit that gets it. There are
\* the units that stand in for no other.
ASSUME MachineAssumption == \A m \in Machines :
  LET integer == IF m.units["INT"] > 0 THEN "INT" ELSE "SP"
      double  == IF m.units["DP"] > 0 THEN "DP" ELSE "SFU"
  IN
  /\ m.units \in [Pipelined -> Nat]
  /\ \A kind \in {"SP", "SFU", "TENSOR"} : m.units[kind] > 0
  /\ \A c \in {1, 2, 3, 4, 6} : Fits(m, integer, m["INT"], c)
  /\ \A c \in 1 .. 4 : Fits(m, "SP", m["SP"], c) /\ Fits(m, double, m["DP"], c)
  /\ \A kind \in {"INT", "SP", "DP"} : Fits(m, "SFU", m[kind], 5)
  /\ Fits(m, "SFU", m["SFU"], 1) /\ Fits(m, "TENSOR", m["TENSOR"], 1)

\* due counts down to the cycle the result is promised for.
IdleUnit == [dispatch |-> None, delay |-> 0, due |-> 0, stages |-> {},
             occupied |-> {}]

\* A bit set shifted right by one.
Shifted(bits) == {n - 1 : n \in bits \ {0}}

\* pipelined_simd_unit::cycle: stage 0 hands over, the stages move up, and the
\* dispatch register, once its delay is over, enters a free start stage.
Cycled(u) ==
  LET moved == {[s EXCEPT !.at = @ - 1, !.due = @ - 1] :
                 s \in {t \in u.stages : t.at > 0}}
      delay == IF u.delay > 0 THEN u.delay - 1 ELSE 0
      start == u.dispatch.latency - u.dispatch.interval
  IN
  IF u.dispatch = None
  THEN [u EXCEPT !.stages = moved, !.occupied = Shifted(@)]
  ELSE IF delay = 0 /\ \A s \in moved : s.at # start
  THEN [dispatch |-> None, delay |-> 0, due |-> 0, occupied |-> Shifted(u.occupied),
        stages |-> moved \cup {[inst |-> u.dispatch, at |-> start, due |-> u.due - 1]}]
  ELSE [u EXCEPT !.stages = moved, !.occupied = Shifted(@), !.delay = delay,
                 !.due = @ - 1]

\* Mutant: the latencies that are taken are not looked at.
MutCanIssue(kind, u) ==
  /\ port[kind] # None
  /\ Accepts(kind, port[kind].op)
  /\ u.dispatch = None

\* The unit kind accepts the instruction in its port.
CanIssue(kind, u) ==
  /\ port[kind] # None
  /\ Accepts(kind, port[kind].op)
  /\ u.dispatch = None
  /\ port[kind].latency \notin u.occupied

\* execute() for a pipelined unit: a cycle, then the instruction in its port.
Executed(kind) ==
  LET u == Cycled(unit[kind])
      d == port[kind]
  IN  IF CanIssue(kind, u)
      THEN [u EXCEPT !.dispatch = d, !.delay = d.interval, !.due = d.latency,
                     !.occupied = @ \cup {d.latency}]
      ELSE u

UnderWay ==
  (IF buffer = None THEN 0 ELSE 1) + Cardinality({k \in Kinds : port[k] # None})
  + Cardinality({k \in Pipelined : unit[k].dispatch # None})
  + Cardinality(UNION {{<<k, s>> : s \in unit[k].stages} : k \in Pipelined})
-----------------------------------------------------------------------------
Init ==
  /\ machine \in Machines
  /\ buffer = None
  /\ port = [k \in Kinds |-> None]
  /\ unit = [k \in Pipelined |-> IdleUnit]

\* A decoded instruction reaches the instruction buffer.
Decode ==
  /\ buffer = None
  /\ UnderWay < machine.room
  /\ \E i \in Instructions : buffer' = PreDecode(i)
  /\ UNCHANGED <<machine, port, unit>>

Issue ==
  /\ buffer # None
  /\ port[IssueTarget(buffer)] = None
  /\ port' = [port EXCEPT ![IssueTarget(buffer)] = buffer]
  /\ buffer' = None
  /\ UNCHANGED <<machine, unit>>

\* execute() for all units of the core.
Execute ==
  /\ \/ \E k \in Kinds : port[k] # None
     \/ \E k \in Pipelined : unit[k] # IdleUnit
  /\ unit' = [k \in Pipelined |-> Executed(k)]
  /\ port' = [k \in Kinds |->
       IF \/ k = "MEM" /\ port[k] # None /\ Accepts(k, port[k].op)
          \/ k \in Pipelined /\ CanIssue(k, Cycled(unit[k]))
       THEN None ELSE port[k]]
  /\ UNCHANGED <<machine, buffer>>

Next == Decode \/ Issue \/ Execute

Spec == Init /\ [][Next]_vars

\* Scheduler and units are clocked in every cycle.
FairSpec == Spec /\ WF_vars(Issue) /\ WF_vars(Execute)
-----------------------------------------------------------------------------
(* Properties.                                                             *)

Decoded ==
  ({buffer} \cup {port[k] : k \in Kinds} \cup {unit[k].dispatch : k \in Pipelined}
   \cup UNION {{s.inst : s \in unit[k].stages} : k \in Pipelined}) \ {None}

\* The registers the parsed instruction names in a list of operands.
Named(operands) == UNION {ToSet(operands[k].regs) : k \in DOMAIN operands}

\* pre_decode loses no register: the scoreboard sees every register an
\* instruction reads (sources, address, predicate) or writes, and nothing
\* written by a queue load; the operand collector reads every source.
RegistersSeen ==
  \A d \in Decoded :
    LET i == d.parsed IN
    /\ (d.in \cup {d.pred, d.ar1}) \ {0} = (Named(Sources(i)) \cup {i.pred}) \ {0}
    /\ d.src = Named(Sources(i))
    /\ d.out = IF i.queue = "load" THEN {} ELSE Named(Destinations(i))

\* The tables agree on where an instruction runs: co-issue and single issue
\* send it to the same register set, there is a unit behind it, and the
\* energy model does not count integer work on the double precision unit.
\* Arithmetic it counts as double precision runs there or on the special
\* function unit; moves, conversions and comparisons run where all ALU
\* operations do.
PathsAgree ==
  \A d \in Decoded :
    /\ CoIssueTarget(d) \in {IssueTarget(d), None}
    /\ IssueTarget(d) = "MEM" \/ Units(IssueTarget(d)) > 0
    /\ d.energy[1] = "DP" /\ d.op # "ALU" => IssueTarget(d) \in {"DP", "SFU"}
    /\ d.energy[1] = "INT" => IssueTarget(d) # "DP"

\* An instruction enters the pipeline of its unit inside m_pipeline_reg, on
\* the cycle its initiation interval ends and on no later one, so its result
\* is handed over exactly latency cycles after its issue: the booking of the
\* result bus counts on that, and divisions and transcendental functions of
\* different latencies share a unit.
OnTime ==
  \A k \in Pipelined :
    /\ \A s \in unit[k].stages : s.at \in 0 .. Depth(k) - 1 /\ s.due = s.at
    /\ unit[k].dispatch # None =>
         unit[k].due = unit[k].delay + unit[k].dispatch.latency
                       - unit[k].dispatch.interval

\* No instruction gets stuck in front of a unit: whatever is decoded is
\* issued, and a unit of its kind takes it.
Retires ==
  /\ buffer # None ~> buffer = None
  /\ \A k \in Kinds : port[k] # None ~> port[k] = None
=============================================================================
