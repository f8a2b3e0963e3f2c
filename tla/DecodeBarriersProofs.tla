----------------------- MODULE DecodeBarriersProofs -----------------------
(***************************************************************************)
(* Theorems about two components of a core that share no state: those of   *)
(* InstructionDecode, for all latency tables that keep what                *)
(* set_pipeline_latency assumes of them and all parsed instructions, and   *)
(* those of CtaBarriers, for any number of slots, warps and barriers and   *)
(* any programs that do not arrive without waiting.                        *)
(***************************************************************************)
EXTENDS InstructionDecode, CtaBarriers, TLAPS

-----------------------------------------------------------------------------
(* What decoding and issue return.                                         *)

\* The units that stand in for missing ones.
IntegerKind == IF Units("INT") > 0 THEN "INT" ELSE "SP"
DoubleKind  == IF Units("DP") > 0 THEN "DP" ELSE "SFU"

\* MachineAssumption for the configuration of this run.
LEMMA TablesFit ==
  ASSUME machine \in Machines
  PROVE  /\ \A c \in {1, 2, 3, 4, 6} :
              Fits(machine, IntegerKind, machine["INT"], c)
         /\ \A c \in 1 .. 4 : /\ Fits(machine, "SP", machine["SP"], c)
                              /\ Fits(machine, DoubleKind, machine["DP"], c)
         /\ \A kind \in {"INT", "SP", "DP"} : Fits(machine, "SFU", machine[kind], 5)
         /\ Fits(machine, "SFU", machine["SFU"], 1)
         /\ Fits(machine, "TENSOR", machine["TENSOR"], 1)
         /\ machine.units \in [Pipelined -> Nat]
         /\ \A kind \in {"SP", "SFU", "TENSOR"} : machine.units[kind] > 0
BY MachineAssumption DEF IntegerKind, DoubleKind, Units

\* Every pipeline has a length.
LEMMA DepthIsNumber ==
  ASSUME machine \in Machines, NEW kind \in Pipelined
  PROVE  Depth(kind) \in Nat
<1>1. /\ machine["INT"].latency[2] \in Nat /\ machine["INT"].latency[6] \in Nat
      /\ machine["SP"].latency[2] \in Nat
      /\ machine["DP"].latency[2] \in Nat /\ machine["DP"].latency[5] \in Nat
      /\ machine["SFU"].latency[1] \in Nat /\ machine["TENSOR"].latency[1] \in Nat
  BY TablesFit DEF Fits
<1> QED BY <1>1 DEF Depth, DepthOf, Larger, Pipelined, Kinds

\* A timing starts inside the pipeline of a kind of unit.
Starts(t, kind) ==
  /\ t.latency \in Nat /\ t.interval \in Nat \ {0}
  /\ t.interval <= t.latency
  /\ t.latency - t.interval < Depth(kind)

\* A column of a table that fits gives such a timing, also with both one up.
LEMMA TimedStarts ==
  ASSUME machine \in Machines, NEW kind \in Pipelined, NEW table, NEW col, NEW op,
         Fits(machine, kind, table, col), NEW extra \in Nat
  PROVE  Timed(op, table, col, extra).op = op /\ Starts(Timed(op, table, col, extra), kind)
BY DepthIsNumber DEF Fits, Timed, Starts, Depth

\* Operations without a column are not for the units of divisions, double
\* precision and tensors.
LEMMA PlainOps ==
  ASSUME NEW i
  PROVE  PlainOp(i) \in {"LOAD", "STORE", "TENSOR_LOAD", "TENSOR_STORE", "BRANCH",
                         "BARRIER", "MEMORY_BARRIER", "CALL", "RET", "ALU"}
BY DEF PlainOp

\* Where the classes go.
LEMMA Targets ==
  ASSUME NEW d
  PROVE  /\ d.op = "INT" \/ d.op = "ALU" => IssueTarget(d) = IntegerKind
         /\ d.op = "SP" => IssueTarget(d) = "SP"
         /\ d.op = "DP" => IssueTarget(d) = DoubleKind
         /\ d.op = "SFU" => IssueTarget(d) = "SFU"
         /\ d.op = "TENSOR" => IssueTarget(d) = "TENSOR"
         /\ d.op \in {"LOAD", "STORE", "TENSOR_LOAD", "TENSOR_STORE", "BRANCH",
                      "BARRIER", "MEMORY_BARRIER", "CALL", "RET", "ALU"} =>
              IssueTarget(d) \in {"MEM", IntegerKind}
BY DEF IssueTarget, AluTarget, MemoryOps, IntegerKind, DoubleKind

\* Arithmetic of a type starts inside the pipeline its type leads to.
LEMMA ByTypeStarts ==
  ASSUME machine \in Machines, NEW i, Column(i.opcode) \in 1 .. 4
  PROVE  Starts(ByType(i), IssueTarget(ByType(i)))
<1>1. CASE Domain(i.type) = "SP"
  BY <1>1, TablesFit, TimedStarts, Targets DEF ByType, Pipelined, Kinds
<1>2. CASE Domain(i.type) = "DP"
  BY <1>2, TablesFit, TimedStarts, Targets DEF ByType, Pipelined, Kinds, DoubleKind
<1>3. CASE Domain(i.type) = "INT"
  BY <1>3, TablesFit, TimedStarts, Targets DEF ByType, Pipelined, Kinds, IntegerKind
<1> QED BY <1>1, <1>2, <1>3 DEF Domain

\* Every instruction with a pipelined unit starts inside its pipeline.
LEMMA TimingStarts ==
  ASSUME machine \in Machines, NEW i,
         IssueTarget(SetOpcodeAndLatency(i)) \in Pipelined
  PROVE  Starts(SetOpcodeAndLatency(i), IssueTarget(SetOpcodeAndLatency(i)))
<1> DEFINE t == SetOpcodeAndLatency(i)
<1>k. IntegerKind \in Pipelined /\ DoubleKind \in Pipelined
  BY DEF IntegerKind, DoubleKind, Pipelined, Kinds
<1>1. CASE i.opcode \in {"MUL24", "MAD24"}
  <2>1. PICK c \in {3, 4} : t = Timed("INT", machine["INT"], c, 1)
    BY <1>1 DEF SetOpcodeAndLatency, Column
  <2>2. t.op = "INT" /\ Starts(t, IntegerKind)
    BY <2>1, <1>k, TablesFit, TimedStarts
  <2> QED BY <2>2, Targets
<1>2. CASE i.opcode \in {"DIV", "REM"}
  <2>1. t = Division(i) /\ Column(i.opcode) = 5
    BY <1>2 DEF SetOpcodeAndLatency, Column
  <2>2. Domain(i.type) \in {"INT", "SP", "DP"}
    BY DEF Domain
  <2>3. Starts(ByType(i), "SFU")
    BY <2>1, <2>2, TablesFit, TimedStarts DEF ByType, Pipelined, Kinds
  <2>4. t.op = "SFU" /\ Starts(t, "SFU")
    BY <2>1, <2>3 DEF Division, Starts, ByType, Timed
  <2> QED BY <2>4, Targets
<1>3. CASE i.opcode = "SHFL"
  <2>1. t = Timed("ALU", machine["INT"], 6, 0)
    BY <1>3 DEF SetOpcodeAndLatency, Column
  <2>2. t.op = "ALU" /\ Starts(t, IntegerKind)
    BY <2>1, <1>k, TablesFit, TimedStarts
  <2> QED BY <2>2, Targets
<1>4. CASE Column(i.opcode) \in 1 .. 4
  <2>1. i.opcode \notin {"DIV", "REM", "MUL24", "MAD24", "SHFL", "SQRT", "SIN", "COS", "EX2",
                       "LG2", "RSQRT", "RCP", "MMA"}
    BY <1>4 DEF Column
  <2>2. t = ByType(i)
    BY <1>4, <2>1 DEF SetOpcodeAndLatency
  <2> QED BY <1>4, <2>2, ByTypeStarts
<1>5. CASE i.opcode \in {"SQRT", "SIN", "COS", "EX2", "LG2", "RSQRT", "RCP"}
  <2>1. t = Timed("SFU", machine["SFU"], 1, 0)
    BY <1>5 DEF SetOpcodeAndLatency, Column
  <2>2. t.op = "SFU" /\ Starts(t, "SFU")
    BY <2>1, TablesFit, TimedStarts DEF Pipelined, Kinds
  <2> QED BY <2>2, Targets
<1>6. CASE i.opcode = "MMA"
  <2>1. t = Timed("TENSOR", machine["TENSOR"], 1, 0)
    BY <1>6 DEF SetOpcodeAndLatency, Column
  <2>2. t.op = "TENSOR" /\ Starts(t, "TENSOR")
    BY <2>1, TablesFit, TimedStarts DEF Pipelined, Kinds
  <2> QED BY <2>2, Targets
<1>7. CASE /\ i.opcode \notin {"MUL24", "MAD24", "DIV", "REM", "SHFL", "SQRT", "SIN",
                             "COS", "EX2", "LG2", "RSQRT", "RCP", "MMA"}
           /\ Column(i.opcode) \notin 1 .. 4
  <2>1. t = [op |-> PlainOp(i), latency |-> 1, interval |-> 1]
    BY <1>7 DEF SetOpcodeAndLatency
  <2>2. IssueTarget(t) \in {"MEM", IntegerKind}
    BY <2>1, PlainOps, Targets
  <2>3. IssueTarget(t) = IntegerKind
    BY <2>2 DEF Pipelined
  <2>4. Fits(machine, IntegerKind, machine["INT"], 1)
    BY TablesFit
  <2>5. 0 < Depth(IntegerKind)
    BY <2>4, <1>k, DepthIsNumber DEF Fits, Depth
  <2> QED BY <2>1, <2>3, <2>5, <1>k, DepthIsNumber DEF Starts
<1> QED BY <1>1, <1>2, <1>3, <1>4, <1>5, <1>6, <1>7

-----------------------------------------------------------------------------
(* Where an instruction runs, for the tables that have to agree.           *)

Decodable == {PreDecode(i) : i \in Instructions}

\* A decoded instruction carries the timing of its parsed form.
LEMMA DecodedTiming ==
  ASSUME NEW i
  PROVE  LET d == PreDecode(i)  t == SetOpcodeAndLatency(i) IN
         /\ d.op = t.op /\ d.latency = t.latency /\ d.interval = t.interval
         /\ d.energy = EnergyClass(i, t.op)
         /\ IssueTarget(d) = IssueTarget(t)
BY DEF PreDecode, IssueTarget, AluTarget

\* What is decoded starts inside the pipeline of its unit.
LEMMA DecodableStarts ==
  ASSUME machine \in Machines, NEW d \in Decodable, IssueTarget(d) \in Pipelined
  PROVE  Starts(d, IssueTarget(d))
<1>1. PICK i \in Instructions : d = PreDecode(i)
  BY DEF Decodable
<1> QED BY <1>1, DecodedTiming, TimingStarts DEF Starts

\* The classes that arithmetic of each type gets.
LEMMA ArithmeticClass ==
  ASSUME NEW i
  PROVE  /\ i.opcode \in {"MUL", "MAD", "FMA"} =>
              SetOpcodeAndLatency(i).op = Domain(i.type)
         /\ i.opcode \in {"DIV", "REM", "RCP"} => SetOpcodeAndLatency(i).op = "SFU"
         /\ i.opcode \in {"MUL24", "MAD24"} => SetOpcodeAndLatency(i).op = "INT"
BY DEF SetOpcodeAndLatency, Column, ByType, Division, Timed

\* The energy class and the unit of a decoded instruction agree.
LEMMA EnergyAgrees ==
  ASSUME machine \in Machines, NEW i
  PROVE  LET d == PreDecode(i) IN
         /\ d.energy[1] = "DP" /\ d.op # "ALU" => IssueTarget(d) \in {"DP", "SFU"}
         /\ d.energy[1] = "INT" => IssueTarget(d) # "DP"
<1> DEFINE t == SetOpcodeAndLatency(i)
           e == EnergyClass(i, t.op)
<1>1. e[1] = "DP" => t.op \in {"DP", "SFU", "ALU"}
  BY ArithmeticClass DEF EnergyClass, FloatTypes, ControlOps, Domain
<1>2. e[1] = "INT" => t.op \in {"INT", "SFU", "ALU"}
  BY ArithmeticClass DEF EnergyClass, FloatTypes, ControlOps, Domain
<1> QED BY <1>1, <1>2, DecodedTiming, Targets DEF DoubleKind, IntegerKind

\* So do issue, co-issue and the units there are.
LEMMA IssueAgrees ==
  ASSUME machine \in Machines, NEW d
  PROVE  /\ CoIssueTarget(d) \in {IssueTarget(d), None}
         /\ IssueTarget(d) = "MEM" \/ Units(IssueTarget(d)) > 0
BY TablesFit DEF CoIssueTarget, IssueTarget, AluTarget, Units, MemoryOps, Pipelined, Kinds

-----------------------------------------------------------------------------
(* The inductive invariant: every instruction is under way to, or in, the  *)
(* unit that issue picks, its promised cycle is one that can_issue sees as *)
(* taken, and no other instruction of its unit has that cycle.             *)

UnitRecords ==
  [dispatch : Decodable \cup {None}, delay : Nat, due : Nat,
   stages : SUBSET [inst : Decodable, at : Nat, due : Nat], occupied : SUBSET Nat]

StagesInStep(k, u) ==
  \A s \in u.stages :
    IssueTarget(s.inst) = k /\ s.at < Depth(k) /\ s.due = s.at /\ s.due \in u.occupied

DispatchInStep(k, u) ==
  u.dispatch # None =>
    /\ IssueTarget(u.dispatch) = k
    /\ u.delay > 0 /\ u.due = u.delay + u.dispatch.latency - u.dispatch.interval
    /\ u.due \in u.occupied
    /\ \A s \in u.stages : s.due # u.due

UnitInStep(k, u) == u \in UnitRecords /\ StagesInStep(k, u) /\ DispatchInStep(k, u)

DecodeInv ==
  /\ machine \in Machines
  /\ buffer \in Decodable \cup {None}
  /\ port \in [Kinds -> Decodable \cup {None}]
  /\ \A k \in Kinds : port[k] # None => IssueTarget(port[k]) = k
  /\ DOMAIN unit = Pipelined /\ \A k \in Pipelined : UnitInStep(k, unit[k])

\* The stages after a shift, and the delay of the dispatch register.
MovedUp(u) == {[s EXCEPT !.at = @ - 1, !.due = @ - 1] : s \in {t \in u.stages : t.at > 0}}
DelayLeft(u) == IF u.delay > 0 THEN u.delay - 1 ELSE 0

\* Stages that move up keep their promise.
LEMMA MovedStages ==
  ASSUME machine \in Machines, NEW k \in Pipelined, NEW u, UnitInStep(k, u)
  PROVE  /\ MovedUp(u) \subseteq [inst : Decodable, at : Nat, due : Nat]
         /\ Shifted(u.occupied) \subseteq Nat
         /\ \A s \in MovedUp(u) :
              /\ IssueTarget(s.inst) = k /\ s.at < Depth(k) /\ s.due = s.at
              /\ s.due \in Shifted(u.occupied)
              /\ u.dispatch # None => s.due # u.due - 1
<1>1. Shifted(u.occupied) \subseteq Nat
  BY DEF UnitInStep, UnitRecords, Shifted
<1>2. ASSUME NEW s \in MovedUp(u)
      PROVE  /\ s \in [inst : Decodable, at : Nat, due : Nat]
             /\ IssueTarget(s.inst) = k /\ s.at < Depth(k) /\ s.due = s.at
             /\ s.due \in Shifted(u.occupied)
             /\ u.dispatch # None => s.due # u.due - 1
  <2>1. PICK t \in u.stages : t.at > 0 /\ s = [t EXCEPT !.at = @ - 1, !.due = @ - 1]
    BY DEF MovedUp
  <2>2. t \in [inst : Decodable, at : Nat, due : Nat] /\ t.due = t.at
    BY DEF UnitInStep, UnitRecords, StagesInStep
  <2>3. s = [inst |-> t.inst, at |-> t.at - 1, due |-> t.at - 1]
    BY <2>1, <2>2
  <2>4. t.due \in u.occupied /\ t.due # 0 /\ t.at < Depth(k) /\ IssueTarget(t.inst) = k
    BY <2>1, <2>2 DEF UnitInStep, StagesInStep
  <2>5. s.due \in Shifted(u.occupied)
    BY <2>2, <2>3, <2>4 DEF Shifted
  <2>6. u.dispatch # None => t.due # u.due /\ u.due \in Nat
    BY DEF UnitInStep, UnitRecords, DispatchInStep
  <2> QED BY <2>1, <2>2, <2>3, <2>4, <2>5, <2>6, DepthIsNumber
<1> QED BY <1>1, <1>2

\* A cycle keeps a unit in step: the start stage of an instruction whose
\* delay is over is always free, so it enters then and no later.
LEMMA CycleInStep ==
  ASSUME machine \in Machines, NEW k \in Pipelined, NEW u, UnitInStep(k, u)
  PROVE  UnitInStep(k, Cycled(u)) /\ (Cycled(u).dispatch = None \/ Cycled(u).dispatch = u.dispatch)
<1> DEFINE moved == MovedUp(u)
           delay == DelayLeft(u)
           start == u.dispatch.latency - u.dispatch.interval
           bits  == Shifted(u.occupied)
<1>t. u \in UnitRecords
  BY DEF UnitInStep
<1>1. CASE u.dispatch = None
  <2>1. Cycled(u) = [u EXCEPT !.stages = moved, !.occupied = bits]
    BY <1>1 DEF Cycled, MovedUp
  <2>2. /\ Cycled(u).stages = moved /\ Cycled(u).occupied = bits
        /\ Cycled(u).dispatch = None
    BY <1>1, <1>t, <2>1 DEF UnitRecords
  <2>3. Cycled(u) \in UnitRecords
    <3>1. Cycled(u) = [dispatch |-> None, delay |-> u.delay, due |-> u.due, stages |-> moved,
                       occupied |-> bits]
      BY <1>1, <1>t, <2>1 DEF UnitRecords
    <3>2. u.delay \in Nat /\ u.due \in Nat
      BY <1>t DEF UnitRecords
    <3> QED BY <3>1, <3>2, MovedStages DEF UnitRecords
  <2> QED BY <2>2, <2>3, MovedStages DEF UnitInStep, StagesInStep, DispatchInStep
<1>2. CASE u.dispatch # None
  <2>1. /\ u.dispatch \in Decodable /\ IssueTarget(u.dispatch) = k
        /\ u.delay \in Nat \ {0} /\ u.due = u.delay + start /\ u.due \in u.occupied
    BY <1>2, <1>t DEF UnitInStep, UnitRecords, DispatchInStep
  <2>2. start \in Nat /\ start < Depth(k)
    BY <2>1, DecodableStarts, DepthIsNumber DEF Starts
  <2>3. delay = u.delay - 1 /\ delay \in Nat /\ u.due - 1 = delay + start
    BY <2>1, <2>2 DEF DelayLeft
  <2>4. u.due - 1 \in bits /\ u.due - 1 \in Nat
    BY <2>1, <2>2 DEF Shifted
  <2>5. CASE delay = 0
    <3> DEFINE new == [inst |-> u.dispatch, at |-> start, due |-> u.due - 1]
    <3>1. \A s \in moved : s.at # start
      BY <1>2, <2>3, <2>5, <2>2, MovedStages
    <3>2. Cycled(u) = [dispatch |-> None, delay |-> 0, due |-> 0, occupied |-> bits,
                       stages |-> moved \cup {new}]
      BY <1>2, <2>5, <3>1 DEF Cycled, MovedUp, DelayLeft
    <3>3. new \in [inst : Decodable, at : Nat, due : Nat]
      BY <2>1, <2>2, <2>4
    <3>4. Cycled(u) \in UnitRecords
      BY <3>2, <3>3, MovedStages DEF UnitRecords
    <3>5. /\ IssueTarget(new.inst) = k /\ new.at < Depth(k) /\ new.due = new.at
          /\ new.due \in bits
      BY <2>1, <2>2, <2>3, <2>4, <2>5
    <3>6. StagesInStep(k, Cycled(u))
      BY <3>2, <3>5, MovedStages DEF StagesInStep
    <3> QED BY <3>2, <3>4, <3>6 DEF UnitInStep, DispatchInStep
  <2>6. CASE delay # 0
    <3>1. Cycled(u) = [u EXCEPT !.stages = moved, !.occupied = bits, !.delay = delay,
                                !.due = @ - 1]
      BY <1>2, <2>6 DEF Cycled, MovedUp, DelayLeft
    <3>2. /\ Cycled(u).dispatch = u.dispatch /\ Cycled(u).delay = delay
          /\ Cycled(u).due = u.due - 1 /\ Cycled(u).stages = moved
          /\ Cycled(u).occupied = bits /\ Cycled(u) \in UnitRecords
      BY <1>t, <2>3, <2>4, <3>1, MovedStages, ZenonT(60) DEF UnitRecords
    <3>3. StagesInStep(k, Cycled(u))
      BY <3>2, MovedStages DEF StagesInStep
    <3>4. DispatchInStep(k, Cycled(u))
      BY <1>2, <2>1, <2>3, <2>4, <2>6, <3>2, MovedStages DEF DispatchInStep
    <3> QED BY <3>2, <3>3, <3>4 DEF UnitInStep
  <2> QED BY <2>5, <2>6
<1> QED BY <1>1, <1>2

\* An instruction is accepted only if nothing in the unit is promised for
\* its cycle.
LEMMA IssueInStep ==
  ASSUME machine \in Machines, NEW k \in Pipelined, NEW u, UnitInStep(k, u),
         port[k] \in Decodable, IssueTarget(port[k]) = k, CanIssue(k, u)
  PROVE  UnitInStep(k, [u EXCEPT !.dispatch = port[k], !.delay = port[k].interval,
                                 !.due = port[k].latency,
                                 !.occupied = @ \cup {port[k].latency}])
<1> DEFINE d == port[k]
           v == [u EXCEPT !.dispatch = d, !.delay = d.interval, !.due = d.latency,
                          !.occupied = @ \cup {d.latency}]
<1>1. d.latency \in Nat /\ d.interval \in Nat \ {0} /\ d.interval <= d.latency
  BY DecodableStarts DEF Starts
<1>2. u \in UnitRecords
  BY DEF UnitInStep
<1>3. /\ v.dispatch = d /\ v.delay = d.interval /\ v.due = d.latency
      /\ v.stages = u.stages /\ v.occupied = u.occupied \cup {d.latency}
      /\ v \in UnitRecords
  BY <1>1, <1>2 DEF UnitRecords
<1>4. StagesInStep(k, v)
  BY <1>3 DEF UnitInStep, StagesInStep
<1>5. \A s \in v.stages : s.due # v.due
  BY <1>3 DEF UnitInStep, StagesInStep, CanIssue
<1>6. DispatchInStep(k, v)
  BY <1>1, <1>3, <1>5 DEF DispatchInStep
<1> QED BY <1>3, <1>4, <1>6 DEF UnitInStep

-----------------------------------------------------------------------------
(* The steps.                                                              *)

\* The configuration does not change, and with it what depends on it.
LEMMA SameMachine ==
  ASSUME machine' = machine
  PROVE  /\ Decodable' = Decodable /\ UnitRecords' = UnitRecords
         /\ \A k \in Pipelined : \A u : UnitInStep(k, u)' = UnitInStep(k, u)
         /\ \A d : IssueTarget(d)' = IssueTarget(d)
<1>1. \A i : SetOpcodeAndLatency(i)' = SetOpcodeAndLatency(i)
  BY DEF SetOpcodeAndLatency, ByType, Division
<1>2. \A i : PreDecode(i)' = PreDecode(i)
  BY <1>1 DEF PreDecode
<1>3. \A d : IssueTarget(d)' = IssueTarget(d)
  BY DEF IssueTarget, AluTarget, Units
<1>4. Decodable' = Decodable
  BY <1>2 DEF Decodable
<1>5. UnitRecords' = UnitRecords
  BY <1>4 DEF UnitRecords
<1>6. \A k : Depth(k)' = Depth(k)
  BY DEF Depth
<1> QED BY <1>3, <1>4, <1>5, <1>6 DEF UnitInStep, StagesInStep, DispatchInStep

LEMMA InitInStep == Init => DecodeInv
<1> SUFFICES ASSUME Init PROVE DecodeInv
  OBVIOUS
<1>1. \A k \in Pipelined : UnitInStep(k, IdleUnit)
  BY DEF UnitInStep, UnitRecords, StagesInStep, DispatchInStep, IdleUnit
<1> QED BY <1>1 DEF Init, DecodeInv

LEMMA ExecuteInStep ==
  ASSUME DecodeInv, Execute
  PROVE  DecodeInv'
<1>m. machine' = machine /\ machine \in Machines /\ buffer' = buffer
  BY DEF DecodeInv, Execute
<1>1. ASSUME NEW k \in Pipelined
      PROVE  UnitInStep(k, unit'[k])
  <2>1. UnitInStep(k, Cycled(unit[k]))
    BY <1>m, CycleInStep DEF DecodeInv
  <2>2. unit'[k] = Executed(k)
    BY DEF Execute
  <2>3. k \in Kinds
    BY DEF Pipelined
  <2>4. CASE CanIssue(k, Cycled(unit[k]))
    <3>1. port[k] # None
      BY <2>4 DEF CanIssue
    <3>2. port[k] \in Decodable /\ IssueTarget(port[k]) = k
      BY <2>3, <3>1 DEF DecodeInv
    <3> QED BY <1>m, <2>1, <2>2, <2>4, <3>2, IssueInStep, ZenonT(60) DEF Executed
  <2>5. CASE ~ CanIssue(k, Cycled(unit[k]))
    BY <2>1, <2>2, <2>5 DEF Executed
  <2> QED BY <2>4, <2>5
<1>2. DOMAIN unit' = Pipelined
  BY DEF Execute
<1>3. port' \in [Kinds -> Decodable \cup {None}]
  BY DEF Execute, DecodeInv
<1>4. \A k \in Kinds : port'[k] # None => port'[k] = port[k]
  BY DEF Execute
<1> QED BY <1>m, <1>1, <1>2, <1>3, <1>4, SameMachine DEF DecodeInv

LEMMA NextInStep ==
  ASSUME DecodeInv, [Next]_vars
  PROVE  DecodeInv'
<1>1. CASE Decode
  <2>1. machine' = machine /\ port' = port /\ unit' = unit /\ buffer' \in Decodable
    BY <1>1 DEF Decode, Decodable
  <2> QED BY <2>1, SameMachine DEF DecodeInv
<1>2. CASE Issue
  <2>1. machine' = machine /\ unit' = unit /\ buffer' = None
    BY <1>2 DEF Issue
  <2>2. /\ buffer \in Decodable /\ IssueTarget(buffer) \in Kinds
        /\ port' = [port EXCEPT ![IssueTarget(buffer)] = buffer]
    BY <1>2 DEF Issue, DecodeInv, IssueTarget, AluTarget, Kinds
  <2>3. /\ port' \in [Kinds -> Decodable \cup {None}]
        /\ \A k \in Kinds : port'[k] # None => IssueTarget(port'[k]) = k
    BY <2>2 DEF DecodeInv
  <2> QED BY <2>1, <2>3, SameMachine DEF DecodeInv
<1>3. CASE Execute
  BY <1>3, ExecuteInStep
<1>4. CASE UNCHANGED vars
  BY <1>4, SameMachine DEF DecodeInv, vars
<1> QED BY <1>1, <1>2, <1>3, <1>4 DEF Next

THEOREM DecodeInvariant == Spec => []DecodeInv
<1>1. Init => DecodeInv
  BY InitInStep
<1>2. DecodeInv /\ [Next]_vars => DecodeInv'
  BY NextInStep
<1> QED BY <1>1, <1>2, PTL DEF Spec

\* Every result is handed over on the promised cycle, from inside the
\* pipeline: pipelined_simd_unit::cycle finds the start stage free whenever
\* dispatch_delay is over, because can_issue tests the promised cycle.
THEOREM ResultsOnTime == Spec => []OnTime
<1>1. DecodeInv => OnTime
  <2> SUFFICES ASSUME DecodeInv, NEW k \in Pipelined
               PROVE  /\ \A s \in unit[k].stages :
                           s.at \in 0 .. Depth(k) - 1 /\ s.due = s.at
                      /\ unit[k].dispatch # None =>
                           unit[k].due = unit[k].delay + unit[k].dispatch.latency
                                         - unit[k].dispatch.interval
    BY DEF OnTime
  <2>1. UnitInStep(k, unit[k]) /\ Depth(k) \in Nat
    BY DepthIsNumber DEF DecodeInv
  <2>2. \A s \in unit[k].stages : s.at \in Nat
    BY <2>1 DEF UnitInStep, UnitRecords
  <2> QED BY <2>1, <2>2 DEF UnitInStep, StagesInStep, DispatchInStep
<1> QED BY <1>1, DecodeInvariant, PTL

\* Issue, co-issue, the units there are and the energy classes agree on
\* every decoded instruction under way.
THEOREM TablesAgree == Spec => []PathsAgree
<1>1. DecodeInv => PathsAgree
  <2> SUFFICES ASSUME DecodeInv, NEW d \in Decoded
               PROVE  /\ CoIssueTarget(d) \in {IssueTarget(d), None}
                      /\ IssueTarget(d) = "MEM" \/ Units(IssueTarget(d)) > 0
                      /\ d.energy[1] = "DP" /\ d.op # "ALU" => IssueTarget(d) \in {"DP", "SFU"}
                      /\ d.energy[1] = "INT" => IssueTarget(d) # "DP"
    BY DEF PathsAgree
  <2>1. machine \in Machines
    BY DEF DecodeInv
  <2>2. \A k \in Pipelined : /\ unit[k].dispatch \in Decodable \cup {None}
                             /\ \A s \in unit[k].stages : s.inst \in Decodable
    BY DEF DecodeInv, UnitInStep, UnitRecords
  <2>3. d \in Decodable
    BY <2>2 DEF Decoded, DecodeInv
  <2>4. PICK i \in Instructions : d = PreDecode(i)
    BY <2>3 DEF Decodable
  <2> QED BY <2>1, <2>4, IssueAgrees, EnergyAgrees
<1> QED BY <1>1, DecodeInvariant, PTL

-----------------------------------------------------------------------------
(* The barriers of CTAs.                                                   *)

\* Programs whose every barrier instruction waits (bar.sync and bar.red).
WaitingOps == {op \in Ops : op.type # "ARRIVE"}

\* A warp counts as arrived at one barrier at most, the one it waits at, and
\* for the round that comes next; a warp that does not wait has had its round.
Lockstep ==
  \A c \in Ctas : \A w \in WarpsOf[c] :
    /\ ticket[w].round > 0 => ticket[w].cta = c /\ ticket[w].bar \in Barriers
    /\ \A b \in Barriers :
         w \in bars.reached[b] <=>
           w \in bars.waiting /\ ticket[w].round > 0 /\ ticket[w].bar = b
    /\ w \in bars.waiting =>
         /\ ticket[w].round > 0
         /\ ticket[w].round = phase[c][ticket[w].bar] + 1
    /\ ticket[w].round > 0 /\ w \notin bars.waiting =>
         phase[c][ticket[w].bar] >= ticket[w].round

\* Every warp the barriers know of is a warp of a resident CTA.
Residents ==
  /\ bars.waiting \subseteq bars.active
  /\ bars.active \subseteq resident
  /\ \A w \in resident : \E c \in Ctas : w \in WarpsOf[c]
  /\ \A w \in Warps : ticket[w].round > 0 => \E c \in Ctas : w \in WarpsOf[c]

Waits == \A w \in Warps : code[w] \in Seq(WaitingOps)

IInv == TypeOK /\ Residents /\ Waits /\ Lockstep
-----------------------------------------------------------------------------
\* The slots' warps are disjoint, so a warp tells its slot.
LEMMA OneSlot ==
  \A c, d \in Ctas : \A w \in Warps :
    w \in WarpsOf[c] /\ w \in WarpsOf[d] => c = d
BY SlotAssumption DEF SlotAssumption

\* The initial states satisfy the invariant.
LEMMA InitIInv == BarrierInit => IInv
<1> SUFFICES ASSUME BarrierInit PROVE IInv OBVIOUS
<1> USE SlotAssumption DEF SlotAssumption, BarrierInit, NoBarriers, NoTicket
<1>1. TypeOK BY DEF TypeOK
<1>2. Residents BY DEF Residents
<1>3. Waits BY DEF Waits
<1>4. Lockstep BY DEF Lockstep
<1> QED BY <1>1, <1>2, <1>3, <1>4 DEF IInv

\* A CTA that comes to a slot starts with warps that no barrier knows.
LEMMA LaunchKeeps ==
  ASSUME Programs \subseteq [Warps -> Seq(WaitingOps)],
         IInv, NEW c \in Ctas, LaunchCta(c)
  PROVE  IInv'
<1> DEFINE ws == WarpsOf[c]
<1> USE DEF IInv
<1>1. /\ ws \subseteq Warps /\ ws # {}
      /\ \A d \in Ctas : WarpsOf[d] \subseteq Warps
      /\ \A d \in Ctas : d # c => WarpsOf[d] \cap ws = {}
      /\ Grid \in Nat
  BY SlotAssumption DEF SlotAssumption
<1>2. /\ bars'.ctas = [d \in DOMAIN bars.ctas \cup {c} |->
                        IF d = c THEN ws ELSE bars.ctas[d]]
      /\ bars'.active = bars.active \cup ws
      /\ bars'.waiting = bars.waiting \ ws
      /\ bars'.reached = [b \in Barriers |-> bars.reached[b] \ ws]
  BY DEF LaunchCta, AllocateBarrier
<1>3. /\ resident' = resident \cup ws
      /\ phase' = [phase EXCEPT ![c] = [b \in Barriers |-> 0]]
      /\ ticket' = [w \in Warps |-> IF w \in ws THEN NoTicket ELSE ticket[w]]
      /\ gridLeft' = gridLeft - 1 /\ gridLeft > 0
      /\ c \notin DOMAIN bars.ctas
  BY DEF LaunchCta
<1>4. PICK p \in Programs :
        code' = [w \in Warps |-> IF w \in ws THEN p[w] ELSE code[w]]
  BY DEF LaunchCta
<1>5. p \in [Warps -> Seq(WaitingOps)] /\ p \in [Warps -> Seq(Ops)]
  BY <1>4, ProgramAssumption DEF ProgramAssumption
<1> HIDE DEF ws
<1>6. TypeOK'
  <2>1. DOMAIN bars'.ctas = {d \in Ctas : WarpsOf[d] \cap resident' # {}}
    BY <1>1, <1>2, <1>3 DEF TypeOK, ws
  <2>2. \A d \in DOMAIN bars'.ctas : bars'.ctas[d] = WarpsOf[d]
    BY <1>2 DEF TypeOK, ws
  <2>3. bars'.active \subseteq Warps /\ bars'.waiting \subseteq Warps
    BY <1>1, <1>2 DEF TypeOK
  <2>4. bars'.reached \in [Barriers -> SUBSET Warps]
    BY <1>2 DEF TypeOK
  <2>5. code' \in [Warps -> Seq(Ops)]
    BY <1>4, <1>5 DEF TypeOK
  <2>6. resident' \subseteq Warps /\ gridLeft' \in 0 .. Grid
    BY <1>1, <1>3 DEF TypeOK
  <2>7. phase' \in [Ctas -> [Barriers -> Nat]]
    BY <1>3 DEF TypeOK
  <2>8. ticket' \in [Warps -> [cta : Ctas, bar : Barriers, round : Nat]
                             \cup {NoTicket}]
    BY <1>3 DEF TypeOK
  <2> QED BY <2>1, <2>2, <2>3, <2>4, <2>5, <2>6, <2>7, <2>8 DEF TypeOK
<1>7. Residents'
  BY <1>1, <1>2, <1>3 DEF Residents, TypeOK, ws, NoTicket
<1>8. Waits'
  BY <1>4, <1>5 DEF Waits
<1>9. Lockstep'
  <2> SUFFICES ASSUME NEW d \in Ctas, NEW w \in WarpsOf[d]
               PROVE
    /\ ticket'[w].round > 0 => ticket'[w].cta = d /\ ticket'[w].bar \in Barriers
    /\ \A b \in Barriers :
         w \in bars'.reached[b] <=>
           w \in bars'.waiting /\ ticket'[w].round > 0 /\ ticket'[w].bar = b
    /\ w \in bars'.waiting =>
         /\ ticket'[w].round > 0
         /\ ticket'[w].round = phase'[d][ticket'[w].bar] + 1
    /\ ticket'[w].round > 0 /\ w \notin bars'.waiting =>
         phase'[d][ticket'[w].bar] >= ticket'[w].round
    BY DEF Lockstep
  <2>1. w \in Warps BY <1>1
  <2>2. CASE w \in ws
    <3>1. ticket'[w].round = 0 BY <1>3, <2>1, <2>2 DEF NoTicket
    <3>2. w \notin bars'.waiting /\ \A b \in Barriers : w \notin bars'.reached[b]
      BY <1>2, <2>2
    <3> QED BY <3>1, <3>2
  <2>3. CASE w \notin ws
    <3>1. ticket'[w] = ticket[w] BY <1>3, <2>1, <2>3
    <3>2. d # c BY <2>3 DEF ws
    <3>3. phase'[d] = phase[d] BY <1>3, <3>2 DEF TypeOK
    <3>4. /\ w \in bars'.waiting <=> w \in bars.waiting
          /\ \A b \in Barriers : w \in bars'.reached[b] <=> w \in bars.reached[b]
      BY <1>2, <2>3
    <3> QED BY <3>1, <3>3, <3>4 DEF Lockstep
  <2> QED BY <2>2, <2>3
<1> QED BY <1>6, <1>7, <1>8, <1>9

\* A ready warp is registered at no barrier.
LEMMA ReadyIsFree ==
  ASSUME IInv, NEW c \in Ctas, NEW w \in WarpsOf[c], w \notin bars.waiting
  PROVE  \A b \in Barriers : w \notin bars.reached[b]
BY DEF IInv, Lockstep

\* A new round leaves every other slot and barrier alone.
LEMMA Rounds ==
  ASSUME TypeOK, NEW c \in Ctas, NEW done \in SUBSET Barriers,
         phase' = NextRound(c, done)
  PROVE  /\ phase' \in [Ctas -> [Barriers -> Nat]]
         /\ \A d \in Ctas, b \in Barriers :
              /\ phase[d][b] \in Nat
              /\ phase'[d][b] = IF d = c /\ b \in done THEN phase[d][b] + 1
                               ELSE phase[d][b]
BY DEF TypeOK, NextRound

\* A warp that arrives waits for the round that comes next, or completes it
\* for everybody that waits for it.
LEMMA BarrierKeeps ==
  ASSUME IInv, NEW c \in DOMAIN bars.ctas, NEW w \in WarpsOf[c], Barrier(c, w)
  PROVE  IInv'
<1> DEFINE op   == Head(code[w])
           gone == Released(bars, c, w, op)
           full == Completes(bars, c, w, op)
           done == IF full THEN {op.bar} ELSE {}
<1> USE DEF IInv
<1>1. /\ c \in Ctas /\ w \in Warps
      /\ bars.ctas[c] = WarpsOf[c]
      /\ \A d \in Ctas : WarpsOf[d] \subseteq Warps
  BY SlotAssumption DEF SlotAssumption, TypeOK
<1>2. w \in bars.active /\ w \notin bars.waiting /\ code[w] # <<>>
  BY DEF Barrier, Runnable
<1>3. /\ op \in Ops /\ op.type # "ARRIVE"
      /\ Tail(code[w]) \in Seq(WaitingOps) /\ Tail(code[w]) \in Seq(Ops)
  <2>1. code[w] \in Seq(WaitingOps) BY <1>1 DEF Waits
  <2>2. op \in WaitingOps /\ Tail(code[w]) \in Seq(WaitingOps)
    BY <2>1, <1>2
  <2>3. code[w] \in Seq(Ops) BY <1>1 DEF TypeOK
  <2>4. Tail(code[w]) \in Seq(Ops) BY <2>3, <1>2
  <2> QED BY <2>2, <2>4 DEF WaitingOps
<1>4. op.bar \in Barriers BY <1>3 DEF Ops
<1>5. gone = IF full THEN WarpsOf[c] \cap (bars.reached[op.bar] \cup {w}) ELSE {}
  BY <1>1 DEF Released, AtBarrier
<1>6. /\ bars'.ctas = bars.ctas
      /\ bars'.active = bars.active
      /\ bars'.waiting = (bars.waiting \cup {w}) \ gone
      /\ bars'.reached = [b \in Barriers |->
                           IF b = op.bar THEN (bars.reached[b] \cup {w}) \ gone
                                         ELSE bars.reached[b]]
  BY <1>3 DEF Barrier, WarpReaches
<1>7. /\ code' = [code EXCEPT ![w] = Tail(code[w])]
      /\ phase' = NextRound(c, done)
      /\ ticket' = [ticket EXCEPT ![w] = [cta |-> c, bar |-> op.bar,
                                          round |-> phase[c][op.bar] + 1]]
      /\ UNCHANGED <<resident, gridLeft>>
  BY <1>3 DEF Barrier
<1>8. done \in SUBSET Barriers BY <1>4
<1> HIDE DEF op, gone, full
<1>9. /\ phase' \in [Ctas -> [Barriers -> Nat]]
      /\ \A d \in Ctas, b \in Barriers :
           /\ phase[d][b] \in Nat
           /\ phase'[d][b] = IF d = c /\ b = op.bar /\ full
                            THEN phase[d][b] + 1 ELSE phase[d][b]
  <2>1. \A b \in Barriers : b \in done <=> b = op.bar /\ full
    OBVIOUS
  <2> HIDE DEF done
  <2>2. /\ phase' \in [Ctas -> [Barriers -> Nat]]
        /\ \A d \in Ctas, b \in Barriers :
             /\ phase[d][b] \in Nat
             /\ phase'[d][b] = IF d = c /\ b \in done THEN phase[d][b] + 1
                              ELSE phase[d][b]
    BY <1>1, <1>7, <1>8, Rounds
  <2> QED BY <2>1, <2>2
<1>10. TypeOK'
  <2>1. /\ DOMAIN bars'.ctas = {d \in Ctas : WarpsOf[d] \cap resident' # {}}
        /\ \A d \in DOMAIN bars'.ctas : bars'.ctas[d] = WarpsOf[d]
    BY <1>6, <1>7 DEF TypeOK
  <2>2. bars'.active \subseteq Warps /\ bars'.waiting \subseteq Warps
    BY <1>1, <1>6 DEF TypeOK
  <2>3. bars'.reached \in [Barriers -> SUBSET Warps]
    BY <1>1, <1>6 DEF TypeOK
  <2>4. code' \in [Warps -> Seq(Ops)]
    BY <1>1, <1>3, <1>7 DEF TypeOK
  <2>5. resident' \subseteq Warps /\ gridLeft' \in 0 .. Grid
    BY <1>7 DEF TypeOK
  <2>6. [cta |-> c, bar |-> op.bar, round |-> phase[c][op.bar] + 1]
          \in [cta : Ctas, bar : Barriers, round : Nat]
    BY <1>1, <1>4, <1>9
  <2>7. ticket' \in [Warps -> [cta : Ctas, bar : Barriers, round : Nat]
                             \cup {NoTicket}]
    BY <1>7, <2>6 DEF TypeOK
  <2> QED BY <1>9, <2>1, <2>2, <2>3, <2>4, <2>5, <2>7 DEF TypeOK
<1>11. Residents'
  BY <1>1, <1>2, <1>6, <1>7 DEF Residents, TypeOK
<1>12. Waits'
  BY <1>1, <1>3, <1>7 DEF Waits, TypeOK
<1>13. Lockstep'
  <2> SUFFICES ASSUME NEW d \in Ctas, NEW v \in WarpsOf[d]
               PROVE
    /\ ticket'[v].round > 0 => ticket'[v].cta = d /\ ticket'[v].bar \in Barriers
    /\ \A b \in Barriers :
         v \in bars'.reached[b] <=>
           v \in bars'.waiting /\ ticket'[v].round > 0 /\ ticket'[v].bar = b
    /\ v \in bars'.waiting =>
         /\ ticket'[v].round > 0
         /\ ticket'[v].round = phase'[d][ticket'[v].bar] + 1
    /\ ticket'[v].round > 0 /\ v \notin bars'.waiting =>
         phase'[d][ticket'[v].bar] >= ticket'[v].round
    BY DEF Lockstep
  <2>1. v \in Warps BY <1>1
  <2>2. CASE v = w
    <3>1. d = c BY <1>1, <2>2, OneSlot
    <3>2. /\ ticket'[v].cta = c /\ ticket'[v].bar = op.bar
          /\ ticket'[v].round = phase[c][op.bar] + 1
      BY <1>7, <2>1, <2>2 DEF TypeOK
    <3>3. ticket'[v].round > 0 BY <3>2, <1>1, <1>4, <1>9
    <3>4. \A b \in Barriers : v \notin bars.reached[b]
      BY <1>1, <1>2, <2>2, ReadyIsFree
    <3>5. CASE full
      <4>1. v \in gone BY <1>5, <2>2, <3>5
      <4>2. v \notin bars'.waiting BY <1>6, <4>1
      <4>3. \A b \in Barriers : v \notin bars'.reached[b]
        BY <1>6, <3>4, <4>1
      <4>4. phase'[d][op.bar] = phase[c][op.bar] + 1
        BY <1>1, <1>4, <1>9, <3>1, <3>5
      <4> QED BY <1>1, <1>4, <1>9, <3>1, <3>2, <4>2, <4>3, <4>4
    <3>6. CASE ~ full
      <4>1. gone = {} BY <1>5, <3>6
      <4>2. v \in bars'.waiting BY <1>6, <2>2, <4>1
      <4>3. \A b \in Barriers : v \in bars'.reached[b] <=> b = op.bar
        BY <1>4, <1>6, <2>2, <3>4, <4>1
      <4>4. phase'[d][op.bar] = phase[c][op.bar]
        BY <1>1, <1>4, <1>9, <3>1, <3>6
      <4> QED BY <1>4, <3>1, <3>2, <3>3, <4>2, <4>3, <4>4
    <3> QED BY <3>5, <3>6
  <2>3. CASE v # w
    <3>1. ticket'[v] = ticket[v] BY <1>7, <2>1, <2>3 DEF TypeOK
    <3>2. ticket[v].round > 0 =>
            /\ ticket[v].round \in Nat /\ ticket[v].bar \in Barriers
      BY <2>1 DEF TypeOK, NoTicket
    <3>3. CASE v \in gone
      <4>1. full /\ v \in WarpsOf[c] /\ v \in bars.reached[op.bar]
        BY <1>5, <2>3, <3>3
      <4>2. d = c BY <1>1, <2>1, <4>1, OneSlot
      <4>3. /\ v \in bars.waiting /\ ticket[v].round > 0
            /\ ticket[v].bar = op.bar
        BY <1>4, <4>1 DEF Lockstep
      <4>4. ticket[v].round = phase[d][op.bar] + 1 BY <4>3 DEF Lockstep
      <4>5. v \notin bars'.waiting BY <1>6, <3>3
      <4>6. \A b \in Barriers : v \notin bars'.reached[b]
        BY <1>6, <3>3, <4>3 DEF Lockstep
      <4>7. phase'[d][op.bar] = phase[d][op.bar] + 1
        BY <1>4, <1>9, <4>1, <4>2
      <4> QED BY <1>4, <1>9, <3>1, <4>2, <4>3, <4>4, <4>5, <4>6, <4>7
               DEF Lockstep
    <3>4. CASE v \notin gone
      <4>1. v \in bars'.waiting <=> v \in bars.waiting
        BY <1>6, <2>3, <3>4
      <4>2. \A b \in Barriers : v \in bars'.reached[b] <=> v \in bars.reached[b]
        BY <1>6, <2>3, <3>4
      <4>3. ASSUME v \in bars.waiting
            PROVE  phase'[d][ticket[v].bar] = phase[d][ticket[v].bar]
        <5>1. ticket[v].round > 0 BY <4>3 DEF Lockstep
        <5>2. ticket[v].bar = op.bar => v \in bars.reached[op.bar]
          BY <1>4, <4>3, <5>1 DEF Lockstep
        <5>3. ~ (d = c /\ ticket[v].bar = op.bar /\ full)
          BY <1>5, <3>4, <5>2
        <5> QED BY <1>9, <3>2, <5>1, <5>3
      <4>4. ticket[v].round > 0 =>
              /\ phase[d][ticket[v].bar] \in Nat
              /\ phase'[d][ticket[v].bar] \in Nat
              /\ phase'[d][ticket[v].bar] >= phase[d][ticket[v].bar]
        BY <1>9, <3>2
      <4>5. v \in bars'.waiting =>
              /\ ticket'[v].round > 0
              /\ ticket'[v].round = phase'[d][ticket'[v].bar] + 1
        BY <3>1, <4>1, <4>3 DEF Lockstep
      <4>6. ASSUME ticket'[v].round > 0, v \notin bars'.waiting
            PROVE  phase'[d][ticket'[v].bar] >= ticket'[v].round
        <5>1. phase[d][ticket[v].bar] >= ticket[v].round
          BY <3>1, <4>1, <4>6 DEF Lockstep
        <5> QED BY <3>1, <3>2, <4>4, <4>6, <5>1
      <4> QED BY <3>1, <4>1, <4>2, <4>5, <4>6 DEF Lockstep
    <3> QED BY <3>3, <3>4
  <2> QED BY <2>2, <2>3
<1> QED BY <1>10, <1>11, <1>12, <1>13

\* An exit frees the warps of the barriers it completes, and no others.
LEMMA ExitKeeps ==
  ASSUME IInv, NEW c \in DOMAIN bars.ctas, NEW w \in WarpsOf[c], Exit(c, w)
  PROVE  IInv'
<1> DEFINE done    == {b \in Barriers : ExitReleases(bars, c, w, b)}
           gone(b) == IF b \in done THEN WarpsOf[c] \cap bars.reached[b] ELSE {}
           freed   == UNION {gone(b) : b \in Barriers}
<1> USE DEF IInv
<1>1. /\ c \in Ctas /\ w \in Warps
      /\ bars.ctas[c] = WarpsOf[c]
      /\ \A d \in Ctas : WarpsOf[d] \subseteq Warps
  BY SlotAssumption DEF SlotAssumption, TypeOK
<1>2. w \in bars.active /\ w \notin bars.waiting
  BY DEF Exit, Runnable
<1>3. /\ bars'.ctas = bars.ctas
      /\ bars'.active = bars.active \ {w}
      /\ bars'.waiting = bars.waiting \ freed
      /\ bars'.reached = [b \in Barriers |-> bars.reached[b] \ gone(b)]
  BY <1>1 DEF Exit, WarpExit
<1>4. /\ phase' = NextRound(c, done)
      /\ UNCHANGED <<code, resident, gridLeft, ticket>>
  BY DEF Exit
<1>5. done \in SUBSET Barriers OBVIOUS
<1>6. \A v : v \in freed <=>
        \E b \in done : v \in WarpsOf[c] /\ v \in bars.reached[b]
  <2> HIDE DEF done
  <2> QED BY <1>5
<1>7. \A b \in Barriers : \A v : v \in bars'.reached[b] <=>
        /\ v \in bars.reached[b]
        /\ ~ (b \in done /\ v \in WarpsOf[c])
  <2> HIDE DEF done
  <2> QED BY <1>3
<1> HIDE DEF done, freed
<1>8. /\ phase' \in [Ctas -> [Barriers -> Nat]]
      /\ \A d \in Ctas, b \in Barriers :
           /\ phase[d][b] \in Nat
           /\ phase'[d][b] = IF d = c /\ b \in done THEN phase[d][b] + 1
                            ELSE phase[d][b]
  BY <1>1, <1>4, <1>5, Rounds
<1>9. TypeOK'
  <2>1. /\ DOMAIN bars'.ctas = {d \in Ctas : WarpsOf[d] \cap resident' # {}}
        /\ \A d \in DOMAIN bars'.ctas : bars'.ctas[d] = WarpsOf[d]
    BY <1>3, <1>4 DEF TypeOK
  <2>2. bars'.active \subseteq Warps /\ bars'.waiting \subseteq Warps
    BY <1>3 DEF TypeOK
  <2>3. bars'.reached \in [Barriers -> SUBSET Warps]
    BY <1>3 DEF TypeOK
  <2> QED BY <1>4, <1>8, <2>1, <2>2, <2>3 DEF TypeOK
<1>10. Residents'
  BY <1>2, <1>3, <1>4 DEF Residents
<1>11. Waits'
  BY <1>4 DEF Waits
<1>12. Lockstep'
  <2> SUFFICES ASSUME NEW d \in Ctas, NEW v \in WarpsOf[d]
               PROVE
    /\ ticket'[v].round > 0 => ticket'[v].cta = d /\ ticket'[v].bar \in Barriers
    /\ \A b \in Barriers :
         v \in bars'.reached[b] <=>
           v \in bars'.waiting /\ ticket'[v].round > 0 /\ ticket'[v].bar = b
    /\ v \in bars'.waiting =>
         /\ ticket'[v].round > 0
         /\ ticket'[v].round = phase'[d][ticket'[v].bar] + 1
    /\ ticket'[v].round > 0 /\ v \notin bars'.waiting =>
         phase'[d][ticket'[v].bar] >= ticket'[v].round
    BY DEF Lockstep
  <2>1. v \in Warps /\ ticket' = ticket BY <1>1, <1>4
  <2>2. ticket[v].round > 0 =>
          /\ ticket[v].round \in Nat /\ ticket[v].bar \in Barriers
    <3>1. v \in Warps BY <2>1
    <3>2. CASE ticket[v] = NoTicket BY <3>2 DEF NoTicket
    <3>3. CASE ticket[v] \in [cta : Ctas, bar : Barriers, round : Nat]
      BY <3>3
    <3> QED BY <3>1, <3>2, <3>3 DEF TypeOK
  <2>3. v \in WarpsOf[c] => d = c BY <1>1, <2>1, OneSlot
  <2>4. CASE v \in freed
    <3>1. PICK b \in done : v \in WarpsOf[c] /\ v \in bars.reached[b]
      BY <1>6, <2>4
    <3>2. d = c /\ b \in Barriers BY <1>5, <2>3, <3>1
    <3>3. v \in bars.waiting /\ ticket[v].round > 0 /\ ticket[v].bar = b
      BY <3>1, <3>2 DEF Lockstep
    <3>4. ticket[v].round = phase[d][b] + 1 BY <3>3 DEF Lockstep
    <3>5. phase'[d][b] = phase[d][b] + 1 BY <1>8, <3>1, <3>2
    <3>6. v \notin bars'.waiting BY <1>3, <2>4
    <3>7. \A e \in Barriers : v \notin bars'.reached[e]
      BY <1>7, <3>1, <3>3 DEF Lockstep
    <3> QED BY <1>8, <2>1, <3>2, <3>3, <3>4, <3>5, <3>6, <3>7 DEF Lockstep
  <2>5. CASE v \notin freed
    <3>1. v \in bars'.waiting <=> v \in bars.waiting BY <1>3, <2>5
    <3>2. \A b \in Barriers : v \in bars'.reached[b] <=> v \in bars.reached[b]
      BY <1>6, <1>7, <2>5
    <3>3. ASSUME v \in bars.waiting
          PROVE  phase'[d][ticket[v].bar] = phase[d][ticket[v].bar]
      <4>1. ticket[v].round > 0 BY <3>3 DEF Lockstep
      <4>2. v \in bars.reached[ticket[v].bar]
        BY <2>2, <3>3, <4>1 DEF Lockstep
      <4>3. ~ (d = c /\ ticket[v].bar \in done)
        BY <1>6, <2>5, <4>2
      <4> QED BY <1>8, <2>2, <4>1, <4>3
    <3>4. ticket[v].round > 0 =>
            /\ phase[d][ticket[v].bar] \in Nat
            /\ phase'[d][ticket[v].bar] \in Nat
            /\ phase'[d][ticket[v].bar] >= phase[d][ticket[v].bar]
      BY <1>8, <2>2
    <3>5. v \in bars'.waiting =>
            /\ ticket'[v].round > 0
            /\ ticket'[v].round = phase'[d][ticket'[v].bar] + 1
      BY <2>1, <3>1, <3>3 DEF Lockstep
    <3>6. ASSUME ticket'[v].round > 0, v \notin bars'.waiting
          PROVE  phase'[d][ticket'[v].bar] >= ticket'[v].round
      <4>1. phase[d][ticket[v].bar] >= ticket[v].round
        BY <2>1, <3>1, <3>6 DEF Lockstep
      <4> QED BY <2>1, <2>2, <3>4, <3>6, <4>1
    <3> QED BY <2>1, <3>1, <3>2, <3>5, <3>6 DEF Lockstep
  <2> QED BY <2>4, <2>5
<1> QED BY <1>9, <1>10, <1>11, <1>12

\* The last warp of a CTA leaves no bit behind: its warps have exited, so
\* none of them waits, so none is registered.
LEMMA NothingToClear ==
  ASSUME IInv, NEW c \in Ctas, WarpsOf[c] \cap bars.active = {}
  PROVE  /\ WarpsOf[c] \cap bars.waiting = {}
         /\ \A b \in Barriers : WarpsOf[c] \cap bars.reached[b] = {}
<1>1. WarpsOf[c] \cap bars.waiting = {} BY DEF IInv, Residents
<1> QED BY <1>1 DEF IInv, Lockstep

\* Reclaiming a warp changes nothing for the warps that remain.
LEMMA ReclaimKeeps ==
  ASSUME IInv, NEW c \in DOMAIN bars.ctas, NEW w \in WarpsOf[c],
         ReclaimWarp(c, w)
  PROVE  IInv'
<1> USE DEF IInv
<1>1. /\ c \in Ctas /\ w \in Warps
      /\ bars.ctas[c] = WarpsOf[c]
      /\ \A d \in Ctas : WarpsOf[d] \subseteq Warps
      /\ \A d \in Ctas : d # c => WarpsOf[d] \cap WarpsOf[c] = {}
  BY SlotAssumption DEF SlotAssumption, TypeOK
<1>2. /\ w \notin bars.active /\ resident' = resident \ {w}
      /\ UNCHANGED <<code, gridLeft, phase, ticket>>
  BY DEF ReclaimWarp
<1>3. Waits' BY <1>2 DEF Waits
<1>4. CASE WarpsOf[c] \cap resident # {w}
  <2>1. bars' = bars BY <1>4 DEF ReclaimWarp
  <2>2. TypeOK'
    <3>1. w \in WarpsOf[c] \cap resident BY DEF ReclaimWarp
    <3>2. \A d \in Ctas : WarpsOf[d] \cap resident # {} <=>
                         WarpsOf[d] \cap resident' # {}
      BY <1>1, <1>2, <1>4, <3>1
    <3> QED BY <1>2, <2>1, <3>2 DEF TypeOK
  <2>3. Residents' BY <1>2, <2>1 DEF Residents
  <2>4. Lockstep' BY <1>2, <2>1 DEF Lockstep
  <2> QED BY <1>3, <2>2, <2>3, <2>4
<1>5. CASE WarpsOf[c] \cap resident = {w}
  <2>1. WarpsOf[c] \cap bars.active = {} BY <1>2, <1>5 DEF Residents
  <2>2. /\ WarpsOf[c] \cap bars.waiting = {}
        /\ \A b \in Barriers : WarpsOf[c] \cap bars.reached[b] = {}
    BY <1>1, <2>1, NothingToClear
  <2>3. bars' = DeallocateBarrier(bars, c) BY <1>5 DEF ReclaimWarp
  <2>4. /\ bars'.ctas = [d \in DOMAIN bars.ctas \ {c} |-> bars.ctas[d]]
        /\ bars'.active = bars.active \ WarpsOf[c]
        /\ bars'.waiting = bars.waiting \ WarpsOf[c]
        /\ bars'.reached = [b \in Barriers |-> bars.reached[b] \ WarpsOf[c]]
    BY <1>1, <2>3 DEF DeallocateBarrier
  <2>5. /\ bars'.active = bars.active /\ bars'.waiting = bars.waiting
        /\ \A b \in Barriers : bars'.reached[b] = bars.reached[b]
    BY <2>1, <2>2, <2>4
  <2>6. TypeOK'
    <3>1. \A d \in Ctas : WarpsOf[d] \cap resident' # {} <=>
                         d # c /\ WarpsOf[d] \cap resident # {}
      BY <1>1, <1>2, <1>5
    <3>2. DOMAIN bars'.ctas = {d \in Ctas : WarpsOf[d] \cap resident' # {}}
      BY <2>4, <3>1 DEF TypeOK
    <3>3. \A d \in DOMAIN bars'.ctas : bars'.ctas[d] = WarpsOf[d]
      BY <2>4 DEF TypeOK
    <3>4. bars'.reached \in [Barriers -> SUBSET Warps]
      BY <2>4 DEF TypeOK
    <3> QED BY <1>2, <2>5, <3>2, <3>3, <3>4 DEF TypeOK
  <2>7. Residents' BY <1>1, <1>2, <2>1, <2>5 DEF Residents
  <2>8. Lockstep' BY <1>2, <2>5 DEF Lockstep
  <2> QED BY <1>3, <2>6, <2>7, <2>8
<1> QED BY <1>4, <1>5

\* The invariant holds in every reachable state.
LEMMA IInvHolds ==
  ASSUME Programs \subseteq [Warps -> Seq(WaitingOps)]
  PROVE  BarrierSpec => []IInv
<1>1. BarrierInit => IInv BY InitIInv
<1>2. IInv /\ [BarrierNext]_barrierVars => IInv'
  <2> SUFFICES ASSUME IInv, [BarrierNext]_barrierVars PROVE IInv' OBVIOUS
  <2>1. CASE \E c \in Ctas : LaunchCta(c) BY <2>1, LaunchKeeps
  <2>2. CASE \E c \in DOMAIN bars.ctas : \E w \in WarpsOf[c] : WarpStep(c, w)
    BY <2>2, BarrierKeeps, ExitKeeps, ReclaimKeeps DEF WarpStep
  <2>3. CASE Terminated \/ UNCHANGED barrierVars
    <3>1. UNCHANGED barrierVars BY <2>3 DEF Terminated
    <3> USE <3>1 DEF barrierVars, IInv
    <3>2. TypeOK' BY DEF TypeOK
    <3>3. Residents' BY DEF Residents
    <3>4. Waits' BY DEF Waits
    <3>5. Lockstep' BY DEF Lockstep
    <3> QED BY <3>2, <3>3, <3>4, <3>5
  <2> QED BY <2>1, <2>2, <2>3 DEF BarrierNext
<1> QED BY <1>1, <1>2, PTL DEF BarrierSpec
-----------------------------------------------------------------------------
\* A CTA is known to the barriers exactly as long as a warp of it is resident.
THEOREM BarrierTypeCorrect ==
  ASSUME Programs \subseteq [Warps -> Seq(WaitingOps)]
  PROVE  BarrierSpec => []TypeOK
<1>1. IInv => TypeOK BY DEF IInv
<1> QED BY <1>1, IInvHolds, PTL

\* Without arrivals that do not wait, no warp passes a barrier before the
\* round it arrived for is complete, whatever the other barriers, the other
\* CTAs and the exits do.
THEOREM NobodyPassesEarly ==
  ASSUME Programs \subseteq [Warps -> Seq(WaitingOps)]
  PROVE  BarrierSpec => []HeldUntilComplete
<1>1. IInv => HeldUntilComplete
  <2> SUFFICES ASSUME IInv, NEW w \in Warps, ticket[w].round > 0,
                      w \notin bars.waiting
               PROVE  phase[ticket[w].cta][ticket[w].bar] >= ticket[w].round
    BY DEF HeldUntilComplete
  <2>1. PICK c \in Ctas : w \in WarpsOf[c] BY DEF IInv, Residents
  <2> QED BY <2>1 DEF IInv, Lockstep
<1> QED BY <1>1, IInvHolds, PTL

\* A warp never waits for a round that is already complete.
THEOREM NobodyIsLeftBehind ==
  ASSUME Programs \subseteq [Warps -> Seq(WaitingOps)]
  PROVE  BarrierSpec => []NobodyLeftBehind
<1>1. IInv => NobodyLeftBehind
  <2> SUFFICES ASSUME IInv, NEW w \in bars.waiting
               PROVE  /\ ticket[w].round > 0
                      /\ phase[ticket[w].cta][ticket[w].bar] < ticket[w].round
    BY DEF NobodyLeftBehind
  <2>1. PICK c \in Ctas : w \in WarpsOf[c] BY DEF IInv, Residents
  <2>2. /\ ticket[w].round > 0 /\ ticket[w].cta = c
        /\ ticket[w].bar \in Barriers
        /\ ticket[w].round = phase[c][ticket[w].bar] + 1
    BY <2>1 DEF IInv, Lockstep
  <2>3. phase[c][ticket[w].bar] \in Nat BY <2>2 DEF IInv, TypeOK
  <2> QED BY <2>2, <2>3
<1> QED BY <1>1, IInvHolds, PTL

\* The asserts of deallocate_barrier hold: a CTA whose warps have exited has
\* no warp at a barrier.
THEOREM DeallocatesClean ==
  ASSUME Programs \subseteq [Warps -> Seq(WaitingOps)]
  PROVE  BarrierSpec => []CleanDeallocation
<1>1. IInv => CleanDeallocation
  <2> SUFFICES ASSUME IInv, NEW c \in DOMAIN bars.ctas,
                      WarpsOf[c] \cap bars.active = {}
               PROVE  NobodyStuck(bars, c)
    BY DEF CleanDeallocation
  <2>1. c \in Ctas /\ bars.ctas[c] = WarpsOf[c] BY DEF IInv, TypeOK
  <2> QED BY <2>1, NothingToClear DEF NobodyStuck
<1> QED BY <1>1, IInvHolds, PTL
=============================================================================
