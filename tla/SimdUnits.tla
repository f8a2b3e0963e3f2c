----------------------------- MODULE SimdUnits -----------------------------
(***************************************************************************)
(* The pipelined arithmetic units of a core (pipelined_simd_unit) and the  *)
(* result buses that book their way to the writeback register EX_WB. The   *)
(* units cannot be stalled: an instruction that has entered one reaches    *)
(* EX_WB a fixed number of cycles later, and EX_WB must have room then.    *)
(***************************************************************************)
EXTENDS OperandCollector

CONSTANTS
  WbWidth,     \* instructions EX_WB holds; also the number of result buses
  MaxLatency   \* m_pipeline_depth of every unit

\* set_pipeline_latency makes a pipeline as long as the greatest latency of
\* the tables; an instruction is under way for its interval before it enters.
ASSUME SimdAssumption ==
  /\ WbWidth \in Nat \ {0} /\ MaxLatency \in Nat \ {0}
  /\ \A k \in DOMAIN Ops : Ops[k].port # "MEM" =>
       /\ Ops[k].interval \in Nat \ {0} /\ Ops[k].latency \in Nat
       /\ Ops[k].interval <= Ops[k].latency /\ Ops[k].latency <= MaxLatency

VARIABLES
  fu,          \* the units: dispatch register with its delay counter, stages
               \* and the latencies that are occupied
  bus,         \* m_result_bus: the latencies each bus is booked for
  exWb         \* the EX_WB register set

simdVars == <<fu, bus, exWb>>

SimdUnitIds == ToSet(SimdPorts) \X SchedIds
Buses  == 1 .. WbWidth
Stages == 0 .. MaxLatency - 1

IdleUnit == [dispatch |-> NoInst, delay |-> 0, stage |-> [n \in Stages |-> NoInst],
             occupied |-> {}]

SimdInit ==
  /\ fu   = [u \in SimdUnitIds |-> IdleUnit]
  /\ bus  = [b \in Buses |-> {}]
  /\ exWb = {}

\* A bit set shifted right by one.
Shifted(bits) == {n - 1 : n \in bits \ {0}}

\* execute() first moves the bookings of all buses on.
ShiftBuses == [b \in Buses |-> Shifted(bus[b])]

\* The stage an instruction enters, so that latency and initiation interval
\* together take latency cycles.
StartStage(inst) == Op(inst).latency - Op(inst).interval

\* pipelined_simd_unit::cycle, but for the result it hands over.
Moved(f) ==
  LET stage == [n \in Stages |-> IF n + 1 \in Stages THEN f.stage[n + 1]
                                 ELSE NoInst]
      delay == IF f.dispatch # NoInst /\ f.delay > 0 THEN f.delay - 1 ELSE f.delay
      enters == /\ f.dispatch # NoInst
                /\ delay = 0
                /\ stage[StartStage(f.dispatch)] = NoInst
  IN  IF enters
      THEN [dispatch |-> NoInst, delay |-> 0,
            stage |-> [stage EXCEPT ![StartStage(f.dispatch)] = f.dispatch],
            occupied |-> Shifted(f.occupied)]
      ELSE [dispatch |-> f.dispatch, delay |-> delay, stage |-> stage,
            occupied |-> Shifted(f.occupied)]

\* Mutant: the booking of a bus is not looked at.
MutFreeBuses(latency) == Buses

\* test_res_bus: a bus that is not booked for that latency.
FreeBuses(latency) == {b \in Buses : latency \notin bus[b]}

\* simd_function_unit::can_issue.
CanIssue(f, inst) == f.dispatch = NoInst /\ Op(inst).latency \notin f.occupied

\* issue(): the instruction enters the dispatch register.
Taken(f, inst) ==
  [f EXCEPT !.dispatch = inst, !.delay = Op(inst).interval,
            !.occupied = @ \cup {Op(inst).latency}]

\* execute() for one unit: a cycle of the unit, then the instruction in its
\* input register, if a bus can be booked for its result.
SimdCycle(u) ==
  LET f    == Moved(fu[u])
      i    == ocEx[u[1]][u[2]]
      issues == i # NoInst /\ CanIssue(f, i) /\ FreeBuses(Op(i).latency) # {}
      done == fu[u].stage[0]
  IN
  /\ exWb' = IF done = NoInst THEN exWb ELSE exWb \cup {done}
  /\ IF issues
     THEN LET l == Op(i).latency IN
          /\ fu' = [fu EXCEPT ![u] = Taken(f, i)]
          /\ bus' = [bus EXCEPT ![Min(FreeBuses(l))] = @ \cup {l}]
          /\ ocEx' = [ocEx EXCEPT ![u[1]][u[2]] = NoInst]
          /\ age' = Younger(i)
     ELSE /\ fu' = [fu EXCEPT ![u] = f]
          /\ UNCHANGED <<bus, ocEx, age>>

\* The instructions in a unit, and the cycles until each reaches EX_WB.
InUnit(f) == ({f.dispatch} \cup {f.stage[n] : n \in Stages}) \ {NoInst}

CyclesLeft(f, inst) ==
  IF f.dispatch = inst THEN f.delay + StartStage(inst)
  ELSE CHOOSE n \in Stages : f.stage[n] = inst
=============================================================================
