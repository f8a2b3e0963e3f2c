---------------------------- MODULE ControlFlow ----------------------------
(***************************************************************************)
(* The control-flow analysis of one PTX function, as do_pdom runs it       *)
(* before the first launch (src/cuda-sim/ptx_ir.cc): basic blocks, their   *)
(* links, dominators (needed to find the target of a break), the links of  *)
(* the breaks, postdominators, and from them the reconvergence point of    *)
(* every branch, which the SIMT stack asks for with get_converge_point.    *)
(*                                                                         *)
(* An instruction is known by its position in the body; a label is a mark  *)
(* on the instruction it precedes, and stands for the index that           *)
(* ptx_assemble gives it.  Blocks are numbered from 1, the exit block      *)
(* last; 0 stands for the -1 of an unknown (post)dominator.  The set of    *)
(* predecessors is kept as the inverse of the successors: every insertion  *)
(* and erasure of the code does both.  One sweep over the blocks is one    *)
(* step, so that the termination of the loops is part of the model.        *)
(***************************************************************************)
EXTENDS Integers, FiniteSets, Sequences, FiniteSetsExt, SequencesExt

CONSTANT Shapes
  \* kinds of function bodies: records [size, instrs, unused], the number of
  \* instructions, those between the first and the last, and sets of
  \* positions with a label that nobody jumps to

VARIABLES fn,      \* the body under analysis: its code and labelled positions
          stage,   \* the function of do_pdom that runs next
          bbOf,    \* position -> block (assign_bb)
          succ,    \* block -> successor_ids
          dom,     \* block -> dominator_ids
          idom,    \* block -> immediatedominator_id
          pdom,    \* block -> postdominator_ids
          ipdom,   \* block -> immediatepostdominator_id
          recon    \* position of a branch -> its reconvergence point

vars == <<fn, stage, bbOf, succ, dom, idom, pdom, ipdom, recon>>

Size == Len(fn.code)
Positions == 1 .. Size
Op(i) == fn.code[i].op
OfOp(op) == {i \in Positions : Op(i) = op}
ReturnPc == Size + 1     \* RECONVERGE_RETURN_PC
NoDivergence == 0        \* NO_BRANCH_DIVERGENCE

(***************************************************************************)
(* Basic blocks.  The scan for leaders begins at the second instruction.   *)
(***************************************************************************)
Exits == {"ret", "exit"}
EndsBlock(i) == \/ Op(i) \in Exits \cup {"bra", "break"}
                \/ Op(i) = "call" /\ fn.code[i].pred

\* Mutant: the instruction after a branch starts no block.
MutLeader(i) == i = 1 \/ i \in fn.labels \/ (i > 2 /\ Op(i - 1) \in Exits)

Leader(i) == \/ i = 1
             \/ i \in fn.labels
             \/ i > 2 /\ EndsBlock(i - 1)

BlockOf(i) == Cardinality({j \in 1 .. i : Leader(j)})
ExitBlock == BlockOf(Size) + 1
Blocks == 1 .. ExitBlock
CodeBlocks == 1 .. ExitBlock - 1
FirstIn(b) == Min({i \in Positions : bbOf[i] = b})     \* ptx_begin
LastIn(b) == Max({i \in Positions : bbOf[i] = b})      \* ptx_end
Preds(b) == {p \in Blocks : b \in succ[p]}
FallThrough(b) == IF LastIn(b) < Size THEN {bbOf[LastIn(b) + 1]} ELSE {}

CreateBasicBlocks ==
  /\ stage = "blocks"
  /\ bbOf' = [i \in Positions |-> BlockOf(i)]
  /\ stage' = "links"
  /\ UNCHANGED <<fn, succ, dom, idom, pdom, ipdom, recon>>

(***************************************************************************)
(* Links.  A break is linked to the next block until its target is known.  *)
(***************************************************************************)
Linked(b) ==
  LET i == fn.code[LastIn(b)]
  IN CASE b = ExitBlock -> {}
       [] b # ExitBlock /\ i.op \in Exits ->
            {ExitBlock} \cup (IF i.pred THEN FallThrough(b) ELSE {})
       [] b # ExitBlock /\ i.op = "bra" ->
            {bbOf[i.to]} \cup (IF i.pred THEN FallThrough(b) ELSE {})
       [] OTHER -> FallThrough(b)

ConnectBasicBlocks ==
  /\ stage = "links"
  /\ succ' = [b \in Blocks |-> Linked(b)]
  /\ dom' = [b \in Blocks |-> IF b = 1 THEN {1} ELSE Blocks]
  /\ idom' = [b \in Blocks |-> 0]
  /\ stage' = "dom"
  /\ UNCHANGED <<fn, bbOf, pdom, ipdom, recon>>

(***************************************************************************)
(* Dominators and postdominators (Muchnick, figures 7.14 and 7.15).        *)
(* Meet is the body of the sweep for one block, Nearest what remains of    *)
(* Tmp_ids when every member has erased its own (post)dominators.          *)
(***************************************************************************)
Meet(doms, b, from) ==
  {b} \cup {d \in Blocks : \A p \in from : d \in doms[p]}

Ascending == [i \in 1 .. ExitBlock |-> i]
Sweep(doms, order, from(_)) ==
  FoldLeft(LAMBDA ds, b : [ds EXCEPT ![b] = Meet(ds, b, from(b))],
           doms, order)

Nearest(doms, b) ==
  FoldLeft(LAMBDA tmp, s : IF s \in tmp
                           THEN {t \in tmp : t = s \/ t \notin doms[s]}
                           ELSE tmp,
           doms[b] \ {b}, Ascending)

\* Dominators of blocks nobody leads to are cleared when nothing changes.
FindDominators ==
  /\ stage = "dom"
  /\ LET ds == Sweep(dom, Tail(Ascending), Preds)
         clean == [b \in Blocks |->
                     IF b # 1 /\ Preds(b) = {} THEN {} ELSE ds[b]]
     IN IF ds # dom THEN dom' = ds /\ stage' = "dom"
                    ELSE dom' = clean /\ stage' = "idom"
  /\ UNCHANGED <<fn, bbOf, succ, idom, pdom, ipdom, recon>>

\* assert(num_idoms == m_basic_blocks.size() - num_nopred)
FindIdominators ==
  /\ stage = "idom"
  /\ LET near == [b \in Blocks |-> Nearest(dom, b)]
         found == {b \in Blocks : near[b] # {}}
     IN /\ idom' = [b \in Blocks |-> IF b \in found THEN Min(near[b])
                                                    ELSE idom[b]]
        /\ stage' = IF \A b \in Blocks \ found : Preds(b) = {}
                    THEN "breaks" ELSE "abort"
  /\ UNCHANGED <<fn, bbOf, succ, dom, pdom, ipdom, recon>>

(***************************************************************************)
(* Breaks.  find_break_target walks up the dominator tree and takes the    *)
(* last breakaddr of the first block that has one; the walk ends before    *)
(* the entry block, whose immediate dominator is -1.                       *)
(***************************************************************************)
Addrs(b) == {i \in Positions : bbOf[i] = b /\ Op(i) = "breakaddr"}
\* Mutant: the search begins at the dominator of the block of the break.
MutSearched(b) ==
  FoldLeft(LAMBDA p, n : IF idom[p] = 0 \/ Addrs(p) # {} THEN p ELSE idom[p],
           idom[b], Ascending)
Searched(b) ==
  FoldLeft(LAMBDA p, n : IF idom[p] = 0 \/ Addrs(p) # {} THEN p ELSE idom[p],
           b, Ascending)

BreakBlocks == {b \in CodeBlocks : Op(LastIn(b)) = "break"}
BreakLinks(b) ==
  {bbOf[fn.code[Max(Addrs(Searched(b)))].to]}
    \cup (IF fn.code[LastIn(b)].pred THEN FallThrough(b) ELSE {})

\* do { ... } while (modified): a new link starts the dominators again.
ConnectBreakTargets ==
  /\ stage = "breaks"
  /\ IF \E b \in BreakBlocks : idom[Searched(b)] = 0
     THEN stage' = "abort" /\ UNCHANGED <<succ, dom>>
     ELSE LET linked == [b \in Blocks |-> IF b \in BreakBlocks
                                          THEN BreakLinks(b) ELSE succ[b]]
              modified == linked # succ
          IN /\ succ' = linked
             /\ dom' = [b \in Blocks |-> IF modified /\ b # 1 THEN Blocks
                                                               ELSE dom[b]]
             /\ stage' = IF modified THEN "dom" ELSE "pdom"
  /\ pdom' = [b \in Blocks |-> IF b = ExitBlock THEN {b} ELSE Blocks]
  /\ UNCHANGED <<fn, bbOf, idom, ipdom, recon>>

FindPostdominators ==
  /\ stage = "pdom"
  /\ LET ds == Sweep(pdom, Tail(Reverse(Ascending)), LAMBDA b : succ[b])
     IN /\ pdom' = ds
        /\ stage' = IF ds # pdom THEN "pdom" ELSE "ipdom"
  /\ UNCHANGED <<fn, bbOf, succ, dom, idom, ipdom, recon>>

\* assert(Tmp_ids.size() <= 1), assert(num_ipdoms == m_basic_blocks.size() - 1)
FindIpostdominators ==
  /\ stage = "ipdom"
  /\ LET near == [b \in Blocks |-> Nearest(pdom, b)]
     IN IF \A b \in CodeBlocks : Cardinality(near[b]) = 1
        THEN /\ ipdom' = [b \in Blocks |-> IF b = ExitBlock THEN 0
                                                            ELSE Min(near[b])]
             /\ stage' = "recon"
        ELSE stage' = "abort" /\ UNCHANGED ipdom
  /\ UNCHANGED <<fn, bbOf, succ, dom, idom, pdom, recon>>

(***************************************************************************)
(* Reconvergence pairs: a branch and the first instruction of the block    *)
(* that postdominates it, or the return address when that is the exit.     *)
(***************************************************************************)
BranchBlocks == {b \in CodeBlocks : Op(LastIn(b)) = "bra"}
Target(b) == IF b = ExitBlock THEN ReturnPc ELSE FirstIn(b)

GetReconvergencePairs ==
  /\ stage = "recon"
  /\ recon' = [i \in {LastIn(b) : b \in BranchBlocks} |-> Target(ipdom[bbOf[i]])]
  /\ stage' = "done"
  /\ UNCHANGED <<fn, bbOf, succ, dom, idom, pdom, ipdom>>

GetConvergePoint(i) == IF i \in DOMAIN recon THEN recon[i] ELSE NoDivergence

(***************************************************************************)
(* The paths of a body, instruction by instruction: what the analysis is   *)
(* measured against.                                                       *)
(***************************************************************************)
BreakTargets == {fn.code[i].to : i \in OfOp("breakaddr")}
FlowWith(breakTargets) ==
  [i \in Positions |->
     (CASE Op(i) \in Exits -> {ReturnPc}
        [] Op(i) = "bra" -> {fn.code[i].to}
        [] Op(i) = "break" -> breakTargets
        [] OTHER -> {i + 1})
     \cup IF fn.code[i].pred THEN {i + 1} ELSE {}]
Flow == FlowWith(BreakTargets)

\* What paths from start reach that do not pass avoid.
ReachedFrom(flow, start, avoid) ==
  LET within[n \in 0 .. Size] ==
        IF n = 0 THEN start \ {avoid}
        ELSE LET seen == within[n - 1]
             IN seen \cup UNION {flow[i] \ {avoid} : i \in seen \ {ReturnPc}}
  IN within[Size]

\* The instructions, or the return, that every path after i passes.
AlwaysPassed(i) ==
  LET flow == Flow
  IN {p \in Positions \cup {ReturnPc} :
        ReturnPc \notin ReachedFrom(flow, flow[i], p)}

(***************************************************************************)
(* The bodies of the compiler: the first instruction is an ordinary one    *)
(* that nobody jumps to, the last one returns, every instruction can reach *)
(* the return, and every path to a break goes through the one breakaddr.   *)
(* The breaks are tame: they can be reached without taking another break,  *)
(* and their breakaddr lies behind the entry block. Of a break that is not *)
(* tame find_break_target misses the target and stops at its assertion: it *)
(* never looks at the entry block, and in the first round the block of     *)
(* such a break has no dominators yet.                                     *)
(***************************************************************************)
Preceded(a) ==
  OfOp("break") \subseteq
    ReachedFrom(Flow, {1}, 0) \ ReachedFrom(Flow, {1}, a)
Tame(a) ==
  /\ OfOp("break") \subseteq ReachedFrom(FlowWith({}), {1}, 0)
  /\ BlockOf(a) > 1

Compiled ==
  /\ \E flow \in {Flow} :
       \A i \in Positions : ReturnPc \in ReachedFrom(flow, flow[i], 0)
  /\ OfOp("break") # {} =>
       \E a \in OfOp("breakaddr") :
          /\ OfOp("breakaddr") = {a}
          /\ Preceded(a)
          /\ Tame(a)

Instr(op, pred, to) == [op |-> op, pred |-> pred, to |-> to]
Body(middle, unused) ==
  [code |-> <<Instr("op", FALSE, 0)>> \o middle \o <<Instr("ret", FALSE, 0)>>,
   labels |-> unused \cup ({middle[i].to : i \in DOMAIN middle} \ {0})]

Init ==
  /\ \E s \in Shapes :
       \E unused \in s.unused, middle \in [1 .. s.size - 2 -> s.instrs] :
         fn = Body(middle, unused)
  /\ Compiled
  /\ stage = "blocks"
  /\ bbOf = << >> /\ succ = << >> /\ dom = << >> /\ idom = << >>
  /\ pdom = << >> /\ ipdom = << >> /\ recon = << >>

Next == \/ CreateBasicBlocks \/ ConnectBasicBlocks
        \/ FindDominators \/ FindIdominators \/ ConnectBreakTargets
        \/ FindPostdominators \/ FindIpostdominators
        \/ GetReconvergencePairs

\* do_pdom runs to its end in the thread that launches the kernel: weak
\* fairness of Next, with its enabling condition written out.
Stopped == stage \in {"done", "abort"}
Spec == Init /\ [][Next]_vars /\ ([]<><<Next>>_vars \/ <>[]Stopped)

\* What do_pdom is for: the threads that a branch splits meet again at the
\* first instruction that every path from the branch to the return passes,
\* neither earlier (threads would be missing) nor later (they would run apart
\* needlessly); instructions that do not branch have no such point.
ReconvergesAtPostdominator ==
  stage = "done" =>
    \A i \in Positions :
      IF Op(i) = "bra"
      THEN LET meet == GetConvergePoint(i)
           IN /\ meet \in AlwaysPassed(i)
              /\ AlwaysPassed(i) \ {meet} \subseteq
                   IF meet = ReturnPc THEN {} ELSE AlwaysPassed(meet)
      ELSE GetConvergePoint(i) = NoDivergence

\* The analysis of a compiled body comes to its end: the sweeps settle, the
\* do-while over the breaks does not go round for ever although each round
\* recomputes the dominators from new links, and no assertion stops it.
Settles == <>(stage = "done")
=============================================================================
