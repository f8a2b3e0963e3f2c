---------------------------- MODULE CtaBarriers ----------------------------
(***************************************************************************)
(* CTAs come to the slots of a core, their warps execute barrier           *)
(* instructions and exit, and the last warp to be reclaimed takes the CTA  *)
(* away. issue_warp calls warp_reaches_barrier, the functional execution   *)
(* of the exit calls warp_exit, fetch reclaims the warp later.             *)
(*                                                                         *)
(* phase and ticket are history variables: they count the rounds of each   *)
(* barrier and say which round a warp that is to wait arrived for.         *)
(***************************************************************************)
EXTENDS BarrierSet, Sequences

CONSTANTS
  WarpsOf,    \* WarpsOf[c]: the warps a CTA on slot c gets
  Programs,   \* what the warps of a CTA may run: functions to sequences
  Grid        \* CTAs of the kernel

\* Slots have warps of their own, and a program has a part for every warp.
ASSUME SlotAssumption ==
  /\ WarpsOf \in [Ctas -> SUBSET Warps]
  /\ \A c, d \in Ctas : c # d => WarpsOf[c] \cap WarpsOf[d] = {}
  /\ \A c \in Ctas : WarpsOf[c] # {}
  /\ Grid \in Nat

ASSUME ProgramAssumption == Programs \subseteq [Warps -> Seq(Ops)]

VARIABLES
  bars,      \* m_barriers
  code,      \* what each warp still has to execute before its exit
  resident,  \* the warps not yet reclaimed
  gridLeft,  \* CTAs still to come
  phase,     \* per slot and barrier: rounds completed since the CTA came
  ticket     \* per warp: the barrier and round it stopped for; round 0: none

barrierVars == <<bars, code, resident, gridLeft, phase, ticket>>

NoTicket == [cta |-> 0, bar |-> 0, round |-> 0]

BarrierInit ==
  /\ bars     = NoBarriers
  /\ code     = [w \in Warps |-> <<>>]
  /\ resident = {}
  /\ gridLeft = Grid
  /\ phase    = [c \in Ctas |-> [b \in Barriers |-> 0]]
  /\ ticket   = [w \in Warps |-> NoTicket]

\* issue_block2core allocates the barriers of the CTA it starts.
LaunchCta(c) ==
  /\ gridLeft > 0
  /\ c \notin DOMAIN bars.ctas
  /\ gridLeft' = gridLeft - 1
  /\ bars'     = AllocateBarrier(bars, c, WarpsOf[c])
  /\ resident' = resident \cup WarpsOf[c]
  /\ \E p \in Programs :
       code' = [w \in Warps |-> IF w \in WarpsOf[c] THEN p[w] ELSE code[w]]
  /\ phase'    = [phase EXCEPT ![c] = [b \in Barriers |-> 0]]
  /\ ticket'   = [w \in Warps |-> IF w \in WarpsOf[c] THEN NoTicket
                                                      ELSE ticket[w]]

Runnable(w) == w \in bars.active /\ w \notin bars.waiting

\* The barriers of a CTA that begin a new round.
NextRound(c, done) ==
  [d \in Ctas |-> [b \in Barriers |->
     IF d = c /\ b \in done THEN phase[d][b] + 1 ELSE phase[d][b]]]

\* A warp issues its next barrier instruction.
Barrier(c, w) ==
  LET op == Head(code[w]) IN
  /\ Runnable(w)
  /\ code[w] # <<>>
  /\ bars' = WarpReaches(bars, c, w, op)
  /\ code' = [code EXCEPT ![w] = Tail(@)]
  /\ phase' = NextRound(c, IF Completes(bars, c, w, op) THEN {op.bar} ELSE {})
  /\ ticket' = IF op.type = "ARRIVE" THEN ticket
               ELSE [ticket EXCEPT ![w] = [cta |-> c, bar |-> op.bar,
                                           round |-> phase[c][op.bar] + 1]]
  /\ UNCHANGED <<resident, gridLeft>>

\* A warp executes its exit.
Exit(c, w) ==
  /\ Runnable(w)
  /\ code[w] = <<>>
  /\ bars' = WarpExit(bars, c, w)
  /\ phase' = NextRound(c, {b \in Barriers : ExitReleases(bars, c, w, b)})
  /\ UNCHANGED <<code, resident, gridLeft, ticket>>

\* Mutant: the CTA ends with the exit of its last warp.
MutReclaimWarp(c, w) ==
  /\ w \in resident
  /\ w \notin bars.active
  /\ resident' = resident \ {w}
  /\ bars' = IF WarpsOf[c] \cap bars.active = {} THEN DeallocateBarrier(bars, c)
             ELSE bars
  /\ UNCHANGED <<code, gridLeft, phase, ticket>>

\* fetch reclaims a warp that has exited; with the last one the CTA ends.
ReclaimWarp(c, w) ==
  /\ w \in resident
  /\ w \notin bars.active
  /\ resident' = resident \ {w}
  /\ bars' = IF WarpsOf[c] \cap resident = {w} THEN DeallocateBarrier(bars, c)
             ELSE bars
  /\ UNCHANGED <<code, gridLeft, phase, ticket>>

GridDone == gridLeft = 0 /\ resident = {}

Terminated == GridDone /\ UNCHANGED barrierVars

WarpStep(c, w) == Barrier(c, w) \/ Exit(c, w) \/ ReclaimWarp(c, w)

BarrierNext ==
  \/ \E c \in Ctas : LaunchCta(c)
  \/ \E c \in DOMAIN bars.ctas : \E w \in WarpsOf[c] : WarpStep(c, w)
  \/ Terminated

BarrierSpec == BarrierInit /\ [][BarrierNext]_barrierVars

\* The schedulers reach every warp that stays ready, fetch visits every warp.
Fairness ==
  /\ WF_barrierVars(\E c \in Ctas : LaunchCta(c))
  /\ \A c \in Ctas : \A w \in WarpsOf[c] :
       WF_barrierVars(c \in DOMAIN bars.ctas /\ WarpStep(c, w))

BarrierFairSpec == BarrierSpec /\ Fairness
-----------------------------------------------------------------------------
(* Properties.                                                             *)

\* The types, and the bookkeeping of CTAs: a CTA is in m_cta_to_warps as long
\* as one of its warps is still to be reclaimed, which warp_exit relies on
\* when it looks for the CTA of its warp and uses what it finds unchecked.
TypeOK ==
  /\ DOMAIN bars.ctas = {c \in Ctas : WarpsOf[c] \cap resident # {}}
  /\ \A c \in DOMAIN bars.ctas : bars.ctas[c] = WarpsOf[c]
  /\ bars.active \subseteq Warps /\ bars.waiting \subseteq Warps
  /\ bars.reached \in [Barriers -> SUBSET Warps]
  /\ code \in [Warps -> Seq(Ops)]
  /\ resident \subseteq Warps
  /\ gridLeft \in 0 .. Grid
  /\ phase \in [Ctas -> [Barriers -> Nat]]
  /\ ticket \in [Warps -> [cta : Ctas, bar : Barriers, round : Nat]
                          \cup {NoTicket}]

\* A warp that stopped at a barrier goes on only when the round it arrived
\* for is complete: shd_warp_t::waiting says "waiting for other warps in CTA
\* to reach barrier". The completion of another barrier, of another CTA or
\* the exit of a warp must not let it go.
HeldUntilComplete ==
  \A w \in Warps :
    LET t == ticket[w] IN
    t.round > 0 /\ w \notin bars.waiting => phase[t.cta][t.bar] >= t.round

\* Nobody is left behind: a warp that waits does so for a round that is not
\* complete yet.
NobodyLeftBehind ==
  \A w \in bars.waiting :
    LET t == ticket[w] IN t.round > 0 /\ phase[t.cta][t.bar] < t.round

\* The asserts of deallocate_barrier: when the last warp of a CTA is
\* reclaimed, no warp of it is registered at a barrier.
CleanDeallocation ==
  \A c \in DOMAIN bars.ctas :
    WarpsOf[c] \cap bars.active = {} => NobodyStuck(bars, c)

\* Programs whose barriers match run to their end.
Terminates == <>GridDone
=============================================================================
