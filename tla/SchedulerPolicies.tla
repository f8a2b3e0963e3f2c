------------------------- MODULE SchedulerPolicies -------------------------
(***************************************************************************)
(* The warp schedulers a configuration may name, as operators on a record: *)
(*   last    : m_last_supervised_issued, -1 for end()                      *)
(*   turn    : m_current_turn_warp, read by the strict round robin only    *)
(*   issued  : m_num_issued_last_cycle > 0; nothing sets it back to 0      *)
(*   active  : m_next_cycle_prioritized_warps of the two-level scheduler,  *)
(*             the only one that keeps the list between cycles             *)
(*   pending : its m_pending_warps                                         *)
(***************************************************************************)
EXTENDS WarpPipeline

CONSTANT MaxActive   \* warps of the two-level and the limiting scheduler

N == Cardinality(Warps)

ASSUME WarpsAssumption ==
  /\ IsFiniteSet(Warps) /\ Warps = 0 .. N - 1
  /\ Producers \in 1 .. N - 1 /\ MaxActive \in 1 .. N

Policies == {"lrr", "rrr", "gto", "old", "warp_limiting", "two_level_active"}

ById == [i \in 1 .. N |-> i - 1]

\* create_schedulers deals the warps out. The constructors leave turn and
\* issued uninitialised; only the strict round robin reads them.
InitialScheds(policy) ==
  LET two == policy = "two_level_active"
      own == IF policy = "rrr" THEN Warps \X BOOLEAN ELSE {<<0, FALSE>>}
  IN {[last    |-> IF policy \in {"lrr", "rrr"} THEN -1 ELSE 0,
       turn    |-> c[1],
       issued  |-> c[2],
       active  |-> IF two THEN SubSeq(ById, 1, MaxActive) ELSE <<>>,
       pending |-> IF two THEN SubSeq(ById, MaxActive + 1, N) ELSE <<>>] :
        c \in own}

\* shd_warp_t::waiting.
Waiting(s, w) == s.warp[w].done \/ w \in s.bars.waiting

\* What list has of the warps ws, in its order.
Kept(list, ws) ==
  LET kept[i \in 0 .. Len(list)] ==
        IF i = 0 THEN <<>>
        ELSE IF list[i] \in ws THEN Append(kept[i - 1], list[i]) ELSE kept[i - 1]
  IN  kept[Len(list)]

\* order_lrr over the supervised warps: from behind the last one.
RoundRobin(sc) == [i \in 1 .. N |-> (sc.last + i) % N]

\* order_lrr over the active warps: from behind x, which is one of them.
Rotated(list, x) ==
  LET k == CHOOSE i \in DOMAIN list : list[i] = x
  IN  SubSeq(list, k + 1, Len(list)) \o SubSeq(list, 1, k)

\* sort_warps_by_oldest_dynamic_id: the warps of a CTA got their dynamic ids
\* in order, those that are done or wait come last.
ByAge(s) == Kept(ById, {w \in Warps : ~ Waiting(s, w)})
            \o Kept(ById, {w \in Warps : Waiting(s, w)})

\* order_by_priority, greedy.
Greedy(sc, list) == <<sc.last>> \o Kept(list, Warps \ {sc.last})

\* order_rrr: one warp, the next that neither waits nor has exited.
StrictTurn(sc, s) ==
  IF sc.issued \/ Waiting(s, sc.turn)
  THEN LET able == Kept(RoundRobin(sc), {w \in Warps : ~ Waiting(s, w)})
       IN  IF able = <<>> THEN <<>> ELSE <<able[1]>>
  ELSE <<sc.turn>>

\* The registers that loads in flight will write: Scoreboard::islongop.
LongOps(s, w) ==
  UNION {s.code[w][f.pc].dst :
           f \in {g \in s.flight : g.warp = w /\ s.code[w][g.pc].op = "load"}}

\* A warp that leaves the active list.
Demoted(s, w) ==
  \/ Waiting(s, w)
  \/ NextPc(s, w) # 0 /\ Inst(s, w).src \cap LongOps(s, w) # {}

\* two_level_active_scheduler::order_warps: the demoted warps go to the end of
\* the pending ones, the first of which fill the list up.
Promote(sc, s) ==
  LET stay == Kept(sc.active, {w \in Warps : ~ Demoted(s, w)})
      pool == sc.pending \o Kept(sc.active, {w \in Warps : Demoted(s, w)})
      free == MaxActive - Len(stay)
  IN  [sc EXCEPT !.active  = stay \o SubSeq(pool, 1, free),
                 !.pending = SubSeq(pool, free + 1, Len(pool))]

\* order_warps: the warps of the cycle in the order they are looked at. Those
\* that wait are passed over, wherever they stand.
Prioritized(policy, sc, s) ==
  CASE policy = "lrr"              -> RoundRobin(sc)
    [] policy = "rrr"              -> StrictTurn(sc, s)
    [] policy = "gto"              -> Greedy(sc, ById)
    [] policy = "old"              -> ById
    [] policy = "warp_limiting"    ->
         Greedy(sc, SubSeq(ByAge(s), 1, MaxActive))
    [] policy = "two_level_active" -> Promote(sc, s).active

\* What order_warps leaves behind.
Turned(policy, sc, s) ==
  CASE policy = "rrr" ->
         LET list == StrictTurn(sc, s) IN
         IF list = <<>> THEN sc ELSE [sc EXCEPT !.turn = list[1]]
    [] policy = "two_level_active" -> Promote(sc, s)
    [] OTHER -> sc

\* do_on_warp_issued and the end of the cycle, in which w issued last. The
\* two-level scheduler supervises no warp, so its last stays.
Served(policy, sc, s, w) ==
  LET t == Turned(policy, sc, s) IN
  CASE policy = "two_level_active" -> [t EXCEPT !.active = Rotated(@, w)]
    [] policy = "rrr"              -> [t EXCEPT !.last = w, !.issued = TRUE]
    [] OTHER                       -> [t EXCEPT !.last = w]
=============================================================================
