----------------------------- MODULE BarrierSet -----------------------------
(***************************************************************************)
(* The CTA barriers of one core, barrier_set_t, as operators on a record:  *)
(*   ctas    : m_cta_to_warps, a function on the CTA slots in use          *)
(*   active  : m_warp_active, the warps that have not exited               *)
(*   waiting : m_warp_at_barrier, the warps the schedulers hold back       *)
(*   reached : m_bar_id_to_warps, per barrier id who arrived in this round *)
(* A barrier instruction is a record [type, bar, count]; count is the      *)
(* number of warps (bar_count / warp_size), or All where the instruction   *)
(* gives none (the code's (unsigned)-1; no barrier is for 0 warps).        *)
(***************************************************************************)
EXTENDS Naturals, FiniteSets

CONSTANTS Ctas,      \* hardware CTA slots
          Warps,     \* hardware warps
          Barriers   \* barrier ids

All   == 0
Types == {"SYNC", "ARRIVE", "RED"}
Ops   == [type : Types, bar : Barriers, count : Nat]

NoBarriers == [ctas |-> [c \in {} |-> {}], active |-> {}, waiting |-> {},
               reached |-> [b \in Barriers |-> {}]]

AllocateBarrier(s, c, ws) ==
  [ctas    |-> [d \in DOMAIN s.ctas \cup {c} |-> IF d = c THEN ws ELSE s.ctas[d]],
   active  |-> s.active \cup ws,
   waiting |-> s.waiting \ ws,
   reached |-> [b \in Barriers |-> s.reached[b] \ ws]]

DeallocateBarrier(s, c) ==
  LET ws == s.ctas[c]
  IN  [ctas    |-> [d \in DOMAIN s.ctas \ {c} |-> s.ctas[d]],
       active  |-> s.active \ ws,
       waiting |-> s.waiting \ ws,
       reached |-> [b \in Barriers |-> s.reached[b] \ ws]]

\* What deallocate_barrier asserts of the CTA it removes.
NobodyStuck(s, c) ==
  /\ s.ctas[c] \cap s.waiting = {}
  /\ s.ctas[c] \cap s.active = {}
  /\ \A b \in Barriers : s.ctas[c] \cap s.reached[b] = {}

\* The warps of a CTA that have arrived at b, once w has.
AtBarrier(s, c, w, b) == s.ctas[c] \cap (s.reached[b] \cup {w})

\* The arrival of w completes the round: everybody active is there, or the
\* number of warps the instruction asks for.
Completes(s, c, w, op) ==
  IF op.count = All THEN AtBarrier(s, c, w, op.bar) = s.ctas[c] \cap s.active
  ELSE Cardinality(AtBarrier(s, c, w, op.bar)) = op.count

\* Mutant: the warps are collected before the bit of w is set.
MutReleased(s, c, w, op) ==
  IF Completes(s, c, w, op) THEN AtBarrier(s, c, w, op.bar) \ {w} ELSE {}

\* Who leaves the barrier with the arrival of w.
Released(s, c, w, op) ==
  IF Completes(s, c, w, op) THEN AtBarrier(s, c, w, op.bar) ELSE {}

\* Mutant: the end of a round wakes every warp of the CTA.
MutWarpReaches(s, c, w, op) ==
  LET gone == Released(s, c, w, op)
  IN  [ctas    |-> s.ctas,
       active  |-> s.active,
       waiting |-> IF gone # {} THEN s.waiting \ s.ctas[c]
                   ELSE IF op.type = "ARRIVE" THEN s.waiting
                   ELSE s.waiting \cup {w},
       reached |-> [s.reached EXCEPT ![op.bar] = (@ \cup {w}) \ gone]]

\* warp_reaches_barrier. Leaving a barrier ends a warp's waiting, whichever
\* barrier it waits at.
WarpReaches(s, c, w, op) ==
  LET gone == Released(s, c, w, op)
  IN  [ctas    |-> s.ctas,
       active  |-> s.active,
       waiting |-> (IF op.type = "ARRIVE" THEN s.waiting
                                          ELSE s.waiting \cup {w}) \ gone,
       reached |-> [b \in Barriers |->
                      IF b = op.bar THEN (s.reached[b] \cup {w}) \ gone
                                    ELSE s.reached[b]]]

\* Mutant: an exit does not look at the barriers.
MutExitReleases(s, c, w, b) == FALSE

\* warp_exit tests every barrier against the warps that remain active.
ExitReleases(s, c, w, b) ==
  s.ctas[c] \cap s.reached[b] = (s.ctas[c] \cap s.active) \ {w}

WarpExit(s, c, w) ==
  LET free == {b \in Barriers : ExitReleases(s, c, w, b)}
      gone(b) == IF b \in free THEN s.ctas[c] \cap s.reached[b] ELSE {}
  IN  [ctas    |-> s.ctas,
       active  |-> s.active \ {w},
       waiting |-> s.waiting \ UNION {gone(b) : b \in Barriers},
       reached |-> [b \in Barriers |-> s.reached[b] \ gone(b)]]
=============================================================================
