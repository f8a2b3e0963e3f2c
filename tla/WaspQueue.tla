----------------------------- MODULE WaspQueue -----------------------------
(***************************************************************************)
(* One warp queue of the WASP extension, as pure operators on a record.    *)
(* The register-file queue (class wasp_rfq, wasp-rfq.cc) and the shared    *)
(* memory queue (class wasp_smem_queue, wasp-smem-queue.cc) are the same   *)
(* code under two names, so one module stands for both.                    *)
(*                                                                         *)
(* A queue is a ring of Depth slots.  A producer load reserves the tail    *)
(* and receives a token <<slot, sequence>>; every later operation on that  *)
(* entry goes through the token and the code asserts that the slot still   *)
(* carries the token's sequence number (Owns below).  The consumer only    *)
(* ever sees the head.                                                     *)
(***************************************************************************)
EXTENDS Naturals

CONSTANT Depth      \* m_entries: the number of slots, fixed by configure()

\* configure() asserts entries > 0.
ASSUME DepthAssumption == Depth \in Nat \ {0}

Slots  == 0 .. Depth - 1
States == {"FREE", "RESERVED", "READY"}

\* What the lanes hold before a load stored anything: reserve_tail fills the
\* payload with zeroes, and so does consume_head. Data are pairs of numbers.
NoData == <<0, 0>>

FreeEntry == [state |-> "FREE", sequence |-> 0, pending |-> 0, data |-> NoData]

\* A queue as the constructor and the first configure() leave it.
EmptyQueue == [head      |-> 0,
               tail      |-> 0,
               occupancy |-> 0,
               next      |-> 1,
               storage   |-> [i \in Slots |-> FreeEntry]]

Full(q)  == q.occupancy >= Depth
Empty(q) == q.occupancy = 0

\* Mutant: the head is taken before its data has arrived.
MutHeadReady(q) == ~Empty(q)

HeadReady(q) == ~Empty(q) /\ q.storage[q.head].state = "READY"

\* Mutant: the ring wraps one slot early.
MutSucc(i) == (i + 1) % (IF Depth = 1 THEN 1 ELSE Depth - 1)

\* The ring successor (m_tail + 1) % m_entries.
Succ(i) == (i + 1) % Depth

\* The token reserve_tail hands to the load.
TailToken(q) == [slot |-> q.tail, sequence |-> q.next]

\* entry_for_token: the assertion that guards every use of a token.
Owns(q, token) == q.storage[token.slot].sequence = token.sequence

\* Mutant: an entry is ready before any response.
MutStateFor(pending) == "READY"

\* An entry with no response to come is READY at once.
StateFor(pending) == IF pending = 0 THEN "READY" ELSE "RESERVED"

\* reserve_tail: the entry at the tail is taken and the tail moves on.
ReserveTail(q, pending) ==
  [head      |-> q.head,
   tail      |-> Succ(q.tail),
   occupancy |-> q.occupancy + 1,
   next      |-> q.next + 1,
   storage   |-> [q.storage EXCEPT ![q.tail] =
                    [state    |-> StateFor(pending),
                     sequence |-> q.next,
                     pending  |-> pending,
                     data     |-> NoData]]]

\* The queue with entry e in slot i; the ring pointers stay.
WithEntry(q, i, e) ==
  [head |-> q.head, tail |-> q.tail, occupancy |-> q.occupancy,
   next |-> q.next, storage |-> [q.storage EXCEPT ![i] = e]]

SetPendingResponses(q, token, pending) ==
  WithEntry(q, token.slot,
    [state    |-> StateFor(pending),
     sequence |-> q.storage[token.slot].sequence,
     pending  |-> pending,
     data     |-> q.storage[token.slot].data])

SetLaneValue(q, token, data) ==
  WithEntry(q, token.slot,
    [state    |-> q.storage[token.slot].state,
     sequence |-> q.storage[token.slot].sequence,
     pending  |-> q.storage[token.slot].pending,
     data     |-> data])

HasPendingResponses(q, token) == q.storage[token.slot].pending > 0

\* Mutant: the first response makes the entry ready.
MutMarkFirst(q, token) ==
  LET e == q.storage[token.slot]
  IN  WithEntry(q, token.slot,
        [state    |-> "READY",
         sequence |-> e.sequence,
         pending  |-> e.pending - 1,
         data     |-> e.data])

\* Mutant: a response goes to the head, not to the entry of the token.
MutMarkHead(q, token) ==
  LET e == q.storage[q.head]
  IN  WithEntry(q, q.head,
        [state    |-> IF e.pending = 1 THEN "READY" ELSE e.state,
         sequence |-> e.sequence,
         pending  |-> e.pending - 1,
         data     |-> e.data])

\* mark_response asserts pending_responses > 0 and makes the entry READY
\* with the last response.
MarkResponse(q, token) ==
  LET e == q.storage[token.slot]
  IN  WithEntry(q, token.slot,
        [state    |-> IF e.pending = 1 THEN "READY" ELSE e.state,
         sequence |-> e.sequence,
         pending  |-> e.pending - 1,
         data     |-> e.data])

HeadLaneValue(q) == q.storage[q.head].data

\* consume_head leaves the sequence number of the freed slot in place.
ConsumeHead(q) ==
  [head      |-> Succ(q.head),
   tail      |-> q.tail,
   occupancy |-> q.occupancy - 1,
   next      |-> q.next,
   storage   |-> [q.storage EXCEPT ![q.head] =
                    [state    |-> "FREE",
                     sequence |-> q.storage[q.head].sequence,
                     pending  |-> 0,
                     data     |-> NoData]]]
=============================================================================
