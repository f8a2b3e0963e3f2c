------------------------ MODULE QueuePipelineProofs ------------------------
(***************************************************************************)
(* Theorems about QueuePipeline, for every number of CTA slots, warp       *)
(* pairs, queue ids and ring slots, and every program length.              *)
(***************************************************************************)
EXTENDS QueuePipeline, Sequences, TLAPS

-----------------------------------------------------------------------------
(* Lemmas about one queue.                                                 *)

\* The modulo of the code is a wrap to slot 0.
LEMMA SuccInRing ==
  ASSUME NEW i \in Slots
  PROVE  Succ(i) = IF i + 1 = Depth THEN 0 ELSE i + 1
BY DepthAssumption DEF Succ, Slots

\* A fresh queue is a queue, and its ring is consistent.
LEMMA EmptyQueueOK == EmptyQueue \in Queues /\ RingOK(EmptyQueue)
BY DepthAssumption
   DEF EmptyQueue, Queues, Entries, States, FreeEntry, NoData, Slots, RingOK,
       InRing

\* The entry at the tail of a queue that is not full is free.
LEMMA TailIsFree ==
  ASSUME NEW q \in Queues, RingOK(q), ~Full(q)
  PROVE  q.storage[q.tail].state = "FREE"
BY DepthAssumption DEF Queues, RingOK, InRing, Full, Slots

\* What issuing a load does to its queue.
LEMMA ReserveEffect ==
  ASSUME NEW q \in Queues, RingOK(q), ~Full(q),
         NEW n \in Nat, NEW d \in Nat \X Nat, NEW r,
         r = SetPendingResponses(SetLaneValue(ReserveTail(q, 0), TailToken(q), d),
                                 TailToken(q), n)
  PROVE  /\ r \in Queues
         /\ RingOK(r)
         /\ r.next = q.next + 1
         /\ r.occupancy = q.occupancy + 1
         /\ r.storage[q.tail] = [state |-> StateFor(n), sequence |-> q.next,
                                 pending |-> n, data |-> d]
         /\ \A i \in Slots : i # q.tail => r.storage[i] = q.storage[i]
<1>1. q.tail \in Slots /\ q.head \in Slots /\ q.next \in Nat \ {0}
      /\ q.occupancy \in 0 .. Depth /\ q.storage \in [Slots -> Entries]
  BY DEF Queues
<1> DEFINE e == [state |-> StateFor(n), sequence |-> q.next,
                 pending |-> n, data |-> d]
<1>2. /\ r.head = q.head /\ r.tail = Succ(q.tail)
      /\ r.occupancy = q.occupancy + 1 /\ r.next = q.next + 1
      /\ r.storage = [q.storage EXCEPT ![q.tail] = e]
      /\ r = [head |-> r.head, tail |-> r.tail, occupancy |-> r.occupancy,
              next |-> r.next, storage |-> r.storage]
  BY <1>1 DEF SetPendingResponses, SetLaneValue, ReserveTail, TailToken,
              WithEntry, StateFor
<1>3. e \in Entries
  BY <1>1 DEF Entries, StateFor, States
<1>4. q.occupancy + 1 \in 0 .. Depth
  BY <1>1, DepthAssumption DEF Full
<1>5. Succ(q.tail) \in Slots
  BY <1>1, SuccInRing, DepthAssumption DEF Slots
<1>6. r \in Queues
  BY <1>1, <1>2, <1>3, <1>4, <1>5 DEF Queues
<1>7. RingOK(r)
  <2>0. /\ Depth \in Nat /\ Depth > 0
        /\ q.head \in Nat /\ q.tail \in Nat /\ q.occupancy \in Nat
        /\ q.head < Depth /\ q.tail < Depth /\ q.occupancy < Depth
        /\ q.tail = IF q.head + q.occupancy < Depth
                    THEN q.head + q.occupancy ELSE q.head + q.occupancy - Depth
    BY <1>1, DepthAssumption DEF RingOK, Slots, Full
  <2>a. r.tail = IF q.tail + 1 = Depth THEN 0 ELSE q.tail + 1
    BY <1>1, <1>2, SuccInRing
  <2>1. r.tail = IF r.head + r.occupancy < Depth
                 THEN r.head + r.occupancy ELSE r.head + r.occupancy - Depth
    BY <2>0, <2>a, <1>2
  <2>2. \A i \in Slots : InRing(r, i) <=> InRing(q, i) \/ i = q.tail
    BY <2>0, <2>a, <1>2 DEF Slots, InRing
  <2>3. \A i \in Slots : r.storage[i].state # "FREE" <=> InRing(r, i)
    BY <1>1, <1>2, <2>2 DEF RingOK, StateFor
  <2>4. \A i \in Slots : r.storage[i].sequence < r.next
    BY <1>1, <1>2 DEF RingOK, Entries
  <2> QED BY <2>1, <2>3, <2>4 DEF RingOK
<1> QED BY <1>1, <1>2, <1>6, <1>7

\* What one answered access does to the queue of its load.
LEMMA MarkEffect ==
  ASSUME NEW q \in Queues, RingOK(q), NEW t \in Tokens,
         q.storage[t.slot].state = "RESERVED",
         q.storage[t.slot].pending > 0,
         NEW r, r = MarkResponse(q, t)
  PROVE  /\ r \in Queues
         /\ RingOK(r)
         /\ r.next = q.next /\ r.occupancy = q.occupancy
         /\ r.storage[t.slot].sequence = q.storage[t.slot].sequence
         /\ r.storage[t.slot].pending = q.storage[t.slot].pending - 1
         /\ r.storage[t.slot].state = IF q.storage[t.slot].pending = 1
                                      THEN "READY" ELSE "RESERVED"
         /\ \A i \in Slots : i # t.slot => r.storage[i] = q.storage[i]
<1>1. /\ t.slot \in Slots /\ q.storage \in [Slots -> Entries]
      /\ q.storage[t.slot] \in Entries
  BY DEF Queues, Tokens
<1> DEFINE e == [state |-> IF q.storage[t.slot].pending = 1
                           THEN "READY" ELSE "RESERVED",
                 sequence |-> q.storage[t.slot].sequence,
                 pending |-> q.storage[t.slot].pending - 1,
                 data |-> q.storage[t.slot].data]
<1>2. /\ r.head = q.head /\ r.tail = q.tail /\ r.occupancy = q.occupancy
      /\ r.next = q.next /\ r.storage = [q.storage EXCEPT ![t.slot] = e]
      /\ r = [head |-> r.head, tail |-> r.tail, occupancy |-> r.occupancy,
              next |-> r.next, storage |-> r.storage]
  BY <1>1 DEF MarkResponse, WithEntry
<1>3. e \in Entries
  BY <1>1 DEF Entries, States
<1>4. r \in Queues
  BY <1>1, <1>2, <1>3 DEF Queues
<1>6. RingOK(r)
  BY <1>1, <1>2 DEF RingOK, InRing
<1> QED BY <1>1, <1>2, <1>4, <1>6

\* What a MOV does to its queue.
LEMMA ConsumeEffect ==
  ASSUME NEW q \in Queues, RingOK(q), HeadReady(q),
         NEW r, r = ConsumeHead(q)
  PROVE  /\ r \in Queues
         /\ RingOK(r)
         /\ r.next = q.next /\ r.occupancy = q.occupancy - 1
         /\ \A i \in Slots : r.storage[i].sequence = q.storage[i].sequence
         /\ \A i \in Slots : i # q.head => r.storage[i] = q.storage[i]
<1>1. /\ q.head \in Slots /\ q.tail \in Slots /\ q.next \in Nat \ {0}
      /\ q.occupancy \in 0 .. Depth /\ q.occupancy > 0
      /\ q.storage \in [Slots -> Entries] /\ q.storage[q.head] \in Entries
  BY DepthAssumption DEF Queues, HeadReady, Empty
<1> DEFINE e == [state |-> "FREE", sequence |-> q.storage[q.head].sequence,
                 pending |-> 0, data |-> NoData]
<1>2. /\ r.head = Succ(q.head) /\ r.tail = q.tail
      /\ r.occupancy = q.occupancy - 1 /\ r.next = q.next
      /\ r.storage = [q.storage EXCEPT ![q.head] = e]
      /\ r = [head |-> r.head, tail |-> r.tail, occupancy |-> r.occupancy,
              next |-> r.next, storage |-> r.storage]
  BY <1>1 DEF ConsumeHead
<1>3. e \in Entries
  BY <1>1 DEF Entries, States, NoData
<1>4. Succ(q.head) \in Slots
  BY <1>1, SuccInRing, DepthAssumption DEF Slots
<1>5. q.occupancy - 1 \in 0 .. Depth
  BY <1>1, DepthAssumption
<1>6. r \in Queues
  BY <1>1, <1>2, <1>3, <1>4, <1>5 DEF Queues
<1>7. RingOK(r)
  <2>0. /\ Depth \in Nat /\ Depth > 0
        /\ q.head \in Nat /\ q.tail \in Nat /\ q.occupancy \in Nat
        /\ q.head < Depth /\ q.tail < Depth
        /\ q.occupancy > 0 /\ q.occupancy <= Depth
        /\ q.tail = IF q.head + q.occupancy < Depth
                    THEN q.head + q.occupancy ELSE q.head + q.occupancy - Depth
        /\ r.head = IF q.head + 1 = Depth THEN 0 ELSE q.head + 1
    BY <1>1, <1>2, SuccInRing, DepthAssumption DEF RingOK, Slots
  <2>1. r.tail = IF r.head + r.occupancy < Depth
                 THEN r.head + r.occupancy ELSE r.head + r.occupancy - Depth
    BY <2>0, <1>2
  <2>2. \A i \in Slots : InRing(r, i) <=> InRing(q, i) /\ i # q.head
    BY <2>0, <1>2 DEF Slots, InRing
  <2>3. \A i \in Slots : r.storage[i].state # "FREE" <=> InRing(r, i)
    BY <1>1, <1>2, <2>2 DEF RingOK
  <2>4. \A i \in Slots : r.storage[i].sequence < r.next
    BY <1>1, <1>2 DEF RingOK
  <2> QED BY <2>1, <2>3, <2>4 DEF RingOK
<1> QED BY <1>1, <1>2, <1>6, <1>7
-----------------------------------------------------------------------------
(* The invariant.                                                          *)

\* In flight means an access is outstanding, once every load has accesses.
LEMMA InFlightOutstanding ==
  ASSUME IInv, NEW l \in loads
  PROVE  /\ InFlight(l) <=> Outstanding(l) > 0
         /\ l \in Loads
         /\ Outstanding(l) \in Nat
BY DEF IInv, TypeOK, PipelineMeansAccesses, InFlight, Outstanding, Loads, Stages

\* An outstanding load points at a RESERVED entry of an existing queue.
LEMMA OutstandingEntry ==
  ASSUME IInv, NEW l \in loads, Outstanding(l) > 0
  PROVE  /\ l.key \in DOMAIN table /\ l.key \in Keys
         /\ table[l.key] \in Queues /\ RingOK(table[l.key])
         /\ l.token \in Tokens /\ l.token.slot \in Slots
         /\ table[l.key].storage[l.token.slot].state = "RESERVED"
         /\ table[l.key].storage[l.token.slot].pending = Outstanding(l)
         /\ table[l.key].storage[l.token.slot].sequence = l.token.sequence
         /\ l.launch = launch[CtaOf(l.key)]
<1>1. l \in Loads /\ InFlight(l)
  BY InFlightOutstanding
<1>2. /\ l.key \in DOMAIN table
      /\ Owns(table[l.key], l.token)
      /\ l.launch = launch[CtaOf(l.key)]
  BY <1>1 DEF IInv, TokensOwned
<1>3. /\ l.key \in Keys
      /\ table[l.key] \in Queues /\ RingOK(table[l.key])
      /\ l.token \in Tokens /\ l.token.slot \in Slots
  BY <1>1, <1>2 DEF IInv, TypeOK, Loads, Tokens
<1> QED BY <1>2, <1>3 DEF IInv, PendingMatchesAccesses, Owns

\* Two outstanding loads of one queue own different slots.
LEMMA SlotsDistinct ==
  ASSUME IInv, NEW l \in loads, NEW m \in loads, l # m,
         Outstanding(l) > 0, Outstanding(m) > 0, l.key = m.key
  PROVE  l.token.slot # m.token.slot
<1>1. l.launch = m.launch
  BY OutstandingEntry
<1>2. l.token.sequence # m.token.sequence
  BY <1>1 DEF IInv, LoadsDistinct
<1> QED BY <1>2, OutstandingEntry

\* The steps that move an access of a load from one place to the next.
LEMMA MoveKeepsIInv ==
  ASSUME IInv, NEW l \in loads, NEW m \in Loads,
         m.key = l.key, m.launch = l.launch, m.token = l.token,
         Outstanding(m) = Outstanding(l),
         m.stage # "left" <=> m.todo > 0,
         loads' = Replace(l, m),
         UNCHANGED <<table, loadsLeft, movesLeft, movesBusy, warps, gridLeft,
                     launch>>
  PROVE  IInv'
<1>0. /\ \A x \in loads' : x = m \/ (x \in loads /\ x # l)
      /\ l \in Loads
  BY DEF Replace, IInv, TypeOK
<1>1. TypeOK'
  BY <1>0 DEF IInv, TypeOK
<1>2. (\A k \in DOMAIN table : RingOK(table[k]))'
  BY DEF IInv
<1>3. LoadsDistinct'
  BY <1>0 DEF IInv, LoadsDistinct
<1>4. SequencesFresh'
  BY <1>0 DEF IInv, SequencesFresh
<1>5. PipelineMeansAccesses'
  BY <1>0 DEF IInv, PipelineMeansAccesses
<1>6. ReclaimedIsDone' /\ Balanced' /\ QueueMeansRunning'
  BY DEF IInv, ReclaimedIsDone, Balanced, QueueMeansRunning, QueueAt, Running
<1>7. TokensOwned'
  <2>1. InFlight(m) => InFlight(l)
    BY <1>0 DEF InFlight, Outstanding, Loads, IInv, PipelineMeansAccesses
  <2> QED BY <1>0, <2>1 DEF IInv, TokensOwned, InFlight, Outstanding
<1>8. PendingMatchesAccesses'
  BY <1>0 DEF IInv, PendingMatchesAccesses, Outstanding
<1> QED BY <1>1, <1>2, <1>3, <1>4, <1>5, <1>6, <1>7, <1>8 DEF IInv

\* The steps that answer an access of a load.
LEMMA MarkKeepsIInv ==
  ASSUME IInv, NEW l \in loads, NEW m \in Loads,
         m.key = l.key, m.launch = l.launch, m.token = l.token,
         Outstanding(l) > 0, Outstanding(m) = Outstanding(l) - 1,
         m.stage # "left" <=> m.todo > 0,
         loads' = Replace(l, m),
         table' = WithQueue(l.key, Marked(l)),
         UNCHANGED <<loadsLeft, movesLeft, movesBusy, warps, gridLeft, launch>>
  PROVE  IInv'
<1> DEFINE q == table[l.key]
           r == Marked(l)
           s == l.token.slot
<1>0. /\ \A x \in loads' : x = m \/ (x \in loads /\ x # l)
      /\ l \in Loads /\ l.key \in Keys
      /\ DOMAIN table' = DOMAIN table
      /\ table'[l.key] = r
      /\ \A k \in DOMAIN table : k # l.key => table'[k] = table[k]
  BY OutstandingEntry DEF Replace, IInv, TypeOK, WithQueue
<1>1. /\ q \in Queues /\ RingOK(q) /\ s \in Slots /\ l.token \in Tokens
      /\ q.storage[s].state = "RESERVED"
      /\ q.storage[s].pending = Outstanding(l)
      /\ q.storage[s].sequence = l.token.sequence
      /\ l.key \in DOMAIN table
      /\ l.launch = launch[CtaOf(l.key)]
  BY OutstandingEntry
<1>2. /\ r \in Queues /\ RingOK(r)
      /\ r.next = q.next /\ r.occupancy = q.occupancy
      /\ r.storage[s].sequence = q.storage[s].sequence
      /\ r.storage[s].pending = q.storage[s].pending - 1
      /\ r.storage[s].state = IF q.storage[s].pending = 1
                              THEN "READY" ELSE "RESERVED"
      /\ \A i \in Slots : i # s => r.storage[i] = q.storage[i]
  <2>1. r = MarkResponse(q, l.token) /\ q.storage[s].pending > 0
    BY <1>1 DEF Marked
  <2> HIDE DEF q, r
  <2> QED BY <1>1, <2>1, MarkEffect
<1> HIDE DEF q, r, s
<1>3. TypeOK'
  BY <1>0, <1>2 DEF IInv, TypeOK
<1>4. (\A k \in DOMAIN table : RingOK(table[k]))'
  BY <1>0, <1>2 DEF IInv
<1>5. LoadsDistinct'
  BY <1>0 DEF IInv, LoadsDistinct
<1>6. SequencesFresh'
  BY <1>0, <1>2 DEF IInv, SequencesFresh, q
<1>7. PipelineMeansAccesses'
  BY <1>0 DEF IInv, PipelineMeansAccesses
<1>8. ReclaimedIsDone' /\ QueueMeansRunning'
  BY <1>0 DEF IInv, ReclaimedIsDone, QueueMeansRunning, Running
<1>9. Balanced'
  BY <1>0, <1>1, <1>2 DEF IInv, Balanced, QueueAt, q
<1>10. ASSUME NEW x \in loads', Outstanding(x) > 0
       PROVE  /\ x.key \in DOMAIN table'
              /\ table'[x.key].storage[x.token.slot].sequence = x.token.sequence
              /\ table'[x.key].storage[x.token.slot].state = "RESERVED"
              /\ table'[x.key].storage[x.token.slot].pending = Outstanding(x)
              /\ x.launch = launch[CtaOf(x.key)]
  <2>1. CASE x = m
    <3>1. Outstanding(l) # 1 /\ Outstanding(l) \in Nat
      BY <2>1, <1>10, InFlightOutstanding
    <3> QED BY <3>1, <2>1, <1>0, <1>1, <1>2 DEF s
  <2>2. CASE x \in loads /\ x # l /\ x.key = l.key
    <3>1. x.token.slot # s
      BY <2>2, <1>10, SlotsDistinct DEF s
    <3>2. /\ x.key \in DOMAIN table /\ x.token.slot \in Slots
          /\ table[x.key].storage[x.token.slot].sequence = x.token.sequence
          /\ table[x.key].storage[x.token.slot].state = "RESERVED"
          /\ table[x.key].storage[x.token.slot].pending = Outstanding(x)
          /\ x.launch = launch[CtaOf(x.key)]
      BY <1>10, <2>2, OutstandingEntry
    <3>3. /\ x.key \in DOMAIN table' /\ table'[x.key] = r
          /\ table[x.key] = q
      BY <3>2, <2>2, <1>0 DEF q
    <3>4. r.storage[x.token.slot] = q.storage[x.token.slot]
      BY <3>1, <3>2, <1>2
    <3> QED BY <3>2, <3>3, <3>4
  <2>3. CASE x \in loads /\ x # l /\ x.key # l.key
    BY <2>3, <1>0, <1>10, OutstandingEntry
  <2> QED BY <2>1, <2>2, <2>3, <1>0
<1>11. TokensOwned'
  <2>1. \A x \in loads' : InFlight(x) => Outstanding(x) > 0
    BY <1>3, <1>7 DEF TypeOK, PipelineMeansAccesses, InFlight, Outstanding, Loads
  <2> QED BY <1>10, <2>1 DEF TokensOwned, Owns, InFlight, Outstanding
<1>12. PendingMatchesAccesses'
  BY <1>10 DEF PendingMatchesAccesses, Outstanding
<1> QED BY <1>3, <1>4, <1>5, <1>6, <1>7, <1>8, <1>9, <1>11, <1>12 DEF IInv
\* Issuing a load: the tail slot is free, so no outstanding load owns it,
\* and the new sequence number is one no load of this CTA has.
LEMMA IssueLoadKeepsIInv ==
  ASSUME IInv, 0 \notin AccessCounts, NEW k \in Keys, NEW n \in AccessCounts,
         IssueLoad(k, n)
  PROVE  IInv'
<1> DEFINE q == QueueAt(k)
           token == TailToken(q)
           data == IF n = 0 THEN NoData
                   ELSE Tag(CtaOf(k), Program - loadsLeft[k] + 1)
           r == SetPendingResponses(SetLaneValue(ReserveTail(q, 0), token, data),
                                    token, n)
           m == [key |-> k, launch |-> launch[CtaOf(k)], token |-> token,
                 stage |-> "collector", todo |-> n, l1 |-> 0, mem |-> 0,
                 wb |-> 0, completions |-> 0]
<1>1. /\ loadsLeft[k] > 0 /\ ~Full(q)
      /\ table' = WithQueue(k, r)
      /\ loads' = loads \cup {m}
      /\ loadsLeft' = [loadsLeft EXCEPT ![k] = @ - 1]
      /\ UNCHANGED <<movesLeft, movesBusy, warps, gridLeft, launch>>
  BY DEF IssueLoad
<1>2. /\ n \in Nat /\ n > 0 /\ CtaOf(k) \in Ctas /\ launch[CtaOf(k)] \in Nat
      /\ loadsLeft[k] \in 0 .. Program
  BY ParameterAssumption DEF IInv, TypeOK, Keys, CtaOf
<1>3. q \in Queues /\ RingOK(q)
  BY EmptyQueueOK DEF QueueAt, IInv, TypeOK
<1>4. data \in Nat \X Nat
  BY <1>2, ParameterAssumption DEF Tag, NoData
<1>5. /\ r \in Queues /\ RingOK(r)
      /\ r.next = q.next + 1 /\ r.occupancy = q.occupancy + 1
      /\ r.storage[q.tail] = [state |-> StateFor(n), sequence |-> q.next,
                              pending |-> n, data |-> data]
      /\ \A i \in Slots : i # q.tail => r.storage[i] = q.storage[i]
  <2> HIDE DEF q, data
  <2> QED BY <1>1, <1>2, <1>3, <1>4, ReserveEffect
<1>6. /\ q.storage[q.tail].state = "FREE"
      /\ q.tail \in Slots /\ q.next \in Nat \ {0} /\ q.occupancy \in Nat
  BY <1>1, <1>3, TailIsFree, DepthAssumption DEF Queues
<1>7. /\ token.slot = q.tail /\ token.sequence = q.next /\ token \in Tokens
      /\ m.key = k /\ m.launch = launch[CtaOf(k)] /\ m.token = token
      /\ m.stage = "collector" /\ m.todo = n /\ m \in Loads
      /\ Outstanding(m) = n
  BY <1>2, <1>6 DEF TailToken, Tokens, Loads, Stages, Outstanding
<1>8. /\ DOMAIN table' = DOMAIN table \cup {k}
      /\ table'[k] = r
      /\ \A j \in DOMAIN table : j # k => table'[j] = table[j]
      /\ k \in DOMAIN table => q = table[k]
      /\ k \notin DOMAIN table => q.occupancy = 0 /\ q.next = 1
  BY <1>1 DEF WithQueue, QueueAt, EmptyQueue
<1> HIDE DEF q, token, data, r, m
<1>9. TypeOK'
  <2>1. DOMAIN table' \subseteq Keys /\ \A j \in DOMAIN table' : table'[j] \in Queues
    BY <1>5, <1>8 DEF IInv, TypeOK
  <2>2. loads' \subseteq Loads
    BY <1>1, <1>7 DEF IInv, TypeOK
  <2>3. loadsLeft' \in [Keys -> 0 .. Program]
    BY <1>1, <1>2, ParameterAssumption DEF IInv, TypeOK
  <2> QED BY <1>1, <2>1, <2>2, <2>3 DEF IInv, TypeOK
<1>10. (\A j \in DOMAIN table : RingOK(table[j]))'
  BY <1>5, <1>8 DEF IInv
<1>11. \A x \in loads : x.key = k /\ x.launch = launch[CtaOf(k)] =>
         k \in DOMAIN table /\ x.token.sequence < q.next
  BY <1>1, <1>8 DEF IInv, SequencesFresh
<1>12. LoadsDistinct'
  <2>1. \A x \in loads : x.key = k /\ x.launch = launch[CtaOf(k)]
          => x.token.sequence # q.next
    BY <1>6, <1>11 DEF IInv, TypeOK, Loads, Tokens
  <2> QED BY <1>1, <1>7, <2>1 DEF IInv, LoadsDistinct
<1>13. SequencesFresh'
  <2>1. ASSUME NEW x \in loads
        PROVE  /\ x.launch <= launch[CtaOf(x.key)]
               /\ x.launch = launch[CtaOf(x.key)] =>
                    IF x.key \in DOMAIN table'
                    THEN x.token.sequence < table'[x.key].next
                    ELSE loadsLeft'[x.key] = 0
    <3>1. x \in Loads /\ x.key \in Keys /\ x.token.sequence \in Nat
      BY DEF IInv, TypeOK, Loads, Tokens
    <3>2. CASE x.key = k
      BY <3>1, <3>2, <1>5, <1>6, <1>8, <1>11 DEF IInv, SequencesFresh
    <3>3. CASE x.key # k
      <4>1. loadsLeft'[x.key] = loadsLeft[x.key]
        BY <1>1, <3>1, <3>3 DEF IInv, TypeOK
      <4> QED BY <4>1, <3>1, <3>3, <1>8 DEF IInv, SequencesFresh
    <3> QED BY <3>2, <3>3
  <2>2. /\ m.launch <= launch[CtaOf(m.key)]
        /\ m.key \in DOMAIN table' /\ m.token.sequence < table'[m.key].next
    BY <1>2, <1>5, <1>6, <1>7, <1>8
  <2> QED BY <1>1, <2>1, <2>2 DEF SequencesFresh
<1>14. PipelineMeansAccesses'
  BY <1>1, <1>2, <1>7 DEF IInv, PipelineMeansAccesses
<1>15. ReclaimedIsDone'
  BY <1>1, <1>2 DEF IInv, ReclaimedIsDone, TypeOK
<1>16. Balanced'
  <2>1. \A j \in Keys : j # k => QueueAt(j)' = QueueAt(j) /\ loadsLeft'[j] = loadsLeft[j]
    BY <1>1, <1>8 DEF QueueAt, IInv, TypeOK
  <2>2. QueueAt(k)' = r /\ loadsLeft'[k] = loadsLeft[k] - 1
    BY <1>1, <1>8 DEF QueueAt, IInv, TypeOK
  <2>3. movesLeft[k] = loadsLeft[k] + q.occupancy
    BY DEF q, IInv, Balanced
  <2>4. movesLeft'[k] = loadsLeft'[k] + QueueAt(k)'.occupancy
    BY <1>1, <1>2, <1>5, <1>6, <2>2, <2>3
  <2> QED BY <1>1, <2>1, <2>4 DEF IInv, Balanced
<1>17. QueueMeansRunning'
  <2>1. WarpOf(k, "producer") \in warps
    BY <1>1, <1>2 DEF IInv, ReclaimedIsDone
  <2>2. WarpOf(k, "producer") \in CtaWarps(CtaOf(k))
    BY DEF WarpOf, CtaWarps, CtaOf, Roles, Keys
  <2>3. Running(CtaOf(k))
    BY <2>1, <2>2 DEF Running
  <2> QED BY <1>1, <1>8, <2>3 DEF IInv, QueueMeansRunning, Running
<1>18. ASSUME NEW x \in loads', Outstanding(x) > 0
       PROVE  /\ x.key \in DOMAIN table'
              /\ table'[x.key].storage[x.token.slot].sequence = x.token.sequence
              /\ table'[x.key].storage[x.token.slot].state = "RESERVED"
              /\ table'[x.key].storage[x.token.slot].pending = Outstanding(x)
              /\ x.launch = launch[CtaOf(x.key)]
  <2>1. CASE x = m
    BY <2>1, <1>2, <1>5, <1>7, <1>8 DEF StateFor
  <2>2. CASE x \in loads /\ x.key = k
    <3>1. x.token.slot # q.tail /\ x.token.slot \in Slots
      BY <2>2, <1>6, <1>8, <1>18, OutstandingEntry
    <3> QED BY <3>1, <2>2, <1>5, <1>8, <1>18, OutstandingEntry
  <2>3. CASE x \in loads /\ x.key # k
    BY <2>3, <1>8, <1>18, OutstandingEntry
  <2> QED BY <2>1, <2>2, <2>3, <1>1
<1>19. TokensOwned'
  <2>1. \A x \in loads' : InFlight(x) => Outstanding(x) > 0
    BY <1>9, <1>14 DEF TypeOK, PipelineMeansAccesses, InFlight, Outstanding, Loads
  <2> QED BY <1>1, <1>18, <2>1 DEF TokensOwned, Owns, InFlight, Outstanding
<1>20. PendingMatchesAccesses'
  BY <1>18 DEF PendingMatchesAccesses, Outstanding
<1> QED BY <1>9, <1>10, <1>12, <1>13, <1>14, <1>15, <1>16, <1>17, <1>19, <1>20
        DEF IInv
\* Consuming the head: it is READY, so no outstanding load owns it.
LEMMA IssueMoveKeepsIInv ==
  ASSUME IInv, NEW k \in Keys, IssueMove(k)
  PROVE  IInv'
<1> DEFINE q == QueueAt(k)
           r == ConsumeHead(q)
<1>1. /\ movesLeft[k] > 0 /\ HeadReady(q)
      /\ table' = WithQueue(k, r)
      /\ movesLeft' = [movesLeft EXCEPT ![k] = @ - 1]
      /\ movesBusy' = [movesBusy EXCEPT ![k] = @ + 1]
      /\ UNCHANGED <<loads, loadsLeft, warps, gridLeft, launch>>
  BY DEF IssueMove
<1>2. k \in DOMAIN table
  BY <1>1 DEF QueueAt, HeadReady, Empty, EmptyQueue
<1>3. /\ q = table[k] /\ q \in Queues /\ RingOK(q)
      /\ movesLeft[k] \in 0 .. Program
  BY <1>2 DEF QueueAt, IInv, TypeOK
<1>4. /\ r \in Queues /\ RingOK(r)
      /\ r.next = q.next /\ r.occupancy = q.occupancy - 1
      /\ \A i \in Slots : r.storage[i].sequence = q.storage[i].sequence
      /\ \A i \in Slots : i # q.head => r.storage[i] = q.storage[i]
  <2> HIDE DEF q
  <2> QED BY <1>1, <1>3, ConsumeEffect
<1>5. q.storage[q.head].state = "READY" /\ q.occupancy \in Nat
  BY <1>1, <1>3 DEF HeadReady, Queues
<1>6. /\ DOMAIN table' = DOMAIN table
      /\ table'[k] = r
      /\ \A j \in DOMAIN table : j # k => table'[j] = table[j]
  BY <1>1, <1>2 DEF WithQueue
<1> HIDE DEF q, r
<1>7. TypeOK'
  <2>1. movesLeft' \in [Keys -> 0 .. Program]
    BY <1>1, <1>3, ParameterAssumption DEF IInv, TypeOK
  <2>2. movesBusy' \in [Keys -> Nat]
    BY <1>1 DEF IInv, TypeOK
  <2> QED BY <1>1, <1>4, <1>6, <2>1, <2>2 DEF IInv, TypeOK
<1>8. (\A j \in DOMAIN table : RingOK(table[j]))'
  BY <1>4, <1>6 DEF IInv
<1>9. LoadsDistinct' /\ PipelineMeansAccesses'
  BY <1>1 DEF IInv, LoadsDistinct, PipelineMeansAccesses
<1>10. SequencesFresh'
  BY <1>1, <1>3, <1>4, <1>6 DEF IInv, SequencesFresh
<1>11. ReclaimedIsDone'
  BY <1>1, <1>3 DEF IInv, ReclaimedIsDone, TypeOK
<1>12. Balanced'
  <2>1. \A j \in Keys : j # k => QueueAt(j)' = QueueAt(j) /\ movesLeft'[j] = movesLeft[j]
    BY <1>1, <1>6 DEF QueueAt, IInv, TypeOK
  <2>2. QueueAt(k)' = r /\ movesLeft'[k] = movesLeft[k] - 1
    BY <1>1, <1>2, <1>6 DEF QueueAt, IInv, TypeOK
  <2>3. movesLeft[k] = loadsLeft[k] + q.occupancy /\ loadsLeft[k] \in Nat
    BY DEF q, IInv, Balanced, TypeOK
  <2>4. movesLeft'[k] = loadsLeft'[k] + QueueAt(k)'.occupancy
    BY <1>1, <1>3, <1>4, <1>5, <2>2, <2>3
  <2> QED BY <1>1, <2>1, <2>4 DEF IInv, Balanced
<1>13. QueueMeansRunning'
  BY <1>1, <1>6 DEF IInv, QueueMeansRunning, Running
<1>14. ASSUME NEW x \in loads, Outstanding(x) > 0
       PROVE  /\ x.key \in DOMAIN table'
              /\ table'[x.key].storage[x.token.slot].sequence = x.token.sequence
              /\ table'[x.key].storage[x.token.slot].state = "RESERVED"
              /\ table'[x.key].storage[x.token.slot].pending = Outstanding(x)
              /\ x.launch = launch[CtaOf(x.key)]
  <2>1. CASE x.key = k
    <3>1. x.token.slot # q.head /\ x.token.slot \in Slots
      BY <2>1, <1>3, <1>5, <1>14, OutstandingEntry
    <3> QED BY <3>1, <2>1, <1>3, <1>4, <1>6, <1>14, OutstandingEntry
  <2>2. CASE x.key # k
    BY <2>2, <1>6, <1>14, OutstandingEntry
  <2> QED BY <2>1, <2>2
<1>15. TokensOwned'
  BY <1>1, <1>14, InFlightOutstanding DEF TokensOwned, Owns, InFlight, Outstanding
<1>16. PendingMatchesAccesses'
  BY <1>1, <1>14 DEF PendingMatchesAccesses, Outstanding
<1> QED BY <1>7, <1>8, <1>9, <1>10, <1>11, <1>12, <1>13, <1>15, <1>16 DEF IInv

\* A failed can_issue only makes an empty queue appear.
LEMMA CheckIssueKeepsIInv ==
  ASSUME IInv, NEW k \in Keys, CheckIssue(k)
  PROVE  IInv'
<1>1. /\ loadsLeft[k] > 0 \/ movesLeft[k] > 0
      /\ k \notin DOMAIN table
      /\ DOMAIN table' = DOMAIN table \cup {k}
      /\ table'[k] = EmptyQueue
      /\ \A j \in DOMAIN table : table'[j] = table[j]
      /\ UNCHANGED <<loads, loadsLeft, movesLeft, movesBusy, warps, gridLeft,
                     launch>>
  BY DEF CheckIssue, WithQueue
<1>2. loadsLeft[k] \in Nat /\ movesLeft[k] = loadsLeft[k]
  BY <1>1 DEF IInv, Balanced, QueueAt, EmptyQueue, TypeOK
<1>3. TypeOK' /\ (\A j \in DOMAIN table : RingOK(table[j]))'
  BY <1>1, EmptyQueueOK DEF IInv, TypeOK
<1>4. LoadsDistinct' /\ PipelineMeansAccesses' /\ ReclaimedIsDone'
  BY <1>1 DEF IInv, LoadsDistinct, PipelineMeansAccesses, ReclaimedIsDone
<1>5. SequencesFresh'
  <2>1. \A x \in loads : x.key = k => x.launch # launch[CtaOf(x.key)]
    BY <1>1, <1>2 DEF IInv, SequencesFresh
  <2> QED BY <1>1, <2>1 DEF IInv, SequencesFresh
<1>6. Balanced'
  BY <1>1 DEF IInv, Balanced, QueueAt
<1>7. QueueMeansRunning'
  <2>1. WarpOf(k, "producer") \in warps
    BY <1>1, <1>2 DEF IInv, ReclaimedIsDone
  <2>2. WarpOf(k, "producer") \in CtaWarps(CtaOf(k))
    BY DEF WarpOf, CtaWarps, CtaOf, Roles, Keys
  <2> QED BY <1>1, <2>1, <2>2 DEF IInv, QueueMeansRunning, Running
<1>8. TokensOwned' /\ PendingMatchesAccesses'
  <2>1. TokensOwned'
    BY <1>1 DEF IInv, TokensOwned, InFlight, Outstanding
  <2>2. \A x \in loads : Outstanding(x) > 0 => x.key \in DOMAIN table
    BY OutstandingEntry
  <2> QED BY <1>1, <2>1, <2>2 DEF IInv, PendingMatchesAccesses, Outstanding
<1> QED BY <1>3, <1>4, <1>5, <1>6, <1>7, <1>8 DEF IInv

\* The next CTA of a slot: the slot has no queue, so no load of a former
\* CTA is still outstanding.
LEMMA LaunchKeepsIInv ==
  ASSUME IInv, NEW c \in Ctas, LaunchCta(c)
  PROVE  IInv'
<1>1. /\ gridLeft > 0 /\ ~Running(c)
      /\ gridLeft'  = gridLeft - 1
      /\ launch' = [launch EXCEPT ![c] = @ + 1]
      /\ warps' = warps \cup CtaWarps(c)
      /\ loadsLeft' = [k \in Keys |-> IF CtaOf(k) = c THEN Program ELSE loadsLeft[k]]
      /\ movesLeft' = [k \in Keys |-> IF CtaOf(k) = c THEN Program ELSE movesLeft[k]]
      /\ UNCHANGED <<table, loads, movesBusy>>
  BY DEF LaunchCta
<1>2. \A k \in DOMAIN table : CtaOf(k) # c
  BY <1>1 DEF IInv, QueueMeansRunning
<1>3. \A k \in Keys : CtaOf(k) \in Ctas
  BY DEF Keys, CtaOf
<1>4. TypeOK'
  <2>1. CtaWarps(c) \subseteq Warps
    BY DEF CtaWarps, Warps
  <2>2. loadsLeft' \in [Keys -> 0 .. Program] /\ movesLeft' \in [Keys -> 0 .. Program]
    BY <1>1, ParameterAssumption DEF IInv, TypeOK
  <2>3. gridLeft' \in 0 .. Grid /\ launch' \in [Ctas -> Nat]
    BY <1>1, ParameterAssumption DEF IInv, TypeOK
  <2> QED BY <1>1, <2>1, <2>2, <2>3 DEF IInv, TypeOK
<1>5. (\A j \in DOMAIN table : RingOK(table[j]))'
  BY <1>1 DEF IInv
<1>6. LoadsDistinct' /\ PipelineMeansAccesses'
  BY <1>1 DEF IInv, LoadsDistinct, PipelineMeansAccesses
<1>7. SequencesFresh'
  <2>1. ASSUME NEW x \in loads
        PROVE  /\ x.launch <= launch'[CtaOf(x.key)]
               /\ x.launch = launch'[CtaOf(x.key)] =>
                    IF x.key \in DOMAIN table
                    THEN x.token.sequence < table[x.key].next
                    ELSE loadsLeft'[x.key] = 0
    <3>1. x \in Loads /\ x.key \in Keys /\ x.launch \in Nat
          /\ launch[CtaOf(x.key)] \in Nat
      BY <1>3 DEF IInv, TypeOK, Loads
    <3>2. x.launch <= launch[CtaOf(x.key)]
      BY DEF IInv, SequencesFresh
    <3>3. CASE CtaOf(x.key) = c
      BY <1>1, <3>1, <3>2, <3>3 DEF IInv, TypeOK
    <3>4. CASE CtaOf(x.key) # c
      BY <1>1, <1>3, <3>1, <3>4 DEF IInv, SequencesFresh, TypeOK
    <3> QED BY <3>3, <3>4
  <2> QED BY <1>1, <2>1 DEF SequencesFresh
<1>8. ReclaimedIsDone'
  <2>1. \A k \in Keys : CtaOf(k) = c => WarpOf(k, "producer") \in CtaWarps(c)
                                        /\ WarpOf(k, "consumer") \in CtaWarps(c)
    BY DEF WarpOf, CtaWarps, CtaOf, Roles, Keys
  <2> QED BY <1>1, <2>1 DEF IInv, ReclaimedIsDone
<1>9. Balanced'
  <2>1. \A k \in Keys : CtaOf(k) = c => QueueAt(k).occupancy = 0
    BY <1>2 DEF QueueAt, EmptyQueue
  <2>2. \A k \in Keys : QueueAt(k)' = QueueAt(k)
    BY <1>1 DEF QueueAt
  <2> QED BY <1>1, <2>1, <2>2, ParameterAssumption DEF IInv, Balanced
<1>10. QueueMeansRunning'
  BY <1>1 DEF IInv, QueueMeansRunning, Running
<1>11. \A x \in loads : Outstanding(x) > 0 => launch'[CtaOf(x.key)] = launch[CtaOf(x.key)]
  BY <1>1, <1>2, <1>3, OutstandingEntry DEF IInv, TypeOK
<1>12. TokensOwned'
  BY <1>1, <1>11, InFlightOutstanding DEF IInv, TokensOwned, InFlight, Outstanding
<1>13. PendingMatchesAccesses'
  BY <1>1 DEF IInv, PendingMatchesAccesses, Outstanding
<1> QED BY <1>4, <1>5, <1>6, <1>7, <1>8, <1>9, <1>10, <1>12, <1>13 DEF IInv
\* When the last warp of a CTA is reclaimed, its queues are empty and none
\* of its loads is outstanding.
LEMMA LastWarpLeavesNothing ==
  ASSUME IInv, NEW w \in warps, HardwareDone(w),
         CtaWarps(w[1]) \cap warps = {w},
         NEW k \in Keys, CtaOf(k) = w[1]
  PROVE  /\ loadsLeft[k] = 0 /\ movesLeft[k] = 0
         /\ QueueAt(k).occupancy = 0
         /\ \A x \in loads : x.key = k => ~InFlight(x)
<1>1. /\ WarpOf(k, "producer") \in CtaWarps(w[1])
      /\ WarpOf(k, "consumer") \in CtaWarps(w[1])
  BY DEF WarpOf, CtaWarps, CtaOf, Roles, Keys
<1>2. loadsLeft[k] = 0
  <2>1. CASE WarpOf(k, "producer") \in warps
    <3>1. w = WarpOf(k, "producer")
      BY <1>1, <2>1
    <3> QED BY <3>1 DEF HardwareDone
  <2>2. CASE WarpOf(k, "producer") \notin warps
    BY <2>2 DEF IInv, ReclaimedIsDone
  <2> QED BY <2>1, <2>2
<1>3. movesLeft[k] = 0
  <2>1. CASE WarpOf(k, "consumer") \in warps
    <3>1. w = WarpOf(k, "consumer")
      BY <1>1, <2>1
    <3> QED BY <3>1 DEF HardwareDone
  <2>2. CASE WarpOf(k, "consumer") \notin warps
    BY <2>2 DEF IInv, ReclaimedIsDone
  <2> QED BY <2>1, <2>2
<1>4. QueueAt(k).occupancy = 0
  <2>1. QueueAt(k).occupancy \in Nat
    BY DepthAssumption DEF QueueAt, IInv, TypeOK, Queues, EmptyQueue
  <2> QED BY <2>1, <1>2, <1>3 DEF IInv, Balanced
<1>5. ASSUME NEW x \in loads, x.key = k, Outstanding(x) > 0
      PROVE  FALSE
  <2>1. /\ k \in DOMAIN table /\ RingOK(table[k]) /\ table[k] \in Queues
        /\ table[k].occupancy = 0
        /\ x.token.slot \in Slots
        /\ table[k].storage[x.token.slot].state = "RESERVED"
    BY <1>4, <1>5, OutstandingEntry DEF QueueAt
  <2>2. InRing(table[k], x.token.slot)
    BY <2>1 DEF RingOK
  <2> QED BY <2>1, <2>2, DepthAssumption DEF InRing, Queues, Slots
<1> QED BY <1>2, <1>3, <1>4, <1>5, InFlightOutstanding

\* Reclaiming a warp, and with the last one the CTA.
LEMMA ReclaimKeepsIInv ==
  ASSUME IInv, NEW w \in warps, ReclaimWarp(w)
  PROVE  IInv'
<1> DEFINE c == w[1]
           last == CtaWarps(c) \cap warps = {w}
<1>1. /\ HardwareDone(w)
      /\ warps' = warps \ {w}
      /\ table' = IF last THEN EraseCta(c) ELSE table
      /\ UNCHANGED <<loads, loadsLeft, movesLeft, movesBusy, gridLeft, launch>>
  BY DEF ReclaimWarp
<1>2. /\ DOMAIN table' = {k \in DOMAIN table : last => CtaOf(k) # c}
      /\ \A k \in DOMAIN table' : table'[k] = table[k]
  BY <1>1 DEF EraseCta
<1>3. ASSUME NEW k \in Keys, last, CtaOf(k) = c
      PROVE  /\ loadsLeft[k] = 0 /\ movesLeft[k] = 0
             /\ QueueAt(k).occupancy = 0
             /\ \A x \in loads : x.key = k => ~InFlight(x)
  BY <1>1, <1>3, LastWarpLeavesNothing
<1> HIDE DEF last, c
<1>4. \A x \in loads : x.key \in Keys /\ x \in Loads
  BY DEF IInv, TypeOK, Loads
<1>5. TypeOK'
  BY <1>1, <1>2 DEF IInv, TypeOK
<1>6. (\A j \in DOMAIN table : RingOK(table[j]))'
  BY <1>2 DEF IInv
<1>7. LoadsDistinct' /\ PipelineMeansAccesses'
  BY <1>1 DEF IInv, LoadsDistinct, PipelineMeansAccesses
<1>8. SequencesFresh'
  BY <1>1, <1>2, <1>3, <1>4 DEF IInv, SequencesFresh
<1>9. ReclaimedIsDone'
  <2>1. ASSUME NEW k \in Keys
        PROVE  /\ w = WarpOf(k, "producer") => loadsLeft[k] = 0
               /\ w = WarpOf(k, "consumer") => movesLeft[k] = 0
    BY <1>1 DEF HardwareDone
  <2> QED BY <1>1, <2>1 DEF IInv, ReclaimedIsDone
<1>10. Balanced'
  <2>1. ASSUME NEW k \in Keys
        PROVE  QueueAt(k)'.occupancy = QueueAt(k).occupancy
    <3>1. CASE k \in DOMAIN table'
      BY <3>1, <1>2 DEF QueueAt
    <3>2. CASE k \in DOMAIN table /\ k \notin DOMAIN table'
      BY <3>2, <1>2, <1>3 DEF QueueAt, EmptyQueue
    <3>3. CASE k \notin DOMAIN table
      BY <3>3, <1>2 DEF QueueAt
    <3> QED BY <3>1, <3>2, <3>3
  <2> QED BY <1>1, <2>1 DEF IInv, Balanced
<1>11. QueueMeansRunning'
  <2>1. ASSUME NEW k \in DOMAIN table'
        PROVE  CtaWarps(CtaOf(k)) \cap (warps \ {w}) # {}
    <3>1. k \in DOMAIN table /\ CtaWarps(CtaOf(k)) \cap warps # {}
          /\ (last => CtaOf(k) # c)
      BY <1>2 DEF IInv, QueueMeansRunning, Running
    <3>2. CASE CtaOf(k) = c
      BY <3>1, <3>2 DEF last
    <3>3. CASE CtaOf(k) # c
      <4>1. w \notin CtaWarps(CtaOf(k))
        BY <3>3 DEF CtaWarps, c
      <4> QED BY <3>1, <4>1
    <3> QED BY <3>2, <3>3
  <2> QED BY <1>1, <2>1 DEF QueueMeansRunning, Running
<1>12. \A x \in loads : InFlight(x) => x.key \in DOMAIN table'
  BY <1>2, <1>3, <1>4 DEF IInv, TokensOwned
<1>13. TokensOwned'
  BY <1>1, <1>2, <1>12 DEF IInv, TokensOwned, InFlight, Outstanding
<1>14. PendingMatchesAccesses'
  <2>1. \A x \in loads : Outstanding(x) > 0 => x.key \in DOMAIN table'
    BY <1>12, InFlightOutstanding
  <2> QED BY <1>1, <1>2, <2>1 DEF IInv, PendingMatchesAccesses, Outstanding
<1> QED BY <1>5, <1>6, <1>7, <1>8, <1>9, <1>10, <1>11, <1>13, <1>14 DEF IInv

-----------------------------------------------------------------------------
(* The theorems.                                                           *)

LEMMA InitIInv == Init => IInv
BY ParameterAssumption
   DEF Init, IInv, TypeOK, LoadsDistinct, SequencesFresh, PipelineMeansAccesses,
       ReclaimedIsDone, Balanced, QueueMeansRunning, TokensOwned,
       PendingMatchesAccesses, QueueAt, EmptyQueue

\* A record with the fields of a load and nothing else.
Built(m) ==
  m = [key |-> m.key, launch |-> m.launch, token |-> m.token,
       stage |-> m.stage, todo |-> m.todo, l1 |-> m.l1, mem |-> m.mem,
       wb |-> m.wb, completions |-> m.completions]

LEMMA BuiltIsLoad ==
  ASSUME NEW m, Built(m), m.key \in Keys, m.launch \in Nat, m.token \in Tokens,
         m.stage \in Stages, m.todo \in Nat, m.l1 \in Nat, m.mem \in Nat,
         m.wb \in {0, 1}, m.completions \in Nat
  PROVE  m \in Loads
BY DEF Built, Loads

\* Leaving the dispatch register touches the stage and the completions only.
LEMMA DispatchedFields ==
  ASSUME NEW x \in Loads, x.stage = "dispatch", NEW q,
         NEW m, m = Dispatched(x, q)
  PROVE  /\ m \in Loads
         /\ m.key = x.key /\ m.launch = x.launch /\ m.token = x.token
         /\ m.todo = x.todo /\ Outstanding(m) = Outstanding(x)
         /\ m.stage # "left" <=> m.todo > 0
<1>1. x.todo \in Nat
  BY DEF Loads
<1>2. CASE x.todo > 0
  BY <1>1, <1>2 DEF Dispatched
<1>3. CASE x.todo = 0
  <2> DEFINE e == IF HasPendingResponses(q, x.token)
                  THEN x.completions ELSE x.completions + 1
  <2>1. e \in Nat
    BY DEF Loads
  <2>2. m = [x EXCEPT !.stage = "left", !.completions = e]
    BY <1>3 DEF Dispatched
  <2> HIDE DEF e
  <2>3. /\ m.key = x.key /\ m.launch = x.launch /\ m.token = x.token
        /\ m.stage = "left" /\ m.todo = x.todo /\ m.l1 = x.l1
        /\ m.mem = x.mem /\ m.wb = x.wb /\ m.completions = e /\ Built(m)
    BY <2>2 DEF Loads, Built
  <2>4. m \in Loads
    BY <2>1, <2>3, BuiltIsLoad DEF Loads, Stages
  <2> QED BY <1>3, <2>3, <2>4 DEF Outstanding
<1> QED BY <1>1, <1>2, <1>3

\* A step of the LDST unit on load l.
LEMMA LdstKeepsIInv ==
  ASSUME IInv, NEW l \in loads, LdstStep(l)
  PROVE  IInv'
<1> DEFINE Same(m) == m.key = l.key /\ m.launch = l.launch /\ m.token = l.token
<1>1. /\ l \in Loads /\ (l.stage # "left" <=> l.todo > 0)
      /\ l.key \in Keys /\ l.launch \in Nat /\ l.token \in Tokens
      /\ l.stage \in Stages /\ l.todo \in Nat /\ l.l1 \in Nat
      /\ l.mem \in Nat /\ l.wb \in {0, 1} /\ l.completions \in Nat
      /\ Completing(l) \in Nat
  BY DEF IInv, TypeOK, Loads, PipelineMeansAccesses, Completing
<1>2. CASE EnterLdst(l)
  <2>1. PICK m : m = [l EXCEPT !.stage = "dispatch"]
    OBVIOUS
  <2>2. l.stage = "collector"
    BY <1>1, <1>2 DEF EnterLdst
  <2>3. /\ Same(m) /\ Built(m)
        /\ m.stage = "dispatch" /\ m.todo = l.todo /\ m.l1 = l.l1
        /\ m.mem = l.mem /\ m.wb = l.wb /\ m.completions = l.completions
    BY <1>1, <2>1 DEF Loads, Built
  <2>4. m \in Loads
    BY <1>1, <2>2, <2>3, BuiltIsLoad DEF Stages
  <2>5. Outstanding(m) = Outstanding(l)
    BY <1>1, <2>2, <2>3 DEF Outstanding
  <2> QED BY <1>1, <1>2, <2>1, <2>2, <2>3, <2>4, <2>5, MoveKeepsIInv DEF EnterLdst
<1>3. CASE NoAccess(l)
  BY <1>1, <1>3 DEF NoAccess
<1>4. CASE AccessLatencyQueue(l)
  <2>1. PICK x : x = [l EXCEPT !.todo = @ - 1, !.l1 = @ + 1]
    OBVIOUS
  <2>2. PICK m : m = Dispatched(x, table[l.key])
    OBVIOUS
  <2>3. l.stage = "dispatch" /\ l.todo > 0
    BY <1>4 DEF AccessLatencyQueue
  <2>4. /\ Same(x) /\ Built(x)
        /\ x.stage = l.stage /\ x.todo = l.todo - 1 /\ x.l1 = l.l1 + 1
        /\ x.mem = l.mem /\ x.wb = l.wb /\ x.completions = l.completions
    BY <1>1, <2>1 DEF Loads, Built
  <2>5. x \in Loads
    BY <1>1, <2>3, <2>4, BuiltIsLoad
  <2>6. m \in Loads /\ Same(m) /\ Outstanding(m) = Outstanding(x)
        /\ (m.stage # "left" <=> m.todo > 0)
    BY <2>2, <2>3, <2>4, <2>5, DispatchedFields
  <2>7. Outstanding(x) = Outstanding(l)
    BY <1>1, <2>3, <2>4 DEF Outstanding
  <2> QED BY <1>4, <2>1, <2>2, <2>6, <2>7, MoveKeepsIInv DEF AccessLatencyQueue
<1>5. CASE AccessMemory(l)
  <2>1. PICK x : x = [l EXCEPT !.todo = @ - 1, !.mem = @ + 1]
    OBVIOUS
  <2>2. PICK m : m = Dispatched(x, table[l.key])
    OBVIOUS
  <2>3. l.stage = "dispatch" /\ l.todo > 0
    BY <1>5 DEF AccessMemory
  <2>4. /\ Same(x) /\ Built(x)
        /\ x.stage = l.stage /\ x.todo = l.todo - 1 /\ x.l1 = l.l1
        /\ x.mem = l.mem + 1 /\ x.wb = l.wb /\ x.completions = l.completions
    BY <1>1, <2>1 DEF Loads, Built
  <2>5. x \in Loads
    BY <1>1, <2>3, <2>4, BuiltIsLoad
  <2>6. m \in Loads /\ Same(m) /\ Outstanding(m) = Outstanding(x)
        /\ (m.stage # "left" <=> m.todo > 0)
    BY <2>2, <2>3, <2>4, <2>5, DispatchedFields
  <2>7. Outstanding(x) = Outstanding(l)
    BY <1>1, <2>3, <2>4 DEF Outstanding
  <2> QED BY <1>5, <2>1, <2>2, <2>6, <2>7, MoveKeepsIInv DEF AccessMemory
<1>6. CASE AccessHit(l)
  <2>1. PICK x : x = [l EXCEPT !.todo = @ - 1]
    OBVIOUS
  <2>2. PICK m : m = Dispatched(x, Marked(l))
    OBVIOUS
  <2>3. l.stage = "dispatch" /\ l.todo > 0
    BY <1>6 DEF AccessHit
  <2>4. /\ Same(x) /\ Built(x)
        /\ x.stage = l.stage /\ x.todo = l.todo - 1 /\ x.l1 = l.l1
        /\ x.mem = l.mem /\ x.wb = l.wb /\ x.completions = l.completions
    BY <1>1, <2>1 DEF Loads, Built
  <2>5. x \in Loads
    BY <1>1, <2>3, <2>4, BuiltIsLoad
  <2>6. m \in Loads /\ Same(m) /\ Outstanding(m) = Outstanding(x)
        /\ (m.stage # "left" <=> m.todo > 0)
    BY <2>2, <2>3, <2>4, <2>5, DispatchedFields
  <2>7. Outstanding(l) > 0 /\ Outstanding(x) = Outstanding(l) - 1
    BY <1>1, <2>3, <2>4 DEF Outstanding
  <2> QED BY <1>6, <2>1, <2>2, <2>6, <2>7, MarkKeepsIInv DEF AccessHit
<1>7. CASE LatencyHit(l)
  <2>1. PICK m : m = [l EXCEPT !.l1 = @ - 1, !.completions = Completing(l)]
    OBVIOUS
  <2>2. l.l1 > 0
    BY <1>1, <1>7 DEF LatencyHit
  <2>3. /\ Same(m) /\ Built(m)
        /\ m.stage = l.stage /\ m.todo = l.todo /\ m.l1 = l.l1 - 1
        /\ m.mem = l.mem /\ m.wb = l.wb /\ m.completions = Completing(l)
    BY <1>1, <2>1 DEF Loads, Built
  <2>4. m \in Loads
    BY <1>1, <2>2, <2>3, BuiltIsLoad DEF Stages
  <2>5. Outstanding(l) > 0 /\ Outstanding(m) = Outstanding(l) - 1
    BY <1>1, <2>2, <2>3 DEF Outstanding
  <2> QED BY <1>1, <1>7, <2>1, <2>2, <2>3, <2>4, <2>5, MarkKeepsIInv DEF LatencyHit
<1>8. CASE LatencyMiss(l)
  <2>1. PICK m : m = [l EXCEPT !.l1 = @ - 1, !.mem = @ + 1]
    OBVIOUS
  <2>2. l.l1 > 0
    BY <1>1, <1>8 DEF LatencyMiss
  <2>3. /\ Same(m) /\ Built(m)
        /\ m.stage = l.stage /\ m.todo = l.todo /\ m.l1 = l.l1 - 1
        /\ m.mem = l.mem + 1 /\ m.wb = l.wb /\ m.completions = l.completions
    BY <1>1, <2>1 DEF Loads, Built
  <2>4. m \in Loads
    BY <1>1, <2>2, <2>3, BuiltIsLoad DEF Stages
  <2>5. Outstanding(m) = Outstanding(l)
    BY <1>1, <2>2, <2>3 DEF Outstanding
  <2> QED BY <1>1, <1>8, <2>1, <2>2, <2>3, <2>4, <2>5, MoveKeepsIInv DEF LatencyMiss
<1>9. CASE Respond(l)
  <2>1. PICK m : m = [l EXCEPT !.mem = @ - 1, !.wb = 1]
    OBVIOUS
  <2>2. l.mem > 0 /\ l.wb = 0
    BY <1>1, <1>9 DEF Respond
  <2>3. /\ Same(m) /\ Built(m)
        /\ m.stage = l.stage /\ m.todo = l.todo /\ m.l1 = l.l1
        /\ m.mem = l.mem - 1 /\ m.wb = 1 /\ m.completions = l.completions
    BY <1>1, <2>1 DEF Loads, Built
  <2>4. m \in Loads
    BY <1>1, <2>2, <2>3, BuiltIsLoad DEF Stages
  <2>5. Outstanding(m) = Outstanding(l)
    BY <1>1, <2>2, <2>3 DEF Outstanding
  <2> QED BY <1>1, <1>9, <2>1, <2>2, <2>3, <2>4, <2>5, MoveKeepsIInv DEF Respond
<1>10. CASE Writeback(l)
  <2>1. PICK m : m = [l EXCEPT !.wb = 0, !.completions = Completing(l)]
    OBVIOUS
  <2>2. l.wb = 1
    BY <1>1, <1>10 DEF Writeback
  <2>3. /\ Same(m) /\ Built(m)
        /\ m.stage = l.stage /\ m.todo = l.todo /\ m.l1 = l.l1
        /\ m.mem = l.mem /\ m.wb = 0 /\ m.completions = Completing(l)
    BY <1>1, <2>1 DEF Loads, Built
  <2>4. m \in Loads
    BY <1>1, <2>2, <2>3, BuiltIsLoad DEF Stages
  <2>5. Outstanding(l) > 0 /\ Outstanding(m) = Outstanding(l) - 1
    BY <1>1, <2>2, <2>3 DEF Outstanding
  <2> QED BY <1>1, <1>10, <2>1, <2>2, <2>3, <2>4, <2>5, MarkKeepsIInv DEF Writeback
<1> QED BY <1>2, <1>3, <1>4, <1>5, <1>6, <1>7, <1>8, <1>9, <1>10 DEF LdstStep

\* Every step keeps the invariant, if every queue load has an access.
LEMMA NextKeepsIInv ==
  ASSUME 0 \notin AccessCounts
  PROVE  IInv /\ [Next]_vars => IInv'
<1> SUFFICES ASSUME IInv, [Next]_vars PROVE IInv'
  OBVIOUS
<1>1. CASE UNCHANGED vars
  BY <1>1 DEF vars, IInv, TypeOK, LoadsDistinct, SequencesFresh,
       PipelineMeansAccesses, ReclaimedIsDone, Balanced, QueueMeansRunning,
       TokensOwned, PendingMatchesAccesses, QueueAt, Running, InFlight,
       Outstanding
<1>2. CASE \E c \in Ctas : LaunchCta(c)
  BY <1>2, LaunchKeepsIInv
<1>3. CASE \E k \in Keys : IssueStep(k)
  <2> PICK k \in Keys : IssueStep(k)
    BY <1>3
  <2>1. CASE CheckIssue(k)
    BY <2>1, CheckIssueKeepsIInv
  <2>2. CASE \E n \in AccessCounts : IssueLoad(k, n)
    BY <2>2, IssueLoadKeepsIInv
  <2>3. CASE IssueMove(k)
    BY <2>3, IssueMoveKeepsIInv
  <2>4. CASE RetireMove(k)
    <3>1. movesBusy' \in [Keys -> Nat]
      BY <2>4 DEF RetireMove, IInv, TypeOK
    <3> QED BY <2>4, <3>1 DEF RetireMove, IInv, TypeOK, LoadsDistinct,
              SequencesFresh, PipelineMeansAccesses, ReclaimedIsDone, Balanced,
              QueueMeansRunning, TokensOwned, PendingMatchesAccesses, QueueAt,
              Running, InFlight, Outstanding
  <2> QED BY <2>1, <2>2, <2>3, <2>4 DEF IssueStep
<1>4. CASE \E l \in loads : LdstStep(l)
  BY <1>4, LdstKeepsIInv
<1>5. CASE \E w \in warps : ReclaimWarp(w)
  BY <1>5, ReclaimKeepsIInv
<1>6. CASE Terminated
  BY <1>1, <1>6 DEF Terminated
<1> QED BY <1>1, <1>2, <1>3, <1>4, <1>5, <1>6 DEF Next

LEMMA SpecIInv ==
  ASSUME 0 \notin AccessCounts
  PROVE  Spec => []IInv
BY InitIInv, NextKeepsIInv, PTL DEF Spec

\* Type correctness of the queue pipeline.
THEOREM TypeCorrect ==
  ASSUME 0 \notin AccessCounts
  PROVE  Spec => []TypeOK
<1>1. IInv => TypeOK
  BY DEF IInv
<1> QED BY <1>1, SpecIInv, PTL

\* The assertions of find() and entry_for_token() never fire: as long as a
\* load is in flight its queue exists and its slot is its own.
THEOREM TokensAreOwned ==
  ASSUME 0 \notin AccessCounts
  PROVE  Spec => []TokensOwned
<1>1. IInv => TokensOwned
  BY DEF IInv
<1> QED BY <1>1, SpecIInv, PTL

\* pending_responses is the number of unanswered accesses at all times.
THEOREM PendingIsExact ==
  ASSUME 0 \notin AccessCounts
  PROVE  Spec => []PendingMatchesAccesses
<1>1. IInv => PendingMatchesAccesses
  BY DEF IInv
<1> QED BY <1>1, SpecIInv, PTL

-----------------------------------------------------------------------------
(* The queues of a CTA are erased clean.                                   *)

\* Only the reclaiming of a CTA's last warp takes a queue out of the table.
LEMMA QueuesLeaveWithTheCta ==
  ASSUME IInv, Next, NEW k \in DOMAIN table, k \notin DOMAIN table'
  PROVE  \E w \in warps : /\ ReclaimWarp(w)
                          /\ CtaWarps(w[1]) \cap warps = {w}
                          /\ CtaOf(k) = w[1]
<1>1. ASSUME \/ UNCHANGED table
             \/ \E j, q : table' = WithQueue(j, q)
      PROVE  FALSE
  BY <1>1 DEF WithQueue
<1>2. CASE \E c \in Ctas : LaunchCta(c)
  BY <1>1, <1>2 DEF LaunchCta
<1>3. CASE \E j \in Keys : IssueStep(j)
  BY <1>1, <1>3 DEF IssueStep, CheckIssue, IssueLoad, IssueMove, RetireMove
<1>4. CASE \E l \in loads : LdstStep(l)
  BY <1>1, <1>4 DEF LdstStep, EnterLdst, NoAccess, AccessLatencyQueue,
     AccessMemory, AccessHit, LatencyHit, LatencyMiss, Respond, Writeback
<1>5. CASE \E w \in warps : ReclaimWarp(w)
  <2>1. PICK w \in warps : ReclaimWarp(w)
    BY <1>5
  <2>2. CtaWarps(w[1]) \cap warps = {w} /\ table' = EraseCta(w[1])
    BY <1>1, <2>1 DEF ReclaimWarp
  <2>3. CtaOf(k) = w[1]
    BY <2>2 DEF EraseCta
  <2> QED BY <2>1, <2>2, <2>3
<1>6. CASE Terminated
  BY <1>1, <1>6 DEF Terminated, vars
<1> QED BY <1>2, <1>3, <1>4, <1>5, <1>6 DEF Next

\* erase_cta drops only queues that were consumed to the end and whose loads
\* have all been answered, so no response finds its queue gone or belonging
\* to the next CTA of the hardware slot.
THEOREM ErasesClean ==
  ASSUME 0 \notin AccessCounts
  PROVE  Spec => EraseIsClean
<1> DEFINE Clean == \A k \in DOMAIN table : k \notin DOMAIN table' =>
                      /\ Empty(table[k])
                      /\ \A l \in loads : l.key = k => ~InFlight(l)
<1>1. IInv /\ [Next]_vars => [Clean]_vars
  <2> SUFFICES ASSUME IInv, Next, NEW k \in DOMAIN table, k \notin DOMAIN table'
               PROVE  /\ Empty(table[k])
                      /\ \A l \in loads : l.key = k => ~InFlight(l)
    OBVIOUS
  <2>1. PICK w \in warps : /\ ReclaimWarp(w)
                           /\ CtaWarps(w[1]) \cap warps = {w}
                           /\ CtaOf(k) = w[1]
    BY QueuesLeaveWithTheCta
  <2>2. k \in Keys /\ QueueAt(k) = table[k]
    BY DEF IInv, TypeOK, QueueAt
  <2>3. HardwareDone(w)
    BY <2>1 DEF ReclaimWarp
  <2> QED BY <2>1, <2>2, <2>3, LastWarpLeavesNothing DEF Empty
<1> QED BY <1>1, SpecIInv, PTL DEF Spec, EraseIsClean

-----------------------------------------------------------------------------
(* Every load completes once.                                              *)

\* A load has completed exactly when its last access has been answered.
Counted(l) == l.completions = IF Outstanding(l) > 0 THEN 0 ELSE 1

CountsOnce == \A l \in loads : Counted(l)

\* Leaving the dispatch register completes a load iff nothing is pending.
LEMMA DispatchedCounts ==
  ASSUME NEW x \in Loads, x.stage = "dispatch", x.completions = 0,
         NEW q, HasPendingResponses(q, x.token) <=> Outstanding(x) > 0
  PROVE  Counted(Dispatched(x, q))
<1> DEFINE m == Dispatched(x, q)
<1>1. x.todo \in Nat /\ x.l1 \in Nat /\ x.mem \in Nat /\ x.wb \in Nat
  BY DEF Loads
<1>2. Outstanding(m) = Outstanding(x)
  BY DispatchedFields
<1>3. CASE x.todo > 0
  BY <1>1, <1>3 DEF Dispatched, Counted, Outstanding
<1>4. CASE x.todo = 0
  <2>1. m.completions = IF Outstanding(x) > 0 THEN 0 ELSE 1
    BY <1>4 DEF Dispatched, Loads
  <2> QED BY <1>2, <2>1 DEF Counted
<1> QED BY <1>1, <1>3, <1>4

\* The load that replaces another must count right; the others stay.
LEMMA ReplaceCounts ==
  ASSUME CountsOnce, NEW l, NEW m, Counted(m), loads' = Replace(l, m)
  PROVE  CountsOnce'
BY DEF CountsOnce, Counted, Replace, Outstanding

LEMMA LdstCounts ==
  ASSUME IInv, CountsOnce, NEW l \in loads, LdstStep(l)
  PROVE  CountsOnce'
<1>1. /\ l \in Loads /\ (l.stage # "left" <=> l.todo > 0) /\ Counted(l)
      /\ l.key \in Keys /\ l.launch \in Nat /\ l.token \in Tokens
      /\ l.stage \in Stages /\ l.todo \in Nat /\ l.l1 \in Nat
      /\ l.mem \in Nat /\ l.wb \in {0, 1} /\ l.completions \in Nat
  BY DEF IInv, TypeOK, Loads, PipelineMeansAccesses, CountsOnce
<1>2. Outstanding(l) \in Nat
  BY <1>1 DEF Outstanding
<1>3. Outstanding(l) > 0 =>
        /\ l.completions = 0
        /\ table[l.key].storage[l.token.slot].pending = Outstanding(l)
        /\ Marked(l).storage[l.token.slot].pending = Outstanding(l) - 1
  BY <1>1, OutstandingEntry, MarkEffect, SMTT(60) DEF Counted, Marked
<1>4. ASSUME NEW x, Built(x), x.key = l.key, x.launch = l.launch,
             x.token = l.token, x.stage = "dispatch", x.todo \in Nat,
             x.l1 \in Nat, x.mem \in Nat, x.wb = l.wb,
             x.completions = l.completions,
             NEW q, Outstanding(l) > 0,
             q.storage[l.token.slot].pending = Outstanding(x),
             loads' = Replace(l, Dispatched(x, q))
      PROVE  CountsOnce'
  <2>1. x \in Loads
    BY <1>1, <1>4, BuiltIsLoad DEF Stages
  <2>2. Counted(Dispatched(x, q))
    BY <1>3, <1>4, <2>1, DispatchedCounts DEF HasPendingResponses
  <2> QED BY <1>4, <2>2, ReplaceCounts
<1>5. CASE EnterLdst(l)
  <2> DEFINE m == [l EXCEPT !.stage = "dispatch"]
  <2>1. Counted(m)
    BY <1>1 DEF Loads, Counted, Outstanding
  <2> QED BY <1>5, <2>1, ReplaceCounts DEF EnterLdst
<1>6. CASE NoAccess(l)
  BY <1>1, <1>6 DEF NoAccess
<1>7. CASE AccessLatencyQueue(l)
  <2>1. PICK x : x = [l EXCEPT !.todo = @ - 1, !.l1 = @ + 1]
    OBVIOUS
  <2>2. l.stage = "dispatch" /\ l.todo > 0
    BY <1>7 DEF AccessLatencyQueue
  <2>3. /\ Built(x) /\ x.key = l.key /\ x.launch = l.launch /\ x.token = l.token
        /\ x.stage = l.stage /\ x.todo = l.todo - 1 /\ x.l1 = l.l1 + 1
        /\ x.mem = l.mem /\ x.wb = l.wb /\ x.completions = l.completions
    BY <1>1, <2>1 DEF Loads, Built
  <2>4. Outstanding(l) > 0 /\ Outstanding(x) = Outstanding(l)
    BY <1>1, <2>2, <2>3 DEF Outstanding
  <2>5. loads' = Replace(l, Dispatched(x, table[l.key]))
    BY <1>7, <2>1 DEF AccessLatencyQueue
  <2> QED BY <1>1, <1>3, <1>4, <2>2, <2>3, <2>4, <2>5
<1>8. CASE AccessMemory(l)
  <2>1. PICK x : x = [l EXCEPT !.todo = @ - 1, !.mem = @ + 1]
    OBVIOUS
  <2>2. l.stage = "dispatch" /\ l.todo > 0
    BY <1>8 DEF AccessMemory
  <2>3. /\ Built(x) /\ x.key = l.key /\ x.launch = l.launch /\ x.token = l.token
        /\ x.stage = l.stage /\ x.todo = l.todo - 1 /\ x.l1 = l.l1
        /\ x.mem = l.mem + 1 /\ x.wb = l.wb /\ x.completions = l.completions
    BY <1>1, <2>1 DEF Loads, Built
  <2>4. Outstanding(l) > 0 /\ Outstanding(x) = Outstanding(l)
    BY <1>1, <2>2, <2>3 DEF Outstanding
  <2>5. loads' = Replace(l, Dispatched(x, table[l.key]))
    BY <1>8, <2>1 DEF AccessMemory
  <2> QED BY <1>1, <1>3, <1>4, <2>2, <2>3, <2>4, <2>5
<1>9. CASE AccessHit(l)
  <2>1. PICK x : x = [l EXCEPT !.todo = @ - 1]
    OBVIOUS
  <2>2. l.stage = "dispatch" /\ l.todo > 0
    BY <1>9 DEF AccessHit
  <2>3. /\ Built(x) /\ x.key = l.key /\ x.launch = l.launch /\ x.token = l.token
        /\ x.stage = l.stage /\ x.todo = l.todo - 1 /\ x.l1 = l.l1
        /\ x.mem = l.mem /\ x.wb = l.wb /\ x.completions = l.completions
    BY <1>1, <2>1 DEF Loads, Built
  <2>4. Outstanding(l) > 0 /\ Outstanding(x) = Outstanding(l) - 1
    BY <1>1, <2>2, <2>3 DEF Outstanding
  <2>5. loads' = Replace(l, Dispatched(x, Marked(l)))
    BY <1>9, <2>1 DEF AccessHit
  <2> QED BY <1>1, <1>3, <1>4, <2>2, <2>3, <2>4, <2>5
<1>10. ASSUME NEW m, m.completions = Completing(l), Outstanding(l) > 0,
              Outstanding(m) = Outstanding(l) - 1, loads' = Replace(l, m)
       PROVE  CountsOnce'
  <2>1. Counted(m)
    BY <1>2, <1>3, <1>10 DEF Counted, Completing
  <2> QED BY <1>10, <2>1, ReplaceCounts
<1>11. CASE LatencyHit(l)
  <2>1. PICK m : m = [l EXCEPT !.l1 = @ - 1, !.completions = Completing(l)]
    OBVIOUS
  <2>2. l.l1 > 0
    BY <1>1, <1>11 DEF LatencyHit
  <2>3. /\ m.todo = l.todo /\ m.l1 = l.l1 - 1 /\ m.mem = l.mem
        /\ m.wb = l.wb /\ m.completions = Completing(l)
    BY <1>1, <2>1 DEF Loads
  <2>4. Outstanding(l) > 0 /\ Outstanding(m) = Outstanding(l) - 1
    BY <1>1, <2>2, <2>3 DEF Outstanding
  <2> QED BY <1>10, <1>11, <2>1, <2>3, <2>4 DEF LatencyHit
<1>12. CASE Writeback(l)
  <2>1. PICK m : m = [l EXCEPT !.wb = 0, !.completions = Completing(l)]
    OBVIOUS
  <2>2. l.wb = 1
    BY <1>1, <1>12 DEF Writeback
  <2>3. /\ m.todo = l.todo /\ m.l1 = l.l1 /\ m.mem = l.mem
        /\ m.wb = 0 /\ m.completions = Completing(l)
    BY <1>1, <2>1 DEF Loads
  <2>4. Outstanding(l) > 0 /\ Outstanding(m) = Outstanding(l) - 1
    BY <1>1, <2>2, <2>3 DEF Outstanding
  <2> QED BY <1>10, <1>12, <2>1, <2>3, <2>4 DEF Writeback
<1>13. CASE LatencyMiss(l)
  <2> DEFINE m == [l EXCEPT !.l1 = @ - 1, !.mem = @ + 1]
  <2>1. Counted(m)
    BY <1>1, <1>13 DEF Loads, Counted, Outstanding, LatencyMiss
  <2> QED BY <1>13, <2>1, ReplaceCounts DEF LatencyMiss
<1>14. CASE Respond(l)
  <2> DEFINE m == [l EXCEPT !.mem = @ - 1, !.wb = 1]
  <2>1. Counted(m)
    BY <1>1, <1>14 DEF Loads, Counted, Outstanding, Respond
  <2> QED BY <1>14, <2>1, ReplaceCounts DEF Respond
<1> QED BY <1>5, <1>6, <1>7, <1>8, <1>9, <1>11, <1>12, <1>13, <1>14 DEF LdstStep

LEMMA NextCounts ==
  ASSUME 0 \notin AccessCounts, IInv, CountsOnce, [Next]_vars
  PROVE  CountsOnce'
<1>1. CASE UNCHANGED loads
  BY <1>1 DEF CountsOnce
<1>2. CASE \E l \in loads : LdstStep(l)
  BY <1>2, LdstCounts
<1>3. ASSUME NEW k \in Keys, NEW n \in AccessCounts, IssueLoad(k, n)
      PROVE  CountsOnce'
  <2>1. n \in Nat /\ n > 0
    BY ParameterAssumption
  <2> DEFINE m == [key |-> k, launch |-> launch[CtaOf(k)],
                   token |-> TailToken(QueueAt(k)), stage |-> "collector",
                   todo |-> n, l1 |-> 0, mem |-> 0, wb |-> 0,
                   completions |-> 0]
  <2>2. Counted(m) /\ loads' = loads \cup {m}
    BY <1>3, <2>1 DEF IssueLoad, Counted, Outstanding
  <2> QED BY <2>2 DEF CountsOnce
<1> QED BY <1>1, <1>2, <1>3
        DEF Next, LaunchCta, IssueStep, CheckIssue, IssueMove, RetireMove,
            ReclaimWarp, Terminated, vars

\* A queue load completes exactly once, whichever of the three places answers
\* its last access: the end of the dispatch, the L1 latency queue or the
\* writeback.
THEOREM LoadsCompleteOnce ==
  ASSUME 0 \notin AccessCounts
  PROVE  Spec => []CompletesOnce
<1>1. Init => CountsOnce
  BY DEF Init, CountsOnce
<1>2. IInv /\ CountsOnce /\ [Next]_vars => CountsOnce'
  BY NextCounts
<1>3. IInv /\ CountsOnce => CompletesOnce
  BY InFlightOutstanding DEF CountsOnce, Counted, CompletesOnce
<1> QED BY <1>1, <1>2, <1>3, SpecIInv, PTL DEF Spec
-----------------------------------------------------------------------------
(***************************************************************************)
(* The queues implement the FIFOs of QueueFifo: the ring, the tokens, the  *)
(* responses in any order and the queues that come and go with their CTAs  *)
(* are seen from the kernel as one FIFO per key.                           *)
(***************************************************************************)

Payloads == {NoData} \cup (1 .. Grid) \X (1 .. Program)

Buf == [k \in Keys |-> FifoView(QueueAt(k))]

-----------------------------------------------------------------------------
(* The ring as a sequence.                                                 *)

\* The slot of the i-th entry of the chain, without the modulus.
Place(q, i) == IF q.head + i - 1 < Depth THEN q.head + i - 1
                                         ELSE q.head + i - 1 - Depth

Item(e) == [value |-> e.data, ready |-> e.state = "READY"]

\* Once around the ring at most, the modulus subtracts Depth once.
LEMMA Wraps ==
  ASSUME NEW a \in Nat, a < 2 * Depth
  PROVE  a % Depth = IF a < Depth THEN a ELSE a - Depth
BY DepthAssumption

\* The i-th place of the chain is the code's modulus, and a slot in use.
LEMMA PlaceInRing ==
  ASSUME NEW q \in Queues, NEW i \in 1 .. q.occupancy
  PROVE  /\ (q.head + i - 1) % Depth = Place(q, i)
         /\ Place(q, i) \in Slots
         /\ InRing(q, Place(q, i))
<1>1. /\ q.head \in Nat /\ q.head < Depth /\ q.occupancy \in Nat
      /\ q.occupancy <= Depth /\ Depth \in Nat /\ Depth > 0
      /\ i \in Nat /\ i >= 1 /\ i <= q.occupancy
  BY DepthAssumption DEF Queues, Slots
<1>2. PICK a \in Nat : a = q.head + i - 1 /\ a < 2 * Depth
  BY <1>1
<1>3. (q.head + i - 1) % Depth = Place(q, i)
  <2>1. a % Depth = IF a < Depth THEN a ELSE a - Depth
    BY <1>2, Wraps
  <2>2. (q.head + i - 1) % Depth = a % Depth
    BY <1>2, Zenon
  <2> QED BY <1>1, <1>2, <2>1, <2>2 DEF Place
<1>4. Place(q, i) \in Slots /\ InRing(q, Place(q, i))
  BY <1>1 DEF Place, Slots, InRing
<1> QED BY <1>3, <1>4

\* The view, position by position.
LEMMA ViewItems ==
  ASSUME NEW q \in Queues
  PROVE  /\ FifoView(q) = [i \in 1 .. q.occupancy |-> Item(q.storage[Place(q, i)])]
         /\ q.occupancy \in Nat
         /\ Len(FifoView(q)) = q.occupancy
<1>1. FifoView(q) = [i \in 1 .. q.occupancy |-> Item(q.storage[Place(q, i)])]
  BY PlaceInRing DEF FifoView, Item
<1>2. q.occupancy \in Nat
  BY DepthAssumption DEF Queues
<1> QED BY <1>1, <1>2

\* An empty queue is the empty sequence.
LEMMA EmptyView ==
  ASSUME NEW q, q.occupancy = 0
  PROVE  FifoView(q) = <<>>
BY DEF FifoView

\* Reserving the tail and storing the lanes appends an item.
LEMMA ReserveAppends ==
  ASSUME NEW q \in Queues, RingOK(q), ~Full(q),
         NEW n \in Nat, NEW d \in Nat \X Nat, NEW r,
         r = SetPendingResponses(SetLaneValue(ReserveTail(q, 0), TailToken(q), d),
                                 TailToken(q), n)
  PROVE  FifoView(r) = Append(FifoView(q), [value |-> d, ready |-> n = 0])
<1>1. /\ r \in Queues /\ r.occupancy = q.occupancy + 1
      /\ r.storage[q.tail] = [state |-> StateFor(n), sequence |-> q.next,
                              pending |-> n, data |-> d]
      /\ \A i \in Slots : i # q.tail => r.storage[i] = q.storage[i]
  BY ReserveEffect
<1>2. r.head = q.head
  BY DEF SetPendingResponses, SetLaneValue, ReserveTail, WithEntry
<1>3. \A i \in 1 .. q.occupancy :
        Item(r.storage[Place(r, i)]) = Item(q.storage[Place(q, i)])
  <2> SUFFICES ASSUME NEW i \in 1 .. q.occupancy
               PROVE  r.storage[Place(q, i)] = q.storage[Place(q, i)]
    BY <1>2 DEF Place
  <2>1. q.storage[Place(q, i)].state # "FREE" /\ Place(q, i) \in Slots
    BY PlaceInRing DEF RingOK
  <2> QED BY <1>1, <2>1, TailIsFree
<1>4. Place(r, r.occupancy) = q.tail
  <2>1. q.head \in Nat /\ q.occupancy \in Nat
    BY DepthAssumption DEF Queues, Slots
  <2> QED BY <1>1, <1>2, <2>1, DepthAssumption DEF Place, RingOK
<1>5. Item(r.storage[q.tail]) = [value |-> d, ready |-> n = 0]
  BY <1>1 DEF Item, StateFor
<1> DEFINE v == FifoView(q)
           item == [value |-> d, ready |-> n = 0]
<1>6. /\ Len(v) = q.occupancy /\ q.occupancy \in Nat
      /\ v = [i \in 1 .. q.occupancy |-> Item(q.storage[Place(q, i)])]
  BY ViewItems
<1>7. Append(v, item) = [i \in 1 .. q.occupancy + 1 |->
                           IF i <= q.occupancy THEN v[i] ELSE item]
  BY <1>6
<1>8. FifoView(r) = [i \in 1 .. q.occupancy + 1 |-> Item(r.storage[Place(r, i)])]
  BY <1>1, ViewItems
<1>9. \A i \in 1 .. q.occupancy + 1 :
        Item(r.storage[Place(r, i)]) = IF i <= q.occupancy THEN v[i] ELSE item
  <2> SUFFICES ASSUME NEW i \in 1 .. q.occupancy + 1
               PROVE  Item(r.storage[Place(r, i)])
                        = IF i <= q.occupancy THEN v[i] ELSE item
    OBVIOUS
  <2>1. CASE i <= q.occupancy
    <3>1. i \in 1 .. q.occupancy
      BY <1>6, <2>1
    <3> QED BY <1>3, <1>6, <2>1, <3>1
  <2>2. CASE ~(i <= q.occupancy)
    <3>1. i = r.occupancy
      BY <1>1, <1>6, <2>2
    <3> QED BY <1>4, <1>5, <2>2, <3>1
  <2> QED BY <2>1, <2>2
<1> QED BY <1>7, <1>8, <1>9

\* The chain passes a slot in use once.
LEMMA PlacesDistinct ==
  ASSUME NEW q \in Queues, NEW i \in 1 .. q.occupancy, NEW j \in 1 .. q.occupancy,
         Place(q, i) = Place(q, j)
  PROVE  i = j
<1>1. /\ q.head \in Nat /\ q.head < Depth /\ q.occupancy \in Nat
      /\ q.occupancy <= Depth /\ Depth \in Nat
  BY DepthAssumption DEF Queues, Slots
<1> QED BY <1>1 DEF Place

\* Every slot in use has its place in the chain.
LEMMA PlaceOfSlot ==
  ASSUME NEW q \in Queues, NEW s \in Slots, InRing(q, s)
  PROVE  \E i \in 1 .. q.occupancy : Place(q, i) = s
<1>1. /\ q.head \in Nat /\ q.head < Depth /\ q.occupancy \in Nat
      /\ q.occupancy <= Depth /\ Depth \in Nat /\ s \in Nat /\ s < Depth
  BY DepthAssumption DEF Queues, Slots
<1>2. CASE q.head <= s
  <2>1. s - q.head + 1 \in 1 .. q.occupancy
    BY <1>1, <1>2 DEF InRing
  <2>2. Place(q, s - q.head + 1) = s
    BY <1>1, <1>2 DEF Place
  <2> QED BY <2>1, <2>2
<1>3. CASE ~(q.head <= s)
  <2>1. s - q.head + 1 + Depth \in 1 .. q.occupancy
    BY <1>1, <1>3 DEF InRing
  <2>2. Place(q, s - q.head + 1 + Depth) = s
    BY <1>1, <1>3 DEF Place
  <2> QED BY <2>1, <2>2
<1> QED BY <1>2, <1>3

\* Sequence w is v, or v with one item more that is ready.
Readied(v, w) ==
  \/ w = v
  \/ \E i \in 1 .. Len(v) : ~v[i].ready /\ w = [v EXCEPT ![i].ready = TRUE]

\* A response makes one item ready or leaves the sequence as it is.
LEMMA MarkMakesReady ==
  ASSUME NEW q \in Queues, RingOK(q), NEW t \in Tokens,
         q.storage[t.slot].state = "RESERVED",
         q.storage[t.slot].pending > 0,
         NEW r, r = MarkResponse(q, t)
  PROVE  Readied(FifoView(q), FifoView(r))
<1> DEFINE s == t.slot
<1>1. /\ r \in Queues /\ r.occupancy = q.occupancy
      /\ r.storage[s].state = IF q.storage[s].pending = 1
                              THEN "READY" ELSE "RESERVED"
      /\ \A i \in Slots : i # s => r.storage[i] = q.storage[i]
  BY MarkEffect
<1>2. s \in Slots /\ q.storage \in [Slots -> Entries]
  BY DEF Tokens, Queues
<1>3. r.head = q.head /\ r.storage[s].data = q.storage[s].data
  BY <1>2 DEF MarkResponse, WithEntry
<1>4. PICK i \in 1 .. q.occupancy : Place(q, i) = s
  BY <1>2, PlaceOfSlot DEF RingOK
<1>5. /\ Len(FifoView(q)) = q.occupancy
      /\ FifoView(q) = [j \in 1 .. q.occupancy |-> Item(q.storage[Place(q, j)])]
      /\ FifoView(r) = [j \in 1 .. q.occupancy |-> Item(r.storage[Place(q, j)])]
  BY <1>1, <1>3, ViewItems DEF Place
<1>6. \A j \in 1 .. q.occupancy :
        j # i => r.storage[Place(q, j)] = q.storage[Place(q, j)]
  BY <1>1, <1>4, PlacesDistinct, PlaceInRing
<1>7. CASE q.storage[s].pending = 1
  <2>1. /\ Item(q.storage[s]) = [value |-> q.storage[s].data, ready |-> FALSE]
        /\ Item(r.storage[s]) = [value |-> q.storage[s].data, ready |-> TRUE]
    BY <1>1, <1>3, <1>7 DEF Item
  <2>2. FifoView(q)[i] = [value |-> q.storage[s].data, ready |-> FALSE]
    BY <1>4, <1>5, <2>1
  <2> DEFINE x == [value |-> q.storage[s].data, ready |-> TRUE]
             v == FifoView(q)
  <2>3. ~v[i].ready /\ [v[i] EXCEPT !.ready = TRUE] = x
    <3>1. ASSUME NEW w, w = [value |-> q.storage[s].data, ready |-> FALSE]
          PROVE  ~w.ready /\ [w EXCEPT !.ready = TRUE] = x
      <4>1. w.ready = FALSE
        BY <3>1
      <4>2. PICK y : y = [w EXCEPT !.ready = TRUE]
        OBVIOUS
      <4>3. /\ y = [value |-> y.value, ready |-> y.ready]
            /\ y.value = q.storage[s].data
        BY <3>1, <4>2
      <4>4. y.ready = TRUE
        BY <3>1, <4>2
      <4> QED BY <4>1, <4>2, <4>3, <4>4, Zenon
    <3> QED BY <2>2, <3>1, Zenon
  <2>4. FifoView(r) = [j \in 1 .. q.occupancy |-> IF j = i THEN x ELSE v[j]]
    <3>1. \A j \in 1 .. q.occupancy :
            Item(r.storage[Place(q, j)]) = IF j = i THEN x ELSE v[j]
      BY <1>4, <1>5, <1>6, <2>1
    <3> HIDE DEF x, v
    <3> QED BY <1>5, <3>1
  <2>5. DOMAIN v = 1 .. q.occupancy
    BY <1>5
  <2>6. [v EXCEPT ![i].ready = TRUE] = [v EXCEPT ![i] = [v[i] EXCEPT !.ready = TRUE]]
    OBVIOUS
  <2>7. [v EXCEPT ![i] = x] = [j \in 1 .. q.occupancy |-> IF j = i THEN x ELSE v[j]]
    <3> HIDE DEF x, v
    <3> QED BY <2>5
  <2>8. i \in 1 .. Len(v) /\ FifoView(r) = [v EXCEPT ![i].ready = TRUE]
    BY <1>4, <1>5, <2>3, <2>4, <2>6, <2>7
  <2> QED BY <2>3, <2>8 DEF Readied
<1>8. CASE q.storage[s].pending # 1
  <2>1. Item(r.storage[s]) = Item(q.storage[s])
    BY <1>1, <1>3, <1>8 DEF Item
  <2>2. \A j \in 1 .. q.occupancy :
          Item(r.storage[Place(q, j)]) = Item(q.storage[Place(q, j)])
    BY <1>4, <1>6, <2>1
  <2> QED BY <1>5, <2>2 DEF Readied
<1> QED BY <1>7, <1>8

\* A MOV takes the head, which is ready.
LEMMA ConsumeTakesHead ==
  ASSUME NEW q \in Queues, RingOK(q), HeadReady(q),
         NEW r, r = ConsumeHead(q)
  PROVE  /\ FifoView(q) # <<>>
         /\ Head(FifoView(q)).ready
         /\ FifoView(r) = Tail(FifoView(q))
<1>1. /\ r \in Queues /\ r.occupancy = q.occupancy - 1
      /\ \A i \in Slots : i # q.head => r.storage[i] = q.storage[i]
  BY ConsumeEffect
<1>2. /\ q.head \in Nat /\ q.head < Depth /\ q.head \in Slots
      /\ q.occupancy \in Nat /\ q.occupancy > 0 /\ q.occupancy <= Depth
      /\ Depth \in Nat
  BY DepthAssumption DEF Queues, Slots, HeadReady, Empty
<1>3. r.head = IF q.head + 1 = Depth THEN 0 ELSE q.head + 1
  BY <1>2, SuccInRing DEF ConsumeHead
<1>4. \A i \in 1 .. q.occupancy - 1 : Place(r, i) = Place(q, i + 1)
  BY <1>2, <1>3 DEF Place
<1>5. Place(q, 1) = q.head
  BY <1>2 DEF Place
<1>6. ASSUME NEW i \in 1 .. q.occupancy - 1
      PROVE  r.storage[Place(q, i + 1)] = q.storage[Place(q, i + 1)]
  <2>1. i + 1 \in 1 .. q.occupancy /\ 1 \in 1 .. q.occupancy /\ i + 1 # 1
    BY <1>2
  <2>2. Place(q, i + 1) # q.head /\ Place(q, i + 1) \in Slots
    BY <1>5, <2>1, PlacesDistinct, PlaceInRing
  <2> QED BY <1>1, <2>2
<1> DEFINE v == FifoView(q)
<1>7. /\ Len(v) = q.occupancy
      /\ v = [i \in 1 .. q.occupancy |-> Item(q.storage[Place(q, i)])]
  BY ViewItems
<1>8. FifoView(r) = [i \in 1 .. q.occupancy - 1 |-> Item(r.storage[Place(r, i)])]
  BY <1>1, ViewItems
<1>9. /\ v # <<>> /\ Head(v) = Item(q.storage[q.head])
      /\ Tail(v) = [i \in 1 .. q.occupancy - 1 |-> v[i + 1]]
  <2>1. Head(v) = v[1] /\ 1 \in 1 .. q.occupancy
    BY <1>2, <1>7
  <2> QED BY <1>2, <1>5, <1>7, <2>1
<1>10. \A i \in 1 .. q.occupancy - 1 : Item(r.storage[Place(r, i)]) = v[i + 1]
  BY <1>2, <1>4, <1>6, <1>7
<1>11. FifoView(r) = Tail(v)
  BY <1>8, <1>9, <1>10
<1>12. Head(v).ready
  <2>1. Head(v).ready = (q.storage[q.head].state = "READY")
    BY <1>9 DEF Item
  <2> QED BY <2>1, Zenon DEF HeadReady
<1> QED BY <1>9, <1>11, <1>12

-----------------------------------------------------------------------------
(* What the queues carry.                                                  *)

\* No more CTAs are launched than the grid has, a warp that issues has been
\* launched, and the entries hold what loads of launched CTAs stored.
Carries ==
  /\ \A c \in Ctas : launch[c] + gridLeft <= Grid
  /\ \A k \in Keys : loadsLeft[k] > 0 => launch[CtaOf(k)] > 0
  /\ \A k \in DOMAIN table : \A i \in Slots : table[k].storage[i].data \in Payloads

\* At the start there is no queue and nothing to load.
LEMMA InitCarries == Init => Carries
BY ParameterAssumption DEF Init, Carries

\* An action that gives one key another queue.
LEMMA WithQueueCarries ==
  ASSUME Carries, NEW k, NEW q, table' = WithQueue(k, q),
         \A i \in Slots : q.storage[i].data \in Payloads,
         UNCHANGED <<launch, gridLeft>>,
         \A j \in Keys : loadsLeft'[j] > 0 => loadsLeft[j] > 0
  PROVE  Carries'
BY DEF Carries, WithQueue

\* A fresh queue carries only NoData.
LEMMA EmptyCarries ==
  \A i \in Slots : EmptyQueue.storage[i].data \in Payloads
BY DEF EmptyQueue, FreeEntry, Payloads

\* So does what get_or_create returns.
LEMMA QueueAtCarries ==
  ASSUME Carries, NEW k
  PROVE  \A i \in Slots : QueueAt(k).storage[i].data \in Payloads
BY EmptyCarries DEF Carries, QueueAt

\* A response leaves the data alone.
LEMMA MarkCarries ==
  ASSUME NEW q \in Queues, NEW t \in Tokens,
         \A i \in Slots : q.storage[i].data \in Payloads
  PROVE  \A i \in Slots : MarkResponse(q, t).storage[i].data \in Payloads
BY DEF MarkResponse, WithEntry, Tokens, Queues

\* What an issued load stores is a tag of its CTA.
LEMMA TagInPayloads ==
  ASSUME IInv, Carries, NEW k \in Keys, loadsLeft[k] > 0
  PROVE  Tag(CtaOf(k), Program - loadsLeft[k] + 1) \in Payloads
<1>1. CtaOf(k) \in Ctas
  BY DEF Keys, CtaOf
<1>2. /\ launch[CtaOf(k)] \in Nat /\ gridLeft \in Nat /\ Grid \in Nat
      /\ loadsLeft[k] \in 0 .. Program /\ Program \in Nat
  BY <1>1, ParameterAssumption DEF IInv, TypeOK
<1>3. launch[CtaOf(k)] \in 1 .. Grid
  BY <1>1, <1>2 DEF Carries
<1>4. Program - loadsLeft[k] + 1 \in 1 .. Program
  BY <1>2
<1> QED BY <1>3, <1>4 DEF Tag, Payloads

\* The queue of a key after a load was issued.
LEMMA IssuedLoad ==
  ASSUME IInv, Carries, 0 \notin AccessCounts, NEW k \in Keys,
         NEW n \in AccessCounts, IssueLoad(k, n)
  PROVE  \E r : /\ table' = WithQueue(k, r)
                /\ \A i \in Slots : r.storage[i].data \in Payloads
                /\ \E d \in Payloads :
                     FifoView(r) = Append(FifoView(QueueAt(k)),
                                          [value |-> d, ready |-> n = 0])
                /\ Len(FifoView(QueueAt(k))) < Depth
<1> DEFINE q == QueueAt(k)
           d == Tag(CtaOf(k), Program - loadsLeft[k] + 1)
<1> PICK r : r = SetPendingResponses(SetLaneValue(ReserveTail(q, 0),
                                                  TailToken(q), d),
                                     TailToken(q), n)
  OBVIOUS
<1>1. n \in Nat /\ n # 0
  BY ParameterAssumption
<1>2. loadsLeft[k] > 0 /\ ~Full(q) /\ table' = WithQueue(k, r)
  BY <1>1 DEF IssueLoad
<1>3. q \in Queues /\ RingOK(q)
  BY EmptyQueueOK DEF QueueAt, IInv, TypeOK
<1>4. d \in Payloads
  BY <1>2, TagInPayloads
<1>5. d \in Nat \X Nat
  BY <1>4, ParameterAssumption DEF Payloads, NoData
<1>6. \A i \in Slots : q.storage[i].data \in Payloads
  BY QueueAtCarries
<1> HIDE DEF q, d
<1>7. /\ r.storage[q.tail] = [state |-> StateFor(n), sequence |-> q.next,
                              pending |-> n, data |-> d]
      /\ \A i \in Slots : i # q.tail => r.storage[i] = q.storage[i]
  BY <1>1, <1>2, <1>3, <1>5, ReserveEffect
<1>8. FifoView(r) = Append(FifoView(q), [value |-> d, ready |-> n = 0])
  BY <1>1, <1>2, <1>3, <1>5, ReserveAppends
<1>9. Len(FifoView(q)) < Depth
  <2>1. q.occupancy \in 0 .. Depth /\ Depth \in Nat /\ Len(FifoView(q)) = q.occupancy
    BY <1>3, ViewItems, DepthAssumption DEF Queues
  <2> QED BY <1>2, <2>1 DEF Full
<1>10. \A i \in Slots : r.storage[i].data \in Payloads
  <2>1. r.storage[q.tail].data = d
    BY <1>7
  <2> QED BY <1>4, <1>6, <1>7, <2>1
<1> QED BY <1>2, <1>4, <1>8, <1>9, <1>10 DEF q

\* The queue of a key after a MOV was issued.
LEMMA IssuedMove ==
  ASSUME IInv, Carries, NEW k \in Keys, IssueMove(k)
  PROVE  \E r : /\ table' = WithQueue(k, r)
                /\ \A i \in Slots : r.storage[i].data \in Payloads
                /\ FifoView(QueueAt(k)) # <<>>
                /\ Head(FifoView(QueueAt(k))).ready
                /\ FifoView(r) = Tail(FifoView(QueueAt(k)))
<1> DEFINE q == QueueAt(k)
           r == ConsumeHead(q)
<1>1. HeadReady(q) /\ table' = WithQueue(k, r)
  BY DEF IssueMove
<1>2. q \in Queues /\ RingOK(q)
  BY EmptyQueueOK DEF QueueAt, IInv, TypeOK
<1>3. \A i \in Slots : q.storage[i].data \in Payloads
  BY QueueAtCarries
<1>4. /\ FifoView(q) # <<>> /\ Head(FifoView(q)).ready
      /\ FifoView(r) = Tail(FifoView(q))
  <2> HIDE DEF q
  <2> QED BY <1>1, <1>2, ConsumeTakesHead
<1>5. \A i \in Slots : r.storage[i].data \in Payloads
  <2> HIDE DEF q
  <2> QED BY <1>2, <1>3 DEF ConsumeHead, Payloads, Queues
<1> QED BY <1>1, <1>4, <1>5

\* The queue of a load after one of its accesses was answered.
LEMMA Answered ==
  ASSUME IInv, Carries, NEW l \in loads, Outstanding(l) > 0,
         NEW r, r = Marked(l)
  PROVE  /\ \A i \in Slots : r.storage[i].data \in Payloads
         /\ QueueAt(l.key) = table[l.key]
         /\ Readied(FifoView(table[l.key]), FifoView(r))
<1> DEFINE q == table[l.key]
<1>1. /\ l.key \in DOMAIN table /\ q \in Queues /\ RingOK(q)
      /\ l.token \in Tokens
      /\ q.storage[l.token.slot].state = "RESERVED"
      /\ q.storage[l.token.slot].pending > 0
  BY OutstandingEntry
<1>2. \A i \in Slots : q.storage[i].data \in Payloads
  BY <1>1 DEF Carries
<1>3. r = MarkResponse(q, l.token)
  BY DEF Marked
<1>4. QueueAt(l.key) = q
  BY <1>1 DEF QueueAt
<1> HIDE DEF q
<1>5. \A i \in Slots : r.storage[i].data \in Payloads
  BY <1>1, <1>2, <1>3, MarkCarries
<1>6. Readied(FifoView(q), FifoView(r))
  <2> PICK t \in Tokens : t = l.token
    BY <1>1
  <2>1. /\ q.storage[t.slot].state = "RESERVED"
        /\ q.storage[t.slot].pending > 0
        /\ r = MarkResponse(q, t)
    BY <1>1, <1>3
  <2> QED BY <1>1, <2>1, MarkMakesReady
<1> QED BY <1>4, <1>5, <1>6 DEF q

-----------------------------------------------------------------------------
(* The invariant.                                                          *)

\* Launching a CTA: its slot counts one CTA more, the grid one less.
LEMMA LaunchCarries ==
  ASSUME IInv, Carries, NEW c \in Ctas, LaunchCta(c)
  PROVE  Carries'
<1>1. /\ gridLeft' = gridLeft - 1 /\ launch' = [launch EXCEPT ![c] = @ + 1]
      /\ loadsLeft' = [k \in Keys |-> IF CtaOf(k) = c THEN Program
                                                      ELSE loadsLeft[k]]
      /\ table' = table
      /\ gridLeft \in Nat /\ launch \in [Ctas -> Nat] /\ Grid \in Nat
  BY ParameterAssumption DEF LaunchCta, IInv, TypeOK
<1>2. \A x \in Ctas : launch'[x] + gridLeft' <= Grid
  <2> TAKE x \in Ctas
  <2>1. launch[x] \in Nat /\ launch[x] + gridLeft <= Grid
    BY <1>1 DEF Carries
  <2>2. launch'[x] = IF x = c THEN launch[x] + 1 ELSE launch[x]
    BY <1>1
  <2> QED BY <1>1, <2>1, <2>2
<1>3. \A k \in Keys : loadsLeft'[k] > 0 => launch'[CtaOf(k)] > 0
  <2> TAKE k \in Keys
  <2>1. CtaOf(k) \in Ctas /\ launch[CtaOf(k)] \in Nat
    BY <1>1 DEF Keys, CtaOf
  <2>2. launch'[CtaOf(k)] = IF CtaOf(k) = c THEN launch[CtaOf(k)] + 1
                                            ELSE launch[CtaOf(k)]
    BY <1>1, <2>1
  <2>3. CtaOf(k) # c => loadsLeft'[k] = loadsLeft[k]
    BY <1>1
  <2> QED BY <2>1, <2>2, <2>3 DEF Carries
<1> QED BY <1>1, <1>2, <1>3 DEF Carries

\* An action of the LDST unit leaves the table as it is or answers an access.
LEMMA LdstTable ==
  ASSUME IInv, NEW l \in loads, LdstStep(l)
  PROVE  /\ UNCHANGED <<launch, gridLeft, loadsLeft>>
         /\ \/ UNCHANGED table
            \/ Outstanding(l) > 0 /\ table' = WithQueue(l.key, Marked(l))
<1>1. /\ l.todo \in Nat /\ l.l1 \in Nat /\ l.mem \in Nat /\ l.wb \in {0, 1}
  BY DEF IInv, TypeOK, Loads
<1> QED BY <1>1 DEF LdstStep, EnterLdst, NoAccess, AccessLatencyQueue,
                   AccessMemory, AccessHit, LatencyHit, LatencyMiss, Respond,
                   Writeback, Outstanding

\* Every step keeps what the queues carry.
LEMMA NextCarries ==
  ASSUME 0 \notin AccessCounts
  PROVE  IInv /\ Carries /\ [Next]_vars => Carries'
<1> SUFFICES ASSUME IInv, Carries, [Next]_vars PROVE Carries'
  OBVIOUS
<1>1. CASE UNCHANGED vars
  BY <1>1 DEF vars, Carries
<1>2. ASSUME NEW c \in Ctas, LaunchCta(c)
      PROVE  Carries'
  BY <1>2, LaunchCarries
<1>3. ASSUME NEW k \in Keys, IssueStep(k)
      PROVE  Carries'
  <2>1. CASE CheckIssue(k)
    BY <2>1, EmptyCarries, WithQueueCarries DEF CheckIssue
  <2>2. ASSUME NEW n \in AccessCounts, IssueLoad(k, n)
        PROVE  Carries'
    <3>1. PICK r : /\ table' = WithQueue(k, r)
                   /\ \A i \in Slots : r.storage[i].data \in Payloads
      BY <2>2, IssuedLoad
    <3>2. /\ UNCHANGED <<launch, gridLeft>> /\ loadsLeft[k] > 0
          /\ loadsLeft' = [loadsLeft EXCEPT ![k] = @ - 1]
      BY <2>2 DEF IssueLoad
    <3>3. \A j \in Keys : loadsLeft'[j] > 0 => loadsLeft[j] > 0
      BY <3>2 DEF IInv, TypeOK
    <3> QED BY <3>1, <3>2, <3>3, WithQueueCarries
  <2>3. CASE IssueMove(k)
    <3>1. PICK r : /\ table' = WithQueue(k, r)
                   /\ \A i \in Slots : r.storage[i].data \in Payloads
      BY <2>3, IssuedMove
    <3>2. UNCHANGED <<launch, gridLeft, loadsLeft>>
      BY <2>3 DEF IssueMove
    <3> QED BY <3>1, <3>2, WithQueueCarries
  <2>4. CASE RetireMove(k)
    BY <2>4 DEF RetireMove, Carries
  <2> QED BY <1>3, <2>1, <2>2, <2>3, <2>4 DEF IssueStep
<1>4. ASSUME NEW l \in loads, LdstStep(l)
      PROVE  Carries'
  <2>1. CASE UNCHANGED table
    BY <1>4, <2>1, LdstTable DEF Carries
  <2>2. CASE Outstanding(l) > 0 /\ table' = WithQueue(l.key, Marked(l))
    <3>1. PICK r : r = Marked(l)
      OBVIOUS
    <3>2. \A i \in Slots : r.storage[i].data \in Payloads
      BY <2>2, <3>1, Answered
    <3> QED BY <1>4, <2>2, <3>1, <3>2, LdstTable, WithQueueCarries
  <2> QED BY <1>4, <2>1, <2>2, LdstTable
<1>5. ASSUME NEW w \in warps, ReclaimWarp(w)
      PROVE  Carries'
  <2>1. /\ UNCHANGED <<launch, gridLeft, loadsLeft>>
        /\ table' = table \/ table' = EraseCta(w[1])
    BY <1>5 DEF ReclaimWarp
  <2> QED BY <2>1 DEF Carries, EraseCta
<1> QED BY <1>1, <1>2, <1>3, <1>4, <1>5 DEF Next, Terminated

-----------------------------------------------------------------------------
(* The refinement.                                                         *)

\* A key with another queue is the only FIFO that changes.
LEMMA WithQueueBuf ==
  ASSUME NEW k \in Keys, NEW r, table' = WithQueue(k, r)
  PROVE  Buf' = [Buf EXCEPT ![k] = FifoView(r)]
<1>1. ASSUME NEW j \in Keys
      PROVE  FifoView(QueueAt(j))' = IF j = k THEN FifoView(r)
                                              ELSE FifoView(QueueAt(j))
  <2>1. QueueAt(j)' = IF j = k THEN r ELSE QueueAt(j)
    BY DEF QueueAt, WithQueue
  <2> QED BY <2>1 DEF FifoView
<1> QED BY <1>1 DEF Buf

\* Actions that leave every FIFO as it is.
LEMMA TableSame == ASSUME UNCHANGED table PROVE UNCHANGED Buf
BY DEF Buf, QueueAt, FifoView

\* A queue that was only created is still an empty FIFO.
LEMMA CheckIssueStutters ==
  ASSUME NEW k \in Keys, CheckIssue(k)
  PROVE  UNCHANGED Buf
<1>1. k \notin DOMAIN table /\ table' = WithQueue(k, EmptyQueue)
  BY DEF CheckIssue
<1>2. Buf' = [Buf EXCEPT ![k] = FifoView(EmptyQueue)]
  BY <1>1, WithQueueBuf
<1>3. Buf[k] = FifoView(EmptyQueue)
  BY <1>1 DEF Buf, QueueAt
<1>4. Buf = [j \in Keys |-> Buf[j]]
  BY DEF Buf
<1> QED BY <1>2, <1>3, <1>4

\* The queues that go with their CTA were empty FIFOs.
LEMMA ReclaimStutters ==
  ASSUME IInv, NEW w \in warps, ReclaimWarp(w)
  PROVE  UNCHANGED Buf
<1>1. /\ HardwareDone(w)
      /\ table' = IF CtaWarps(w[1]) \cap warps = {w} THEN EraseCta(w[1])
                                                     ELSE table
  BY DEF ReclaimWarp
<1>2. CASE CtaWarps(w[1]) \cap warps # {w}
  BY <1>1, <1>2, TableSame
<1>3. CASE CtaWarps(w[1]) \cap warps = {w}
  <2>1. ASSUME NEW k \in Keys
        PROVE  FifoView(QueueAt(k))' = FifoView(QueueAt(k))
    <3>1. CASE CtaOf(k) = w[1]
      <4>1. QueueAt(k).occupancy = 0
        BY <1>1, <1>3, <3>1, LastWarpLeavesNothing
      <4>2. QueueAt(k)' = EmptyQueue
        BY <1>1, <1>3, <3>1 DEF QueueAt, EraseCta
      <4>3. EmptyQueue.occupancy = 0
        BY DEF EmptyQueue
      <4>4. FifoView(QueueAt(k))' = FifoView(EmptyQueue)
        BY <4>2 DEF FifoView
      <4> QED BY <4>1, <4>3, <4>4, EmptyView
    <3>2. CASE CtaOf(k) # w[1]
      <4>1. QueueAt(k)' = QueueAt(k)
        BY <1>1, <1>3, <3>2 DEF QueueAt, EraseCta
      <4> QED BY <4>1 DEF FifoView
    <3> QED BY <3>1, <3>2
  <2> QED BY <2>1 DEF Buf
<1> QED BY <1>2, <1>3

\* An issued load puts an item.
LEMMA LoadPuts ==
  ASSUME IInv, Carries, 0 \notin AccessCounts, NEW k \in Keys,
         NEW n \in AccessCounts, IssueLoad(k, n)
  PROVE  Fifo!Next
<1> PICK r : /\ table' = WithQueue(k, r)
             /\ \E d \in Payloads :
                  FifoView(r) = Append(FifoView(QueueAt(k)),
                                       [value |-> d, ready |-> n = 0])
             /\ Len(FifoView(QueueAt(k))) < Depth
  BY IssuedLoad
<1>1. PICK d \in Payloads :
        FifoView(r) = Append(FifoView(QueueAt(k)),
                             [value |-> d, ready |-> n = 0])
  OBVIOUS
<1>2. PICK item : item = [value |-> d, ready |-> n = 0]
  OBVIOUS
<1>3. item \in Fifo!Items
  BY <1>2 DEF Fifo!Items, Payloads
<1>4. Buf[k] = FifoView(QueueAt(k))
  BY DEF Buf
<1>5. Len(Buf[k]) < Depth /\ Buf' = [Buf EXCEPT ![k] = Append(Buf[k], item)]
  BY <1>1, <1>2, <1>4, WithQueueBuf
<1>6. Fifo!Put(k, item)
  BY <1>5 DEF Fifo!Put, Buf
<1> QED BY <1>3, <1>6 DEF Fifo!Next

\* An issued MOV takes the head.
LEMMA MoveTakes ==
  ASSUME IInv, Carries, NEW k \in Keys, IssueMove(k)
  PROVE  Fifo!Next
<1>1. PICK r : /\ table' = WithQueue(k, r)
               /\ FifoView(QueueAt(k)) # <<>>
               /\ Head(FifoView(QueueAt(k))).ready
               /\ FifoView(r) = Tail(FifoView(QueueAt(k)))
  BY IssuedMove
<1>2. Buf[k] = FifoView(QueueAt(k))
  BY DEF Buf
<1>3. /\ Buf[k] # <<>> /\ Head(Buf[k]).ready
      /\ Buf' = [Buf EXCEPT ![k] = Tail(Buf[k])]
  BY <1>1, <1>2, WithQueueBuf
<1>4. Fifo!Take(k)
  BY <1>3 DEF Fifo!Take, Buf
<1> QED BY <1>4 DEF Fifo!Next

\* An answered access makes an item ready or leaves the FIFOs as they are.
LEMMA AnswerMakesReady ==
  ASSUME IInv, Carries, NEW l \in loads, LdstStep(l)
  PROVE  Fifo!Next \/ UNCHANGED Buf
<1>1. CASE UNCHANGED table
  BY <1>1, TableSame
<1>2. CASE Outstanding(l) > 0 /\ table' = WithQueue(l.key, Marked(l))
  <2>1. PICK r : r = Marked(l)
    OBVIOUS
  <2>2. PICK k \in Keys : k = l.key
    BY <1>2, OutstandingEntry
  <2>3. PICK v : v = Buf[k]
    OBVIOUS
  <2>4. PICK x : x = FifoView(r)
    OBVIOUS
  <2>5. Buf' = [Buf EXCEPT ![k] = x] /\ Buf = [j \in Keys |-> Buf[j]]
    BY <1>2, <2>1, <2>2, <2>4, WithQueueBuf DEF Buf
  <2>6. v = FifoView(table[l.key])
    BY <1>2, <2>1, <2>2, <2>3, Answered DEF Buf
  <2>7. Readied(v, x)
    <3>1. Readied(FifoView(table[l.key]), FifoView(r))
      BY <1>2, <2>1, Answered
    <3> QED BY <2>4, <2>6, <3>1
  <2>8. CASE x = v
    BY <2>3, <2>5, <2>8
  <2>9. ASSUME NEW i \in 1 .. Len(v), ~v[i].ready,
               x = [v EXCEPT ![i].ready = TRUE]
        PROVE  Fifo!Next
    <3>1. [Buf EXCEPT ![k][i].ready = TRUE]
            = [Buf EXCEPT ![k] = [Buf[k] EXCEPT ![i].ready = TRUE]]
      OBVIOUS
    <3>2. Buf' = [Buf EXCEPT ![k][i].ready = TRUE]
      BY <2>3, <2>5, <2>9, <3>1
    <3>3. Fifo!MakeReady(k, i)
      BY <2>3, <2>9, <3>2 DEF Fifo!MakeReady, Buf
    <3> QED BY <2>3, <2>9, <3>3 DEF Fifo!Next, Buf
  <2> QED BY <2>7, <2>8, <2>9 DEF Readied
<1> QED BY <1>1, <1>2, LdstTable

\* Every step is a step of the FIFOs or leaves them alone.
LEMMA StepsRefine ==
  ASSUME 0 \notin AccessCounts
  PROVE  IInv /\ Carries /\ [Next]_vars => [Fifo!Next]_Buf
<1> SUFFICES ASSUME IInv, Carries, [Next]_vars
             PROVE  Fifo!Next \/ UNCHANGED Buf
  OBVIOUS
<1>1. CASE UNCHANGED vars
  BY <1>1, TableSame DEF vars
<1>2. ASSUME NEW c \in Ctas, LaunchCta(c)
      PROVE  UNCHANGED Buf
  BY <1>2, TableSame DEF LaunchCta
<1>3. ASSUME NEW k \in Keys, IssueStep(k)
      PROVE  Fifo!Next \/ UNCHANGED Buf
  <2>1. CASE CheckIssue(k)
    BY <2>1, CheckIssueStutters
  <2>2. ASSUME NEW n \in AccessCounts, IssueLoad(k, n)
        PROVE  Fifo!Next
    BY <2>2, LoadPuts
  <2>3. CASE IssueMove(k)
    BY <2>3, MoveTakes
  <2>4. CASE RetireMove(k)
    BY <2>4, TableSame DEF RetireMove
  <2> QED BY <1>3, <2>1, <2>2, <2>3, <2>4 DEF IssueStep
<1>4. ASSUME NEW l \in loads, LdstStep(l)
      PROVE  Fifo!Next \/ UNCHANGED Buf
  BY <1>4, AnswerMakesReady
<1>5. ASSUME NEW w \in warps, ReclaimWarp(w)
      PROVE  UNCHANGED Buf
  BY <1>5, ReclaimStutters
<1> QED BY <1>1, <1>2, <1>3, <1>4, <1>5 DEF Next, Terminated

\* The queue table implements one FIFO per warp pair and queue id: what the
\* consumer's MOVs read is what the producer's loads stored, in that order and
\* only after it arrived, for every ring size, program, grid and order of the
\* responses, and whichever CTA a slot is given to.
THEOREM QueuesImplementFifo ==
  ASSUME 0 \notin AccessCounts
  PROVE  Spec => ImplementsFifo
<1>1. Init => Fifo!Init
  BY EmptyView DEF Init, Fifo!Init, QueueAt, EmptyQueue
<1>2. IInv /\ Carries /\ [Next]_vars => [Fifo!Next]_Buf
  BY StepsRefine
<1>3. IInv /\ Carries /\ [Next]_vars => Carries'
  BY NextCarries
<1> QED BY <1>1, <1>2, <1>3, InitCarries, SpecIInv, PTL
        DEF Spec, ImplementsFifo, Fifo!Spec, Buf
=============================================================================
