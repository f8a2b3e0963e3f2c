----------------------------- MODULE MemorySystem -----------------------------
(***************************************************************************)
(* The memory side of gpgpu_sim::cycle: the clock domains, the requests    *)
(* of the cluster in the interconnect, the memory sub-partitions, and      *)
(* their answers in the interconnect. The interconnect keeps the order of  *)
(* what one port sends; a sub-partition answers in any order, after any    *)
(* time (memory_sub_partition and the interconnect are modelled by what    *)
(* gpgpu_sim and the cluster ask of them).                                 *)
(***************************************************************************)
EXTENDS LdstUnit

CONSTANTS
  Period,          \* of CORE, ICNT, L2 and DRAM
  SubPartitions,   \* m_n_mem_sub_partition
  PartitionSize,   \* requests a sub-partition holds
  SectorChunk,     \* SECTOR_CHUNCK_SIZE: what one request may become
  ReplyBuffer      \* answers the port of a sub-partition takes

Domains == {"CORE", "ICNT", "L2", "DRAM"}

ASSUME MemoryAssumption ==
  /\ Period \in [Domains -> Nat \ {0}]
  /\ SubPartitions \in Nat \ {0} /\ ReplyBuffer \in Nat \ {0}
  /\ SectorChunk \in Nat \ {0} /\ PartitionSize \in Nat
  /\ SectorChunk <= PartitionSize

VARIABLES
  clock,      \* time to the next tick of each domain
  ticks,      \* the domains of this turn, clock_mask
  partition,  \* requests in each sub-partition
  replies     \* answers of each sub-partition in the interconnect

memoryVars == <<clock, ticks, partition, replies>>

PartitionIds == 0 .. SubPartitions - 1
Destination(a) == Block(a) % SubPartitions

MemoryInit ==
  /\ clock = [d \in Domains |-> 0]
  /\ ticks = {}
  /\ partition = [p \in PartitionIds |-> {}]
  /\ replies = [p \in PartitionIds |-> <<>>]

\* The least of core, icnt and dram time comes next, or L2 alone before it.
NextTime ==
  LET three == Min({clock["CORE"], clock["ICNT"], clock["DRAM"]})
  IN  Min({three, clock["L2"]})

Due == {d \in Domains : clock[d] = NextTime}

\* next_clock_domain, with times counted from now.
NextClockDomain ==
  /\ ticks' = Due
  /\ clock' = [d \in Domains |->
                 (IF d \in Due THEN Period[d] ELSE clock[d]) - NextTime]
  /\ UNCHANGED <<partition, replies>>

\* The port of a sub-partition takes one answer in a turn, if it has room
\* for it; what does not fit is found again by the next top().
ReplyOf(p, a) ==
  /\ a \in partition[p]
  /\ Len(replies[p]) < ReplyBuffer
  /\ partition' = [partition EXCEPT ![p] = @ \ {a}]
  /\ replies' = [replies EXCEPT ![p] = Append(@, a)]
  /\ UNCHANGED <<clock, ticks>>

\* full(SECTOR_CHUNCK_SIZE)
BackedUp(p) == Cardinality(partition[p]) + SectorChunk > PartitionSize

\* The oldest request enters its sub-partition, unless that is backed up;
\* those behind it wait.
RequestTo(p) ==
  /\ IF ~BackedUp(p) /\ net # <<>> /\ Destination(Head(net)) = p
     THEN /\ partition' = [partition EXCEPT ![p] = @ \cup {Head(net)}]
          /\ net' = Tail(net)
     ELSE UNCHANGED <<partition, net>>
  /\ UNCHANGED <<clock, ticks, replies>>

\* The answers the cluster may pop next.
Arriving == {Head(replies[p]) : p \in {q \in PartitionIds : replies[q] # <<>>}}

Popped(a) == [p \in PartitionIds |->
                IF replies[p] # <<>> /\ Head(replies[p]) = a
                THEN Tail(replies[p]) ELSE replies[p]]

InMemory == UNION {partition[p] \cup ToSet(replies[p]) : p \in PartitionIds}
=============================================================================
