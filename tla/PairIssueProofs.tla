-------------------------- MODULE PairIssueProofs --------------------------
(***************************************************************************)
(* Proofs about PairIssue, for every number of warps, every program, every *)
(* policy: the front end of a warp and its instructions in flight agree.   *)
(***************************************************************************)
EXTENDS PairIssue, FiniteSetTheorems, SequenceTheorems,
        WellFoundedInduction, TLAPS

\* The record of a warp has its fields, and those that count are numbers.
WarpShape(r) ==
  /\ r = [pc |-> r.pc, next |-> r.next, ibuf |-> r.ibuf, slot |-> r.slot,
          inPipe |-> r.inPipe, imiss |-> r.imiss, busy |-> r.busy,
          done |-> r.done, exited |-> r.exited]
  /\ r.ibuf \in [1 .. 2 -> Nat]
  /\ r.slot \in 1 .. 2
  /\ r.pc \in Nat /\ r.next \in Nat /\ r.imiss \in Nat
  /\ r.done \in BOOLEAN /\ r.exited \in BOOLEAN

\* Whether the buffer is empty, and how many instructions it holds.
Empty(r) == r.ibuf[1] = 0 /\ r.ibuf[2] = 0
Held(r)  == (IF r.ibuf[1] # 0 THEN 1 ELSE 0) + (IF r.ibuf[2] # 0 THEN 1 ELSE 0)

\* A warp that runs: its pcs are in its program, and the instructions it has
\* issued are behind the one it is at.
Running(r, code, F) ==
  /\ Forward(code)
  /\ r.pc \in 1 .. Len(code) /\ r.next \in 1 .. Len(code)
  /\ r.ibuf[1] <= Len(code) /\ r.ibuf[2] <= Len(code)
  /\ \A f \in F : f.pc \in 0 .. r.pc - 1

\* A warp is at most one instruction behind the last.
InProgram(r, code) ==
  /\ Len(code) \in Nat
  /\ r.pc <= Len(code) + 1 /\ r.next <= Len(code) + 1

\* The registers that the instructions F still have to write.
Owed(code, F) == UNION {code[f.pc].dst : f \in F}

\* No instruction of F needs what an earlier one writes.
Apart(code, F) ==
  \A f, g \in F : f.pc < g.pc =>
    code[f.pc].dst \cap (code[g.pc].src \cup code[g.pc].dst) = {}

\* A warp with its program and its instructions in flight.
WarpOK(r, code, F) ==
  /\ WarpShape(r) /\ InProgram(r, code)
  /\ IsFiniteSet(F)
  /\ r.inPipe = Held(r) + Cardinality(F)
  /\ ~ r.done => ~ r.exited /\ Running(r, code, F)
  /\ r.done => Empty(r) /\ r.imiss = 0
  /\ r.imiss # 0 => Empty(r) /\ r.imiss = r.next
  /\ r.exited => r.done /\ F = {}
  /\ ~ Empty(r) => /\ r.ibuf[r.slot] = r.next
                   /\ r.ibuf[3 - r.slot] \in {0, r.next + 1}
  /\ r.busy = Owed(code, F) /\ Apart(code, F)

Flying(F, w) == {f \in F : f.warp = w}

FlightShape(f) ==
  /\ f = [warp |-> f.warp, pc |-> f.pc, unit |-> f.unit, inID |-> f.inID,
          got |-> f.got]
  /\ f.warp \in Warps /\ f.pc \in Nat

\* A warp and a pc name an instruction in flight, and a unit the one that is
\* in its ID_OC register.
FlightOK(F) ==
  /\ \A f \in F : FlightShape(f)
  /\ \A f, g \in F : f.warp = g.warp /\ f.pc = g.pc => f = g
  /\ \A f, g \in F : f.inID /\ g.inID /\ f.unit = g.unit => f = g

CoreShape(s) ==
  /\ s = [code |-> s.code, warp |-> s.warp, flight |-> s.flight,
          queue |-> s.queue, bars |-> s.bars]
  /\ s.warp = [w \in Warps |-> s.warp[w]]

CoreInv(s) ==
  /\ CoreShape(s)
  /\ FlightOK(s.flight)
  /\ \A w \in Warps : WarpOK(s.warp[w], s.code[w], Flying(s.flight, w))

\* A warp that waits for its next instruction.
Starved(r) == ~ r.done /\ Empty(r)

\* Warps that wait for an instruction go on waiting for the same one.
Waits(s, t) ==
  \A w \in Warps : Starved(s.warp[w]) =>
    /\ Starved(t.warp[w])
    /\ t.warp[w].next = s.warp[w].next
    /\ t.warp[w].imiss = s.warp[w].imiss

\* What fetch has got is the next instruction of a warp that waits for it.
FetchOK(s, b) ==
  b # NoFetch =>
    /\ b.warp \in Warps
    /\ Starved(s.warp[b.warp])
    /\ s.warp[b.warp].imiss = 0
    /\ b.pc = s.warp[b.warp].next

\* What the loads of the programs put into the queues.
EntriesOf(i) == {StoreLanes(Reserve(i, pc), i) : pc \in Nat}

InstructionsOf(p) == UNION {{p[w][k] : k \in 1 .. Len(p[w])} : w \in Warps}

Entries ==
  UNION {UNION {EntriesOf(i) : i \in InstructionsOf(p)} : p \in Programs}

\* The load has its entry in the queue of its warp.
FindsEntry(s, f) ==
  /\ IsProducer(f.warp)
  /\ s.code[f.warp][f.pc].queue \in QueueKinds
  /\ \E n \in 1 .. Len(s.queue[<<s.code[f.warp][f.pc].queue, f.warp>>]) :
       s.queue[<<s.code[f.warp][f.pc].queue, f.warp>>][n].pc = f.pc

\* The entries of a queue are behind a pc.
Behind(q, pc) == \A n \in 1 .. Len(q) : q[n].pc < pc

\* The instructions op of a queue of the kind that are behind a pc.
Passed(code, op, kind, pc) == {k \in UsesOf(code, op, kind) : k < pc}

\* The entry is that of the n-th load of the program into its queue.
Names(code, kind, n, e) ==
  /\ e.pc \in UsesOf(code, "qload", kind)
  /\ Rank(code, "qload", kind, e.pc) = n
  /\ e = StoreLanes(Reserve(code[e.pc], e.pc), code[e.pc])

\* A producer at pc a and a consumer at pc b share the queue q: it holds the
\* entries of the loads that have no MOV yet, in program order.
Follows(cp, cc, kind, a, b, q) ==
  /\ Cardinality(Passed(cc, "qmov", kind, b)) + Len(q)
       = Cardinality(Passed(cp, "qload", kind, a))
  /\ \A i \in 1 .. Len(q) :
       Names(cp, kind, Cardinality(Passed(cc, "qmov", kind, b)) + i, q[i])

\* While a CTA runs, every queue follows its two warps.
PairsOK(s) ==
  (\E w \in Warps : ~ s.warp[w].exited) =>
    \A kind \in QueueKinds : \A p \in Warps : p + Producers \in Warps =>
      Follows(s.code[p], s.code[p + Producers], kind, s.warp[p].pc,
              s.warp[p + Producers].pc, s.queue[<<kind, p>>])

\* Every MOV in flight has read what its load has.
MovesOK(s) ==
  \A f \in s.flight : s.code[f.warp][f.pc].op = "qmov" =>
    \A l \in s.code[f.warp][f.pc].mask :
      f.got[l] = LoadedWords(LoadOf(s.code, f.warp, f.pc), l)

\* A queue has at most Depth entries, all of loads its producer has passed,
\* among them those of the loads in flight, in the order in which the MOVs of
\* its consumer take them; a core that all warps have left has empty queues.
QueueOK(s) ==
  /\ s.queue \in [Keys -> Seq(Entries)]
  /\ \A k \in Keys : Len(s.queue[k]) <= Depth
  /\ \A kind \in QueueKinds : \A w \in Warps :
       ~ s.warp[w].done => Behind(s.queue[<<kind, w>>], s.warp[w].pc)
  /\ (\A w \in Warps : s.warp[w].exited) => \A k \in Keys : s.queue[k] = <<>>
  /\ \A w \in Warps : ~ s.warp[w].done => s.code \in Programs
  /\ \A f \in s.flight :
       s.code[f.warp][f.pc].op = "qload" => FindsEntry(s, f)
  /\ PairsOK(s) /\ MovesOK(s)

\* What a step without an issue leaves alone.
Frame(s, t) ==
  /\ t.code = s.code /\ t.queue = s.queue
  /\ \A w \in Warps :
       /\ t.warp[w].pc = s.warp[w].pc
       /\ ~ t.warp[w].done => ~ s.warp[w].done
       /\ s.warp[w].exited => t.warp[w].exited
  /\ (\A w \in Warps : t.warp[w].exited) => \A w \in Warps : s.warp[w].exited
  /\ \A f \in t.flight : \E g \in s.flight :
       g.warp = f.warp /\ g.pc = f.pc /\ g.got = f.got

IInv ==
  /\ CoreInv(core) /\ QueueOK(core)
  /\ FetchOK(core, fetchBuf) /\ lastFetch \in Warps
-----------------------------------------------------------------------------
(* A warp by itself.                                                       *)

\* The number of warps is a number.
LEMMA NumberOfWarps == N \in Nat /\ 0 \in Warps /\ \A w \in Warps : w \in Nat
<1>1. N \in Nat
  BY WarpsAssumption, FS_CardinalityType DEF N
<1>2. Producers \in 1 .. N - 1 /\ Warps = 0 .. N - 1
  BY WarpsAssumption
<1> QED BY <1>1, <1>2

\* A set of two elements.
LEMMA TwoElements ==
  ASSUME NEW a, NEW b, a # b
  PROVE  Cardinality({a} \cup {b}) = 2
<1>1. IsFiniteSet({a}) /\ Cardinality({a}) = 1
  BY FS_Singleton
<1>2. b \notin {a}
  OBVIOUS
<1>3. Cardinality({a} \cup {b}) = Cardinality({a}) + 1
  BY <1>1, <1>2, FS_AddElement
<1> QED BY <1>1, <1>3

\* The valid entries of a buffer, counted.
LEMMA HeldCounts ==
  ASSUME NEW r, r.ibuf \in [1 .. 2 -> Nat]
  PROVE  /\ Cardinality({i \in 1 .. 2 : r.ibuf[i] # 0}) = Held(r)
         /\ {i \in 1 .. 2 : r.ibuf[i] # 0} = {} <=> Empty(r)
         /\ Held(r) \in Nat
         /\ Empty(r) => Held(r) = 0
<1> DEFINE S == {i \in 1 .. 2 : r.ibuf[i] # 0}
<1>1. CASE r.ibuf[1] = 0 /\ r.ibuf[2] = 0
  <2>1. S = {}
    BY <1>1
  <2> QED BY <1>1, <2>1, FS_EmptySet DEF Held, Empty
<1>2. CASE r.ibuf[1] # 0 /\ r.ibuf[2] = 0
  <2>1. S = {1}
    BY <1>2
  <2>2. Cardinality(S) = 1 /\ S # {}
    BY <2>1, FS_Singleton
  <2>3. Held(r) = 1 /\ ~ Empty(r)
    BY <1>2 DEF Held, Empty
  <2> QED BY <2>2, <2>3
<1>3. CASE r.ibuf[1] = 0 /\ r.ibuf[2] # 0
  <2>1. S = {2}
    BY <1>3
  <2>2. Cardinality(S) = 1 /\ S # {}
    BY <2>1, FS_Singleton
  <2>3. Held(r) = 1 /\ ~ Empty(r)
    BY <1>3 DEF Held, Empty
  <2> QED BY <2>2, <2>3
<1>4. CASE r.ibuf[1] # 0 /\ r.ibuf[2] # 0
  <2>1. S = {1} \cup {2}
    BY <1>4
  <2>2. Cardinality({1} \cup {2}) = 2
    <3>1. 1 # 2
      OBVIOUS
    <3> QED BY <3>1, TwoElements, Zenon
  <2> QED BY <1>4, <2>1, <2>2 DEF Held, Empty
<1> QED BY <1>1, <1>2, <1>3, <1>4

\* ibuffer_flush empties the buffer and takes what it held off the count.
LEMMA FlushEmpties ==
  ASSUME NEW r, WarpShape(r)
  PROVE  Flushed(r) = [pc |-> r.pc, next |-> r.next, ibuf |-> <<0, 0>>,
                       slot |-> r.slot, inPipe |-> r.inPipe - Held(r),
                       imiss |-> r.imiss, busy |-> r.busy, done |-> r.done,
                       exited |-> r.exited]
<1>1. Cardinality({i \in 1 .. 2 : r.ibuf[i] # 0}) = Held(r)
  BY HeldCounts DEF WarpShape
<1>2. Flushed(r) = [r EXCEPT !.ibuf = <<0, 0>>, !.inPipe = r.inPipe - Held(r)]
  BY <1>1 DEF Flushed
<1> QED BY <1>2 DEF WarpShape

\* A control hazard is resolved: the warp waits for the instruction at its pc.
LEMMA RefetchedWarp ==
  ASSUME NEW r, NEW code, NEW F, WarpOK(r, code, F), ~ Empty(r)
  PROVE  WarpOK([Flushed(r) EXCEPT !.next = r.pc], code, F)
<1>1. PICK x : x = [pc |-> r.pc, next |-> r.pc, ibuf |-> <<0, 0>>,
                    slot |-> r.slot, inPipe |-> r.inPipe - Held(r),
                    imiss |-> r.imiss, busy |-> r.busy, done |-> r.done,
                    exited |-> r.exited]
  OBVIOUS
<1>2. [Flushed(r) EXCEPT !.next = r.pc] = x
  BY <1>1, FlushEmpties DEF WarpOK
<1>3. /\ x.pc = r.pc /\ x.next = r.pc /\ x.ibuf = <<0, 0>>
      /\ x.slot = r.slot /\ x.inPipe = r.inPipe - Held(r)
      /\ x.imiss = r.imiss /\ x.done = r.done /\ x.exited = r.exited
      /\ x.busy = r.busy
  BY <1>1
<1>4. ~ r.done /\ ~ r.exited /\ r.imiss = 0
  BY DEF WarpOK
<1>5. WarpShape(x)
  BY <1>1, <1>3 DEF WarpOK, WarpShape
<1>6. Empty(x) /\ Held(x) = 0
  BY <1>3 DEF Empty, Held
<1>7. x.inPipe = Held(x) + Cardinality(F)
  <2>1. Held(r) \in Nat /\ Cardinality(F) \in Nat
    BY HeldCounts, FS_CardinalityType DEF WarpOK, WarpShape
  <2> QED BY <2>1, <1>3, <1>6 DEF WarpOK
<1>8. Running(x, code, F)
  BY <1>3, <1>4 DEF WarpOK, Running, Forward
<1>9. InProgram(x, code)
  BY <1>3 DEF WarpOK, InProgram
<1> QED BY <1>2, <1>3, <1>4, <1>5, <1>6, <1>7, <1>8, <1>9 DEF WarpOK
\* issue_warp and ibuffer_step on the warp, as Issue has them.
Stepped(r, i, taken) ==
  LET free == [r EXCEPT !.ibuf = [@ EXCEPT ![r.slot] = 0]]
      kept == IF i.op \in {"exit", "pexit"} THEN Flushed(free) ELSE free
  IN  [kept EXCEPT !.pc = IF taken THEN i.to ELSE r.pc + 1,
                   !.next = r.ibuf[r.slot] + 1,
                   !.slot = 3 - r.slot,
                   !.busy = @ \cup i.dst,
                   !.done = i.op = "exit"]

Freed(r) == [r.ibuf EXCEPT ![r.slot] = 0]

\* The record of the warp that has issued, field by field.
LEMMA SteppedFields ==
  ASSUME NEW r, NEW i, NEW taken, WarpShape(r)
  PROVE  \E h \in Nat :
    /\ h = (IF r.ibuf[3 - r.slot] # 0 THEN 1 ELSE 0)
    /\ Stepped(r, i, taken) =
         [pc |-> IF taken THEN i.to ELSE r.pc + 1,
          next |-> r.ibuf[r.slot] + 1,
          ibuf |-> IF i.op \in {"exit", "pexit"} THEN <<0, 0>> ELSE Freed(r),
          slot |-> 3 - r.slot,
          inPipe |-> IF i.op \in {"exit", "pexit"} THEN r.inPipe - h
                                                   ELSE r.inPipe,
          imiss |-> r.imiss, busy |-> r.busy \cup i.dst,
          done |-> i.op = "exit", exited |-> r.exited]
<1>1. PICK h : h = (IF r.ibuf[3 - r.slot] # 0 THEN 1 ELSE 0)
  OBVIOUS
<1>2. h \in Nat
  BY <1>1
<1>3. PICK free : free = [pc |-> r.pc, next |-> r.next, ibuf |-> Freed(r),
          slot |-> r.slot, inPipe |-> r.inPipe, imiss |-> r.imiss,
          busy |-> r.busy, done |-> r.done, exited |-> r.exited]
  OBVIOUS
<1>4. [r EXCEPT !.ibuf = [@ EXCEPT ![r.slot] = 0]] = free
  BY <1>3 DEF WarpShape, Freed
<1>5. Freed(r) \in [1 .. 2 -> Nat]
  BY DEF WarpShape, Freed
<1>6. WarpShape(free)
  BY <1>3, <1>5 DEF WarpShape
<1>7. Held(free) = h
  <2>1. free.ibuf = Freed(r) /\ r.slot \in 1 .. 2
    BY <1>3 DEF WarpShape
  <2>2. free.ibuf[r.slot] = 0 /\ free.ibuf[3 - r.slot] = r.ibuf[3 - r.slot]
    BY <2>1 DEF Freed, WarpShape
  <2>3. CASE r.slot = 1
    BY <2>2, <2>3, <1>1 DEF Held
  <2>4. CASE r.slot = 2
    BY <2>2, <2>4, <1>1 DEF Held
  <2> QED BY <2>1, <2>3, <2>4
<1>8. Flushed(free) = [pc |-> free.pc, next |-> free.next, ibuf |-> <<0, 0>>,
                       slot |-> free.slot, inPipe |-> free.inPipe - h,
                       imiss |-> free.imiss, busy |-> free.busy,
                       done |-> free.done, exited |-> free.exited]
  BY <1>6, <1>7, FlushEmpties
<1>9. PICK p : p = (IF taken THEN i.to ELSE r.pc + 1)
  OBVIOUS
<1>10. PICK d : d = (i.op = "exit")
  OBVIOUS
<1>11. CASE i.op \in {"exit", "pexit"}
  <2>1. PICK kept : kept =
          [pc |-> r.pc, next |-> r.next, ibuf |-> <<0, 0>>, slot |-> r.slot,
           inPipe |-> r.inPipe - h, imiss |-> r.imiss, busy |-> r.busy,
           done |-> r.done, exited |-> r.exited]
    OBVIOUS
  <2>2. Flushed(free) = kept
    BY <2>1, <1>8, <1>3
  <2>3. Stepped(r, i, taken) = [kept EXCEPT !.pc = p,
                   !.next = r.ibuf[r.slot] + 1, !.slot = 3 - r.slot,
                   !.busy = @ \cup i.dst, !.done = d]
    BY <2>2, <1>4, <1>9, <1>10, <1>11, Zenon DEF Stepped
  <2>4. Stepped(r, i, taken) =
          [pc |-> p, next |-> r.ibuf[r.slot] + 1, ibuf |-> <<0, 0>>,
           slot |-> 3 - r.slot, inPipe |-> r.inPipe - h, imiss |-> r.imiss,
           busy |-> r.busy \cup i.dst, done |-> d, exited |-> r.exited]
    BY <2>1, <2>3
  <2> QED BY <2>4, <1>1, <1>2, <1>9, <1>10, <1>11, Zenon
<1>12. CASE i.op \notin {"exit", "pexit"}
  <2>1. Stepped(r, i, taken) = [free EXCEPT !.pc = p,
                   !.next = r.ibuf[r.slot] + 1, !.slot = 3 - r.slot,
                   !.busy = @ \cup i.dst, !.done = d]
    BY <1>4, <1>9, <1>10, <1>12, Zenon DEF Stepped
  <2>2. Stepped(r, i, taken) =
          [pc |-> p, next |-> r.ibuf[r.slot] + 1, ibuf |-> Freed(r),
           slot |-> 3 - r.slot, inPipe |-> r.inPipe, imiss |-> r.imiss,
           busy |-> r.busy \cup i.dst, done |-> d, exited |-> r.exited]
    BY <1>3, <2>1
  <2> QED BY <2>2, <1>1, <1>2, <1>9, <1>10, <1>12, Zenon
<1> QED BY <1>11, <1>12

\* A warp that issues the instruction at its pc goes on to the next one, or,
\* with its exit, is done; the instruction is one more in flight.
LEMMA IssuedWarp ==
  ASSUME NEW r, NEW code, NEW F, NEW f, NEW taken,
         WarpOK(r, code, F), ~ r.done, ~ Empty(r), r.ibuf[r.slot] = r.pc,
         taken => code[r.pc].op = "branch", f.pc = r.pc,
         (code[r.pc].src \cup code[r.pc].dst) \cap r.busy = {}
  PROVE  WarpOK(Stepped(r, code[r.pc], taken), code, F \cup {f})
<1>1. PICK i : i = code[r.pc]
  OBVIOUS
<1>2. PICK h \in Nat :
        /\ h = (IF r.ibuf[3 - r.slot] # 0 THEN 1 ELSE 0)
        /\ Stepped(r, i, taken) =
             [pc |-> IF taken THEN i.to ELSE r.pc + 1,
              next |-> r.ibuf[r.slot] + 1,
              ibuf |-> IF i.op \in {"exit", "pexit"} THEN <<0, 0>> ELSE Freed(r),
              slot |-> 3 - r.slot,
              inPipe |-> IF i.op \in {"exit", "pexit"} THEN r.inPipe - h
                                                       ELSE r.inPipe,
              imiss |-> r.imiss, busy |-> r.busy \cup i.dst,
              done |-> i.op = "exit", exited |-> r.exited]
  BY SteppedFields DEF WarpOK
<1>3. PICK x : x = Stepped(r, i, taken)
  OBVIOUS
<1>4. /\ x.pc = (IF taken THEN i.to ELSE r.pc + 1)
      /\ x.next = r.pc + 1
      /\ x.ibuf = (IF i.op \in {"exit", "pexit"} THEN <<0, 0>> ELSE Freed(r))
      /\ x.slot = 3 - r.slot
      /\ x.inPipe = (IF i.op \in {"exit", "pexit"} THEN r.inPipe - h ELSE r.inPipe)
      /\ x.imiss = r.imiss /\ x.busy = r.busy \cup i.dst
  BY <1>2, <1>3
<1>5. x.done <=> i.op = "exit"
  <2>1. PICK d : d = (i.op = "exit")
    OBVIOUS
  <2>2. x = [pc |-> IF taken THEN i.to ELSE r.pc + 1,
             next |-> r.ibuf[r.slot] + 1,
             ibuf |-> IF i.op \in {"exit", "pexit"} THEN <<0, 0>> ELSE Freed(r),
             slot |-> 3 - r.slot,
             inPipe |-> IF i.op \in {"exit", "pexit"} THEN r.inPipe - h
                                                      ELSE r.inPipe,
             imiss |-> r.imiss, busy |-> r.busy \cup i.dst,
             done |-> d, exited |-> r.exited]
    BY <2>1, <1>2, <1>3, Zenon
  <2>3. x.done = d
    BY <2>2
  <2> QED BY <2>1, <2>3, Zenon
<1>6. x.exited = r.exited /\ x.done \in BOOLEAN
  <2>1. x.exited = r.exited
    BY <1>2, <1>3
  <2>2. PICK d : d = (i.op = "exit")
    OBVIOUS
  <2>3. x.done = d
    BY <1>2, <1>3, <2>2
  <2>4. d \in BOOLEAN
    BY <2>2, Zenon
  <2> QED BY <2>1, <2>3, <2>4
<1>7. /\ ~ r.exited /\ r.imiss = 0 /\ Running(r, code, F)
      /\ r.next = r.pc /\ r.ibuf[3 - r.slot] \in {0, r.pc + 1}
      /\ WarpShape(r) /\ IsFiniteSet(F) /\ r.inPipe = Held(r) + Cardinality(F)
  BY DEF WarpOK
<1>8. Forward(code) /\ r.pc \in 1 .. Len(code) /\ Len(code) \in Nat
  BY <1>7 DEF Running, Forward
<1>9. Freed(r) \in [1 .. 2 -> Nat] /\ Freed(r)[r.slot] = 0
      /\ Freed(r)[3 - r.slot] = r.ibuf[3 - r.slot]
  BY <1>7 DEF Freed, WarpShape
<1>10. i.op # "exit" => r.pc + 1 \in 1 .. Len(code)
  BY <1>1, <1>8 DEF Forward
<1>11. taken => i.to \in r.pc + 1 .. Len(code) /\ i.op # "exit"
  BY <1>1, <1>8 DEF Forward
<1>12. r.slot \in 1 .. 2 /\ r.ibuf \in [1 .. 2 -> Nat] /\ r.pc \in Nat
  BY <1>7 DEF WarpShape
<1>13. x.ibuf \in [1 .. 2 -> Nat]
  BY <1>4, <1>9
<1>14. x.pc \in Nat
  BY <1>4, <1>8, <1>11
<1>15. WarpShape(x)
  <2>1. x.imiss \in Nat /\ x.next \in Nat /\ x.slot \in 1 .. 2
    BY <1>4, <1>7, <1>12
  <2>2. x = [pc |-> x.pc, next |-> x.next, ibuf |-> x.ibuf, slot |-> x.slot,
             inPipe |-> x.inPipe, imiss |-> x.imiss, busy |-> x.busy,
             done |-> x.done, exited |-> x.exited]
    BY <1>2, <1>3
  <2>3. x.done \in BOOLEAN /\ x.exited \in BOOLEAN
    BY <1>6, <1>7 DEF WarpShape
  <2> QED BY <2>1, <2>2, <2>3, <1>13, <1>14 DEF WarpShape
<1>16. f \notin F /\ Cardinality(F \cup {f}) = Cardinality(F) + 1
       /\ IsFiniteSet(F \cup {f}) /\ Cardinality(F) \in Nat
  <2>1. f \notin F
    <3>1. \A g \in F : g.pc \in 0 .. r.pc - 1
      BY <1>7 DEF Running
    <3> QED BY <3>1, <1>12
  <2> QED BY <2>1, <1>7, FS_AddElement, FS_CardinalityType
<1>17. Held(r) = 1 + h
  <2>1. r.ibuf[r.slot] # 0
    BY <1>8
  <2>2. CASE r.slot = 1
    BY <2>1, <2>2, <1>2 DEF Held
  <2>3. CASE r.slot = 2
    BY <2>1, <2>3, <1>2 DEF Held
  <2> QED BY <2>2, <2>3, <1>12
<1>18. x.busy = Owed(code, F \cup {f}) /\ Apart(code, F \cup {f})
  <2>1. \A g \in F : g.pc \in 0 .. r.pc - 1
    BY <1>7 DEF Running
  <2>2. r.busy = Owed(code, F) /\ Apart(code, F)
    BY DEF WarpOK
  <2>3. Owed(code, F \cup {f}) = Owed(code, F) \cup i.dst
    BY <1>1 DEF Owed
  <2>4. \A g \in F : code[g.pc].dst \subseteq r.busy
    BY <2>2 DEF Owed
  <2>5. ASSUME NEW g \in F \cup {f}, NEW h2 \in F \cup {f}, g.pc < h2.pc
        PROVE  code[g.pc].dst \cap (code[h2.pc].src \cup code[h2.pc].dst) = {}
    <3>1. g \in F
      <4>1. CASE g = f /\ h2 = f
        BY <4>1, <2>5, <1>12
      <4>2. CASE g = f /\ h2 \in F
        BY <4>2, <2>1, <2>5, <1>12
      <4> QED BY <4>1, <4>2
    <3>2. CASE h2 \in F
      BY <3>1, <3>2, <2>2, <2>5 DEF Apart
    <3>3. CASE h2 = f
      BY <3>1, <3>3, <2>4
    <3> QED BY <3>2, <3>3
  <2> QED BY <2>2, <2>3, <2>5, <1>4 DEF Apart
<1>19. InProgram(x, code)
  BY <1>4, <1>8, <1>11 DEF InProgram
<1>20. CASE i.op \in {"exit", "pexit"}
  <2>1. Empty(x) /\ Held(x) = 0
    BY <1>4, <1>20 DEF Empty, Held
  <2>2. x.inPipe = Held(x) + Cardinality(F \cup {f})
    BY <2>1, <1>4, <1>7, <1>16, <1>17, <1>20
  <2>3. ~ x.done => Running(x, code, F \cup {f})
    <3>1. SUFFICES ASSUME ~ x.done PROVE Running(x, code, F \cup {f})
      OBVIOUS
    <3>2. x.pc \in 1 .. Len(code) /\ x.next \in 1 .. Len(code) /\ r.pc < x.pc
      BY <3>1, <1>4, <1>5, <1>8, <1>10, <1>11
    <3>3. \A g \in F \cup {f} : g.pc \in 0 .. x.pc - 1
      <4>1. \A g \in F : g.pc \in 0 .. r.pc - 1
        BY <1>7 DEF Running
      <4> QED BY <4>1, <3>2, <1>12
    <3> QED BY <3>2, <3>3, <2>1, <1>8 DEF Running, Empty
  <2> QED BY <1>1, <1>3, <2>1, <2>2, <2>3, <1>4, <1>6, <1>7, <1>15, <1>16, <1>18,
        <1>19 DEF WarpOK
<1>21. CASE i.op \notin {"exit", "pexit"}
  <2>1. x.ibuf = Freed(r) /\ x.inPipe = r.inPipe /\ ~ x.done
    BY <1>4, <1>5, <1>21
  <2>2. Held(x) = h
    <3>1. CASE r.slot = 1
      BY <3>1, <2>1, <1>2, <1>9 DEF Held
    <3>2. CASE r.slot = 2
      BY <3>2, <2>1, <1>2, <1>9 DEF Held
    <3> QED BY <3>1, <3>2, <1>12
  <2>3. x.inPipe = Held(x) + Cardinality(F \cup {f})
    BY <2>1, <2>2, <1>7, <1>16, <1>17
  <2>4. Running(x, code, F \cup {f})
    <3>1. x.pc \in 1 .. Len(code) /\ x.next \in 1 .. Len(code) /\ r.pc < x.pc
      BY <1>21, <1>4, <1>8, <1>10, <1>11
    <3>2. \A g \in F \cup {f} : g.pc \in 0 .. x.pc - 1
      <4>1. \A g \in F : g.pc \in 0 .. r.pc - 1
        BY <1>7 DEF Running
      <4> QED BY <4>1, <3>1, <1>12
    <3>3. x.ibuf[1] <= Len(code) /\ x.ibuf[2] <= Len(code)
      <4>1. r.ibuf[1] <= Len(code) /\ r.ibuf[2] <= Len(code)
        BY <1>7 DEF Running
      <4>2. CASE r.slot = 1
        BY <4>1, <4>2, <2>1, <1>8, <1>9
      <4>3. CASE r.slot = 2
        BY <4>1, <4>3, <2>1, <1>8, <1>9
      <4> QED BY <4>2, <4>3, <1>12
    <3> QED BY <3>1, <3>2, <3>3, <1>8 DEF Running
  <2>5. ~ Empty(x) => /\ x.ibuf[x.slot] = x.next
                      /\ x.ibuf[3 - x.slot] \in {0, x.next + 1}
    <3>1. CASE r.slot = 1
      BY <3>1, <2>1, <1>4, <1>7, <1>9 DEF Empty
    <3>2. CASE r.slot = 2
      BY <3>2, <2>1, <1>4, <1>7, <1>9 DEF Empty
    <3> QED BY <3>1, <3>2, <1>12
  <2> QED BY <1>1, <1>3, <2>1, <2>3, <2>4, <2>5, <1>4, <1>6, <1>7, <1>15, <1>16, <1>18,
        <1>19 DEF WarpOK
<1> QED BY <1>20, <1>21

\* The instructions in flight of a warp change, but not their number.
LEMMA SameNumber ==
  ASSUME NEW r, NEW code, NEW F, NEW G, WarpOK(r, code, F),
         IsFiniteSet(G), Cardinality(G) = Cardinality(F), F = {} => G = {},
         \A g \in G : \E f \in F : g.pc = f.pc,
         \A f \in F : \E g \in G : g.pc = f.pc
  PROVE  WarpOK(r, code, G)
<1>1. Owed(code, G) = Owed(code, F)
  BY DEF Owed
<1>2. Apart(code, F) => Apart(code, G)
  BY DEF Apart
<1> QED BY <1>1, <1>2 DEF WarpOK, Running

\* writeback: one instruction less in the pipeline, and in flight.
LEMMA WrittenBack ==
  ASSUME NEW r, NEW code, NEW F, NEW f \in F, NEW regs, WarpOK(r, code, F),
         regs = r.busy \ code[f.pc].dst,
         \A g \in F : g.pc \in Nat /\ (g.pc = f.pc => g = f)
  PROVE  WarpOK([r EXCEPT !.busy = regs, !.inPipe = r.inPipe - 1], code, F \ {f})
<1>1. PICK x : x = [r EXCEPT !.busy = regs, !.inPipe = r.inPipe - 1]
  OBVIOUS
<1>2. x = [pc |-> r.pc, next |-> r.next, ibuf |-> r.ibuf, slot |-> r.slot,
           inPipe |-> r.inPipe - 1, imiss |-> r.imiss, busy |-> regs,
           done |-> r.done, exited |-> r.exited]
  BY <1>1 DEF WarpOK, WarpShape
<1>3. /\ x.pc = r.pc /\ x.next = r.next /\ x.ibuf = r.ibuf /\ x.slot = r.slot
      /\ x.inPipe = r.inPipe - 1 /\ x.imiss = r.imiss
      /\ x.done = r.done /\ x.exited = r.exited /\ x.busy = regs
  BY <1>2
<1>4. WarpShape(x)
  BY <1>2, <1>3 DEF WarpOK, WarpShape
<1>5. Held(x) = Held(r) /\ (Empty(x) <=> Empty(r)) /\ Held(r) \in Nat
  BY <1>3 DEF Held, Empty
<1>6. /\ IsFiniteSet(F) /\ Cardinality(F) \in Nat
      /\ IsFiniteSet(F \ {f}) /\ Cardinality(F \ {f}) = Cardinality(F) - 1
  BY FS_RemoveElement, FS_CardinalityType DEF WarpOK
<1>7. x.inPipe = Held(x) + Cardinality(F \ {f})
  BY <1>3, <1>5, <1>6 DEF WarpOK
<1>8. r.busy = Owed(code, F) /\ Apart(code, F)
  BY DEF WarpOK
<1>9. \A g \in F \ {f} : code[g.pc].dst \cap code[f.pc].dst = {}
  <2> SUFFICES ASSUME NEW g \in F \ {f}
               PROVE  code[g.pc].dst \cap code[f.pc].dst = {}
    OBVIOUS
  <2>1. g.pc < f.pc \/ f.pc < g.pc
    OBVIOUS
  <2> QED BY <2>1, <1>8 DEF Apart
<1>10. x.busy = Owed(code, F \ {f})
  BY <1>3, <1>8, <1>9 DEF Owed
<1>11. Apart(code, F \ {f})
  BY <1>8 DEF Apart
<1>12. InProgram(x, code)
  BY <1>3 DEF WarpOK, InProgram
<1> QED BY <1>1, <1>3, <1>4, <1>5, <1>6, <1>7, <1>10, <1>11, <1>12
        DEF WarpOK, Running

\* A reclaimed warp has nothing in its buffer and nothing in flight.
LEMMA ReclaimedWarp ==
  ASSUME NEW r, NEW code, NEW F, WarpOK(r, code, F), r.done, r.inPipe = 0
  PROVE  WarpOK([r EXCEPT !.exited = TRUE], code, F)
<1>1. PICK x : x = [r EXCEPT !.exited = TRUE]
  OBVIOUS
<1>2. x = [pc |-> r.pc, next |-> r.next, ibuf |-> r.ibuf, slot |-> r.slot,
           inPipe |-> r.inPipe, imiss |-> r.imiss, busy |-> r.busy,
           done |-> r.done, exited |-> TRUE]
  BY <1>1 DEF WarpOK, WarpShape
<1>3. /\ x.pc = r.pc /\ x.next = r.next /\ x.ibuf = r.ibuf /\ x.slot = r.slot
      /\ x.inPipe = r.inPipe /\ x.imiss = r.imiss
      /\ x.done = r.done /\ x.exited /\ x.busy = r.busy
  BY <1>2
<1>4. WarpShape(x)
  BY <1>2, <1>3 DEF WarpOK, WarpShape
<1>5. Held(x) = Held(r) /\ (Empty(x) <=> Empty(r)) /\ Held(r) \in Nat
  BY <1>3 DEF Held, Empty
<1>6. F = {}
  <2>1. Cardinality(F) \in Nat /\ r.inPipe = Held(r) + Cardinality(F)
    BY FS_CardinalityType DEF WarpOK
  <2>2. Cardinality(F) = 0
    BY <2>1, <1>5
  <2> QED BY <2>2, FS_EmptySet DEF WarpOK
<1>7. InProgram(x, code)
  BY <1>3 DEF WarpOK, InProgram
<1> QED BY <1>1, <1>3, <1>4, <1>5, <1>6, <1>7 DEF WarpOK

\* A warp of a new CTA starts with an empty buffer and nothing in flight.
LEMMA StartedWarp ==
  ASSUME NEW r, NEW old, NEW code, NEW F, WarpOK(r, old, F), r.exited,
         Forward(code)
  PROVE  WarpOK(InitWarp(r), code, F)
<1>1. PICK x : x = InitWarp(r)
  OBVIOUS
<1>2. x = [pc |-> 1, next |-> 1, ibuf |-> r.ibuf, slot |-> 1,
           inPipe |-> r.inPipe, imiss |-> 0, busy |-> r.busy,
           done |-> FALSE, exited |-> FALSE]
  BY <1>1 DEF WarpOK, WarpShape, InitWarp
<1>3. /\ x.pc = 1 /\ x.next = 1 /\ x.ibuf = r.ibuf /\ x.slot = 1
      /\ x.inPipe = r.inPipe /\ x.imiss = 0
      /\ ~ x.done /\ ~ x.exited /\ x.busy = r.busy
  BY <1>2
<1>4. WarpShape(x)
  BY <1>2, <1>3 DEF WarpOK, WarpShape
<1>5. Held(x) = Held(r) /\ (Empty(x) <=> Empty(r))
  BY <1>3 DEF Held, Empty
<1>6. F = {} /\ Empty(r)
  BY DEF WarpOK
<1>7. Running(x, code, F)
  BY <1>3, <1>6 DEF Running, Forward, Empty
<1>8. x.busy = Owed(code, F) /\ Apart(code, F)
  <2>1. Owed(old, {}) = {} /\ Owed(code, {}) = {} /\ Apart(code, {})
    BY DEF Owed, Apart
  <2>2. r.busy = Owed(old, F)
    BY DEF WarpOK
  <2> QED BY <2>1, <2>2, <1>3, <1>6
<1>9. InProgram(x, code)
  BY <1>3 DEF Forward, InProgram
<1> QED BY <1>1, <1>3, <1>4, <1>5, <1>6, <1>7, <1>8, <1>9 DEF WarpOK

\* A miss of a warp that waits for its instruction, recorded or answered.
LEMMA MissedWarp ==
  ASSUME NEW r, NEW code, NEW F, NEW m \in {0, r.next}, WarpOK(r, code, F),
         Starved(r)
  PROVE  WarpOK([r EXCEPT !.imiss = m], code, F)
<1>1. PICK x : x = [r EXCEPT !.imiss = m]
  OBVIOUS
<1>2. x = [pc |-> r.pc, next |-> r.next, ibuf |-> r.ibuf, slot |-> r.slot,
           inPipe |-> r.inPipe, imiss |-> m, busy |-> r.busy,
           done |-> r.done, exited |-> r.exited]
  BY <1>1 DEF WarpOK, WarpShape
<1>3. /\ x.pc = r.pc /\ x.next = r.next /\ x.ibuf = r.ibuf /\ x.slot = r.slot
      /\ x.inPipe = r.inPipe /\ x.imiss = m
      /\ x.done = r.done /\ x.exited = r.exited /\ x.busy = r.busy
  BY <1>2
<1>4. WarpShape(x)
  BY <1>2, <1>3 DEF WarpOK, WarpShape
<1>5. Held(x) = Held(r) /\ (Empty(x) <=> Empty(r))
  BY <1>3 DEF Held, Empty
<1>6. InProgram(x, code)
  BY <1>3 DEF WarpOK, InProgram
<1> QED BY <1>1, <1>3, <1>4, <1>5, <1>6 DEF WarpOK, Running, Starved

\* decode fills the empty buffer with the next instruction and the one behind.
LEMMA DecodedWarp ==
  ASSUME NEW r, NEW code, NEW F, NEW two, WarpOK(r, code, F), Starved(r),
         r.imiss = 0, two <=> r.next < Len(code)
  PROVE  WarpOK([r EXCEPT !.ibuf = <<r.next, IF two THEN r.next + 1 ELSE 0>>,
                          !.slot = 1,
                          !.inPipe = r.inPipe + (IF two THEN 2 ELSE 1)],
                code, F)
<1>1. PICK b : b = <<r.next, IF two THEN r.next + 1 ELSE 0>>
  OBVIOUS
<1>2. PICK n : n = (IF two THEN 2 ELSE 1)
  OBVIOUS
<1>3. PICK x : x = [r EXCEPT !.ibuf = b, !.slot = 1, !.inPipe = r.inPipe + n]
  OBVIOUS
<1>4. x = [pc |-> r.pc, next |-> r.next, ibuf |-> b, slot |-> 1,
           inPipe |-> r.inPipe + n, imiss |-> r.imiss, busy |-> r.busy,
           done |-> r.done, exited |-> r.exited]
  BY <1>3 DEF WarpOK, WarpShape
<1>5. /\ x.pc = r.pc /\ x.next = r.next /\ x.ibuf = b /\ x.slot = 1
      /\ x.inPipe = r.inPipe + n /\ x.imiss = r.imiss
      /\ x.done = r.done /\ x.exited = r.exited /\ x.busy = r.busy
  BY <1>4
<1>6. ~ r.done /\ Running(r, code, F) /\ Empty(r)
  BY DEF WarpOK, Starved
<1>7. r.next \in 1 .. Len(code) /\ Len(code) \in Nat
  BY <1>6 DEF Running, Forward
<1>8. b[1] = r.next /\ b[2] = (IF two THEN r.next + 1 ELSE 0)
  BY <1>1
<1>9. b \in [1 .. 2 -> Nat]
  BY <1>1, <1>7
<1>10. WarpShape(x)
  BY <1>4, <1>5, <1>9 DEF WarpOK, WarpShape
<1>11. Held(x) = n /\ ~ Empty(x) /\ Held(r) = 0
  BY <1>2, <1>5, <1>6, <1>7, <1>8 DEF Held, Empty
<1>12. x.inPipe = Held(x) + Cardinality(F)
  <2>1. Cardinality(F) \in Nat
    BY FS_CardinalityType DEF WarpOK
  <2>2. r.inPipe = Held(r) + Cardinality(F) /\ n \in Nat
    BY <1>2 DEF WarpOK
  <2> QED BY <2>1, <2>2, <1>5, <1>11
<1>13. Running(x, code, F)
  <2>1. b[1] <= Len(code)
    BY <1>7, <1>8
  <2>2. b[2] <= Len(code)
    BY <1>7, <1>8
  <2> QED BY <2>1, <2>2, <1>5, <1>6 DEF Running
<1>14. x.ibuf[x.slot] = x.next /\ x.ibuf[3 - x.slot] \in {0, x.next + 1}
  BY <1>5, <1>8
<1>15. InProgram(x, code)
  BY <1>5 DEF WarpOK, InProgram
<1>16. WarpOK(x, code, F)
  BY <1>5, <1>6, <1>10, <1>11, <1>12, <1>13, <1>14, <1>15 DEF WarpOK
<1> QED BY <1>1, <1>2, <1>3, <1>16
-----------------------------------------------------------------------------
(* The operations of a core.                                               *)

\* What is free, valid and at the pc of its warp can issue.
Fit(s, w) ==
  /\ w \in Warps
  /\ ~ s.warp[w].done /\ ~ Empty(s.warp[w])
  /\ s.warp[w].ibuf[s.warp[w].slot] = s.warp[w].pc
  /\ UnitFree(s, s.code[w][s.warp[w].pc].unit)
  /\ ~ Collides(s, w)

\* What Issue does to the warps and the instructions in flight.
LEMMA IssueFields ==
  ASSUME NEW s, NEW w, NEW taken, CoreShape(s), w \in Warps
  PROVE  \E t, x :
    /\ t = Issue(s, w, taken)
    /\ CoreShape(t)
    /\ t.code = s.code
    /\ t.warp[w] = Stepped(s.warp[w], Inst(s, w), taken)
    /\ \A v \in Warps \ {w} : t.warp[v] = s.warp[v]
    /\ t.flight = s.flight \cup {x}
    /\ x = [warp |-> w, pc |-> NextPc(s, w), unit |-> Inst(s, w).unit,
            inID |-> TRUE, got |-> x.got]
    /\ x.got = Found(s, Inst(s, w), w)
    /\ t.queue = IF UsesQueue(Inst(s, w))
                 THEN QueuesAfter(s, Inst(s, w), w, NextPc(s, w)) ELSE s.queue
<1>1. PICK q : q = IF UsesQueue(Inst(s, w))
                   THEN QueuesAfter(s, Inst(s, w), w, NextPc(s, w)) ELSE s.queue
  OBVIOUS
<1>2. PICK b : b =
        CASE Inst(s, w).op = "bar"  -> WarpReaches(s.bars, Cta, w,
                               [type |-> "SYNC", bar |-> 0, count |-> All])
          [] Inst(s, w).op = "exit" -> WarpExit(s.bars, Cta, w)
          [] OTHER                  -> s.bars
  OBVIOUS
<1>3. PICK x : x = [warp |-> w, pc |-> NextPc(s, w), unit |-> Inst(s, w).unit,
                    inID |-> TRUE, got |-> Found(s, Inst(s, w), w)]
  OBVIOUS
<1>4. PICK y : y = Stepped(s.warp[w], Inst(s, w), taken)
  OBVIOUS
<1>5. Issue(s, w, taken) =
        [s EXCEPT !.warp = [s.warp EXCEPT ![w] = y],
                  !.flight = s.flight \cup {x}, !.queue = q, !.bars = b]
  BY <1>1, <1>2, <1>3, <1>4 DEF Issue, Stepped, NextPc
<1>6. PICK t : t = [code |-> s.code, warp |-> [s.warp EXCEPT ![w] = y],
                    flight |-> s.flight \cup {x}, queue |-> q, bars |-> b]
  OBVIOUS
<1>7. t = Issue(s, w, taken)
  BY <1>5, <1>6 DEF CoreShape
<1>8. CoreShape(t)
  BY <1>6 DEF CoreShape
<1>9. t.warp[w] = y /\ \A v \in Warps \ {w} : t.warp[v] = s.warp[v]
  BY <1>6 DEF CoreShape
<1>10. t.code = s.code /\ t.flight = s.flight \cup {x} /\ t.queue = q
  BY <1>6
<1>11. /\ x = [warp |-> w, pc |-> NextPc(s, w), unit |-> Inst(s, w).unit,
               inID |-> TRUE, got |-> x.got]
       /\ x.got = Found(s, Inst(s, w), w)
  BY <1>3
<1> QED BY <1>1, <1>4, <1>7, <1>8, <1>9, <1>10, <1>11

\* The instruction at pc sends its warp to the next one, or to its target.
GoesTo(i, pc, next) == next = pc + 1 \/ (i.op = "branch" /\ next = i.to)

\* An issue keeps the core in order, touches no other warp, and takes one
\* ID_OC register.
LEMMA IssueKeeps ==
  ASSUME NEW s, NEW w, NEW taken \in Outcomes(s, w), CoreInv(s), Fit(s, w)
  PROVE  \E t, x :
    /\ t = Issue(s, w, taken)
    /\ CoreInv(t) /\ Waits(s, t)
    /\ t.code = s.code
    /\ \A v \in Warps \ {w} : t.warp[v] = s.warp[v]
    /\ t.flight = s.flight \cup {x} /\ x.unit = Inst(s, w).unit
    /\ x.warp = w /\ x.pc = s.warp[w].pc /\ x.got = Found(s, Inst(s, w), w)
    /\ GoesTo(Inst(s, w), s.warp[w].pc, t.warp[w].pc)
    /\ t.queue = IF UsesQueue(Inst(s, w))
                 THEN QueuesAfter(s, Inst(s, w), w, s.warp[w].pc) ELSE s.queue
<1>1. PICK t, x :
        /\ t = Issue(s, w, taken)
        /\ CoreShape(t)
        /\ t.code = s.code
        /\ t.warp[w] = Stepped(s.warp[w], Inst(s, w), taken)
        /\ \A v \in Warps \ {w} : t.warp[v] = s.warp[v]
        /\ t.flight = s.flight \cup {x}
        /\ x = [warp |-> w, pc |-> NextPc(s, w), unit |-> Inst(s, w).unit,
                inID |-> TRUE, got |-> x.got]
        /\ x.got = Found(s, Inst(s, w), w)
        /\ t.queue = IF UsesQueue(Inst(s, w))
                     THEN QueuesAfter(s, Inst(s, w), w, NextPc(s, w)) ELSE s.queue
  BY IssueFields DEF CoreInv, Fit
<1>2. /\ w \in Warps /\ ~ s.warp[w].done /\ ~ Empty(s.warp[w])
      /\ NextPc(s, w) = s.warp[w].pc
      /\ Inst(s, w) = s.code[w][s.warp[w].pc]
  BY DEF Fit, NextPc, Inst
<1>3. x.warp = w /\ x.pc = s.warp[w].pc /\ x.unit = Inst(s, w).unit /\ x.inID
  BY <1>1, <1>2
<1>4. WarpOK(s.warp[w], s.code[w], Flying(s.flight, w))
  BY <1>2 DEF CoreInv
<1>5. taken => Inst(s, w).op = "branch"
  BY DEF Outcomes
<1>6. WarpOK(t.warp[w], s.code[w], Flying(s.flight, w) \cup {x})
  <2>1. PICK r : r = s.warp[w]
    OBVIOUS
  <2>2. PICK code : code = s.code[w]
    OBVIOUS
  <2>3. PICK F : F = Flying(s.flight, w)
    OBVIOUS
  <2>4. /\ WarpOK(r, code, F) /\ ~ r.done /\ ~ Empty(r)
        /\ r.ibuf[r.slot] = r.pc
        /\ taken => code[r.pc].op = "branch"
        /\ x.pc = r.pc
        /\ (code[r.pc].src \cup code[r.pc].dst) \cap r.busy = {}
    BY <2>1, <2>2, <2>3, <1>2, <1>3, <1>4, <1>5 DEF Fit, Collides
  <2>5. WarpOK(Stepped(r, code[r.pc], taken), code, F \cup {x})
    BY <2>4, IssuedWarp, Zenon
  <2> QED BY <2>1, <2>2, <2>3, <2>5, <1>1, <1>2
<1>7. Flying(t.flight, w) = Flying(s.flight, w) \cup {x}
  BY <1>1, <1>3 DEF Flying
<1>8. \A v \in Warps \ {w} : Flying(t.flight, v) = Flying(s.flight, v)
  BY <1>1, <1>3 DEF Flying
<1>9. \A v \in Warps : WarpOK(t.warp[v], t.code[v], Flying(t.flight, v))
  <2> SUFFICES ASSUME NEW v \in Warps
               PROVE  WarpOK(t.warp[v], t.code[v], Flying(t.flight, v))
    OBVIOUS
  <2>1. CASE v = w
    BY <2>1, <1>1, <1>6, <1>7
  <2>2. CASE v # w
    BY <2>2, <1>1, <1>8 DEF CoreInv
  <2> QED BY <2>1, <2>2
<1>10. FlightOK(t.flight)
  <2>1. s.warp[w].pc \in Nat
    BY <1>4 DEF WarpOK, WarpShape
  <2>2. FlightShape(x)
    BY <1>1, <1>2, <1>3, <2>1 DEF FlightShape
  <2>3. \A f \in s.flight : f.warp = w => f.pc # x.pc
    <3>1. \A f \in Flying(s.flight, w) : f.pc \in 0 .. s.warp[w].pc - 1
      BY <1>2, <1>4 DEF WarpOK, Running
    <3> QED BY <3>1, <1>3, <2>1 DEF Flying
  <2>4. \A f \in s.flight : f.inID => f.unit # x.unit
    BY <1>2, <1>3 DEF Fit, UnitFree
  <2>5. FlightOK(s.flight)
    BY DEF CoreInv
  <2>6. \A f \in t.flight : FlightShape(f)
    BY <1>1, <2>2, <2>5 DEF FlightOK
  <2>7. \A f, g \in t.flight : f.warp = g.warp /\ f.pc = g.pc => f = g
    BY <1>1, <1>3, <2>3, <2>5 DEF FlightOK
  <2>8. \A f, g \in t.flight : f.inID /\ g.inID /\ f.unit = g.unit => f = g
    <3> SUFFICES ASSUME NEW f \in t.flight, NEW g \in t.flight,
                        f.inID, g.inID, f.unit = g.unit
                 PROVE  f = g
      OBVIOUS
    <3>1. CASE f \in s.flight /\ g \in s.flight
      BY <3>1, <2>5 DEF FlightOK
    <3>2. CASE f = x /\ g = x
      BY <3>2
    <3>3. CASE f = x /\ g \in s.flight
      BY <3>3, <2>4
    <3>4. CASE g = x /\ f \in s.flight
      BY <3>4, <2>4
    <3> QED BY <3>1, <3>2, <3>3, <3>4, <1>1
  <2> QED BY <2>6, <2>7, <2>8 DEF FlightOK
<1>11. Waits(s, t)
  BY <1>1, <1>2 DEF Waits, Starved
<1>12. CoreInv(t)
  BY <1>1, <1>9, <1>10 DEF CoreInv
<1>13. t.queue = IF UsesQueue(Inst(s, w))
                 THEN QueuesAfter(s, Inst(s, w), w, s.warp[w].pc) ELSE s.queue
  BY <1>1, <1>2, Zenon
<1>14. GoesTo(Inst(s, w), s.warp[w].pc, t.warp[w].pc)
  <2>1. PICK r : r = s.warp[w]
    OBVIOUS
  <2>2. PICK i : i = Inst(s, w)
    OBVIOUS
  <2>3. Stepped(r, i, taken).pc = IF taken THEN i.to ELSE r.pc + 1
    BY <2>1, <1>4, SteppedFields DEF WarpOK
  <2>4. t.warp[w] = Stepped(r, i, taken)
    BY <2>1, <2>2, <1>1
  <2> QED BY <2>1, <2>2, <2>3, <2>4, <1>5 DEF GoesTo
<1> QED BY <1>1, <1>3, <1>11, <1>12, <1>13, <1>14, Zenon

\* A core whose warps change, and nothing in flight.
LEMMA OnlyWarps ==
  ASSUME NEW s, NEW t, CoreInv(s), CoreShape(t), t.flight = s.flight,
         \A w \in Warps : WarpOK(t.warp[w], t.code[w], Flying(s.flight, w))
  PROVE  CoreInv(t)
BY DEF CoreInv

\* Flushed warps take up at the pc of their SIMT stack.
LEMMA RefetchKeeps ==
  ASSUME NEW s, NEW ws, CoreInv(s), \A w \in ws : ~ Empty(s.warp[w])
  PROVE  \E t :
    /\ t = Refetch(s, ws)
    /\ CoreInv(t) /\ Waits(s, t)
    /\ t.code = s.code /\ t.flight = s.flight /\ Frame(s, t)
    /\ \A w \in Warps \ ws : t.warp[w] = s.warp[w]
<1>1. PICK t : t = [code |-> s.code,
         warp |-> [w \in Warps |->
            IF w \in ws THEN [Flushed(s.warp[w]) EXCEPT !.next = s.warp[w].pc]
                        ELSE s.warp[w]],
         flight |-> s.flight, queue |-> s.queue, bars |-> s.bars]
  OBVIOUS
<1>2. t = Refetch(s, ws)
  BY <1>1 DEF Refetch, CoreInv, CoreShape
<1>3. /\ t.code = s.code /\ t.flight = s.flight
      /\ \A w \in Warps \ ws : t.warp[w] = s.warp[w]
      /\ \A w \in Warps \cap ws :
           t.warp[w] = [Flushed(s.warp[w]) EXCEPT !.next = s.warp[w].pc]
  BY <1>1
<1>4. CoreShape(t)
  BY <1>1 DEF CoreShape
<1>5. \A w \in Warps : WarpOK(t.warp[w], t.code[w], Flying(s.flight, w))
  <2> SUFFICES ASSUME NEW w \in Warps
               PROVE  WarpOK(t.warp[w], t.code[w], Flying(s.flight, w))
    OBVIOUS
  <2>1. PICK r : r = s.warp[w]
    OBVIOUS
  <2>2. WarpOK(r, s.code[w], Flying(s.flight, w))
    BY <2>1 DEF CoreInv
  <2>3. CASE w \in ws
    <3>1. WarpOK([Flushed(r) EXCEPT !.next = r.pc], s.code[w], Flying(s.flight, w))
      BY <2>1, <2>2, <2>3, RefetchedWarp
    <3> QED BY <3>1, <2>1, <2>3, <1>3
  <2>4. CASE w \notin ws
    BY <2>1, <2>2, <2>4, <1>3
  <2> QED BY <2>3, <2>4
<1>6. Waits(s, t)
  BY <1>3 DEF Waits, Starved
<1>7. CoreInv(t)
  BY <1>3, <1>4, <1>5, OnlyWarps
<1>8. \A w \in Warps : /\ t.warp[w].pc = s.warp[w].pc
                       /\ t.warp[w].done = s.warp[w].done
                       /\ t.warp[w].exited = s.warp[w].exited
  <2> SUFFICES ASSUME NEW w \in Warps
               PROVE  /\ t.warp[w].pc = s.warp[w].pc
                      /\ t.warp[w].done = s.warp[w].done
                      /\ t.warp[w].exited = s.warp[w].exited
    OBVIOUS
  <2>1. PICK r : r = s.warp[w]
    OBVIOUS
  <2>2. WarpShape(r)
    BY <2>1 DEF CoreInv, WarpOK
  <2>3. PICK x : x = [Flushed(r) EXCEPT !.next = r.pc]
    OBVIOUS
  <2>4. x.pc = r.pc /\ x.done = r.done /\ x.exited = r.exited
    BY <2>2, <2>3, FlushEmpties
  <2>5. t.warp[w] = x \/ t.warp[w] = r
    BY <2>1, <2>3, <1>3
  <2> QED BY <2>1, <2>4, <2>5
<1>9. t.queue = s.queue
  BY <1>1
<1>10. Frame(s, t)
  BY <1>3, <1>8, <1>9 DEF Frame
<1> QED BY <1>2, <1>3, <1>6, <1>7, <1>10

\* A reclaimed warp leaves the others as they are.
LEMMA ReclaimKeeps ==
  ASSUME NEW s, NEW ws, CoreInv(s), \A w \in ws : Reclaimable(s, w)
  PROVE  \E t :
    /\ t = Reclaimed(s, ws)
    /\ CoreInv(t) /\ Waits(s, t)
    /\ \A w \in Warps : ~ s.warp[w].done => t.warp[w] = s.warp[w]
    /\ \/ Frame(s, t)
       \/ /\ \A w \in Warps : t.warp[w].exited
          /\ t.queue = [k \in Keys |-> <<>>]
<1>0. PICK gone : gone = [w \in Warps |->
        IF w \in ws THEN [s.warp[w] EXCEPT !.exited = TRUE] ELSE s.warp[w]]
  OBVIOUS
<1>1. PICK u : u = [code |-> s.code, warp |-> gone, flight |-> s.flight,
                    queue |-> s.queue, bars |-> s.bars]
  OBVIOUS
<1>2. [s EXCEPT !.warp = [w \in Warps |->
         IF w \in ws THEN [@[w] EXCEPT !.exited = TRUE] ELSE @[w]]] = u
  <2>1. [s EXCEPT !.warp = gone] = u
    BY <1>1 DEF CoreInv, CoreShape
  <2> QED BY <2>1, <1>0, Zenon
<1>3. PICK t : t = IF ws # {} /\ \A w \in Warps : u.warp[w].exited
                   THEN [u EXCEPT !.bars = DeallocateBarrier(@, Cta),
                                  !.queue = [k \in Keys |-> <<>>]]
                   ELSE u
  OBVIOUS
<1>4. t = Reclaimed(s, ws)
  BY <1>2, <1>3, Zenon DEF Reclaimed
<1>5. t.code = u.code /\ t.warp = u.warp /\ t.flight = u.flight
      /\ t = [code |-> t.code, warp |-> t.warp, flight |-> t.flight,
              queue |-> t.queue, bars |-> t.bars]
  <2>1. PICK b : b = DeallocateBarrier(u.bars, Cta)
    OBVIOUS
  <2>2. PICK q : q = [k \in Keys |-> <<>>]
    OBVIOUS
  <2>3. t = [u EXCEPT !.bars = b, !.queue = q] \/ t = u
    BY <1>3, <2>1, <2>2
  <2> QED BY <2>3, <1>1
<1>6. /\ t.code = s.code /\ t.flight = s.flight
      /\ \A w \in Warps \ ws : t.warp[w] = s.warp[w]
      /\ \A w \in Warps \cap ws : t.warp[w] = [s.warp[w] EXCEPT !.exited = TRUE]
  BY <1>0, <1>1, <1>5
<1>7. CoreShape(t)
  BY <1>0, <1>1, <1>5 DEF CoreShape
<1>8. \A w \in ws : s.warp[w].done /\ s.warp[w].inPipe = 0
  BY DEF Reclaimable
<1>9. \A w \in Warps : WarpOK(t.warp[w], t.code[w], Flying(s.flight, w))
  <2> SUFFICES ASSUME NEW w \in Warps
               PROVE  WarpOK(t.warp[w], t.code[w], Flying(s.flight, w))
    OBVIOUS
  <2>1. PICK r : r = s.warp[w]
    OBVIOUS
  <2>2. WarpOK(r, s.code[w], Flying(s.flight, w))
    BY <2>1 DEF CoreInv
  <2>3. CASE w \in ws
    <3>1. WarpOK([r EXCEPT !.exited = TRUE], s.code[w], Flying(s.flight, w))
      BY <2>1, <2>2, <2>3, <1>8, ReclaimedWarp
    <3> QED BY <3>1, <2>1, <2>3, <1>6
  <2>4. CASE w \notin ws
    BY <2>1, <2>2, <2>4, <1>6
  <2> QED BY <2>3, <2>4
<1>10. Waits(s, t) /\ \A w \in Warps : ~ s.warp[w].done => t.warp[w] = s.warp[w]
  BY <1>6, <1>8 DEF Waits, Starved
<1>11. CoreInv(t)
  BY <1>6, <1>7, <1>9, OnlyWarps
<1>12. CASE ws # {} /\ \A w \in Warps : u.warp[w].exited
  <2>1. t.queue = [k \in Keys |-> <<>>]
    <3>1. PICK b : b = DeallocateBarrier(u.bars, Cta)
      OBVIOUS
    <3>2. PICK q : q = [k \in Keys |-> <<>>]
      OBVIOUS
    <3>3. t = [u EXCEPT !.bars = b, !.queue = q]
      BY <1>3, <1>12, <3>1, <3>2
    <3> QED BY <3>2, <3>3, <1>1
  <2> QED BY <2>1, <1>4, <1>5, <1>10, <1>11, <1>12
<1>13. CASE ~ (ws # {} /\ \A w \in Warps : u.warp[w].exited)
  <2>1. t = u
    BY <1>3, <1>13
  <2>2. t.queue = s.queue
    BY <2>1, <1>1
  <2>3. (\A w \in Warps : t.warp[w].exited) => \A w \in Warps : s.warp[w].exited
    BY <2>1, <1>6, <1>13
  <2>4. \A w \in Warps : /\ t.warp[w].pc = s.warp[w].pc
                         /\ t.warp[w].done = s.warp[w].done
                         /\ s.warp[w].exited => t.warp[w].exited
    <3>1. \A w \in Warps \cap ws :
            /\ t.warp[w].pc = s.warp[w].pc
            /\ t.warp[w].done = s.warp[w].done /\ t.warp[w].exited
      <4> SUFFICES ASSUME NEW w \in Warps \cap ws
                   PROVE  /\ t.warp[w].pc = s.warp[w].pc
                          /\ t.warp[w].done = s.warp[w].done
                          /\ t.warp[w].exited
        OBVIOUS
      <4>1. PICK r : r = s.warp[w]
        OBVIOUS
      <4>2. WarpShape(r)
        BY <4>1 DEF CoreInv, WarpOK
      <4>3. t.warp[w] = [r EXCEPT !.exited = TRUE]
        BY <4>1, <1>6
      <4>4. PICK x : x = [r EXCEPT !.exited = TRUE]
        OBVIOUS
      <4>5. x.pc = r.pc /\ x.done = r.done /\ x.exited
        BY <4>2, <4>4 DEF WarpShape
      <4> QED BY <4>1, <4>3, <4>4, <4>5
    <3> QED BY <3>1, <1>6
  <2>5. Frame(s, t)
    BY <2>2, <2>3, <2>4, <1>6 DEF Frame
  <2> QED BY <2>5, <1>4, <1>10, <1>11
<1> QED BY <1>12, <1>13

\* An instruction leaves its ID_OC register, and stays in flight.
LEMMA DispatchKeeps ==
  ASSUME NEW s, NEW f \in s.flight, f.inID, CoreInv(s)
  PROVE  /\ CoreInv(Dispatched(s, f)) /\ Waits(s, Dispatched(s, f))
         /\ Frame(s, Dispatched(s, f))
<1>1. PICK g : g = [f EXCEPT !.inID = FALSE]
  OBVIOUS
<1>2. PICK t : t = [code |-> s.code, warp |-> s.warp,
                    flight |-> (s.flight \ {f}) \cup {g},
                    queue |-> s.queue, bars |-> s.bars]
  OBVIOUS
<1>3. t = Dispatched(s, f)
  BY <1>1, <1>2 DEF Dispatched, CoreInv, CoreShape
<1>4. /\ t.code = s.code /\ t.warp = s.warp
      /\ t.flight = (s.flight \ {f}) \cup {g} /\ CoreShape(t)
  BY <1>2 DEF CoreInv, CoreShape
<1>5. FlightOK(s.flight) /\ FlightShape(f)
  BY DEF CoreInv, FlightOK
<1>6. g = [warp |-> f.warp, pc |-> f.pc, unit |-> f.unit, inID |-> FALSE,
           got |-> f.got]
  BY <1>1, <1>5 DEF FlightShape
<1>7. /\ g.warp = f.warp /\ g.pc = f.pc /\ g.got = f.got
      /\ ~ g.inID /\ FlightShape(g)
  BY <1>5, <1>6 DEF FlightShape
<1>8. g \notin s.flight
  BY <1>5, <1>7 DEF FlightOK
<1>9. FlightOK(t.flight)
  <2>1. \A h \in t.flight : FlightShape(h)
    BY <1>4, <1>5, <1>7 DEF FlightOK
  <2>2. \A h, k \in t.flight : h.warp = k.warp /\ h.pc = k.pc => h = k
    BY <1>4, <1>5, <1>7 DEF FlightOK
  <2>3. \A h, k \in t.flight : h.inID /\ k.inID /\ h.unit = k.unit => h = k
    BY <1>4, <1>5, <1>7 DEF FlightOK
  <2> QED BY <2>1, <2>2, <2>3 DEF FlightOK
<1>10. \A w \in Warps : WarpOK(t.warp[w], t.code[w], Flying(t.flight, w))
  <2> SUFFICES ASSUME NEW w \in Warps
               PROVE  WarpOK(t.warp[w], t.code[w], Flying(t.flight, w))
    OBVIOUS
  <2>1. PICK F : F = Flying(s.flight, w)
    OBVIOUS
  <2>2. WarpOK(s.warp[w], s.code[w], F)
    BY <2>1 DEF CoreInv
  <2>3. CASE w = f.warp
    <3>1. Flying(t.flight, w) = (F \ {f}) \cup {g}
      BY <2>1, <2>3, <1>4, <1>7 DEF Flying
    <3>2. f \in F /\ g \notin F
      BY <2>1, <2>3, <1>8 DEF Flying
    <3>3. /\ IsFiniteSet(F) /\ Cardinality(F) \in Nat
          /\ IsFiniteSet(F \ {f}) /\ Cardinality(F \ {f}) = Cardinality(F) - 1
      BY <2>2, <3>2, FS_RemoveElement, FS_CardinalityType DEF WarpOK
    <3>4. PICK G : G = (F \ {f}) \cup {g}
      OBVIOUS
    <3>5. IsFiniteSet(G) /\ Cardinality(G) = Cardinality(F)
      <4>1. /\ IsFiniteSet((F \ {f}) \cup {g})
            /\ Cardinality((F \ {f}) \cup {g}) = Cardinality(F \ {f}) + 1
        BY <3>2, <3>3, FS_AddElement
      <4> QED BY <4>1, <3>3, <3>4
    <3>6. \A h \in G : \E k \in F : h.pc = k.pc
      BY <3>2, <3>4, <1>7
    <3>7. \A k \in F : \E h \in G : h.pc = k.pc
      BY <3>2, <3>4, <1>7
    <3>8. WarpOK(s.warp[w], s.code[w], G)
      BY <2>2, <3>2, <3>5, <3>6, <3>7, SameNumber
    <3> QED BY <3>1, <3>4, <3>8, <1>4
  <2>4. CASE w # f.warp
    <3>1. Flying(t.flight, w) = F
      BY <2>1, <2>4, <1>4, <1>7 DEF Flying
    <3> QED BY <3>1, <2>2, <1>4
  <2> QED BY <2>3, <2>4
<1>11. t.queue = s.queue
  BY <1>2
<1>12. Frame(s, t)
  BY <1>4, <1>7, <1>11 DEF Frame
<1> QED BY <1>3, <1>4, <1>9, <1>10, <1>12 DEF CoreInv, Waits

\* An instruction is written back: one less in flight, and in the count.
LEMMA CompleteKeeps ==
  ASSUME NEW s, NEW f \in s.flight, CoreInv(s)
  PROVE  /\ CoreInv(Completed(s, f)) /\ Waits(s, Completed(s, f))
         /\ Frame(s, Completed(s, f))
<1>1. FlightOK(s.flight) /\ f.warp \in Warps
  BY DEF CoreInv, FlightOK, FlightShape
<1>2. PICK v : v = f.warp
  OBVIOUS
<1>3. PICK regs : regs = s.warp[v].busy \ s.code[v][f.pc].dst
  OBVIOUS
<1>4. PICK x : x = [s.warp[v] EXCEPT !.busy = regs,
                                     !.inPipe = s.warp[v].inPipe - 1]
  OBVIOUS
<1>5. WarpShape(s.warp[v])
  BY <1>1, <1>2 DEF CoreInv, WarpOK
<1>6. PICK t : t = [code |-> s.code, warp |-> [s.warp EXCEPT ![v] = x],
                    flight |-> s.flight \ {f}, queue |-> s.queue,
                    bars |-> s.bars]
  OBVIOUS
<1>7. t = Completed(s, f)
  <2>1. s.warp[v] = [pc |-> s.warp[v].pc, next |-> s.warp[v].next,
          ibuf |-> s.warp[v].ibuf, slot |-> s.warp[v].slot,
          inPipe |-> s.warp[v].inPipe, imiss |-> s.warp[v].imiss,
          busy |-> s.warp[v].busy, done |-> s.warp[v].done,
          exited |-> s.warp[v].exited]
    BY <1>5 DEF WarpShape
  <2>2. Completed(s, f) = [s EXCEPT !.flight = s.flight \ {f},
                                    !.warp = [s.warp EXCEPT ![v] = x]]
    BY <1>1, <1>2, <1>3, <1>4, <2>1, ZenonT(60) DEF Completed, CoreInv, CoreShape
  <2> QED BY <2>2, <1>6 DEF CoreInv, CoreShape
<1>8. /\ t.code = s.code /\ t.flight = s.flight \ {f} /\ CoreShape(t)
      /\ t.warp[v] = x /\ \A w \in Warps \ {v} : t.warp[w] = s.warp[w]
  BY <1>1, <1>2, <1>6 DEF CoreInv, CoreShape
<1>9. FlightOK(t.flight)
  BY <1>1, <1>8 DEF FlightOK
<1>10. \A w \in Warps : WarpOK(t.warp[w], t.code[w], Flying(t.flight, w))
  <2> SUFFICES ASSUME NEW w \in Warps
               PROVE  WarpOK(t.warp[w], t.code[w], Flying(t.flight, w))
    OBVIOUS
  <2>1. PICK F : F = Flying(s.flight, w)
    OBVIOUS
  <2>2. WarpOK(s.warp[w], s.code[w], F)
    BY <2>1 DEF CoreInv
  <2>3. CASE w = v
    <3>1. f \in F /\ Flying(t.flight, w) = F \ {f}
      BY <2>1, <2>3, <1>2, <1>8 DEF Flying
    <3>2. PICK r : r = s.warp[w]
      OBVIOUS
    <3>3. WarpOK([r EXCEPT !.busy = regs, !.inPipe = r.inPipe - 1],
                 s.code[w], F \ {f})
      <4>1. \A g \in F : g.pc \in Nat /\ (g.pc = f.pc => g = f)
        BY <2>1, <2>3, <1>1, <1>2 DEF FlightOK, FlightShape, Flying
      <4>2. regs = r.busy \ s.code[w][f.pc].dst
        BY <3>2, <2>3, <1>3
      <4>3. WarpOK(r, s.code[w], F)
        BY <2>2, <3>2
      <4> QED BY <3>1, <4>1, <4>2, <4>3, WrittenBack
    <3> QED BY <3>1, <3>2, <3>3, <2>3, <1>4, <1>8
  <2>4. CASE w # v
    <3>1. Flying(t.flight, w) = F
      BY <2>1, <2>4, <1>2, <1>8 DEF Flying
    <3> QED BY <3>1, <2>2, <2>4, <1>8
  <2> QED BY <2>3, <2>4
<1>11. Waits(s, t)
  <2>1. /\ x.done = s.warp[v].done /\ x.ibuf = s.warp[v].ibuf
        /\ x.next = s.warp[v].next /\ x.imiss = s.warp[v].imiss
    BY <1>4, <1>5 DEF WarpShape
  <2> QED BY <2>1, <1>8 DEF Waits, Starved, Empty
<1>12. \A w \in Warps : /\ t.warp[w].pc = s.warp[w].pc
                        /\ t.warp[w].done = s.warp[w].done
                        /\ t.warp[w].exited = s.warp[w].exited
  <2>1. /\ x.pc = s.warp[v].pc /\ x.done = s.warp[v].done
        /\ x.exited = s.warp[v].exited
    BY <1>4, <1>5 DEF WarpShape
  <2> QED BY <2>1, <1>8
<1>13. t.queue = s.queue
  BY <1>6
<1>14. Frame(s, t)
  BY <1>8, <1>12, <1>13 DEF Frame
<1> QED BY <1>7, <1>8, <1>9, <1>10, <1>11, <1>14 DEF CoreInv

\* A CTA starts on a core that all its warps have left.
LEMMA StartKeeps ==
  ASSUME NEW s, NEW p, CoreInv(s), \A w \in Warps : s.warp[w].exited,
         \A w \in Warps : Forward(p[w])
  PROVE  /\ CoreInv(StartCta(s, p))
         /\ StartCta(s, p).code = p /\ StartCta(s, p).queue = s.queue
         /\ StartCta(s, p).flight = s.flight
         /\ \A w \in Warps : /\ ~ StartCta(s, p).warp[w].exited
                              /\ StartCta(s, p).warp[w].pc = 1
<1>1. PICK b : b = AllocateBarrier(s.bars, Cta, Warps)
  OBVIOUS
<1>2. PICK new : new = [w \in Warps |-> InitWarp(s.warp[w])]
  OBVIOUS
<1>3. PICK t : t = [code |-> p, warp |-> new, flight |-> s.flight,
                    queue |-> s.queue, bars |-> b]
  OBVIOUS
<1>4. StartCta(s, p) = [s EXCEPT !.code = p, !.warp = new, !.bars = b]
  BY <1>1, <1>2 DEF StartCta
<1>5. StartCta(s, p) = t
  BY <1>3, <1>4 DEF CoreInv, CoreShape
<1>6. /\ t.code = p /\ t.flight = s.flight
      /\ \A w \in Warps : t.warp[w] = InitWarp(s.warp[w])
  BY <1>2, <1>3
<1>7. CoreShape(t)
  BY <1>2, <1>3 DEF CoreShape
<1>8. \A w \in Warps : WarpOK(t.warp[w], t.code[w], Flying(s.flight, w))
  <2> SUFFICES ASSUME NEW w \in Warps
               PROVE  WarpOK(t.warp[w], t.code[w], Flying(s.flight, w))
    OBVIOUS
  <2>1. WarpOK(s.warp[w], s.code[w], Flying(s.flight, w))
    BY DEF CoreInv
  <2>2. s.warp[w].exited /\ Forward(p[w])
    OBVIOUS
  <2>3. WarpOK(InitWarp(s.warp[w]), p[w], Flying(s.flight, w))
    BY <2>1, <2>2, StartedWarp
  <2> QED BY <2>3, <1>6
<1>9. CoreInv(t)
  BY <1>6, <1>7, <1>8, OnlyWarps
<1>10. \A w \in Warps : ~ t.warp[w].exited /\ t.warp[w].pc = 1
  <2> SUFFICES ASSUME NEW w \in Warps
               PROVE  ~ t.warp[w].exited /\ t.warp[w].pc = 1
    OBVIOUS
  <2>1. PICK r : r = s.warp[w]
    OBVIOUS
  <2>2. WarpShape(r)
    BY <2>1 DEF CoreInv, WarpOK
  <2>3. ~ InitWarp(r).exited /\ InitWarp(r).pc = 1
    BY <2>2 DEF InitWarp, WarpShape
  <2> QED BY <2>1, <2>3, <1>6
<1>11. t.queue = s.queue
  BY <1>3
<1> QED BY <1>5, <1>6, <1>9, <1>10, <1>11

\* One warp of the core gets another record.
WithWarp(s, w, x) == [s EXCEPT !.warp[w] = x]

\* The core stays in order when the new record of the warp is.
LEMMA OneWarp ==
  ASSUME NEW s, NEW w \in Warps, NEW x, CoreInv(s),
         WarpOK(x, s.code[w], Flying(s.flight, w)),
         x.pc = s.warp[w].pc, x.done = s.warp[w].done,
         x.exited = s.warp[w].exited
  PROVE  \E t : /\ t = WithWarp(s, w, x)
                /\ CoreInv(t)
                /\ t.warp[w] = x
                /\ \A v \in Warps \ {w} : t.warp[v] = s.warp[v]
                /\ Frame(s, t)
<1>1. PICK t : t = [code |-> s.code, warp |-> [s.warp EXCEPT ![w] = x],
                    flight |-> s.flight, queue |-> s.queue, bars |-> s.bars]
  OBVIOUS
<1>2. t = WithWarp(s, w, x)
  BY <1>1 DEF WithWarp, CoreInv, CoreShape
<1>3. /\ t.code = s.code /\ t.flight = s.flight /\ CoreShape(t)
      /\ t.warp[w] = x /\ \A v \in Warps \ {w} : t.warp[v] = s.warp[v]
  BY <1>1 DEF CoreInv, CoreShape
<1>4. \A v \in Warps : WarpOK(t.warp[v], t.code[v], Flying(s.flight, v))
  <2> SUFFICES ASSUME NEW v \in Warps
               PROVE  WarpOK(t.warp[v], t.code[v], Flying(s.flight, v))
    OBVIOUS
  <2>1. CASE v = w
    BY <2>1, <1>3
  <2>2. CASE v # w
    BY <2>2, <1>3 DEF CoreInv
  <2> QED BY <2>1, <2>2
<1>5. CoreInv(t)
  BY <1>3, <1>4, OnlyWarps
<1>6. \A v \in Warps : /\ t.warp[v].pc = s.warp[v].pc
                       /\ t.warp[v].done = s.warp[v].done
                       /\ t.warp[v].exited = s.warp[v].exited
  BY <1>3
<1>7. t.queue = s.queue
  BY <1>1
<1>8. Frame(s, t)
  BY <1>3, <1>6, <1>7 DEF Frame
<1> QED BY <1>2, <1>3, <1>5, <1>8

\* A miss is noted for a warp that waits, or answered.
LEMMA MissKeeps ==
  ASSUME NEW s, NEW w \in Warps, NEW m \in {0, s.warp[w].next}, CoreInv(s),
         Starved(s.warp[w])
  PROVE  \E t : /\ t = [s EXCEPT !.warp[w].imiss = m]
                /\ CoreInv(t)
                /\ Starved(t.warp[w]) /\ t.warp[w].next = s.warp[w].next
                /\ t.warp[w].imiss = m
                /\ Frame(s, t)
<1>1. PICK r : r = s.warp[w]
  OBVIOUS
<1>2. PICK x : x = [r EXCEPT !.imiss = m]
  OBVIOUS
<1>3. WarpOK(r, s.code[w], Flying(s.flight, w)) /\ Starved(r) /\ m \in {0, r.next}
  BY <1>1 DEF CoreInv
<1>4. WarpOK(x, s.code[w], Flying(s.flight, w))
  BY <1>2, <1>3, MissedWarp
<1>5. x.pc = r.pc /\ x.done = r.done /\ x.exited = r.exited
  BY <1>2, <1>3 DEF WarpOK, WarpShape
<1>6. PICK t : t = WithWarp(s, w, x) /\ CoreInv(t) /\ t.warp[w] = x /\ Frame(s, t)
  BY <1>1, <1>4, <1>5, OneWarp
<1>7. [s EXCEPT !.warp[w].imiss = m] = WithWarp(s, w, x)
  BY <1>1, <1>2 DEF WithWarp
<1>8. /\ x.imiss = m /\ x.next = r.next /\ x.ibuf = r.ibuf /\ x.done = r.done
  BY <1>2, <1>3 DEF WarpOK, WarpShape
<1> QED BY <1>1, <1>3, <1>6, <1>7, <1>8 DEF Starved, Empty

\* decode hands a warp that waits the instruction at m_next_pc.
LEMMA DecodeKeeps ==
  ASSUME NEW s, NEW w \in Warps, NEW pc, CoreInv(s), Starved(s.warp[w]),
         s.warp[w].imiss = 0, pc = s.warp[w].next
  PROVE  CoreInv(Decoded(s, w, pc)) /\ Frame(s, Decoded(s, w, pc))
<1>1. PICK r : r = s.warp[w]
  OBVIOUS
<1>2. PICK two : two = (pc < Len(s.code[w]))
  OBVIOUS
<1>3. PICK b : b = <<pc, IF two THEN pc + 1 ELSE 0>>
  OBVIOUS
<1>4. PICK n : n = (IF two THEN 2 ELSE 1)
  OBVIOUS
<1>5. PICK x : x = [r EXCEPT !.ibuf = b, !.slot = 1, !.inPipe = r.inPipe + n]
  OBVIOUS
<1>6. WarpOK(r, s.code[w], Flying(s.flight, w)) /\ Starved(r) /\ r.imiss = 0
      /\ pc = r.next
  BY <1>1 DEF CoreInv
<1>7. WarpOK(x, s.code[w], Flying(s.flight, w))
  <2>1. two <=> r.next < Len(s.code[w])
    BY <1>2, <1>6, Zenon
  <2>2. WarpOK([r EXCEPT !.ibuf = <<r.next, IF two THEN r.next + 1 ELSE 0>>,
                         !.slot = 1,
                         !.inPipe = r.inPipe + (IF two THEN 2 ELSE 1)],
               s.code[w], Flying(s.flight, w))
    BY <1>6, <2>1, DecodedWarp
  <2> QED BY <2>2, <1>3, <1>4, <1>5, <1>6
<1>8. x.pc = r.pc /\ x.done = r.done /\ x.exited = r.exited
  BY <1>5, <1>6 DEF WarpOK, WarpShape
<1>9. PICK t : t = WithWarp(s, w, x) /\ CoreInv(t) /\ Frame(s, t)
  BY <1>1, <1>7, <1>8, OneWarp
<1>10. Decoded(s, w, pc) = [s EXCEPT !.warp[w] =
        [s.warp[w] EXCEPT !.ibuf = b, !.slot = 1, !.inPipe = s.warp[w].inPipe + n]]
  <2>1. b = <<pc, IF pc < Len(s.code[w]) THEN pc + 1 ELSE 0>>
        /\ n = (IF pc < Len(s.code[w]) THEN 2 ELSE 1)
    BY <1>2, <1>3, <1>4, Zenon
  <2> QED BY <2>1 DEF Decoded
<1>11. Decoded(s, w, pc) = WithWarp(s, w, x)
  BY <1>1, <1>5, <1>10, Zenon DEF WithWarp
<1> QED BY <1>9, <1>11
-----------------------------------------------------------------------------
(* The order of the queues.                                                *)

\* The uses of a queue in a program are finitely many, and numbered.
LEMMA UsesCounted ==
  ASSUME NEW code, Len(code) \in Nat, NEW op, NEW kind, NEW pc
  PROVE  /\ UsesOf(code, op, kind) \subseteq Nat
         /\ IsFiniteSet(Passed(code, op, kind, pc))
         /\ Cardinality(Passed(code, op, kind, pc)) \in Nat
         /\ IsFiniteSet({k \in UsesOf(code, op, kind) : k <= pc})
         /\ Rank(code, op, kind, pc) \in Nat
<1>1. PICK U : U = UsesOf(code, op, kind)
  OBVIOUS
<1>2. U \subseteq 1 .. Len(code)
  BY <1>1 DEF UsesOf
<1>3. IsFiniteSet(1 .. Len(code))
  BY FS_Interval
<1>4. IsFiniteSet(U) /\ U \subseteq Nat
  <2>1. IsFiniteSet(U)
    BY <1>2, <1>3, FS_Subset
  <2>2. U \subseteq Nat
    BY <1>2
  <2> QED BY <2>1, <2>2
<1>5. {k \in U : k < pc} \subseteq U /\ {k \in U : k <= pc} \subseteq U
  OBVIOUS
<1>6. IsFiniteSet({k \in U : k < pc}) /\ IsFiniteSet({k \in U : k <= pc})
  BY <1>4, <1>5, FS_Subset
<1>7. /\ Cardinality({k \in U : k < pc}) \in Nat
      /\ Cardinality({k \in U : k <= pc}) \in Nat
  BY <1>6, FS_CardinalityType
<1> QED BY <1>1, <1>4, <1>6, <1>7 DEF Passed, Rank

\* No two uses have the same number.
LEMMA RankUnique ==
  ASSUME NEW code, Len(code) \in Nat, NEW op, NEW kind,
         NEW j \in UsesOf(code, op, kind), NEW k \in UsesOf(code, op, kind),
         Rank(code, op, kind, j) = Rank(code, op, kind, k)
  PROVE  j = k
<1>1. PICK U : U = UsesOf(code, op, kind)
  OBVIOUS
<1>2. ASSUME NEW a \in U, NEW b \in U, a < b
      PROVE  Rank(code, op, kind, a) < Rank(code, op, kind, b)
  <2>1. PICK A, B : A = {m \in U : m <= a} /\ B = {m \in U : m <= b}
    OBVIOUS
  <2>2. U \subseteq Nat /\ IsFiniteSet(A) /\ IsFiniteSet(B)
    <3>1. /\ UsesOf(code, op, kind) \subseteq Nat
          /\ IsFiniteSet({m \in UsesOf(code, op, kind) : m <= a})
      BY UsesCounted
    <3>2. IsFiniteSet({m \in UsesOf(code, op, kind) : m <= b})
      BY UsesCounted
    <3> QED BY <3>1, <3>2, <2>1, <1>1, Zenon
  <2>3. /\ IsFiniteSet(A \cup {b})
        /\ Cardinality(A \cup {b}) = Cardinality(A) + 1
    <3>1. b \notin A
      BY <2>1, <2>2, <1>2
    <3> QED BY <3>1, <2>2, FS_AddElement
  <2>4. A \cup {b} \subseteq B
    <3>1. a \in Nat /\ b \in Nat
      BY <2>2
    <3>2. \A m \in U : m <= a => m <= b
      BY <2>2, <3>1, <1>2
    <3>3. b <= b
      BY <3>1
    <3> QED BY <2>1, <3>2, <3>3
  <2>5. Cardinality(A \cup {b}) <= Cardinality(B)
    BY <2>2, <2>4, FS_Subset
  <2>6. Cardinality(A) \in Nat /\ Cardinality(B) \in Nat
    BY <2>2, FS_CardinalityType
  <2>7. Cardinality(A) < Cardinality(B)
    BY <2>3, <2>5, <2>6
  <2> QED BY <2>1, <2>7, <1>1 DEF Rank
<1>3. j \in U /\ k \in U /\ j \in Nat /\ k \in Nat
  BY <1>1, UsesCounted
<1>4. Rank(code, op, kind, j) \in Nat
  BY UsesCounted
<1> QED BY <1>2, <1>3, <1>4

\* A step of a warp past its instruction passes that one use, or none.
LEMMA PassedGrows ==
  ASSUME NEW code, Len(code) \in Nat, NEW op, NEW kind,
         NEW pc \in Nat, NEW next \in Nat, pc < next,
         \A k \in UsesOf(code, op, kind) : ~ (pc < k /\ k < next)
  PROVE  /\ pc \in UsesOf(code, op, kind) =>
              /\ Cardinality(Passed(code, op, kind, next))
                   = Cardinality(Passed(code, op, kind, pc)) + 1
              /\ Rank(code, op, kind, pc)
                   = Cardinality(Passed(code, op, kind, pc)) + 1
         /\ pc \notin UsesOf(code, op, kind) =>
              Passed(code, op, kind, next) = Passed(code, op, kind, pc)
<1>1. PICK U, P : U = UsesOf(code, op, kind) /\ P = Passed(code, op, kind, pc)
  OBVIOUS
<1>2. U \subseteq Nat /\ IsFiniteSet(P) /\ P = {k \in U : k < pc}
  BY <1>1, UsesCounted, ZenonT(60) DEF Passed
<1>3. \A k \in U : k < next <=> k <= pc
  BY <1>1, <1>2
<1>4. CASE pc \in U
  <2>1. {k \in U : k < next} = P \cup {pc} /\ {k \in U : k <= pc} = P \cup {pc}
    <3>1. \A k \in U : k <= pc <=> (k < pc \/ k = pc)
      BY <1>2
    <3> QED BY <3>1, <1>2, <1>3, <1>4
  <2>2. pc \notin P
    BY <1>2
  <2>3. Cardinality(P \cup {pc}) = Cardinality(P) + 1
    BY <2>2, <1>2, FS_AddElement
  <2> QED BY <1>1, <1>4, <2>1, <2>3 DEF Passed, Rank
<1>5. CASE pc \notin U
  <2>1. {k \in U : k < next} = P
    <3>1. \A k \in U : k <= pc <=> k < pc
      BY <1>2, <1>5
    <3> QED BY <3>1, <1>2, <1>3
  <2> QED BY <1>1, <1>5, <2>1 DEF Passed
<1> QED BY <1>1, <1>4, <1>5

\* The producer loads: its entry goes to the end of the queue.
LEMMA FollowsLoad ==
  ASSUME NEW cp, NEW cc, NEW kind, NEW a, NEW a2, NEW b, NEW q,
         NEW S, q \in Seq(S), NEW e \in S,
         Len(cp) \in Nat, Len(cc) \in Nat, Follows(cp, cc, kind, a, b, q),
         Cardinality(Passed(cp, "qload", kind, a2))
           = Cardinality(Passed(cp, "qload", kind, a)) + 1,
         Names(cp, kind, Cardinality(Passed(cp, "qload", kind, a)) + 1, e)
  PROVE  Follows(cp, cc, kind, a2, b, Append(q, e))
<1>1. PICK m, n : /\ m = Cardinality(Passed(cc, "qmov", kind, b))
                  /\ n = Cardinality(Passed(cp, "qload", kind, a))
  OBVIOUS
<1>2. m \in Nat /\ n \in Nat /\ Len(q) \in Nat
  <2>1. /\ Cardinality(Passed(cc, "qmov", kind, b)) \in Nat
        /\ Cardinality(Passed(cp, "qload", kind, a)) \in Nat
    BY UsesCounted
  <2> QED BY <2>1, <1>1
<1>3. m + Len(q) = n /\ \A i \in 1 .. Len(q) : Names(cp, kind, m + i, q[i])
  BY <1>1 DEF Follows
<1>4. PICK r : r = Append(q, e)
  OBVIOUS
<1>5. /\ Len(r) = Len(q) + 1 /\ r[Len(q) + 1] = e
      /\ \A i \in 1 .. Len(q) : r[i] = q[i]
  BY <1>4
<1>6. m + Len(r) = Cardinality(Passed(cp, "qload", kind, a2))
  BY <1>1, <1>2, <1>3, <1>5
<1>7. \A i \in 1 .. Len(r) : Names(cp, kind, m + i, r[i])
  <2> SUFFICES ASSUME NEW i \in 1 .. Len(r)
               PROVE  Names(cp, kind, m + i, r[i])
    OBVIOUS
  <2>1. CASE i \in 1 .. Len(q)
    BY <2>1, <1>3, <1>5
  <2>2. CASE i = Len(q) + 1
    <3>1. m + i = n + 1
      BY <2>2, <1>2, <1>3
    <3> QED BY <3>1, <2>2, <1>1, <1>5
  <2> QED BY <2>1, <2>2, <1>2, <1>5
<1> QED BY <1>1, <1>4, <1>6, <1>7 DEF Follows

\* The consumer takes the head.
LEMMA FollowsMove ==
  ASSUME NEW cp, NEW cc, NEW kind, NEW a, NEW b, NEW b2, NEW q,
         NEW S, q \in Seq(S), q # <<>>,
         Len(cp) \in Nat, Len(cc) \in Nat, Follows(cp, cc, kind, a, b, q),
         Cardinality(Passed(cc, "qmov", kind, b2))
           = Cardinality(Passed(cc, "qmov", kind, b)) + 1
  PROVE  /\ Follows(cp, cc, kind, a, b2, Tail(q))
         /\ Names(cp, kind, Cardinality(Passed(cc, "qmov", kind, b)) + 1, Head(q))
<1>1. PICK m, n : /\ m = Cardinality(Passed(cc, "qmov", kind, b))
                  /\ n = Cardinality(Passed(cp, "qload", kind, a))
  OBVIOUS
<1>2. m \in Nat /\ n \in Nat /\ Len(q) \in Nat \ {0}
  <2>1. /\ Cardinality(Passed(cc, "qmov", kind, b)) \in Nat
        /\ Cardinality(Passed(cp, "qload", kind, a)) \in Nat
    BY UsesCounted
  <2>2. Len(q) \in Nat \ {0}
    OBVIOUS
  <2> QED BY <2>1, <2>2, <1>1
<1>3. m + Len(q) = n /\ \A i \in 1 .. Len(q) : Names(cp, kind, m + i, q[i])
  BY <1>1 DEF Follows
<1>4. PICK r : r = Tail(q)
  OBVIOUS
<1>5. /\ Len(r) = Len(q) - 1 /\ Head(q) = q[1]
      /\ \A i \in 1 .. Len(r) : r[i] = q[i + 1]
  BY <1>4
<1>6. (m + 1) + Len(r) = n
  <2>1. PICK x, y : x = Len(q) /\ y = Len(r)
    OBVIOUS
  <2>2. x \in Nat /\ m + x = n /\ y = x - 1
    BY <2>1, <1>2, <1>3, <1>5
  <2>3. (m + 1) + y = n
    BY <2>2, <1>2
  <2> QED BY <2>1, <2>3
<1>7. \A i \in 1 .. Len(r) : Names(cp, kind, (m + 1) + i, r[i])
  <2> SUFFICES ASSUME NEW i \in 1 .. Len(r)
               PROVE  Names(cp, kind, (m + 1) + i, r[i])
    OBVIOUS
  <2>1. i + 1 \in 1 .. Len(q) /\ (m + 1) + i = m + (i + 1)
    BY <1>2, <1>5
  <2> QED BY <2>1, <1>3, <1>5
<1>8. Names(cp, kind, m + 1, Head(q))
  BY <1>2, <1>3, <1>5
<1> QED BY <1>1, <1>4, <1>6, <1>7, <1>8 DEF Follows

\* What a MOV takes out of the entry of a load it matches.
LEMMA MovedWhat ==
  ASSUME NEW mov, NEW load, NEW pc, Match(mov, load), NEW l \in mov.mask
  PROVE  MovedWords(StoreLanes(Reserve(load, pc), load), mov)[l]
           = LoadedWords(load, l)
<1>1. PICK n : n = PayloadWords(load) /\ (n = 1 \/ n = 3)
  BY DEF PayloadWords
<1>2. /\ l \in load.mask /\ l \in Lanes
      /\ mov.vector = n /\ PayloadWords(mov) = n
  BY <1>1 DEF Match, PayloadWords
<1>3. PICK m : m = [k \in Lanes |-> [j \in 1 .. PayloadWords(load) |-> Zero]]
  OBVIOUS
<1>4. PICK e0 : e0 = [pc |-> pc, lanes |-> m]
  OBVIOUS
<1>5. e0 = Reserve(load, pc)
  BY <1>3, <1>4 DEF Reserve
<1>6. PICK f : f = [k \in Lanes |->
                      IF k \in load.mask THEN LoadedWords(load, k) ELSE e0.lanes[k]]
  OBVIOUS
<1>7. PICK e : e = [e0 EXCEPT !.lanes = f]
  OBVIOUS
<1>8. e = StoreLanes(Reserve(load, pc), load)
  BY <1>5, <1>6, <1>7 DEF StoreLanes
<1>9. e.lanes = f
  BY <1>4, <1>7
<1>10. PICK words : words = LoadedWords(load, l)
  OBVIOUS
<1>11. e.lanes[l] = words
  BY <1>2, <1>6, <1>9, <1>10
<1>12. words = [k \in 1 .. n |-> <<load.addr[k], l>>]
  BY <1>1, <1>10 DEF LoadedWords
<1>13. PICK r : r = ReadWords(e, mov, l)
  OBVIOUS
<1>14. r = [k \in 1 .. 4 |-> IF k <= n THEN words[k] ELSE Zero]
  BY <1>2, <1>11, <1>13 DEF ReadWords
<1>15. SubSeq(r, 1, n) = words
  <2>1. SubSeq(r, 1, n) = [k \in 1 .. n |-> r[k]]
    BY <1>1
  <2>2. \A k \in 1 .. n : r[k] = words[k]
    BY <1>1, <1>14
  <2> QED BY <2>1, <2>2, <1>12
<1>16. MovedWords(e, mov)[l] = SubSeq(r, 1, n)
  BY <1>2, <1>13 DEF MovedWords
<1> QED BY <1>8, <1>10, <1>15, <1>16

-----------------------------------------------------------------------------
(* The queues.                                                             *)

\* An entry has the pc of its load, and is one of those the programs make.
LEMMA EntryOf ==
  /\ \A e \in Entries : e.pc \in Nat
  /\ \A p \in Programs : \A w \in Warps : \A k \in 1 .. Len(p[w]) :
       \A pc \in Nat :
         /\ StoreLanes(Reserve(p[w][k], pc), p[w][k]) \in Entries
         /\ StoreLanes(Reserve(p[w][k], pc), p[w][k]).pc = pc
<1>1. \A i, pc : StoreLanes(Reserve(i, pc), i).pc = pc
  <2> SUFFICES ASSUME NEW i, NEW pc
               PROVE  StoreLanes(Reserve(i, pc), i).pc = pc
    OBVIOUS
  <2>1. PICK m : m = [l \in Lanes |-> [k \in 1 .. PayloadWords(i) |-> Zero]]
    OBVIOUS
  <2>2. Reserve(i, pc) = [pc |-> pc, lanes |-> m]
    BY <2>1 DEF Reserve
  <2>3. PICK e : e = Reserve(i, pc)
    OBVIOUS
  <2>4. PICK n : n = [l \in Lanes |->
          IF l \in i.mask THEN LoadedWords(i, l) ELSE e.lanes[l]]
    OBVIOUS
  <2>5. StoreLanes(e, i) = [e EXCEPT !.lanes = n]
    BY <2>4 DEF StoreLanes
  <2> QED BY <2>2, <2>3, <2>5
<1>2. \A e \in Entries : e.pc \in Nat
  BY <1>1 DEF Entries, EntriesOf
<1>3. ASSUME NEW p \in Programs, NEW w \in Warps, NEW k \in 1 .. Len(p[w]),
             NEW pc \in Nat
      PROVE  StoreLanes(Reserve(p[w][k], pc), p[w][k]) \in Entries
  <2>1. p[w][k] \in InstructionsOf(p)
    BY DEF InstructionsOf
  <2>2. StoreLanes(Reserve(p[w][k], pc), p[w][k]) \in EntriesOf(p[w][k])
    BY DEF EntriesOf
  <2> QED BY <2>1, <2>2 DEF Entries
<1> QED BY <1>1, <1>2, <1>3

\* The producer that shares a queue with a warp is a warp.
LEMMA PairIsWarp ==
  ASSUME NEW w \in Warps
  PROVE  /\ PairOf(w) \in Warps
         /\ IsProducer(w) => PairOf(w) = w
         /\ ~ IsProducer(w) => PairOf(w) = w - Producers
<1>1. N \in Nat /\ Producers \in 1 .. N - 1 /\ Warps = 0 .. N - 1
  BY NumberOfWarps, WarpsAssumption
<1> QED BY <1>1 DEF PairOf, IsProducer

\* A warp that runs is at an instruction of its program: a producer may load
\* into a queue of its own, a consumer take out of that of its producer.
LEMMA InstructionAt ==
  ASSUME NEW s, NEW w, CoreInv(s), QueueOK(s), Fit(s, w)
  PROVE  /\ w \in Warps /\ ~ s.warp[w].done /\ s.warp[w].pc \in Nat
         /\ s.code \in Programs /\ s.warp[w].pc \in 1 .. Len(s.code[w])
         /\ Inst(s, w) = s.code[w][s.warp[w].pc]
         /\ UsesQueue(Inst(s, w)) =>
              /\ Inst(s, w).queue \in QueueKinds
              /\ Inst(s, w).op = "qload" <=> IsProducer(w)
              /\ KeyOf(Inst(s, w).queue, w) = <<Inst(s, w).queue, PairOf(w)>>
              /\ KeyOf(Inst(s, w).queue, w) \in Keys
<1>1. w \in Warps /\ ~ s.warp[w].done
      /\ s.warp[w].ibuf[s.warp[w].slot] = s.warp[w].pc
  BY DEF Fit
<1>2. s.code \in Programs
  BY <1>1 DEF QueueOK
<1>3. s.warp[w].pc \in 1 .. Len(s.code[w]) /\ s.warp[w].pc \in Nat
  <2>1. WarpOK(s.warp[w], s.code[w], Flying(s.flight, w))
    BY <1>1 DEF CoreInv
  <2> QED BY <2>1, <1>1 DEF WarpOK, WarpShape, Running
<1>4. Inst(s, w) = s.code[w][s.warp[w].pc]
  BY <1>1 DEF Inst, NextPc
<1>5. UsesQueue(Inst(s, w)) => /\ Inst(s, w).queue \in QueueKinds
                               /\ Inst(s, w).op = "qload" <=> IsProducer(w)
  BY <1>1, <1>2, <1>3, <1>4, RoleAssumption
<1>6. PairOf(w) \in Warps
  BY <1>1, PairIsWarp
<1> QED BY <1>1, <1>2, <1>3, <1>4, <1>5, <1>6 DEF KeyOf, Keys

\* The queue lets the next instruction of the warp issue.
Ready(s, w) ==
  UsesQueue(Inst(s, w)) =>
    Lets(s, w, s.queue[KeyOf(Inst(s, w).queue, w)])

\* What the issue of x from warp w has made of s.
Issued(s, w, t, x) ==
  /\ t.code = s.code
  /\ \A v \in Warps \ {w} : t.warp[v] = s.warp[v]
  /\ t.flight = s.flight \cup {x}
  /\ x.warp = w /\ x.pc = s.warp[w].pc /\ x.got = Found(s, Inst(s, w), w)
  /\ GoesTo(Inst(s, w), s.warp[w].pc, t.warp[w].pc)
  /\ t.queue = IF UsesQueue(Inst(s, w))
               THEN QueuesAfter(s, Inst(s, w), w, s.warp[w].pc) ELSE s.queue

\* Entries stay behind a pc that grows.
LEMMA StaysBehind ==
  ASSUME NEW q \in Seq(Entries), NEW a \in Nat, NEW b \in Nat, a <= b,
         Behind(q, a)
  PROVE  Behind(q, b)
<1>1. \A n \in 1 .. Len(q) : q[n].pc \in Nat
  BY EntryOf
<1> QED BY <1>1 DEF Behind

\* What an issue does to the warps, for the queues: the pc of the warp grows.
LEMMA IssuedWarps ==
  ASSUME NEW s, NEW w, NEW t, NEW x, CoreInv(s), QueueOK(s), Fit(s, w),
         CoreInv(t), Issued(s, w, t, x)
  PROVE  /\ \A v \in Warps : ~ t.warp[v].done =>
              /\ ~ s.warp[v].done /\ s.warp[v].pc \in Nat /\ t.warp[v].pc \in Nat
              /\ s.warp[v].pc <= t.warp[v].pc
              /\ v = w => s.warp[v].pc < t.warp[v].pc
         /\ ~ t.warp[w].exited
<1>1. w \in Warps /\ ~ s.warp[w].done
  BY DEF Fit
<1>2. \A v \in Warps : s.warp[v].pc \in Nat /\ t.warp[v].pc \in Nat
  BY DEF CoreInv, WarpOK, WarpShape
<1>3. x \in Flying(t.flight, w) /\ x.pc = s.warp[w].pc
  BY DEF Issued, Flying
<1>4. WarpOK(t.warp[w], t.code[w], Flying(t.flight, w))
  BY <1>1 DEF CoreInv
<1>5. ~ t.warp[w].exited
  BY <1>3, <1>4 DEF WarpOK
<1>6. ~ t.warp[w].done => s.warp[w].pc < t.warp[w].pc
  <2>1. ~ t.warp[w].done => x.pc \in 0 .. t.warp[w].pc - 1
    BY <1>3, <1>4 DEF WarpOK, Running
  <2> QED BY <2>1, <1>1, <1>2, <1>3
<1>7. \A v \in Warps \ {w} : t.warp[v] = s.warp[v]
  BY DEF Issued
<1> QED BY <1>1, <1>2, <1>5, <1>6, <1>7

\* A warp that issues passes its instruction, and no other use of a queue.
LEMMA PassesOne ==
  ASSUME NEW s, NEW w, NEW t, NEW x, CoreInv(s), QueueOK(s), Fit(s, w),
         CoreInv(t), Issued(s, w, t, x), NEW op \in {"qload", "qmov"}, NEW kind
  PROVE  /\ Inst(s, w).op = op /\ Inst(s, w).queue = kind =>
              /\ Cardinality(Passed(s.code[w], op, kind, t.warp[w].pc))
                   = Cardinality(Passed(s.code[w], op, kind, s.warp[w].pc)) + 1
              /\ Rank(s.code[w], op, kind, s.warp[w].pc)
                   = Cardinality(Passed(s.code[w], op, kind, s.warp[w].pc)) + 1
              /\ s.warp[w].pc \in UsesOf(s.code[w], op, kind)
         /\ ~ (Inst(s, w).op = op /\ Inst(s, w).queue = kind) =>
              Passed(s.code[w], op, kind, t.warp[w].pc)
                = Passed(s.code[w], op, kind, s.warp[w].pc)
<1>1. PICK code, pc, next : /\ code = s.code[w] /\ pc = s.warp[w].pc
                            /\ next = t.warp[w].pc
  OBVIOUS
<1>2. /\ w \in Warps /\ pc \in 1 .. Len(code) /\ Inst(s, w) = code[pc]
      /\ s.code \in Programs /\ pc \in Nat
  BY <1>1, InstructionAt
<1>3. Forward(code) /\ Len(code) \in Nat
  BY <1>1, <1>2, ProgramAssumption DEF Forward
<1>4. next \in Nat /\ (next = pc + 1 \/ (code[pc].op = "branch" /\ next = code[pc].to))
  BY <1>1, <1>2 DEF Issued, GoesTo, CoreInv, WarpOK, WarpShape
<1>5. pc < next
  BY <1>2, <1>3, <1>4 DEF Forward
<1>6. \A k \in UsesOf(code, op, kind) : ~ (pc < k /\ k < next)
  <2> SUFFICES ASSUME NEW k \in UsesOf(code, op, kind), pc < k, k < next
               PROVE  FALSE
    OBVIOUS
  <2>1. k \in Nat /\ UsesQueue(code[k])
    BY <1>3, UsesCounted DEF UsesOf, UsesQueue
  <2>2. code[pc].op = "branch" /\ next = code[pc].to
    BY <2>1, <1>2, <1>4
  <2>3. \A j \in pc .. code[pc].to - 1 : ~ UsesQueue(code[j])
    BY <2>2, <1>1, <1>2, PairAssumption
  <2>4. k \in pc .. code[pc].to - 1
    BY <2>1, <2>2, <1>2, <1>4
  <2> QED BY <2>1, <2>3, <2>4
<1>7. /\ pc \in UsesOf(code, op, kind) =>
           /\ Cardinality(Passed(code, op, kind, next))
                = Cardinality(Passed(code, op, kind, pc)) + 1
           /\ Rank(code, op, kind, pc)
                = Cardinality(Passed(code, op, kind, pc)) + 1
      /\ pc \notin UsesOf(code, op, kind) =>
           Passed(code, op, kind, next) = Passed(code, op, kind, pc)
  BY <1>2, <1>3, <1>4, <1>5, <1>6, PassedGrows
<1>8. pc \in UsesOf(code, op, kind)
        <=> Inst(s, w).op = op /\ Inst(s, w).queue = kind
  BY <1>2 DEF UsesOf
<1> QED BY <1>1, <1>7, <1>8

\* The queue of a warp is changed by its load or the MOV of its consumer only.
LEMMA OtherQueues ==
  ASSUME NEW s, NEW w, NEW t, NEW x, CoreInv(s), QueueOK(s), Fit(s, w),
         Issued(s, w, t, x), NEW kind \in QueueKinds, NEW p \in Warps,
         ~ (w = p /\ Inst(s, w).op = "qload" /\ Inst(s, w).queue = kind),
         ~ (w = p + Producers /\ Inst(s, w).op = "qmov"
              /\ Inst(s, w).queue = kind)
  PROVE  t.queue[<<kind, p>>] = s.queue[<<kind, p>>]
<1>1. PICK i : i = Inst(s, w)
  OBVIOUS
<1>2. CASE ~ UsesQueue(i)
  BY <1>1, <1>2 DEF Issued
<1>3. CASE UsesQueue(i)
  <2>1. PICK m : m = KeyOf(i.queue, w)
    OBVIOUS
  <2>2. /\ w \in Warps /\ m = <<i.queue, PairOf(w)>>
        /\ i.op = "qload" <=> IsProducer(w)
    BY <2>1, <1>1, <1>3, InstructionAt
  <2>3. m # <<kind, p>>
    <3> SUFFICES ASSUME m = <<kind, p>> PROVE FALSE
      OBVIOUS
    <3>1. i.queue = kind /\ PairOf(w) = p
      BY <2>2
    <3>2. CASE IsProducer(w)
      BY <3>1, <3>2, <2>2, <1>1, PairIsWarp
    <3>3. CASE ~ IsProducer(w)
      <4>1. i.op = "qmov"
        BY <3>3, <2>2, <1>3 DEF UsesQueue
      <4>2. p = w - Producers
        BY <3>1, <3>3, <2>2, PairIsWarp
      <4>3. w = p + Producers
        BY <4>2, <2>2, NumberOfWarps, WarpsAssumption
      <4> QED BY <4>1, <4>3, <3>1, <1>1
    <3> QED BY <3>2, <3>3
  <2>4. PICK n : t.queue = [s.queue EXCEPT ![m] = n]
    <3>1. t.queue = QueuesAfter(s, i, w, s.warp[w].pc)
      BY <1>1, <1>3 DEF Issued
    <3> QED BY <3>1, <2>1 DEF QueuesAfter
  <2>5. s.queue \in [Keys -> Seq(Entries)] /\ <<kind, p>> \in Keys
    BY DEF QueueOK, Keys
  <2> QED BY <2>3, <2>4, <2>5
<1> QED BY <1>2, <1>3

\* An issue keeps every queue between its two warps, and a MOV reads what its
\* load has read.
LEMMA PairsIssued ==
  ASSUME NEW s, NEW w, NEW t, NEW x, CoreInv(s), QueueOK(s), Fit(s, w),
         Ready(s, w), CoreInv(t), Issued(s, w, t, x)
  PROVE  PairsOK(t) /\ MovesOK(t)
<1>1. PICK i, pc, code : i = Inst(s, w) /\ pc = s.warp[w].pc /\ code = s.code
  OBVIOUS
<1>2. /\ w \in Warps /\ ~ s.warp[w].done /\ pc \in Nat
      /\ code \in Programs /\ pc \in 1 .. Len(code[w]) /\ i = code[w][pc]
      /\ UsesQueue(i) =>
           /\ i.queue \in QueueKinds
           /\ i.op = "qload" <=> IsProducer(w)
           /\ KeyOf(i.queue, w) = <<i.queue, PairOf(w)>>
           /\ KeyOf(i.queue, w) \in Keys
  BY <1>1, InstructionAt
<1>3. /\ t.code = code /\ t.flight = s.flight \cup {x}
      /\ x.warp = w /\ x.pc = pc /\ x.got = Found(s, i, w)
      /\ \A v \in Warps \ {w} : t.warp[v] = s.warp[v]
      /\ t.queue = IF UsesQueue(i) THEN QueuesAfter(s, i, w, pc) ELSE s.queue
  BY <1>1 DEF Issued
<1>4. ~ s.warp[w].exited
  BY <1>2 DEF CoreInv, WarpOK
<1>5. ASSUME NEW kind \in QueueKinds, NEW p \in Warps, p + Producers \in Warps
      PROVE  Follows(code[p], code[p + Producers], kind, s.warp[p].pc,
                     s.warp[p + Producers].pc, s.queue[<<kind, p>>])
  BY <1>1, <1>2, <1>4, <1>5 DEF QueueOK, PairsOK
<1>6. \A v \in Warps : Len(code[v]) \in Nat
  BY <1>2, ProgramAssumption DEF Forward
<1>7. ASSUME NEW op \in {"qload", "qmov"}, NEW kind
      PROVE  /\ i.op = op /\ i.queue = kind =>
                  /\ Cardinality(Passed(code[w], op, kind, t.warp[w].pc))
                       = Cardinality(Passed(code[w], op, kind, pc)) + 1
                  /\ Rank(code[w], op, kind, pc)
                       = Cardinality(Passed(code[w], op, kind, pc)) + 1
                  /\ pc \in UsesOf(code[w], op, kind)
             /\ ~ (i.op = op /\ i.queue = kind) =>
                  Passed(code[w], op, kind, t.warp[w].pc)
                    = Passed(code[w], op, kind, pc)
  BY <1>1, PassesOne
<1>8. /\ s.queue \in [Keys -> Seq(Entries)]
      /\ Producers \in Nat \ {0} /\ \A v \in Warps : v \in Nat
  BY NumberOfWarps, WarpsAssumption DEF QueueOK
<1>9. i.op = "qload" => PairOf(w) = w
  BY <1>2, PairIsWarp DEF UsesQueue
<1>10. i.op = "qmov" => w = PairOf(w) + Producers /\ PairOf(w) \in Warps
  <2> SUFFICES ASSUME i.op = "qmov"
               PROVE  w = PairOf(w) + Producers /\ PairOf(w) \in Warps
    OBVIOUS
  <2>1. ~ IsProducer(w)
    BY <1>2 DEF UsesQueue
  <2>2. PairOf(w) = w - Producers /\ PairOf(w) \in Warps
    BY <2>1, <1>2, PairIsWarp
  <2> QED BY <2>2, <1>2, <1>8
<1>11. ASSUME NEW kind \in QueueKinds, NEW p \in Warps, p + Producers \in Warps
       PROVE  Follows(code[p], code[p + Producers], kind, t.warp[p].pc,
                      t.warp[p + Producers].pc, t.queue[<<kind, p>>])
  <2>1. PICK c, q, k : /\ c = p + Producers /\ k = <<kind, p>>
                       /\ q = s.queue[k]
    OBVIOUS
  <2>2. k \in Keys /\ q \in Seq(Entries) /\ c \in Warps /\ c # p
    BY <2>1, <1>8, <1>11 DEF Keys
  <2>3. Follows(code[p], code[c], kind, s.warp[p].pc, s.warp[c].pc, q)
    BY <2>1, <1>5, <1>11
  <2>4. CASE w = p /\ i.op = "qload" /\ i.queue = kind
    <3>1. PICK e : e = StoreLanes(Reserve(i, pc), i)
      OBVIOUS
    <3>2. e \in Entries /\ e.pc = pc
      BY <3>1, <1>2, EntryOf
    <3>3. t.queue[k] = Append(q, e)
      BY <2>1, <2>2, <2>4, <3>1, <1>3, <1>8, <1>9, Zenon
      DEF QueuesAfter, KeyOf, UsesQueue
    <3>4. /\ Cardinality(Passed(code[p], "qload", kind, t.warp[p].pc))
               = Cardinality(Passed(code[p], "qload", kind, pc)) + 1
          /\ Rank(code[p], "qload", kind, pc)
               = Cardinality(Passed(code[p], "qload", kind, pc)) + 1
          /\ pc \in UsesOf(code[p], "qload", kind)
      BY <2>4, <1>7
    <3>5. Names(code[p], kind, Cardinality(Passed(code[p], "qload", kind, pc)) + 1, e)
      BY <2>4, <3>1, <3>2, <3>4, <1>2 DEF Names
    <3>6. t.warp[c].pc = s.warp[c].pc /\ s.warp[p].pc = pc
      BY <2>2, <2>4, <1>1, <1>3
    <3>7. Len(code[p]) \in Nat /\ Len(code[c]) \in Nat
      BY <2>2, <1>6
    <3>8. Follows(code[p], code[c], kind, t.warp[p].pc, s.warp[c].pc, Append(q, e))
      BY <2>2, <2>3, <3>2, <3>4, <3>5, <3>6, <3>7, FollowsLoad
    <3> QED BY <2>1, <3>3, <3>6, <3>8
  <2>5. CASE w = c /\ i.op = "qmov" /\ i.queue = kind
    <3>1. PairOf(w) = p
      BY <2>1, <2>5, <1>8, <1>10
    <3>2. k = KeyOf(i.queue, w)
      BY <2>1, <2>5, <3>1 DEF KeyOf
    <3>3. q # <<>>
      BY <2>1, <2>5, <3>2, <1>1 DEF Ready, Lets, UsesQueue
    <3>4. t.queue[k] = Tail(q)
      BY <2>1, <2>2, <2>5, <3>2, <1>3, <1>8 DEF QueuesAfter, UsesQueue
    <3>5. Cardinality(Passed(code[c], "qmov", kind, t.warp[c].pc))
            = Cardinality(Passed(code[c], "qmov", kind, s.warp[c].pc)) + 1
      BY <2>5, <1>1, <1>7
    <3>6. t.warp[p].pc = s.warp[p].pc
      BY <2>2, <2>5, <1>3
    <3>7. Len(code[p]) \in Nat /\ Len(code[c]) \in Nat
      BY <2>2, <1>6
    <3>8. Follows(code[p], code[c], kind, s.warp[p].pc, t.warp[c].pc, Tail(q))
      BY <2>2, <2>3, <3>3, <3>5, <3>7, FollowsMove
    <3> QED BY <2>1, <3>4, <3>6, <3>8
  <2>6. CASE /\ ~ (w = p /\ i.op = "qload" /\ i.queue = kind)
             /\ ~ (w = c /\ i.op = "qmov" /\ i.queue = kind)
    <3>1. t.queue[k] = q
      BY <2>1, <2>6, <1>1, <1>11, OtherQueues
    <3>2. Passed(code[p], "qload", kind, t.warp[p].pc)
            = Passed(code[p], "qload", kind, s.warp[p].pc)
      BY <2>6, <1>1, <1>3, <1>7
    <3>3. Passed(code[c], "qmov", kind, t.warp[c].pc)
            = Passed(code[c], "qmov", kind, s.warp[c].pc)
      BY <2>2, <2>6, <1>1, <1>3, <1>7
    <3> QED BY <2>1, <2>3, <3>1, <3>2, <3>3 DEF Follows
  <2> QED BY <2>4, <2>5, <2>6
<1>12. PairsOK(t)
  BY <1>3, <1>11 DEF PairsOK
<1>13. ASSUME NEW l \in i.mask, i.op = "qmov"
       PROVE  x.got[l] = LoadedWords(LoadOf(code, w, pc), l)
  <2>1. PICK p, kind : p = PairOf(w) /\ kind = i.queue
    OBVIOUS
  <2>2. PICK k, q, e : k = <<kind, p>> /\ q = s.queue[k] /\ e = Head(q)
    OBVIOUS
  <2>3. /\ p \in Warps /\ w = p + Producers
        /\ UsesQueue(i) /\ kind \in QueueKinds
        /\ k = KeyOf(i.queue, w) /\ k \in Keys
    BY <2>1, <2>2, <1>2, <1>10, <1>13 DEF UsesQueue
  <2>4. q \in Seq(Entries) /\ q # <<>>
    BY <2>2, <2>3, <1>1, <1>8, <1>13 DEF Ready, Lets
  <2>5. Follows(code[p], code[w], kind, s.warp[p].pc, pc, q)
    BY <2>2, <2>3, <1>1, <1>2, <1>5
  <2>6. Len(code[p]) \in Nat /\ Len(code[w]) \in Nat
    BY <2>3, <1>2, <1>6
  <2>7. /\ Cardinality(Passed(code[w], "qmov", kind, t.warp[w].pc))
             = Cardinality(Passed(code[w], "qmov", kind, pc)) + 1
        /\ Rank(code[w], "qmov", kind, pc)
             = Cardinality(Passed(code[w], "qmov", kind, pc)) + 1
        /\ pc \in UsesOf(code[w], "qmov", kind)
    BY <2>1, <1>7, <1>13
  <2>8. Names(code[p], kind, Rank(code[w], "qmov", kind, pc), e)
    BY <2>2, <2>4, <2>5, <2>6, <2>7, FollowsMove
  <2>9. PICK j : j = e.pc
    OBVIOUS
  <2>10. /\ j \in UsesOf(code[p], "qload", kind)
         /\ Rank(code[p], "qload", kind, j) = Rank(code[w], "qmov", kind, pc)
         /\ e = StoreLanes(Reserve(code[p][j], j), code[p][j])
    BY <2>8, <2>9 DEF Names
  <2>11. LoadOf(code, w, pc) = code[p][j]
    <3>1. PICK m : m = (CHOOSE n \in UsesOf(code[p], "qload", kind) :
             Rank(code[p], "qload", kind, n) = Rank(code[w], "qmov", kind, pc))
      OBVIOUS
    <3>2. /\ m \in UsesOf(code[p], "qload", kind)
          /\ Rank(code[p], "qload", kind, m) = Rank(code[w], "qmov", kind, pc)
      BY <3>1, <2>10
    <3>3. m = j
      BY <3>2, <2>6, <2>10, RankUnique
    <3>4. LoadOf(code, w, pc) = code[p][m]
      BY <3>1, <2>1, <1>2 DEF LoadOf
    <3> QED BY <3>3, <3>4
  <2>12. Match(i, code[p][j])
    BY <2>1, <2>3, <2>7, <2>10, <1>2, PairAssumption
  <2>13. x.got = MovedWords(e, i)
    BY <2>2, <2>3, <1>3, <1>13 DEF Found
  <2> QED BY <2>10, <2>11, <2>12, <2>13, <1>13, MovedWhat
<1>14. MovesOK(t)
  <2> SUFFICES ASSUME NEW f \in t.flight, code[f.warp][f.pc].op = "qmov",
                      NEW l \in code[f.warp][f.pc].mask
               PROVE  f.got[l] = LoadedWords(LoadOf(code, f.warp, f.pc), l)
    BY <1>3 DEF MovesOK
  <2>1. CASE f \in s.flight
    BY <2>1, <1>1 DEF QueueOK, MovesOK
  <2>2. CASE f = x
    BY <2>2, <1>2, <1>3, <1>13
  <2> QED BY <2>1, <2>2, <1>3
<1> QED BY <1>12, <1>14

\* Where neither the code nor the queues change, a load still finds its entry.
LEMMA SameEntryFound ==
  ASSUME NEW s, NEW t, NEW f, t.code = s.code, t.queue = s.queue, FindsEntry(s, f)
  PROVE  FindsEntry(t, f)
BY DEF FindsEntry

\* An instruction that uses no queue leaves the queues in order.
LEMMA PlainIssue ==
  ASSUME NEW s, NEW w, NEW t, NEW x, CoreInv(s), QueueOK(s), Fit(s, w),
         CoreInv(t), Issued(s, w, t, x), ~ UsesQueue(Inst(s, w))
  PROVE  QueueOK(t)
<1>1. t.queue = s.queue /\ t.code = s.code /\ t.flight = s.flight \cup {x}
      /\ x.warp = w /\ x.pc = s.warp[w].pc
  BY DEF Issued
<1>2. /\ \A v \in Warps : ~ t.warp[v].done =>
              /\ ~ s.warp[v].done /\ s.warp[v].pc \in Nat /\ t.warp[v].pc \in Nat
              /\ s.warp[v].pc <= t.warp[v].pc
      /\ ~ t.warp[w].exited
  BY IssuedWarps
<1>3. /\ w \in Warps /\ ~ s.warp[w].done /\ s.code \in Programs
      /\ Inst(s, w) = s.code[w][s.warp[w].pc]
  BY InstructionAt
<1>4. \A kind \in QueueKinds : \A v \in Warps :
        ~ t.warp[v].done => Behind(t.queue[<<kind, v>>], t.warp[v].pc)
  <2> SUFFICES ASSUME NEW kind \in QueueKinds, NEW v \in Warps, ~ t.warp[v].done
               PROVE  Behind(t.queue[<<kind, v>>], t.warp[v].pc)
    OBVIOUS
  <2>1. Behind(s.queue[<<kind, v>>], s.warp[v].pc)
    BY <1>2 DEF QueueOK
  <2>2. s.queue[<<kind, v>>] \in Seq(Entries)
    BY DEF QueueOK, Keys
  <2> QED BY <2>1, <2>2, <1>1, <1>2, StaysBehind
<1>5. \A f \in t.flight :
        t.code[f.warp][f.pc].op = "qload" => FindsEntry(t, f)
  <2> SUFFICES ASSUME NEW f \in t.flight, t.code[f.warp][f.pc].op = "qload"
               PROVE  FindsEntry(t, f)
    OBVIOUS
  <2>1. f \in s.flight
    BY <1>1, <1>3 DEF UsesQueue
  <2>2. s.code[f.warp][f.pc].op = "qload"
    BY <1>1
  <2>3. FindsEntry(s, f)
    BY <2>1, <2>2 DEF QueueOK
  <2> QED BY <2>3, <1>1, SameEntryFound
<1>6. PairsOK(t) /\ MovesOK(t)
  BY PairsIssued DEF Ready
<1> QED BY <1>1, <1>2, <1>3, <1>4, <1>5, <1>6 DEF QueueOK

\* A queue load takes a slot that is free, and is found in it.
LEMMA LoadIssue ==
  ASSUME NEW s, NEW w, NEW t, NEW x, CoreInv(s), QueueOK(s), Fit(s, w),
         CoreInv(t), Issued(s, w, t, x), Ready(s, w), Inst(s, w).op = "qload"
  PROVE  QueueOK(t)
<1>1. PICK i : i = Inst(s, w)
  OBVIOUS
<1>2. PICK pc : pc = s.warp[w].pc
  OBVIOUS
<1>3. UsesQueue(i)
  BY <1>1 DEF UsesQueue
<1>4. /\ w \in Warps /\ ~ s.warp[w].done /\ pc \in Nat
      /\ s.code \in Programs /\ pc \in 1 .. Len(s.code[w]) /\ i = s.code[w][pc]
      /\ i.queue \in QueueKinds /\ IsProducer(w) /\ PairOf(w) = w
  BY <1>1, <1>2, <1>3, InstructionAt, PairIsWarp
<1>5. PICK k : k = <<i.queue, w>>
  OBVIOUS
<1>6. k \in Keys /\ KeyOf(i.queue, w) = k
  BY <1>4, <1>5 DEF Keys, KeyOf
<1>7. PICK e : e = StoreLanes(Reserve(i, pc), i)
  OBVIOUS
<1>8. e \in Entries /\ e.pc = pc
  BY <1>4, <1>7, EntryOf
<1>9. PICK q : q = s.queue[k]
  OBVIOUS
<1>10. /\ s.queue \in [Keys -> Seq(Entries)] /\ q \in Seq(Entries)
       /\ Len(q) < Depth
  BY <1>1, <1>3, <1>6, <1>9 DEF QueueOK, Ready, Lets
<1>11. t.queue = [s.queue EXCEPT ![k] = Append(q, e)]
  BY <1>1, <1>2, <1>3, <1>6, <1>7, <1>9 DEF Issued, QueuesAfter
<1>12. /\ Append(q, e) \in Seq(Entries) /\ Len(Append(q, e)) = Len(q) + 1
       /\ \A n \in 1 .. Len(q) : Append(q, e)[n] = q[n]
       /\ Append(q, e)[Len(q) + 1] = e /\ Len(q) \in Nat
  BY <1>8, <1>10
<1>13. PICK q2 : q2 = Append(q, e)
  OBVIOUS
<1>14. /\ t.queue \in [Keys -> Seq(Entries)] /\ t.queue[k] = q2
       /\ \A j \in Keys : j # k => t.queue[j] = s.queue[j]
  BY <1>6, <1>10, <1>11, <1>12, <1>13
<1>15. /\ \A v \in Warps : ~ t.warp[v].done =>
              /\ ~ s.warp[v].done /\ s.warp[v].pc \in Nat /\ t.warp[v].pc \in Nat
              /\ s.warp[v].pc <= t.warp[v].pc
              /\ v = w => s.warp[v].pc < t.warp[v].pc
       /\ ~ t.warp[w].exited
  BY IssuedWarps
<1>16. t.code = s.code /\ t.flight = s.flight \cup {x} /\ x.warp = w /\ x.pc = pc
  BY <1>2 DEF Issued
<1>17. \A j \in Keys : Len(t.queue[j]) <= Depth
  <2>1. Depth \in Nat
    BY SchedulerAssumption
  <2>2. Len(q2) <= Depth
    BY <2>1, <1>10, <1>12, <1>13
  <2>3. \A j \in Keys : Len(s.queue[j]) <= Depth
    BY DEF QueueOK
  <2> QED BY <2>2, <2>3, <1>14
<1>18. \A kind \in QueueKinds : \A v \in Warps :
        ~ t.warp[v].done => Behind(t.queue[<<kind, v>>], t.warp[v].pc)
  <2> SUFFICES ASSUME NEW kind \in QueueKinds, NEW v \in Warps, ~ t.warp[v].done
               PROVE  Behind(t.queue[<<kind, v>>], t.warp[v].pc)
    OBVIOUS
  <2>1. Behind(s.queue[<<kind, v>>], s.warp[v].pc)
    BY <1>15 DEF QueueOK
  <2>2. <<kind, v>> \in Keys /\ s.queue[<<kind, v>>] \in Seq(Entries)
    BY DEF QueueOK, Keys
  <2>3. Behind(s.queue[<<kind, v>>], t.warp[v].pc)
    BY <2>1, <2>2, <1>15, StaysBehind
  <2>4. CASE <<kind, v>> = k
    <3>1. v = w
      BY <2>4, <1>5
    <3>2. Behind(q, t.warp[w].pc)
      BY <2>3, <2>4, <3>1, <1>9
    <3>3. e.pc < t.warp[w].pc
      BY <3>1, <1>2, <1>8, <1>15
    <3>4. Behind(q2, t.warp[w].pc)
      BY <3>2, <3>3, <1>12, <1>13 DEF Behind
    <3> QED BY <2>4, <3>1, <3>4, <1>14
  <2>5. CASE <<kind, v>> # k
    BY <2>2, <2>3, <2>5, <1>14
  <2> QED BY <2>4, <2>5
<1>19. \A f \in t.flight :
         t.code[f.warp][f.pc].op = "qload" => FindsEntry(t, f)
  <2> SUFFICES ASSUME NEW f \in t.flight, t.code[f.warp][f.pc].op = "qload"
               PROVE  FindsEntry(t, f)
    OBVIOUS
  <2>1. CASE f \in s.flight
    <3>1. FindsEntry(s, f) /\ f.warp \in Warps
      BY <2>1, <1>16 DEF QueueOK, CoreInv, FlightOK, FlightShape
    <3>2. PICK j : j = <<s.code[f.warp][f.pc].queue, f.warp>>
      OBVIOUS
    <3>3. PICK n \in 1 .. Len(s.queue[j]) : s.queue[j][n].pc = f.pc
      BY <3>1, <3>2 DEF FindsEntry
    <3>4. j \in Keys
      BY <3>1, <3>2 DEF FindsEntry, Keys
    <3>5. n \in 1 .. Len(t.queue[j]) /\ t.queue[j][n].pc = f.pc
      <4>1. CASE j = k
        BY <4>1, <3>3, <1>9, <1>12, <1>13, <1>14
      <4>2. CASE j # k
        BY <4>2, <3>3, <3>4, <1>14
      <4> QED BY <4>1, <4>2
    <3> QED BY <3>1, <3>2, <3>5, <1>16 DEF FindsEntry
  <2>2. CASE f = x
    <3>1. t.code[f.warp][f.pc] = i /\ f.warp = w /\ f.pc = pc
      BY <2>2, <1>4, <1>16
    <3>2. Len(q) + 1 \in 1 .. Len(q2) /\ q2[Len(q) + 1].pc = pc
      BY <1>8, <1>12, <1>13
    <3> QED BY <3>1, <3>2, <1>4, <1>5, <1>14 DEF FindsEntry
  <2> QED BY <2>1, <2>2, <1>16
<1>20. \A v \in Warps : ~ t.warp[v].done => t.code \in Programs
  BY <1>4, <1>16
<1>21. PairsOK(t) /\ MovesOK(t)
  BY PairsIssued
<1> QED BY <1>4, <1>14, <1>15, <1>17, <1>18, <1>19, <1>20, <1>21 DEF QueueOK

\* A MOV takes the head, which no load in flight still waits for.
LEMMA MoveIssue ==
  ASSUME NEW s, NEW w, NEW t, NEW x, CoreInv(s), QueueOK(s), Fit(s, w),
         CoreInv(t), Issued(s, w, t, x), Ready(s, w), Inst(s, w).op = "qmov"
  PROVE  QueueOK(t)
<1>1. PICK i : i = Inst(s, w)
  OBVIOUS
<1>2. PICK pc : pc = s.warp[w].pc
  OBVIOUS
<1>3. UsesQueue(i) /\ i.op = "qmov"
  BY <1>1 DEF UsesQueue
<1>4. /\ w \in Warps /\ ~ s.warp[w].done /\ pc \in Nat
      /\ s.code \in Programs /\ pc \in 1 .. Len(s.code[w]) /\ i = s.code[w][pc]
      /\ i.queue \in QueueKinds
  BY <1>1, <1>2, <1>3, InstructionAt
<1>5. PICK k : k = <<i.queue, PairOf(w)>>
  OBVIOUS
<1>6. k \in Keys /\ KeyOf(i.queue, w) = k
  BY <1>4, <1>5, PairIsWarp DEF Keys, KeyOf
<1>7. PICK q : q = s.queue[k]
  OBVIOUS
<1>8. /\ s.queue \in [Keys -> Seq(Entries)] /\ q \in Seq(Entries)
       /\ q # <<>> /\ EntryReady(s, w, Head(q))
  BY <1>1, <1>3, <1>6, <1>7 DEF QueueOK, Ready, Lets
<1>9. t.queue = [s.queue EXCEPT ![k] = Tail(q)]
  BY <1>1, <1>2, <1>3, <1>6, <1>7 DEF Issued, QueuesAfter
<1>10. /\ Tail(q) \in Seq(Entries) /\ Len(Tail(q)) = Len(q) - 1
       /\ \A n \in 1 .. Len(q) - 1 : Tail(q)[n] = q[n + 1]
       /\ Len(q) \in Nat \ {0} /\ Head(q) = q[1]
  BY <1>8
<1>11. PICK q2 : q2 = Tail(q)
  OBVIOUS
<1>12. /\ t.queue \in [Keys -> Seq(Entries)] /\ t.queue[k] = q2
       /\ \A j \in Keys : j # k => t.queue[j] = s.queue[j]
  BY <1>6, <1>8, <1>9, <1>10, <1>11
<1>13. /\ \A v \in Warps : ~ t.warp[v].done =>
              /\ ~ s.warp[v].done /\ s.warp[v].pc \in Nat /\ t.warp[v].pc \in Nat
              /\ s.warp[v].pc <= t.warp[v].pc
       /\ ~ t.warp[w].exited
  BY IssuedWarps
<1>14. t.code = s.code /\ t.flight = s.flight \cup {x} /\ x.warp = w /\ x.pc = pc
  BY <1>2 DEF Issued
<1>15. \A j \in Keys : Len(t.queue[j]) <= Depth
  <2>1. Depth \in Nat
    BY SchedulerAssumption
  <2>2. \A j \in Keys : Len(s.queue[j]) <= Depth
    BY DEF QueueOK
  <2>3. Len(q2) <= Depth
    BY <2>1, <2>2, <1>6, <1>7, <1>10, <1>11
  <2> QED BY <2>2, <2>3, <1>12
<1>16. \A kind \in QueueKinds : \A v \in Warps :
        ~ t.warp[v].done => Behind(t.queue[<<kind, v>>], t.warp[v].pc)
  <2> SUFFICES ASSUME NEW kind \in QueueKinds, NEW v \in Warps, ~ t.warp[v].done
               PROVE  Behind(t.queue[<<kind, v>>], t.warp[v].pc)
    OBVIOUS
  <2>1. Behind(s.queue[<<kind, v>>], s.warp[v].pc)
    BY <1>13 DEF QueueOK
  <2>2. <<kind, v>> \in Keys /\ s.queue[<<kind, v>>] \in Seq(Entries)
    BY DEF QueueOK, Keys
  <2>3. Behind(s.queue[<<kind, v>>], t.warp[v].pc)
    BY <2>1, <2>2, <1>13, StaysBehind
  <2>4. CASE <<kind, v>> = k
    <3>1. Behind(q, t.warp[v].pc)
      BY <2>3, <2>4, <1>7
    <3>2. Behind(q2, t.warp[v].pc)
      <4>1. \A n \in 1 .. Len(q2) : n + 1 \in 1 .. Len(q) /\ q2[n] = q[n + 1]
        BY <1>10, <1>11
      <4> QED BY <3>1, <4>1 DEF Behind
    <3> QED BY <2>4, <3>2, <1>12
  <2>5. CASE <<kind, v>> # k
    BY <2>2, <2>3, <2>5, <1>12
  <2> QED BY <2>4, <2>5
<1>17. \A f \in t.flight :
         t.code[f.warp][f.pc].op = "qload" => FindsEntry(t, f)
  <2> SUFFICES ASSUME NEW f \in t.flight, t.code[f.warp][f.pc].op = "qload"
               PROVE  FindsEntry(t, f)
    OBVIOUS
  <2>1. f \in s.flight
    BY <1>3, <1>4, <1>14
  <2>2. FindsEntry(s, f) /\ f.warp \in Warps
    BY <2>1, <1>14 DEF QueueOK, CoreInv, FlightOK, FlightShape
  <2>3. PICK j : j = <<s.code[f.warp][f.pc].queue, f.warp>>
    OBVIOUS
  <2>4. PICK n \in 1 .. Len(s.queue[j]) : s.queue[j][n].pc = f.pc
    BY <2>2, <2>3 DEF FindsEntry
  <2>5. j \in Keys
    BY <2>2, <2>3 DEF FindsEntry, Keys
  <2>6. \E m \in 1 .. Len(t.queue[j]) : t.queue[j][m].pc = f.pc
    <3>1. CASE j = k
      <4>1. f.warp = PairOf(w)
        <5>1. j[2] = f.warp /\ k[2] = PairOf(w)
          BY <2>3, <1>5
        <5> QED BY <5>1, <3>1
      <4>2. n # 1
        BY <2>1, <2>4, <3>1, <4>1, <1>7, <1>8, <1>10 DEF EntryReady
      <4>3. n - 1 \in 1 .. Len(q2) /\ q2[n - 1] = q[n]
        BY <2>4, <3>1, <4>2, <1>7, <1>10, <1>11
      <4> QED BY <2>4, <3>1, <4>3, <1>7, <1>12
    <3>2. CASE j # k
      BY <3>2, <2>4, <2>5, <1>12
    <3> QED BY <3>1, <3>2
  <2> QED BY <2>2, <2>3, <2>6, <1>14 DEF FindsEntry
<1>18. \A v \in Warps : ~ t.warp[v].done => t.code \in Programs
  BY <1>4, <1>14
<1>19. PairsOK(t) /\ MovesOK(t)
  BY PairsIssued
<1> QED BY <1>4, <1>12, <1>13, <1>15, <1>16, <1>17, <1>18, <1>19 DEF QueueOK

\* Every step but an issue and the start and the end of a CTA.
LEMMA FrameKeeps ==
  ASSUME NEW s, NEW t, QueueOK(s), Frame(s, t)
  PROVE  QueueOK(t)
<1>1. t.code = s.code /\ t.queue = s.queue
  BY DEF Frame
<1>2. ASSUME NEW f \in t.flight, t.code[f.warp][f.pc].op = "qload"
      PROVE  FindsEntry(t, f)
  <2>1. PICK g \in s.flight : g.warp = f.warp /\ g.pc = f.pc
    BY DEF Frame
  <2>2. FindsEntry(s, g)
    BY <1>1, <1>2, <2>1 DEF QueueOK
  <2> QED BY <1>1, <2>1, <2>2 DEF FindsEntry
<1>3. \A kind \in QueueKinds : \A w \in Warps :
        ~ t.warp[w].done => Behind(t.queue[<<kind, w>>], t.warp[w].pc)
  BY <1>1 DEF QueueOK, Frame
<1>4. (\A w \in Warps : t.warp[w].exited) => \A k \in Keys : t.queue[k] = <<>>
  BY <1>1 DEF QueueOK, Frame
<1>5. \A w \in Warps : ~ t.warp[w].done => t.code \in Programs
  BY <1>1 DEF QueueOK, Frame
<1>6. PairsOK(t)
  <2>1. \A w \in Warps : /\ t.warp[w].pc = s.warp[w].pc
                         /\ s.warp[w].exited => t.warp[w].exited
    BY DEF Frame
  <2>2. PairsOK(s)
    BY DEF QueueOK
  <2> QED BY <2>1, <2>2, <1>1 DEF PairsOK
<1>7. MovesOK(t)
  <2> SUFFICES ASSUME NEW f \in t.flight, s.code[f.warp][f.pc].op = "qmov",
                      NEW l \in s.code[f.warp][f.pc].mask
               PROVE  f.got[l] = LoadedWords(LoadOf(s.code, f.warp, f.pc), l)
    BY <1>1 DEF MovesOK
  <2>1. PICK g \in s.flight : g.warp = f.warp /\ g.pc = f.pc /\ g.got = f.got
    BY DEF Frame
  <2>2. MovesOK(s)
    BY DEF QueueOK
  <2> QED BY <2>1, <2>2 DEF MovesOK
<1> QED BY <1>1, <1>2, <1>3, <1>4, <1>5, <1>6, <1>7 DEF QueueOK

\* A core that all its warps have left has nothing in flight.
LEMMA LeftEmpty ==
  ASSUME NEW s, CoreInv(s), \A w \in Warps : s.warp[w].exited
  PROVE  s.flight = {} /\ \A w \in Warps : s.warp[w].done
<1>1. \A w \in Warps : Flying(s.flight, w) = {} /\ s.warp[w].done
  BY DEF CoreInv, WarpOK
<1>2. \A f \in s.flight : f.warp \in Warps /\ f \in Flying(s.flight, f.warp)
  BY DEF CoreInv, FlightOK, FlightShape, Flying
<1> QED BY <1>1, <1>2

\* Empty queues are in order when nothing is in flight.
LEMMA EmptyQueues ==
  ASSUME NEW s, s.flight = {}, s.queue = [k \in Keys |-> <<>>],
         \A w \in Warps : ~ s.warp[w].done => s.code \in Programs,
         \/ \A w \in Warps : s.warp[w].exited
         \/ \A w \in Warps : s.warp[w].pc = 1 /\ Len(s.code[w]) \in Nat
  PROVE  QueueOK(s)
<1>1. \A k \in Keys : s.queue[k] = <<>>
  OBVIOUS
<1>2. <<>> \in Seq(Entries) /\ Len(<<>>) = 0 /\ Depth \in Nat
  BY SchedulerAssumption
<1>3. s.queue \in [Keys -> Seq(Entries)]
  BY <1>2
<1>4. \A kind \in QueueKinds : \A w \in Warps :
        Behind(s.queue[<<kind, w>>], s.warp[w].pc)
  <2>1. \A n : Behind(<<>>, n)
    BY DEF Behind
  <2> QED BY <1>1, <2>1 DEF Keys
<1>5. PairsOK(s)
  <2>1. CASE \A w \in Warps : s.warp[w].exited
    BY <2>1 DEF PairsOK
  <2>2. CASE \A w \in Warps : s.warp[w].pc = 1 /\ Len(s.code[w]) \in Nat
    <3>1. ASSUME NEW w \in Warps, NEW op, NEW kind
          PROVE  Cardinality(Passed(s.code[w], op, kind, 1)) = 0
      <4>1. Passed(s.code[w], op, kind, 1) = {}
        BY <2>2 DEF Passed, UsesOf
      <4> QED BY <4>1, FS_EmptySet
    <3> SUFFICES ASSUME NEW kind \in QueueKinds, NEW p \in Warps,
                        p + Producers \in Warps
                 PROVE  Follows(s.code[p], s.code[p + Producers], kind, 1, 1, <<>>)
      BY <2>2, <1>1 DEF PairsOK, Keys
    <3> QED BY <3>1, <1>2 DEF Follows
  <2> QED BY <2>1, <2>2
<1>6. MovesOK(s)
  BY DEF MovesOK
<1> QED BY <1>1, <1>2, <1>3, <1>4, <1>5, <1>6 DEF QueueOK

-----------------------------------------------------------------------------
(* The steps.                                                              *)

\* A warp that waits before and after keeps what fetch has for it current.
LEMMA FetchWaits ==
  ASSUME NEW s, NEW t, NEW b, FetchOK(s, b), Waits(s, t)
  PROVE  FetchOK(t, b)
BY DEF FetchOK, Waits

\* Two steps that keep warps waiting, one after the other.
LEMMA WaitsOn ==
  ASSUME NEW s, NEW t, NEW u, Waits(s, t), Waits(t, u)
  PROVE  Waits(s, u)
BY DEF Waits

\* The buffer of a warp, as the set of its valid places and as a record.
LEMMA BufferedHeld ==
  ASSUME NEW s, NEW w \in Warps, CoreInv(s)
  PROVE  /\ Cardinality(Buffered(s, w)) = Held(s.warp[w])
         /\ Buffered(s, w) = {} <=> Empty(s.warp[w])
<1>1. s.warp[w].ibuf \in [1 .. 2 -> Nat]
  BY DEF CoreInv, WarpOK, WarpShape
<1>2. PICK r : r = s.warp[w]
  OBVIOUS
<1>3. /\ Cardinality({i \in 1 .. 2 : r.ibuf[i] # 0}) = Held(r)
      /\ {i \in 1 .. 2 : r.ibuf[i] # 0} = {} <=> Empty(r)
  BY <1>1, <1>2, HeldCounts
<1> QED BY <1>2, <1>3 DEF Buffered

\* The scheduler issues from warps that hold the instruction at their pc.
LEMMA IssuableFits ==
  ASSUME NEW s, NEW w, CoreInv(s), Issuable(s, w)
  PROVE  Fit(s, w) /\ NextPc(s, w) = s.warp[w].pc
<1>1. w \in Warps /\ ~ s.warp[w].done /\ Buffered(s, w) # {}
  BY DEF Issuable, Visible
<1>2. ~ Empty(s.warp[w])
  BY <1>1, BufferedHeld
<1>3. NextPc(s, w) = s.warp[w].pc /\ UnitFree(s, Inst(s, w).unit)
      /\ ~ Collides(s, w)
  BY DEF Issuable
<1> QED BY <1>1, <1>2, <1>3 DEF Fit, NextPc, Inst

\* Its queue, if the instruction uses one, lets it issue.
LEMMA IssuableReady ==
  ASSUME NEW s, NEW w, CoreInv(s), QueueOK(s), Issuable(s, w)
  PROVE  Ready(s, w)
<1>1. Fit(s, w)
  BY IssuableFits
<1>2. UsesQueue(Inst(s, w)) => Inst(s, w).queue \in {"rfq", "smemq"}
  BY <1>1, InstructionAt DEF QueueKinds
<1>3. RfqReady(s, w) /\ SmemqReady(s, w)
  BY DEF Issuable
<1> QED BY <1>2, <1>3 DEF Ready, RfqReady, SmemqReady

\* A warp with a control hazard holds an instruction, not the one at its pc.
LEMMA HazardHolds ==
  ASSUME NEW s, NEW w, CoreInv(s), Hazard(s, w)
  PROVE  w \in Warps /\ ~ Empty(s.warp[w]) /\ NextPc(s, w) # s.warp[w].pc
<1>1. w \in Warps /\ Buffered(s, w) # {} /\ NextPc(s, w) # s.warp[w].pc
  BY DEF Hazard, Visible
<1> QED BY <1>1, BufferedHeld

\* The core and fetch start in order.
LEMMA InitInOrder == Init => IInv
<1> SUFFICES ASSUME Init PROVE IInv
  OBVIOUS
<1>1. PICK q : q = [k \in Keys |-> <<>>]
  OBVIOUS
<1>2. PICK c : c = [w \in Warps |-> <<>>]
  OBVIOUS
<1>3. core = [code |-> c, warp |-> [w \in Warps |-> IdleWarp], flight |-> {},
              queue |-> q, bars |-> NoBarriers]
  BY <1>1, <1>2 DEF Init, EmptyCore
<1>4. /\ core.flight = {} /\ CoreShape(core)
      /\ \A w \in Warps : core.warp[w] = IdleWarp /\ core.code[w] = <<>>
  BY <1>2, <1>3 DEF CoreShape
<1>5. FlightOK(core.flight)
  BY <1>4 DEF FlightOK
<1>6. \A w \in Warps : Flying(core.flight, w) = {}
  BY <1>4 DEF Flying
<1>7. WarpOK(IdleWarp, <<>>, {})
  <2>1. IsFiniteSet({}) /\ Cardinality({}) = 0
    BY FS_EmptySet
  <2>2. /\ IdleWarp.ibuf = <<0, 0>> /\ IdleWarp.inPipe = 0 /\ IdleWarp.imiss = 0
        /\ IdleWarp.done /\ IdleWarp.exited /\ IdleWarp.busy = {}
    BY DEF IdleWarp
  <2>3. WarpShape(IdleWarp)
    BY DEF WarpShape, IdleWarp
  <2>4. Empty(IdleWarp) /\ Held(IdleWarp) = 0
    BY <2>2 DEF Empty, Held
  <2>5. \A code : Owed(code, {}) = {} /\ Apart(code, {})
    BY DEF Owed, Apart
  <2>6. InProgram(IdleWarp, <<>>)
    BY DEF InProgram, IdleWarp
  <2> QED BY <2>1, <2>2, <2>3, <2>4, <2>5, <2>6 DEF WarpOK
<1>8. CoreInv(core)
  BY <1>4, <1>5, <1>6, <1>7 DEF CoreInv
<1>9. fetchBuf = NoFetch /\ lastFetch \in Warps
  BY NumberOfWarps DEF Init
<1>10. QueueOK(core)
  <2>1. /\ core.queue = [k \in Keys |-> <<>>]
        /\ \A w \in Warps : core.warp[w].done /\ core.warp[w].exited
    BY <1>1, <1>3, <1>4 DEF IdleWarp
  <2> QED BY <2>1, <1>4, EmptyQueues
<1> QED BY <1>8, <1>9, <1>10 DEF IInv, FetchOK

\* An issue of a warp that fits keeps the core and its queues in order.
LEMMA IssueFits ==
  ASSUME NEW s, NEW w, NEW taken \in Outcomes(s, w), CoreInv(s), QueueOK(s),
         Fit(s, w), Ready(s, w)
  PROVE  /\ CoreInv(Issue(s, w, taken)) /\ Waits(s, Issue(s, w, taken))
         /\ QueueOK(Issue(s, w, taken))
<1>1. PICK t, x :
        /\ t = Issue(s, w, taken)
        /\ CoreInv(t) /\ Waits(s, t)
        /\ t.code = s.code
        /\ \A v \in Warps \ {w} : t.warp[v] = s.warp[v]
        /\ t.flight = s.flight \cup {x} /\ x.unit = Inst(s, w).unit
        /\ x.warp = w /\ x.pc = s.warp[w].pc /\ x.got = Found(s, Inst(s, w), w)
        /\ GoesTo(Inst(s, w), s.warp[w].pc, t.warp[w].pc)
        /\ t.queue = IF UsesQueue(Inst(s, w))
                     THEN QueuesAfter(s, Inst(s, w), w, s.warp[w].pc) ELSE s.queue
  BY IssueKeeps
<1>2. Issued(s, w, t, x)
  BY <1>1 DEF Issued
<1>3. CoreInv(t)
  BY <1>1
<1>4. CASE ~ UsesQueue(Inst(s, w))
  BY <1>1, <1>2, <1>3, <1>4, PlainIssue
<1>5. CASE Inst(s, w).op = "qload"
  BY <1>1, <1>2, <1>3, <1>5, LoadIssue
<1>6. CASE Inst(s, w).op = "qmov"
  BY <1>1, <1>2, <1>3, <1>6, MoveIssue
<1> QED BY <1>4, <1>5, <1>6 DEF UsesQueue

\* A step of the core alone that keeps it in order and its warps waiting.
LEMMA CoreStep ==
  ASSUME IInv, CoreInv(core'), QueueOK(core'), Waits(core, core'),
         UNCHANGED <<fetchBuf, lastFetch>>
  PROVE  IInv'
<1>1. FetchOK(core', fetchBuf)
  BY FetchWaits DEF IInv
<1> QED BY <1>1 DEF IInv

\* A launch finds a core that fetch has nothing for.
LEMMA LaunchInOrder == IInv /\ LaunchCta => IInv'
<1> SUFFICES ASSUME IInv, LaunchCta PROVE IInv'
  OBVIOUS
<1>1. CoreInv(core) /\ \A w \in Warps : core.warp[w].exited
  BY DEF IInv, LaunchCta
<1>2. PICK p \in Programs : core' = StartCta(core, p)
  BY DEF LaunchCta
<1>3. \A w \in Warps : Forward(p[w])
  BY <1>2, ProgramAssumption
<1>4. /\ CoreInv(core') /\ core'.code = p /\ core'.queue = core.queue
      /\ core'.flight = core.flight
      /\ \A w \in Warps : core'.warp[w].pc = 1
  BY <1>1, <1>2, <1>3, StartKeeps
<1>5. QueueOK(core')
  <2>1. QueueOK(core)
    BY DEF IInv
  <2>2. core.queue = [k \in Keys |-> <<>>]
    BY <2>1, <1>1 DEF QueueOK
  <2>3. core.flight = {}
    BY <1>1, LeftEmpty
  <2>4. \A w \in Warps : Len(core'.code[w]) \in Nat
    BY <1>3, <1>4 DEF Forward
  <2> QED BY <2>2, <2>3, <2>4, <1>2, <1>4, EmptyQueues
<1>6. fetchBuf = NoFetch
  <2>1. \A w \in Warps : core.warp[w].done
    BY <1>1 DEF CoreInv, WarpOK
  <2> QED BY <2>1 DEF IInv, FetchOK, Starved
<1> QED BY <1>4, <1>6, <1>5 DEF IInv, LaunchCta, FetchOK

\* What the producer of a pair issues leaves the consumer its entry: a load
\* goes to the end of the queue, and is none that the head was waiting for.
LEMMA SecondReady ==
  ASSUME NEW s, NEW prod, NEW cons, NEW t, NEW x, CoreInv(s), QueueOK(s),
         Fit(s, prod), Fit(s, cons), Ready(s, cons), Issued(s, prod, t, x),
         IsProducer(prod), ~ IsProducer(cons), Inst(t, cons) = Inst(s, cons)
  PROVE  Ready(t, cons)
<1> SUFFICES ASSUME UsesQueue(Inst(t, cons))
             PROVE  Lets(t, cons, t.queue[KeyOf(Inst(t, cons).queue, cons)])
  BY DEF Ready
<1>1. PICK j : j = Inst(s, cons)
  OBVIOUS
<1>2. PICK i : i = Inst(s, prod)
  OBVIOUS
<1>3. PICK pc : pc = s.warp[prod].pc
  OBVIOUS
<1>4. PICK k : k = KeyOf(j.queue, cons)
  OBVIOUS
<1>5. /\ UsesQueue(j) /\ j.queue \in QueueKinds /\ j.op # "qload" /\ k \in Keys
      /\ k = <<j.queue, PairOf(cons)>>
  BY <1>1, <1>4, InstructionAt
<1>6. j.op = "qmov"
  BY <1>5 DEF UsesQueue
<1>7. PICK q : q = s.queue[k]
  OBVIOUS
<1>8. /\ s.queue \in [Keys -> Seq(Entries)] /\ q \in Seq(Entries)
      /\ q # <<>> /\ EntryReady(s, cons, Head(q))
  BY <1>1, <1>4, <1>5, <1>6, <1>7 DEF QueueOK, Ready, Lets
<1>9. /\ prod \in Warps /\ ~ s.warp[prod].done /\ pc \in Nat
      /\ s.code \in Programs /\ pc \in 1 .. Len(s.code[prod])
      /\ i = s.code[prod][pc]
      /\ UsesQueue(i) => /\ i.queue \in QueueKinds /\ i.op = "qload"
                         /\ KeyOf(i.queue, prod) = <<i.queue, PairOf(prod)>>
                         /\ KeyOf(i.queue, prod) \in Keys
  BY <1>2, <1>3, InstructionAt
<1>10. /\ t.flight = s.flight \cup {x} /\ x.warp = prod /\ x.pc = pc
       /\ t.queue = IF UsesQueue(i) THEN QueuesAfter(s, i, prod, pc) ELSE s.queue
  BY <1>2, <1>3 DEF Issued
<1>11. PICK q2 : q2 = t.queue[k]
  OBVIOUS
<1>12. q2 # <<>> /\ Head(q2) = Head(q)
  <2>1. CASE ~ UsesQueue(i)
    BY <2>1, <1>7, <1>8, <1>10, <1>11
  <2>2. CASE UsesQueue(i)
    <3>1. PICK e : e = StoreLanes(Reserve(i, pc), i)
      OBVIOUS
    <3>2. e \in Entries
      BY <3>1, <1>9, EntryOf
    <3>3. PICK m : m = KeyOf(i.queue, prod)
      OBVIOUS
    <3>4. t.queue = [s.queue EXCEPT ![m] = Append(s.queue[m], e)]
      BY <2>2, <3>1, <3>3, <1>9, <1>10 DEF QueuesAfter
    <3>5. CASE m = k
      <4>1. q2 = Append(q, e)
        BY <3>4, <3>5, <1>5, <1>7, <1>8, <1>11
      <4> QED BY <4>1, <3>2, <1>8
    <3>6. CASE m # k
      BY <3>4, <3>6, <1>5, <1>7, <1>8, <1>11
    <3> QED BY <3>5, <3>6
  <2> QED BY <2>1, <2>2
<1>13. EntryReady(t, cons, Head(q))
  <2> SUFFICES ASSUME NEW f \in t.flight, f.warp = PairOf(cons)
               PROVE  f.pc # Head(q).pc
    BY DEF EntryReady
  <2>1. CASE f \in s.flight
    BY <2>1, <1>8 DEF EntryReady
  <2>2. CASE f = x
    <3>1. PairOf(cons) = prod
      BY <2>2, <1>10
    <3>2. Behind(q, pc)
      BY <3>1, <1>3, <1>5, <1>7, <1>9 DEF QueueOK
    <3>3. 1 \in 1 .. Len(q) /\ Head(q) = q[1] /\ q[1] \in Entries
      BY <1>8
    <3>4. Head(q).pc < pc /\ Head(q).pc \in Nat
      BY <3>2, <3>3, EntryOf DEF Behind
    <3> QED BY <2>2, <3>4, <1>9, <1>10
  <2> QED BY <2>1, <2>2, <1>10
<1> QED BY <1>1, <1>4, <1>6, <1>11, <1>12, <1>13 DEF Lets

\* A pair goes to two units: the second issue finds its register free.
LEMMA CoIssueInOrder == IInv /\ CoIssue => IInv'
<1> SUFFICES ASSUME IInv, CoIssue PROVE IInv'
  OBVIOUS
<1>1. PICK list, p, t, u :
        /\ p \in Pairs(list)
        /\ t \in Outcomes(core, list[p[1]])
        /\ u \in Outcomes(core, list[p[2]])
        /\ core' = Issue(Issue(core, list[p[1]], t), list[p[2]], u)
  BY DEF CoIssue
<1>2. PICK prod, cons : prod = list[p[1]] /\ cons = list[p[2]]
  OBVIOUS
<1>3. /\ Candidate(core, prod) /\ Candidate(core, cons)
      /\ IsProducer(prod) /\ ~ IsProducer(cons)
      /\ Inst(core, prod).unit # Inst(core, cons).unit
  BY <1>1, <1>2 DEF Pairs
<1>4. prod # cons
  BY <1>3
<1>5. CoreInv(core) /\ QueueOK(core)
  BY DEF IInv
<1>6. Fit(core, prod) /\ Fit(core, cons) /\ Ready(core, prod) /\ Ready(core, cons)
  BY <1>3, <1>5, IssuableFits, IssuableReady DEF Candidate
<1>7. PICK s, x :
        /\ s = Issue(core, prod, t)
        /\ CoreInv(s) /\ Waits(core, s) /\ s.code = core.code
        /\ \A v \in Warps \ {prod} : s.warp[v] = core.warp[v]
        /\ s.flight = core.flight \cup {x} /\ x.unit = Inst(core, prod).unit
        /\ x.warp = prod /\ x.pc = core.warp[prod].pc
        /\ x.got = Found(core, Inst(core, prod), prod)
        /\ GoesTo(Inst(core, prod), core.warp[prod].pc, s.warp[prod].pc)
        /\ s.queue = IF UsesQueue(Inst(core, prod))
             THEN QueuesAfter(core, Inst(core, prod), prod, core.warp[prod].pc)
             ELSE core.queue
  BY <1>1, <1>2, <1>5, <1>6, IssueKeeps
<1>8. cons \in Warps /\ s.warp[cons] = core.warp[cons]
  BY <1>4, <1>6, <1>7 DEF Fit
<1>9. Inst(s, cons) = Inst(core, cons)
  BY <1>7, <1>8 DEF Inst, NextPc
<1>10. Fit(s, cons)
  <2>1. Inst(core, cons) = core.code[cons][core.warp[cons].pc]
    BY <1>6 DEF Fit, Inst, NextPc
  <2>2. UnitFree(core, Inst(core, cons).unit)
    BY <1>6, <2>1 DEF Fit
  <2>3. UnitFree(s, Inst(core, cons).unit)
    BY <1>3, <1>7, <2>2 DEF UnitFree
  <2>4. ~ Collides(s, cons)
    BY <1>6, <1>8, <1>9 DEF Fit, Collides
  <2> QED BY <1>6, <1>7, <1>8, <2>1, <2>3, <2>4 DEF Fit
<1>11. u \in Outcomes(s, cons)
  BY <1>1, <1>2, <1>9 DEF Outcomes
<1>12. QueueOK(s)
  BY <1>1, <1>2, <1>5, <1>6, <1>7, IssueFits
<1>13. Ready(s, cons)
  <2>1. Issued(core, prod, s, x)
    BY <1>7 DEF Issued
  <2> QED BY <2>1, <1>3, <1>5, <1>6, <1>9, SecondReady
<1>14. CoreInv(core') /\ Waits(s, core') /\ QueueOK(core')
  BY <1>1, <1>2, <1>7, <1>10, <1>11, <1>12, <1>13, IssueFits
<1>15. Waits(core, core')
  BY <1>7, <1>14, WaitsOn
<1> QED BY <1>14, <1>15, CoreStep DEF CoIssue

\* The second turn over a warp flushes it, issues from it, or passes.
LEMMA SecondTurnKeeps ==
  ASSUME NEW s, NEW w, NEW t \in SecondTurn(s, w), CoreInv(s), QueueOK(s)
  PROVE  CoreInv(t) /\ Waits(s, t) /\ QueueOK(t)
<1>1. \/ t = s
      \/ Hazard(s, w) /\ t = Refetch(s, {w})
      \/ Issuable(s, w) /\ \E u \in Outcomes(s, w) : t = Issue(s, w, u)
  BY DEF SecondTurn
<1>2. CASE t = s
  BY <1>2 DEF Waits
<1>3. CASE Hazard(s, w) /\ t = Refetch(s, {w})
  <2>1. \A v \in {w} : ~ Empty(s.warp[v])
    BY <1>3, HazardHolds
  <2>2. CoreInv(t) /\ Waits(s, t) /\ Frame(s, t)
    BY <1>3, <2>1, RefetchKeeps
  <2> QED BY <2>2, FrameKeeps
<1>4. CASE Issuable(s, w) /\ \E u \in Outcomes(s, w) : t = Issue(s, w, u)
  <2>1. Fit(s, w) /\ Ready(s, w)
    BY <1>4, IssuableFits, IssuableReady
  <2> QED BY <1>4, <2>1, IssueFits
<1> QED BY <1>1, <1>2, <1>3, <1>4

\* The scan flushes warps with a hazard and then issues from another warp.
LEMMA SingleIssueInOrder == IInv /\ SingleIssue => IInv'
<1> SUFFICES ASSUME IInv, SingleIssue PROVE IInv'
  OBVIOUS
<1>1. PICK list, i, ws, t, s2 :
        /\ Issuable(core, list[i])
        /\ \A v \in ws : Hazard(core, v)
        /\ t \in Outcomes(Refetch(core, ws), list[i])
        /\ s2 = Issue(Refetch(core, ws), list[i], t)
        /\ core' \in SecondTurn(s2, list[i])
  <2>1. PICK list, i :
          /\ Issuable(core, list[i])
          /\ \E s \in {Refetch(core, {v \in {list[j] : j \in 1 .. i - 1} :
                                        Hazard(core, v)})} :
               \E t \in Outcomes(s, list[i]) :
                 \E s2 \in {Issue(s, list[i], t)} :
                   core' \in SecondTurn(s2, list[i])
    BY DEF SingleIssue
  <2>2. PICK ws : ws = {v \in {list[j] : j \in 1 .. i - 1} : Hazard(core, v)}
    OBVIOUS
  <2>3. \A v \in ws : Hazard(core, v)
    BY <2>2
  <2> QED BY <2>1, <2>2, <2>3
<1>2. PICK w : w = list[i]
  OBVIOUS
<1>3. CoreInv(core) /\ QueueOK(core)
  BY DEF IInv
<1>4. Fit(core, w) /\ NextPc(core, w) = core.warp[w].pc /\ Ready(core, w)
  BY <1>1, <1>2, <1>3, IssuableFits, IssuableReady
<1>5. w \notin ws /\ \A v \in ws : ~ Empty(core.warp[v])
  BY <1>1, <1>3, <1>4, HazardHolds
<1>6. PICK s :
        /\ s = Refetch(core, ws)
        /\ CoreInv(s) /\ Waits(core, s)
        /\ s.code = core.code /\ s.flight = core.flight /\ Frame(core, s)
        /\ \A v \in Warps \ ws : s.warp[v] = core.warp[v]
  BY <1>3, <1>5, RefetchKeeps
<1>7. Fit(s, w)
  BY <1>4, <1>5, <1>6 DEF Fit, UnitFree, Collides, Inst, NextPc
<1>8. QueueOK(s)
  BY <1>3, <1>6, FrameKeeps
<1>9. Ready(s, w)
  <2>1. s.warp[w] = core.warp[w] /\ s.queue = core.queue
    BY <1>4, <1>5, <1>6 DEF Fit, Frame
  <2>2. Inst(s, w) = Inst(core, w)
    BY <2>1, <1>6 DEF Inst, NextPc
  <2> QED BY <2>1, <2>2, <1>4, <1>6 DEF Ready, Lets, EntryReady
<1>10. CoreInv(s2) /\ Waits(s, s2) /\ QueueOK(s2)
  BY <1>1, <1>2, <1>6, <1>7, <1>8, <1>9, IssueFits
<1>11. CoreInv(core') /\ Waits(s2, core') /\ QueueOK(core')
  BY <1>1, <1>2, <1>10, SecondTurnKeeps
<1>12. Waits(core, core')
  BY <1>6, <1>10, <1>11, WaitsOn
<1> QED BY <1>11, <1>12, CoreStep DEF SingleIssue

\* A scan without an issue flushes warps with a hazard.
LEMMA IssueNothingInOrder == IInv /\ IssueNothing => IInv'
<1> SUFFICES ASSUME IInv, IssueNothing PROVE IInv'
  OBVIOUS
<1>1. PICK ws : core' = Refetch(core, ws) /\ \A v \in ws : Hazard(core, v)
  <2>1. PICK list : core' = Refetch(core,
                {w \in {list[i] : i \in DOMAIN list} : Hazard(core, w)})
    BY DEF IssueNothing
  <2> QED BY <2>1
<1>2. CoreInv(core)
  BY DEF IInv
<1>3. \A v \in ws : ~ Empty(core.warp[v])
  BY <1>1, <1>2, HazardHolds
<1>4. CoreInv(core') /\ Waits(core, core') /\ Frame(core, core')
  BY <1>1, <1>2, <1>3, RefetchKeeps
<1>5. QueueOK(core')
  BY <1>4, FrameKeeps DEF IInv
<1> QED BY <1>4, <1>5, CoreStep DEF IssueNothing

\* An instruction in flight moves on.
LEMMA PipelineInOrder ==
  ASSUME NEW f \in core.flight, IInv, Dispatch(f) \/ Complete(f)
  PROVE  IInv'
<1>1. CoreInv(core) /\ QueueOK(core)
  BY DEF IInv
<1>2. CASE Dispatch(f)
  <2>1. CoreInv(core') /\ Waits(core, core') /\ Frame(core, core')
    BY <1>1, <1>2, DispatchKeeps DEF Dispatch
  <2> QED BY <2>1, <1>1, <1>2, FrameKeeps, CoreStep DEF Dispatch
<1>3. CASE Complete(f)
  <2>1. CoreInv(core') /\ Waits(core, core') /\ Frame(core, core')
    BY <1>1, <1>3, CompleteKeeps DEF Complete
  <2> QED BY <2>1, <1>1, <1>3, FrameKeeps, CoreStep DEF Complete
<1> QED BY <1>2, <1>3

\* A line arrives for a warp that waits for it.
LEMMA ResponseInOrder ==
  ASSUME NEW w \in Warps, IInv, FetchResponse(w)
  PROVE  IInv'
<1>1. CoreInv(core) /\ core.warp[w].imiss # 0 /\ QueueOK(core)
  BY DEF IInv, FetchResponse
<1>2. Starved(core.warp[w])
  BY <1>1 DEF CoreInv, WarpOK, Starved
<1>3. PICK m \in {0, core.warp[w].next} : m = 0
  OBVIOUS
<1>4. PICK t : /\ t = [core EXCEPT !.warp[w].imiss = m]
               /\ CoreInv(t)
               /\ Starved(t.warp[w]) /\ t.warp[w].next = core.warp[w].next
               /\ t.warp[w].imiss = m
               /\ Frame(core, t)
  BY <1>1, <1>2, MissKeeps
<1>5. core' = t
  BY <1>3, <1>4 DEF FetchResponse
<1>6. /\ fetchBuf' = [warp |-> w, pc |-> core.warp[w].next]
      /\ lastFetch' = lastFetch
  BY DEF FetchResponse
<1>7. FetchOK(t, [warp |-> w, pc |-> core.warp[w].next])
  BY <1>3, <1>4 DEF FetchOK
<1>8. QueueOK(t)
  BY <1>1, <1>4, FrameKeeps
<1> QED BY <1>4, <1>5, <1>6, <1>7, <1>8 DEF IInv

\* Reclaiming warps keeps the queues in order, also when the CTA ends.
LEMMA ReclaimQueues ==
  ASSUME NEW s, NEW t, CoreInv(t), QueueOK(s),
         \/ Frame(s, t)
         \/ /\ \A w \in Warps : t.warp[w].exited
            /\ t.queue = [k \in Keys |-> <<>>]
  PROVE  QueueOK(t)
<1>1. CASE Frame(s, t)
  BY <1>1, FrameKeeps
<1>2. CASE /\ \A w \in Warps : t.warp[w].exited
           /\ t.queue = [k \in Keys |-> <<>>]
  BY <1>2, LeftEmpty, EmptyQueues
<1> QED BY <1>1, <1>2

\* The ring of the fetch scan holds warps.
LEMMA RingHoldsWarps ==
  ASSUME lastFetch \in Warps, NEW i \in 1 .. N
  PROVE  Ring[i] \in Warps
<1>1. N \in Nat \ {0} /\ lastFetch \in Nat /\ Warps = 0 .. N - 1
  BY NumberOfWarps, WarpsAssumption
<1>2. (lastFetch + i) % N \in 0 .. N - 1
  BY <1>1
<1> QED BY <1>1, <1>2 DEF Ring

\* The scan reclaims warps and fetches for another, which waits.
LEMMA ScanInOrder == IInv /\ FetchScan => IInv'
<1> SUFFICES ASSUME IInv, FetchScan PROVE IInv'
  OBVIOUS
<1>1. PICK i, ws :
        /\ i \in 1 .. N
        /\ NeedsFetch(core, Ring[i])
        /\ lastFetch' = Ring[i]
        /\ \A v \in ws : Reclaimable(core, v)
        /\ \/ /\ core' = Reclaimed(core, ws)
              /\ fetchBuf' = [warp |-> Ring[i], pc |-> core.warp[Ring[i]].next]
           \/ /\ core' = [Reclaimed(core, ws) EXCEPT
                            !.warp[Ring[i]].imiss = core.warp[Ring[i]].next]
              /\ fetchBuf' = fetchBuf
           \/ core' = Reclaimed(core, ws) /\ fetchBuf' = fetchBuf
  <2>1. PICK i \in 1 .. N :
          /\ NeedsFetch(core, Ring[i])
          /\ lastFetch' = Ring[i]
          /\ \E s \in {Reclaimed(core, {v \in {Ring[j] : j \in 1 .. i - 1} :
                                          Reclaimable(core, v)})} :
               \/ /\ core' = s
                  /\ fetchBuf' = [warp |-> Ring[i], pc |-> core.warp[Ring[i]].next]
               \/ /\ core' = [s EXCEPT !.warp[Ring[i]].imiss
                                          = core.warp[Ring[i]].next]
                  /\ fetchBuf' = fetchBuf
               \/ core' = s /\ fetchBuf' = fetchBuf
    BY DEF FetchScan
  <2>2. PICK ws : ws = {v \in {Ring[j] : j \in 1 .. i - 1} : Reclaimable(core, v)}
    OBVIOUS
  <2>3. \A v \in ws : Reclaimable(core, v)
    BY <2>2
  <2> QED BY <2>1, <2>2, <2>3
<1>2. PICK w : w = Ring[i]
  OBVIOUS
<1>3. /\ CoreInv(core) /\ fetchBuf = NoFetch /\ lastFetch \in Warps
      /\ QueueOK(core)
  BY DEF IInv, FetchScan
<1>4. w \in Warps
  BY <1>1, <1>2, <1>3, RingHoldsWarps
<1>5. Starved(core.warp[w]) /\ core.warp[w].imiss = 0
  BY <1>1, <1>2, <1>3, <1>4, BufferedHeld DEF NeedsFetch, Starved
<1>6. PICK s :
        /\ s = Reclaimed(core, ws)
        /\ CoreInv(s) /\ Waits(core, s)
        /\ \A v \in Warps : ~ core.warp[v].done => s.warp[v] = core.warp[v]
        /\ \/ Frame(core, s)
           \/ /\ \A v \in Warps : s.warp[v].exited
              /\ s.queue = [k \in Keys |-> <<>>]
  BY <1>1, <1>3, ReclaimKeeps
<1>7. QueueOK(s)
  BY <1>3, <1>6, ReclaimQueues
<1>8. s.warp[w] = core.warp[w]
  BY <1>4, <1>5, <1>6 DEF Starved
<1>9. CASE /\ core' = s
           /\ fetchBuf' = [warp |-> w, pc |-> core.warp[w].next]
  <2>1. FetchOK(s, [warp |-> w, pc |-> core.warp[w].next])
    BY <1>4, <1>5, <1>8 DEF FetchOK
  <2> QED BY <2>1, <1>1, <1>2, <1>4, <1>6, <1>9, <1>7 DEF IInv
<1>10. CASE /\ core' = [s EXCEPT !.warp[w].imiss = core.warp[w].next]
           /\ fetchBuf' = fetchBuf
  <2>1. PICK m \in {0, s.warp[w].next} : m = core.warp[w].next
    BY <1>8
  <2>2. CoreInv(s) /\ w \in Warps /\ m \in {0, s.warp[w].next}
        /\ Starved(s.warp[w])
    BY <2>1, <1>4, <1>5, <1>6, <1>8
  <2>3. PICK t : /\ t = [s EXCEPT !.warp[w].imiss = m]
                 /\ CoreInv(t)
                 /\ Starved(t.warp[w]) /\ t.warp[w].next = s.warp[w].next
                 /\ t.warp[w].imiss = m
                 /\ Frame(s, t)
    BY <2>2, MissKeeps
  <2>4. QueueOK(t)
    BY <2>3, <1>7, FrameKeeps
  <2>5. CoreInv(core') /\ QueueOK(core')
    BY <2>1, <2>3, <2>4, <1>10
  <2> QED BY <2>5, <1>1, <1>2, <1>3, <1>4, <1>10 DEF IInv, FetchOK
<1>11. CASE core' = s /\ fetchBuf' = fetchBuf
  BY <1>1, <1>2, <1>3, <1>4, <1>6, <1>11, <1>7 DEF IInv, FetchOK
<1> QED BY <1>1, <1>2, <1>6, <1>9, <1>10, <1>11

\* A scan that fetches nothing.
LEMMA ReclaimInOrder == IInv /\ ReclaimOnly => IInv'
<1> SUFFICES ASSUME IInv, ReclaimOnly PROVE IInv'
  OBVIOUS
<1>1. PICK ws : ws = {w \in Warps : Reclaimable(core, w)}
  OBVIOUS
<1>2. core' = Reclaimed(core, ws) /\ \A w \in ws : Reclaimable(core, w)
  BY <1>1 DEF ReclaimOnly
<1>3. /\ CoreInv(core') /\ Waits(core, core')
      /\ \/ Frame(core, core')
         \/ /\ \A w \in Warps : core'.warp[w].exited
            /\ core'.queue = [k \in Keys |-> <<>>]
  BY <1>2, ReclaimKeeps DEF IInv
<1>4. QueueOK(core')
  BY <1>3, ReclaimQueues DEF IInv
<1> QED BY <1>3, <1>4, CoreStep DEF ReclaimOnly

\* decode empties what fetch had into the buffer of the warp.
LEMMA DecodeInOrder == IInv /\ Decode => IInv'
<1> SUFFICES ASSUME IInv, Decode PROVE IInv'
  OBVIOUS
<1>1. /\ fetchBuf.warp \in Warps /\ Starved(core.warp[fetchBuf.warp])
      /\ core.warp[fetchBuf.warp].imiss = 0
      /\ fetchBuf.pc = core.warp[fetchBuf.warp].next
  BY DEF IInv, FetchOK, Decode
<1>2. /\ CoreInv(Decoded(core, fetchBuf.warp, fetchBuf.pc))
      /\ Frame(core, Decoded(core, fetchBuf.warp, fetchBuf.pc))
  BY <1>1, DecodeKeeps DEF IInv
<1>3. QueueOK(Decoded(core, fetchBuf.warp, fetchBuf.pc))
  BY <1>2, FrameKeeps DEF IInv
<1> QED BY <1>2, <1>3 DEF IInv, FetchOK, Decode

\* IInv is inductive.
LEMMA NextInOrder == IInv /\ [Next]_vars => IInv'
<1> SUFFICES ASSUME IInv, [Next]_vars PROVE IInv'
  OBVIOUS
<1>1. CASE LaunchCta
  BY <1>1, LaunchInOrder
<1>2. CASE CoIssue
  BY <1>2, CoIssueInOrder
<1>3. CASE SingleIssue
  BY <1>3, SingleIssueInOrder
<1>4. CASE IssueNothing
  BY <1>4, IssueNothingInOrder
<1>5. CASE \E f \in core.flight : Dispatch(f) \/ Complete(f)
  BY <1>5, PipelineInOrder
<1>6. CASE \E w \in Warps : FetchResponse(w)
  BY <1>6, ResponseInOrder
<1>7. CASE FetchScan
  BY <1>7, ScanInOrder
<1>8. CASE ReclaimOnly
  BY <1>8, ReclaimInOrder
<1>9. CASE Decode
  BY <1>9, DecodeInOrder
<1>10. CASE Terminated \/ UNCHANGED vars
  BY <1>10 DEF Terminated, vars, IInv
<1> QED BY <1>1, <1>2, <1>3, <1>4, <1>5, <1>6, <1>7, <1>8, <1>9, <1>10 DEF Next
-----------------------------------------------------------------------------
(* The lists of the schedulers.                                            *)

\* What holds at 0 and goes on to the next number holds up to M.
LEMMA UpTo ==
  ASSUME NEW S, NEW M \in Nat, 0 \in S,
         \A n \in Nat : n < M /\ n \in S => n + 1 \in S
  PROVE  \A n \in 0 .. M : n \in S
<1> DEFINE bad == {n \in 0 .. M : n \notin S}
<1> SUFFICES ASSUME bad # {}
             PROVE  FALSE
  OBVIOUS
<1>1. PICK n \in bad : \A m \in bad : ~(<<m, n>> \in OpToRel(<, Nat))
  <2>1. bad \subseteq Nat
    OBVIOUS
  <2> HIDE DEF bad
  <2> QED BY <2>1, WFMin, NatLessThanWellFounded
<1>2. n \in Nat /\ n <= M /\ n \notin S /\ n # 0
  OBVIOUS
<1>3. n - 1 \notin bad
  <2> SUFFICES ASSUME n - 1 \in bad
               PROVE  FALSE
    OBVIOUS
  <2>1. n - 1 \in Nat /\ n - 1 < n
    BY <1>2
  <2>2. <<n - 1, n>> \in OpToRel(<, Nat)
    BY <2>1, <1>2 DEF OpToRel
  <2> QED BY <1>1, <2>2
<1>4. n - 1 \in Nat /\ n - 1 < M /\ n - 1 \in S
  BY <1>2, <1>3
<1>5. (n - 1) + 1 \in S
  BY <1>4
<1> QED BY <1>2, <1>5

\* g[i] is what the first i warps of the list have of ws.
IsKept(list, ws, n, g) ==
  g = [i \in 0 .. n |->
         IF i = 0 THEN <<>>
         ELSE IF list[i] \in ws THEN Append(g[i - 1], list[i]) ELSE g[i - 1]]

\* There is such a g.
LEMMA KeptExists ==
  ASSUME NEW list, NEW ws, NEW M \in Nat
  PROVE  \E g : IsKept(list, ws, M, g)
<1> DEFINE Step(i, x) == IF i = 0 THEN <<>>
                         ELSE IF list[i] \in ws THEN Append(x, list[i]) ELSE x
           Is(n, g) == g = [i \in 0 .. n |-> Step(i, g[i - 1])]
           S == {n \in Nat : \E g : Is(n, g)}
<1>1. \A n, g : Is(n, g) <=> IsKept(list, ws, n, g)
  BY DEF IsKept
<1>2. \A x : Step(0, x) = <<>>
  OBVIOUS
<1> HIDE DEF Step
<1>3. 0 \in S
  <2>1. PICK g : g = [i \in 0 .. 0 |-> <<>>]
    OBVIOUS
  <2>2. Is(0, g)
    BY <2>1, <1>2
  <2> QED BY <2>2
<1>4. ASSUME NEW n \in Nat, n \in S
      PROVE  n + 1 \in S
  <2>1. PICK g : Is(n, g)
    BY <1>4
  <2>2. PICK h : h = [i \in 0 .. n + 1 |-> IF i <= n THEN g[i] ELSE Step(n + 1, g[n])]
    OBVIOUS
  <2>3. ASSUME NEW i \in 0 .. n + 1
        PROVE  h[i] = Step(i, h[i - 1])
    <3>1. CASE i = 0
      <4>1. h[i] = g[0] /\ g[0] = Step(0, g[0 - 1])
        BY <2>1, <2>2, <3>1
      <4> QED BY <4>1, <3>1, <1>2
    <3>2. CASE i # 0
      <4>1. i - 1 \in 0 .. n + 1 /\ i - 1 <= n
        BY <3>2
      <4>2. h[i - 1] = g[i - 1]
        BY <4>1, <2>2
      <4>3. CASE i <= n
        <5>1. i \in 0 .. n /\ h[i] = g[i]
          BY <4>3, <2>2
        <5> QED BY <5>1, <4>2, <2>1
      <4>4. CASE i = n + 1
        BY <4>2, <4>4, <2>2
      <4> QED BY <4>3, <4>4
    <3> QED BY <3>1, <3>2
  <2>4. h = [i \in 0 .. n + 1 |-> Step(i, h[i - 1])]
    BY <2>2, <2>3
  <2> QED BY <2>4
<1> HIDE DEF S
<1>5. \A n \in 0 .. M : n \in S
  BY <1>3, <1>4, UpTo
<1>6. M \in S
  BY <1>5
<1> QED BY <1>1, <1>6 DEF S

\* Kept is the last value of it.
LEMMA KeptIs ==
  ASSUME NEW list \in Seq(Warps), NEW ws
  PROVE  \E g : /\ IsKept(list, ws, Len(list), g)
                /\ Kept(list, ws) = g[Len(list)]
<1>1. PICK M \in Nat : M = Len(list)
  OBVIOUS
<1> DEFINE Con(v) == v = [i \in 0 .. Len(list) |->
              IF i = 0 THEN <<>>
              ELSE IF list[i] \in ws THEN Append(v[i - 1], list[i]) ELSE v[i - 1]]
           it == CHOOSE v : Con(v)
<1>2. \A v : Con(v) <=> IsKept(list, ws, M, v)
  BY <1>1 DEF IsKept
<1>3. \E v : Con(v)
  BY <1>1, <1>2, KeptExists
<1>4. Con(it)
  <2> HIDE DEF Con
  <2> QED BY <1>3
<1>5. Kept(list, ws) = it[Len(list)]
  BY DEF Kept
<1> HIDE DEF Con, it
<1> QED BY <1>1, <1>2, <1>4, <1>5

Has(list, w) == \E i \in 1 .. Len(list) : list[i] = w

\* A list has what another has and one warp more at its end.
LEMMA AppendHas ==
  ASSUME NEW list \in Seq(Warps), NEW w \in Warps
  PROVE  /\ Append(list, w) \in Seq(Warps)
         /\ Len(Append(list, w)) = Len(list) + 1
         /\ Has(Append(list, w), w)
         /\ \A v : Has(list, v) => Has(Append(list, w), v)
<1>1. PICK l : l = Append(list, w)
  OBVIOUS
<1>2. /\ l \in Seq(Warps) /\ Len(l) = Len(list) + 1 /\ Len(list) \in Nat
      /\ l[Len(list) + 1] = w
      /\ \A i \in 1 .. Len(list) : l[i] = list[i]
  BY <1>1
<1>3. Has(l, w)
  BY <1>2 DEF Has
<1>4. \A v : Has(list, v) => Has(l, v)
  BY <1>2 DEF Has
<1> QED BY <1>1, <1>2, <1>3, <1>4

\* The warps at the first n places of a list are in one of two others.
Splits(list, n, a, b) ==
  /\ a \in Seq(Warps) /\ b \in Seq(Warps)
  /\ Len(a) + Len(b) = n
  /\ \A i \in 1 .. n : Has(a, list[i]) \/ Has(b, list[i])

\* A list splits into the warps that are in a set and those that are not:
\* none is lost, and none is there twice that was not.
LEMMA KeptParts ==
  ASSUME NEW list \in Seq(Warps), NEW in, NEW out,
         \A w \in Warps : w \in in <=> w \notin out
  PROVE  /\ Kept(list, in) \in Seq(Warps) /\ Kept(list, out) \in Seq(Warps)
         /\ Len(Kept(list, in)) + Len(Kept(list, out)) = Len(list)
         /\ \A w : Has(list, w) => Has(Kept(list, in), w) \/ Has(Kept(list, out), w)
<1>1. PICK M \in Nat : M = Len(list)
  OBVIOUS
<1>2. PICK g : IsKept(list, in, M, g) /\ Kept(list, in) = g[M]
  BY <1>1, KeptIs
<1>3. PICK h : IsKept(list, out, M, h) /\ Kept(list, out) = h[M]
  BY <1>1, KeptIs
<1> DEFINE S == {n \in Nat : n <= M => Splits(list, n, g[n], h[n])}
<1>4. 0 \in S
  <2>1. g[0] = <<>> /\ h[0] = <<>>
    BY <1>2, <1>3 DEF IsKept
  <2>2. <<>> \in Seq(Warps) /\ Len(<<>>) = 0
    OBVIOUS
  <2>3. Splits(list, 0, <<>>, <<>>)
    BY <2>2 DEF Splits
  <2> QED BY <2>1, <2>3
<1>5. ASSUME NEW n \in Nat, n < M, n \in S
      PROVE  n + 1 \in S
  <2>1. Splits(list, n, g[n], h[n])
    BY <1>5
  <2>2. PICK w \in Warps : w = list[n + 1]
    <3>1. n + 1 \in 1 .. Len(list)
      BY <1>1, <1>5
    <3> QED BY <3>1
  <2>3. /\ g[n + 1] = IF w \in in THEN Append(g[n], w) ELSE g[n]
        /\ h[n + 1] = IF w \in out THEN Append(h[n], w) ELSE h[n]
    <3>1. n + 1 \in 0 .. M /\ n + 1 # 0 /\ (n + 1) - 1 = n
      BY <1>5
    <3> QED BY <3>1, <2>2, <1>2, <1>3 DEF IsKept
  <2>4. PICK a, b : a = g[n] /\ b = h[n]
    OBVIOUS
  <2>5. /\ a \in Seq(Warps) /\ b \in Seq(Warps) /\ Len(a) + Len(b) = n
        /\ \A i \in 1 .. n : Has(a, list[i]) \/ Has(b, list[i])
    BY <2>1, <2>4 DEF Splits
  <2>6. /\ Append(a, w) \in Seq(Warps) /\ Len(Append(a, w)) = Len(a) + 1
        /\ Has(Append(a, w), w) /\ \A v : Has(a, v) => Has(Append(a, w), v)
        /\ Append(b, w) \in Seq(Warps) /\ Len(Append(b, w)) = Len(b) + 1
        /\ Has(Append(b, w), w) /\ \A v : Has(b, v) => Has(Append(b, w), v)
    BY <2>5, AppendHas
  <2>7. Len(a) \in Nat /\ Len(b) \in Nat
    BY <2>5
  <2>8. \A i \in 1 .. n + 1 : i \in 1 .. n \/ list[i] = w
    BY <2>2
  <2>9. CASE w \in in
    <3>1. g[n + 1] = Append(a, w) /\ h[n + 1] = b
      BY <2>3, <2>4, <2>9
    <3>2. \A i \in 1 .. n + 1 : Has(Append(a, w), list[i]) \/ Has(b, list[i])
      BY <2>5, <2>6, <2>8
    <3>3. Len(Append(a, w)) + Len(b) = n + 1
      BY <2>5, <2>6, <2>7
    <3>4. Splits(list, n + 1, g[n + 1], h[n + 1])
      BY <3>1, <3>2, <3>3, <2>5, <2>6 DEF Splits
    <3> QED BY <3>4
  <2>10. CASE w \notin in
    <3>1. g[n + 1] = a /\ h[n + 1] = Append(b, w)
      BY <2>3, <2>4, <2>10
    <3>2. \A i \in 1 .. n + 1 : Has(a, list[i]) \/ Has(Append(b, w), list[i])
      BY <2>5, <2>6, <2>8
    <3>3. Len(a) + Len(Append(b, w)) = n + 1
      BY <2>5, <2>6, <2>7
    <3>4. Splits(list, n + 1, g[n + 1], h[n + 1])
      BY <3>1, <3>2, <3>3, <2>5, <2>6 DEF Splits
    <3> QED BY <3>4
  <2> QED BY <2>9, <2>10
<1>6. \A n \in 0 .. M : n \in S
  <2> HIDE DEF S
  <2> QED BY <1>4, <1>5, UpTo
<1>7. Splits(list, M, g[M], h[M])
  BY <1>6
<1>8. \A w : Has(list, w) => \E i \in 1 .. M : list[i] = w
  BY <1>1 DEF Has
<1>9. PICK a, b : a = Kept(list, in) /\ b = Kept(list, out)
  OBVIOUS
<1>10. /\ a \in Seq(Warps) /\ b \in Seq(Warps)
       /\ Len(a) + Len(b) = M
       /\ \A i \in 1 .. M : Has(a, list[i]) \/ Has(b, list[i])
  BY <1>2, <1>3, <1>7, <1>9 DEF Splits
<1> QED BY <1>1, <1>8, <1>9, <1>10
\* The lists of the two-level scheduler have all the warps.
ListsOK(active, pending) ==
  /\ active \in Seq(Warps) /\ pending \in Seq(Warps)
  /\ Len(active) = MaxActive /\ Len(active) + Len(pending) = N
  /\ \A w \in Warps : Has(active, w) \/ Has(pending, w)

\* What a scheduler remembers fits its policy.
SchedOK(policy, sc) ==
  /\ sc = [last |-> sc.last, turn |-> sc.turn, issued |-> sc.issued,
           active |-> sc.active, pending |-> sc.pending]
  /\ sc.last \in -1 .. N - 1 /\ sc.turn \in Warps
  /\ policy \notin {"lrr", "rrr"} => sc.last \in Warps
  /\ policy = "two_level_active" => ListsOK(sc.active, sc.pending)

\* The numbers of the scheduler, as the assumptions have them.
LEMMA Numbers ==
  /\ N \in Nat /\ N > 0 /\ MaxActive \in Nat /\ MaxActive >= 1 /\ MaxActive <= N
  /\ Warps = 0 .. N - 1 /\ 0 \in Warps
BY NumberOfWarps, WarpsAssumption

\* The lists by id and around the last warp are lists of warps.
LEMMA RegularLists ==
  /\ ById \in Seq(Warps) /\ Len(ById) = N
  /\ \A w \in Warps : ById[w + 1] = w
  /\ \A sc : sc.last \in -1 .. N - 1 => RoundRobin(sc) \in Seq(Warps)
<1>1. ById \in Seq(Warps) /\ Len(ById) = N
  BY Numbers DEF ById
<1>2. \A w \in Warps : ById[w + 1] = w
  BY Numbers DEF ById
<1>3. ASSUME NEW sc, sc.last \in -1 .. N - 1
      PROVE  RoundRobin(sc) \in Seq(Warps)
  <2>1. PICK x \in -1 .. N - 1 : x = sc.last
    BY <1>3
  <2>2. \A i \in 1 .. N : (x + i) % N \in Warps
    BY Numbers
  <2>3. RoundRobin(sc) = [i \in 1 .. N |-> (x + i) % N]
    BY <2>1 DEF RoundRobin
  <2> QED BY <2>2, <2>3, Numbers
<1> QED BY <1>1, <1>2, <1>3

\* A prefix and the rest of a list are lists that have what the list has.
LEMMA CutList ==
  ASSUME NEW list \in Seq(Warps), NEW k \in 0 .. Len(list)
  PROVE  /\ SubSeq(list, 1, k) \in Seq(Warps)
         /\ SubSeq(list, k + 1, Len(list)) \in Seq(Warps)
         /\ Len(SubSeq(list, 1, k)) = k
         /\ Len(SubSeq(list, k + 1, Len(list))) = Len(list) - k
         /\ \A w : Has(list, w) =>
              Has(SubSeq(list, 1, k), w) \/ Has(SubSeq(list, k + 1, Len(list)), w)
<1>1. PICK a, b : a = SubSeq(list, 1, k) /\ b = SubSeq(list, k + 1, Len(list))
  OBVIOUS
<1>2. PICK M \in Nat : M = Len(list) /\ k \in 0 .. M
  OBVIOUS
<1>3. a \in Seq(Warps) /\ Len(a) = k /\ \A i \in 1 .. k : a[i] = list[i]
  BY <1>1, <1>2
<1>4. /\ b \in Seq(Warps) /\ Len(b) = M - k
      /\ \A i \in 1 .. M - k : b[i] = list[k + i]
  BY <1>1, <1>2
<1>5. ASSUME NEW w, Has(list, w)
      PROVE  Has(a, w) \/ Has(b, w)
  <2>1. PICK i \in 1 .. M : list[i] = w
    BY <1>2, <1>5 DEF Has
  <2>2. CASE i <= k
    BY <2>1, <2>2, <1>3 DEF Has
  <2>3. CASE i > k
    <3>1. i - k \in 1 .. M - k /\ k + (i - k) = i
      BY <2>3, <1>2
    <3> QED BY <3>1, <2>1, <1>4 DEF Has
  <2> QED BY <2>2, <2>3, <1>2
<1> QED BY <1>1, <1>2, <1>3, <1>4, <1>5

\* Two lists, one behind the other.
LEMMA JoinLists ==
  ASSUME NEW a \in Seq(Warps), NEW b \in Seq(Warps)
  PROVE  /\ a \o b \in Seq(Warps)
         /\ Len(a \o b) = Len(a) + Len(b)
         /\ \A w : Has(a, w) \/ Has(b, w) => Has(a \o b, w)
<1>1. PICK c : c = a \o b
  OBVIOUS
<1>2. PICK m \in Nat, n \in Nat : m = Len(a) /\ n = Len(b)
  OBVIOUS
<1>3. /\ c \in Seq(Warps) /\ Len(c) = m + n
      /\ \A i \in 1 .. m : c[i] = a[i]
      /\ \A i \in 1 .. n : c[m + i] = b[i]
  BY <1>1, <1>2
<1>4. \A w : Has(a, w) => Has(c, w)
  <2> SUFFICES ASSUME NEW w, Has(a, w) PROVE Has(c, w)
    OBVIOUS
  <2>1. PICK i \in 1 .. m : a[i] = w
    BY <1>2 DEF Has
  <2>2. i \in 1 .. Len(c) /\ c[i] = w
    BY <2>1, <1>3
  <2> QED BY <2>2 DEF Has
<1>5. \A w : Has(b, w) => Has(c, w)
  <2> SUFFICES ASSUME NEW w, Has(b, w) PROVE Has(c, w)
    OBVIOUS
  <2>1. PICK i \in 1 .. n : b[i] = w
    BY <1>2 DEF Has
  <2>2. m + i \in 1 .. Len(c) /\ c[m + i] = w
    BY <2>1, <1>3
  <2> QED BY <2>2 DEF Has
<1> QED BY <1>1, <1>2, <1>3, <1>4, <1>5

\* What a list has of a set is a list of warps.
LEMMA KeptWarps ==
  ASSUME NEW list \in Seq(Warps), NEW ws
  PROVE  Kept(list, ws) \in Seq(Warps)
<1>1. PICK rest : rest = Warps \ ws
  OBVIOUS
<1>2. \A w \in Warps : w \in ws <=> w \notin rest
  BY <1>1
<1> QED BY <1>2, KeptParts

\* The warps by age are all there.
LEMMA ByAgeLists ==
  ASSUME NEW s
  PROVE  ByAge(s) \in Seq(Warps) /\ Len(ByAge(s)) = N
<1>1. PICK in, out : /\ in = {w \in Warps : ~ Waiting(s, w)}
                     /\ out = {w \in Warps : Waiting(s, w)}
  OBVIOUS
<1>2. \A w \in Warps : w \in in <=> w \notin out
  BY <1>1
<1>3. /\ Kept(ById, in) \in Seq(Warps) /\ Kept(ById, out) \in Seq(Warps)
      /\ Len(Kept(ById, in)) + Len(Kept(ById, out)) = N
  BY <1>2, KeptParts, RegularLists
<1>4. ByAge(s) = Kept(ById, in) \o Kept(ById, out)
  BY <1>1 DEF ByAge
<1> QED BY <1>3, <1>4, JoinLists

\* The greedy list starts with the last warp.
LEMMA GreedyLists ==
  ASSUME NEW sc, NEW list \in Seq(Warps), sc.last \in Warps
  PROVE  Greedy(sc, list) \in Seq(Warps)
<1>1. Kept(list, Warps \ {sc.last}) \in Seq(Warps)
  BY KeptWarps
<1>2. <<sc.last>> \in Seq(Warps)
  OBVIOUS
<1> QED BY <1>1, <1>2, JoinLists DEF Greedy

\* The strict round robin names one warp of the core, or none.
LEMMA StrictLists ==
  ASSUME NEW sc, NEW s, sc.last \in -1 .. N - 1, sc.turn \in Warps
  PROVE  StrictTurn(sc, s) \in Seq(Warps)
<1>1. PICK able : able = Kept(RoundRobin(sc), {w \in Warps : ~ Waiting(s, w)})
  OBVIOUS
<1>2. able \in Seq(Warps)
  BY <1>1, RegularLists, KeptWarps
<1>3. \/ StrictTurn(sc, s) = <<>> \/ StrictTurn(sc, s) = <<sc.turn>>
      \/ able # <<>> /\ StrictTurn(sc, s) = <<able[1]>>
  BY <1>1 DEF StrictTurn
<1>4. CASE StrictTurn(sc, s) = <<>> \/ StrictTurn(sc, s) = <<sc.turn>>
  <2>1. <<>> \in Seq(Warps) /\ <<sc.turn>> \in Seq(Warps)
    OBVIOUS
  <2> QED BY <2>1, <1>4
<1>5. CASE able # <<>> /\ StrictTurn(sc, s) = <<able[1]>>
  <2>1. able[1] \in Warps
    BY <1>2, <1>5
  <2> QED BY <2>1, <1>5
<1> QED BY <1>3, <1>4, <1>5

\* Demoting and promoting loses no warp and fills the active list.
LEMMA PromoteKeeps ==
  ASSUME NEW sc, NEW s, SchedOK("two_level_active", sc)
  PROVE  SchedOK("two_level_active", Promote(sc, s))
<1>1. PICK in, out : /\ in = {w \in Warps : ~ Demoted(s, w)}
                     /\ out = {w \in Warps : Demoted(s, w)}
  OBVIOUS
<1>2. \A w \in Warps : w \in in <=> w \notin out
  BY <1>1
<1>3. ListsOK(sc.active, sc.pending)
  BY DEF SchedOK
<1>4. PICK stay, gone : stay = Kept(sc.active, in) /\ gone = Kept(sc.active, out)
  OBVIOUS
<1>5. /\ stay \in Seq(Warps) /\ gone \in Seq(Warps)
      /\ Len(stay) + Len(gone) = MaxActive
      /\ \A w : Has(sc.active, w) => Has(stay, w) \/ Has(gone, w)
  BY <1>2, <1>3, <1>4, KeptParts DEF ListsOK
<1>6. PICK pool : pool = sc.pending \o gone
  OBVIOUS
<1>7. /\ pool \in Seq(Warps) /\ Len(pool) = Len(sc.pending) + Len(gone)
      /\ \A w : Has(sc.pending, w) \/ Has(gone, w) => Has(pool, w)
  BY <1>3, <1>5, <1>6, JoinLists DEF ListsOK
<1>8. /\ Len(stay) \in Nat /\ Len(gone) \in Nat /\ Len(sc.pending) \in Nat
      /\ MaxActive + Len(sc.pending) = N
  BY <1>3, <1>5 DEF ListsOK
<1>9. PICK free : free = MaxActive - Len(stay)
  OBVIOUS
<1>10. free \in 0 .. Len(pool) /\ free = Len(gone)
  BY <1>5, <1>7, <1>8, <1>9, Numbers
<1>11. PICK a, b : a = SubSeq(pool, 1, free) /\ b = SubSeq(pool, free + 1, Len(pool))
  OBVIOUS
<1>12. /\ a \in Seq(Warps) /\ b \in Seq(Warps)
       /\ Len(a) = free /\ Len(b) = Len(pool) - free
       /\ \A w : Has(pool, w) => Has(a, w) \/ Has(b, w)
  BY <1>7, <1>10, <1>11, CutList
<1>13. PICK c : c = stay \o a
  OBVIOUS
<1>14. /\ c \in Seq(Warps) /\ Len(c) = Len(stay) + Len(a)
       /\ \A w : Has(stay, w) \/ Has(a, w) => Has(c, w)
  BY <1>5, <1>12, <1>13, JoinLists
<1>15. Promote(sc, s) = [sc EXCEPT !.active = c, !.pending = b]
  BY <1>1, <1>4, <1>6, <1>9, <1>11, <1>13 DEF Promote
<1>16. Promote(sc, s) = [last |-> sc.last, turn |-> sc.turn,
                         issued |-> sc.issued, active |-> c, pending |-> b]
  BY <1>15 DEF SchedOK
<1>17. ListsOK(c, b)
  <2>1. Len(c) = MaxActive
    BY <1>5, <1>8, <1>10, <1>12, <1>14
  <2>2. Len(c) + Len(b) = N
    BY <2>1, <1>7, <1>8, <1>10, <1>12
  <2>3. ASSUME NEW w \in Warps
        PROVE  Has(c, w) \/ Has(b, w)
    BY <1>3, <1>5, <1>7, <1>12, <1>14 DEF ListsOK
  <2> QED BY <2>1, <2>2, <2>3, <1>12, <1>14 DEF ListsOK
<1>18. PICK t : t = Promote(sc, s)
  OBVIOUS
<1>19. /\ t = [last |-> t.last, turn |-> t.turn, issued |-> t.issued,
               active |-> t.active, pending |-> t.pending]
       /\ t.last = sc.last /\ t.turn = sc.turn
       /\ t.active = c /\ t.pending = b
  BY <1>16, <1>18
<1> QED BY <1>17, <1>18, <1>19 DEF SchedOK

\* Rotating the active list loses no warp either.
LEMMA RotatedKeeps ==
  ASSUME NEW list \in Seq(Warps), NEW x, Has(list, x)
  PROVE  /\ Rotated(list, x) \in Seq(Warps) /\ Len(Rotated(list, x)) = Len(list)
         /\ \A w : Has(list, w) => Has(Rotated(list, x), w)
<1>1. PICK k : k = CHOOSE i \in DOMAIN list : list[i] = x
  OBVIOUS
<1>2. DOMAIN list = 1 .. Len(list)
  OBVIOUS
<1>3. \E i \in DOMAIN list : list[i] = x
  BY <1>2 DEF Has
<1>4. k \in 1 .. Len(list)
  BY <1>1, <1>2, <1>3
<1>5. PICK a, b : a = SubSeq(list, 1, k) /\ b = SubSeq(list, k + 1, Len(list))
  OBVIOUS
<1>6. k \in 0 .. Len(list)
  BY <1>4
<1>7. /\ a \in Seq(Warps) /\ b \in Seq(Warps)
      /\ Len(a) = k /\ Len(b) = Len(list) - k
      /\ \A w : Has(list, w) => Has(a, w) \/ Has(b, w)
  BY <1>5, <1>6, CutList
<1>8. /\ b \o a \in Seq(Warps) /\ Len(b \o a) = Len(b) + Len(a)
      /\ \A w : Has(b, w) \/ Has(a, w) => Has(b \o a, w)
  BY <1>7, JoinLists
<1>9. Rotated(list, x) = b \o a
  BY <1>1, <1>5 DEF Rotated
<1>10. Len(b) + Len(a) = Len(list)
  BY <1>4, <1>7
<1> QED BY <1>7, <1>8, <1>9, <1>10
\* Whatever the policy, the warps of a cycle are warps of the core.
LEMMA OrderHolds ==
  ASSUME NEW policy \in Policies, NEW sc, NEW s, SchedOK(policy, sc)
  PROVE  Prioritized(policy, sc, s) \in Seq(Warps)
<1>1. /\ sc.last \in -1 .. N - 1 /\ sc.turn \in Warps
      /\ policy \notin {"lrr", "rrr"} => sc.last \in Warps
  BY DEF SchedOK
<1>2. CASE policy = "lrr"
  BY <1>1, <1>2, RegularLists DEF Prioritized
<1>3. CASE policy = "rrr"
  BY <1>1, <1>3, StrictLists DEF Prioritized
<1>4. CASE policy = "gto"
  <2>1. Greedy(sc, ById) \in Seq(Warps)
    BY <1>1, <1>4, RegularLists, GreedyLists
  <2> QED BY <2>1, <1>4 DEF Prioritized
<1>5. CASE policy = "old"
  BY <1>5, RegularLists DEF Prioritized
<1>6. CASE policy = "warp_limiting"
  <2>1. PICK aged : aged = ByAge(s)
    OBVIOUS
  <2>2. aged \in Seq(Warps) /\ MaxActive \in 0 .. Len(aged)
    BY <2>1, ByAgeLists, Numbers
  <2>3. SubSeq(aged, 1, MaxActive) \in Seq(Warps)
    BY <2>2, CutList
  <2>4. Greedy(sc, SubSeq(aged, 1, MaxActive)) \in Seq(Warps)
    BY <2>3, <1>1, <1>6, GreedyLists
  <2> QED BY <2>1, <2>4, <1>6 DEF Prioritized
<1>7. CASE policy = "two_level_active"
  <2>1. Promote(sc, s).active \in Seq(Warps)
    BY <1>7, PromoteKeeps DEF SchedOK, ListsOK
  <2> QED BY <2>1, <1>7 DEF Prioritized
<1> QED BY <1>2, <1>3, <1>4, <1>5, <1>6, <1>7 DEF Policies

\* Ordering the warps of a cycle leaves the scheduler in order.
LEMMA TurnedKeeps ==
  ASSUME NEW policy \in Policies, NEW sc, NEW s, SchedOK(policy, sc)
  PROVE  SchedOK(policy, Turned(policy, sc, s))
<1>1. CASE policy = "rrr"
  <2>1. PICK list : list = StrictTurn(sc, s)
    OBVIOUS
  <2>2. list \in Seq(Warps)
    BY <2>1, StrictLists DEF SchedOK
  <2>3. CASE list = <<>>
    BY <2>1, <2>3, <1>1 DEF Turned
  <2>4. CASE list # <<>>
    <3>1. PICK x : x = list[1]
      OBVIOUS
    <3>2. x \in Warps
      BY <2>2, <2>4, <3>1
    <3>3. Turned(policy, sc, s) = [sc EXCEPT !.turn = x]
      BY <2>1, <2>4, <3>1, <1>1 DEF Turned
    <3>4. Turned(policy, sc, s) = [last |-> sc.last, turn |-> x,
            issued |-> sc.issued, active |-> sc.active, pending |-> sc.pending]
      BY <3>3 DEF SchedOK
    <3>5. PICK t : t = Turned(policy, sc, s)
      OBVIOUS
    <3>6. /\ t = [last |-> t.last, turn |-> t.turn, issued |-> t.issued,
                  active |-> t.active, pending |-> t.pending]
          /\ t.last = sc.last /\ t.turn = x
      BY <3>4, <3>5
    <3> QED BY <3>2, <3>5, <3>6, <1>1 DEF SchedOK
  <2> QED BY <2>3, <2>4
<1>2. CASE policy = "two_level_active"
  BY <1>2, PromoteKeeps DEF Turned
<1>3. CASE policy \notin {"rrr", "two_level_active"}
  BY <1>3 DEF Turned
<1> QED BY <1>1, <1>2, <1>3

\* So does the issue from a warp of that order.
LEMMA ServedKeeps ==
  ASSUME NEW policy \in Policies, NEW sc, NEW s, NEW w \in Warps,
         SchedOK(policy, sc),
         policy = "two_level_active" => Has(Prioritized(policy, sc, s), w)
  PROVE  SchedOK(policy, Served(policy, sc, s, w))
<1>1. PICK t : t = Turned(policy, sc, s)
  OBVIOUS
<1>2. SchedOK(policy, t)
  BY <1>1, TurnedKeeps
<1>3. w \in -1 .. N - 1
  BY Numbers
<1>4. PICK u : u = Served(policy, sc, s, w)
  OBVIOUS
<1>5. CASE policy = "two_level_active"
  <2>1. t.active = Prioritized(policy, sc, s)
    BY <1>1, <1>5 DEF Turned, Prioritized
  <2>2. ListsOK(t.active, t.pending) /\ Has(t.active, w)
    BY <2>1, <1>2, <1>5 DEF SchedOK
  <2>3. PICK a : a = Rotated(t.active, w)
    OBVIOUS
  <2>4. /\ a \in Seq(Warps) /\ Len(a) = Len(t.active)
        /\ \A v : Has(t.active, v) => Has(a, v)
    BY <2>2, <2>3, RotatedKeeps DEF ListsOK
  <2>5. ListsOK(a, t.pending)
    BY <2>2, <2>4 DEF ListsOK
  <2>6. u = [t EXCEPT !.active = a]
    BY <2>3, <1>1, <1>4, <1>5 DEF Served
  <2>7. u = [last |-> t.last, turn |-> t.turn, issued |-> t.issued,
             active |-> a, pending |-> t.pending]
    BY <2>6, <1>2 DEF SchedOK
  <2>8. /\ u = [last |-> u.last, turn |-> u.turn, issued |-> u.issued,
                active |-> u.active, pending |-> u.pending]
        /\ u.last = t.last /\ u.turn = t.turn
        /\ u.active = a /\ u.pending = t.pending
    BY <2>7
  <2> QED BY <2>5, <2>8, <1>2, <1>4, <1>5 DEF SchedOK
<1>6. CASE policy # "two_level_active"
  <2>1. \/ u = [t EXCEPT !.last = w, !.issued = TRUE]
        \/ u = [t EXCEPT !.last = w]
    BY <1>1, <1>4, <1>6 DEF Served
  <2>2. PICK b : u = [last |-> w, turn |-> t.turn, issued |-> b,
                      active |-> t.active, pending |-> t.pending]
    BY <2>1, <1>2 DEF SchedOK
  <2>3. /\ u = [last |-> u.last, turn |-> u.turn, issued |-> u.issued,
                active |-> u.active, pending |-> u.pending]
        /\ u.last = w /\ u.turn = t.turn
    BY <2>2
  <2> QED BY <2>3, <1>2, <1>3, <1>4, <1>6 DEF SchedOK
<1> QED BY <1>5, <1>6

\* The constructors leave the scheduler in order.
LEMMA InitialKeeps ==
  ASSUME NEW policy \in Policies, NEW sc \in InitialScheds(policy)
  PROVE  SchedOK(policy, sc)
<1>1. PICK active, pending :
        /\ active = (IF policy = "two_level_active"
                     THEN SubSeq(ById, 1, MaxActive) ELSE <<>>)
        /\ pending = (IF policy = "two_level_active"
                      THEN SubSeq(ById, MaxActive + 1, N) ELSE <<>>)
  OBVIOUS
<1>2. PICK last : last = (IF policy \in {"lrr", "rrr"} THEN -1 ELSE 0)
  OBVIOUS
<1>3. PICK c \in Warps \X BOOLEAN :
        sc = [last |-> last, turn |-> c[1], issued |-> c[2],
              active |-> active, pending |-> pending]
  <2>1. PICK own : own = IF policy = "rrr" THEN Warps \X BOOLEAN ELSE {<<0, FALSE>>}
    OBVIOUS
  <2>2. PICK c \in own :
          sc = [last |-> last, turn |-> c[1], issued |-> c[2],
                active |-> active, pending |-> pending]
    BY <2>1, <1>1, <1>2 DEF InitialScheds
  <2>3. own \subseteq Warps \X BOOLEAN
    <3>1. <<0, FALSE>> \in Warps \X BOOLEAN
      <4>1. FALSE \in BOOLEAN
        OBVIOUS
      <4> QED BY <4>1, Numbers, Zenon
    <3> QED BY <2>1, <3>1
  <2> QED BY <2>2, <2>3
<1>4. /\ sc.last = last /\ sc.turn = c[1] /\ sc.issued = c[2]
      /\ sc.active = active /\ sc.pending = pending
      /\ sc = [last |-> sc.last, turn |-> sc.turn, issued |-> sc.issued,
               active |-> sc.active, pending |-> sc.pending]
  BY <1>3
<1>5. /\ sc.turn \in Warps /\ sc.last \in -1 .. N - 1
      /\ policy \notin {"lrr", "rrr"} => sc.last \in Warps
  BY <1>2, <1>3, <1>4, Numbers
<1>6. policy = "two_level_active" => ListsOK(active, pending)
  <2> SUFFICES ASSUME policy = "two_level_active"
               PROVE  ListsOK(active, pending)
    OBVIOUS
  <2>1. MaxActive \in 0 .. Len(ById) /\ Len(ById) = N
    BY RegularLists, Numbers
  <2>2. active = SubSeq(ById, 1, MaxActive)
        /\ pending = SubSeq(ById, MaxActive + 1, Len(ById))
    BY <2>1, <1>1
  <2>3. /\ active \in Seq(Warps) /\ pending \in Seq(Warps)
        /\ Len(active) = MaxActive /\ Len(pending) = Len(ById) - MaxActive
        /\ \A w : Has(ById, w) => Has(active, w) \/ Has(pending, w)
    BY <2>1, <2>2, RegularLists, CutList
  <2>4. \A w \in Warps : Has(ById, w)
    BY RegularLists, Numbers, SMTT(60) DEF Has
  <2>5. Len(active) + Len(pending) = N
    BY <2>1, <2>3, Numbers
  <2> QED BY <2>3, <2>4, <2>5 DEF ListsOK
<1>7. policy = "two_level_active" => ListsOK(sc.active, sc.pending)
  BY <1>4, <1>6
<1> QED BY <1>4, <1>5, <1>7, Zenon DEF SchedOK

\* The scheduler, its configuration and the CTAs still to come.
SInv ==
  /\ mode \in Modes /\ SchedOK(mode.policy, sched)
  /\ gridLeft \in 0 .. Grid

\* The configuration names one of the schedulers.
LEMMA ModeKnown == mode \in Modes => mode.policy \in Policies
BY SchedulerAssumption

\* The scheduler starts in order.
LEMMA InitScheduled == Init => SInv
<1> SUFFICES ASSUME Init PROVE SInv
  OBVIOUS
<1>1. mode \in Modes /\ sched \in InitialScheds(mode.policy) /\ gridLeft = Grid
  BY DEF Init
<1>2. SchedOK(mode.policy, sched)
  BY <1>1, ModeKnown, InitialKeeps
<1>3. Grid \in 0 .. Grid
  BY SchedulerAssumption
<1> QED BY <1>1, <1>2, <1>3 DEF SInv

\* Every step keeps it in order, whatever the core does.
LEMMA NextScheduled == SInv /\ [Next]_vars => SInv'
<1> SUFFICES ASSUME SInv, [Next]_vars PROVE SInv'
  OBVIOUS
<1>1. /\ mode \in Modes /\ SchedOK(mode.policy, sched) /\ gridLeft \in 0 .. Grid
      /\ mode.policy \in Policies
  BY ModeKnown DEF SInv
<1>2. Order \in Seq(Warps)
  BY <1>1, OrderHolds DEF Order
<1>3. CASE LaunchCta
  <2>1. gridLeft' \in 0 .. Grid
    BY <1>1, <1>3, SchedulerAssumption DEF LaunchCta
  <2> QED BY <2>1, <1>1, <1>3 DEF LaunchCta, SInv
<1>4. CASE CoIssue
  <2>1. PICK p \in Pairs(Order) :
          sched' = Served(mode.policy, sched, core, Order[p[2]])
    BY <1>4 DEF CoIssue
  <2>2. p[2] \in DOMAIN Order
    BY <2>1 DEF Pairs
  <2>3. Order[p[2]] \in Warps
    BY <2>2, <1>2
  <2>4. mode.policy # "two_level_active"
    BY <1>1, <1>4, SchedulerAssumption DEF CoIssue
  <2>5. SchedOK(mode.policy, sched')
    BY <2>1, <2>3, <2>4, <1>1, ServedKeeps
  <2> QED BY <2>5, <1>1, <1>4 DEF CoIssue, SInv
<1>5. CASE SingleIssue
  <2>1. PICK i \in DOMAIN Order :
          sched' = Served(mode.policy, sched, core, Order[i])
    BY <1>5 DEF SingleIssue
  <2>2. Order[i] \in Warps /\ Has(Order, Order[i])
    BY <1>2 DEF Has
  <2>3. Order = Prioritized(mode.policy, sched, core)
    BY DEF Order
  <2>4. SchedOK(mode.policy, sched')
    BY <2>1, <2>2, <2>3, <1>1, ServedKeeps
  <2> QED BY <2>4, <1>1, <1>5 DEF SingleIssue, SInv
<1>6. CASE IssueNothing
  <2>1. SchedOK(mode.policy, sched')
    BY <1>1, <1>6, TurnedKeeps DEF IssueNothing
  <2> QED BY <2>1, <1>1, <1>6 DEF IssueNothing, SInv
<1>7. CASE \E f \in core.flight : Dispatch(f) \/ Complete(f)
  BY <1>1, <1>7 DEF Dispatch, Complete, SInv
<1>8. CASE \E w \in Warps : FetchResponse(w)
  BY <1>1, <1>8 DEF FetchResponse, SInv
<1>9. CASE FetchScan
  BY <1>1, <1>9 DEF FetchScan, SInv
<1>10. CASE ReclaimOnly
  BY <1>1, <1>10 DEF ReclaimOnly, SInv
<1>11. CASE Decode
  BY <1>1, <1>11 DEF Decode, SInv
<1>12. CASE Terminated \/ UNCHANGED vars
  BY <1>1, <1>12 DEF Terminated, vars, SInv
<1> QED BY <1>3, <1>4, <1>5, <1>6, <1>7, <1>8, <1>9, <1>10, <1>11, <1>12 DEF Next
\* What fetch and a missed line bring is what the warp needs next.
LEMMA FetchFollows == IInv => FetchIsCurrent
<1> SUFFICES ASSUME IInv PROVE FetchIsCurrent
  OBVIOUS
<1>1. \A w \in Warps :
        /\ WarpOK(core.warp[w], core.code[w], Flying(core.flight, w))
        /\ Buffered(core, w) = {} <=> Empty(core.warp[w])
  BY BufferedHeld DEF IInv, CoreInv
<1>2. FetchOK(core, fetchBuf)
  BY DEF IInv
<1>3. ASSUME NEW w \in Warps, core.warp[w].imiss # 0
      PROVE  /\ Buffered(core, w) = {} /\ ~ core.warp[w].done
             /\ core.warp[w].imiss = core.warp[w].next
             /\ fetchBuf.warp # w
  <2>1. fetchBuf.warp # w
    <3>1. CASE fetchBuf = NoFetch
      BY <3>1, NumberOfWarps DEF NoFetch
    <3>2. CASE fetchBuf # NoFetch
      BY <3>2, <1>2, <1>3 DEF FetchOK
    <3> QED BY <3>1, <3>2
  <2> QED BY <2>1, <1>1, <1>3 DEF WarpOK
<1>4. ASSUME fetchBuf # NoFetch
      PROVE  LET r == core.warp[fetchBuf.warp] IN
             /\ Buffered(core, fetchBuf.warp) = {} /\ ~ r.done
             /\ fetchBuf.pc = r.next
  BY <1>1, <1>2, <1>4 DEF FetchOK, Starved
<1> QED BY <1>3, <1>4 DEF FetchIsCurrent

\* The buffer holds the next instructions of the warp.
LEMMA BufferFollows == IInv => BufferFollowsPc
<1> SUFFICES ASSUME IInv, NEW w \in Warps, Buffered(core, w) # {}
             PROVE  /\ NextPc(core, w) = core.warp[w].next
                    /\ core.warp[w].ibuf[3 - core.warp[w].slot]
                         \in {0, core.warp[w].next + 1}
  BY DEF BufferFollowsPc
<1>1. WarpOK(core.warp[w], core.code[w], Flying(core.flight, w))
  BY DEF IInv, CoreInv
<1>2. ~ Empty(core.warp[w])
  BY BufferedHeld DEF IInv
<1> QED BY <1>1, <1>2 DEF WarpOK, NextPc

\* The pcs of a warp, its buffer and the configuration keep their types.
LEMMA TypesFollow == IInv /\ SInv => TypeOK
<1> SUFFICES ASSUME IInv, SInv PROVE TypeOK
  OBVIOUS
<1>1. mode \in Modes /\ lastFetch \in Warps /\ gridLeft \in 0 .. Grid
  BY DEF IInv, SInv
<1>2. ASSUME NEW w \in Warps
      PROVE  LET r == core.warp[w] IN
             /\ {r.pc, r.next} \subseteq 0 .. Len(core.code[w]) + 1
             /\ r.ibuf[1] \in 0 .. Len(core.code[w])
             /\ r.ibuf[2] \in 0 .. Len(core.code[w])
             /\ r.slot \in 1 .. 2 /\ r.inPipe \in Nat /\ r.imiss \in Nat
             /\ {r.done, r.exited} \subseteq BOOLEAN
  <2>1. PICK r, code, F : r = core.warp[w] /\ code = core.code[w]
                          /\ F = Flying(core.flight, w)
    OBVIOUS
  <2>2. WarpOK(r, code, F)
    BY <2>1 DEF IInv, CoreInv
  <2>3. WarpShape(r) /\ InProgram(r, code)
    BY <2>2 DEF WarpOK
  <2>4. r.pc \in 0 .. Len(code) + 1 /\ r.next \in 0 .. Len(code) + 1
    BY <2>3 DEF WarpShape, InProgram
  <2>5. r.inPipe \in Nat
    <3>1. Held(r) \in Nat /\ Cardinality(F) \in Nat
      BY <2>2, <2>3, HeldCounts, FS_CardinalityType DEF WarpOK, WarpShape
    <3> QED BY <3>1, <2>2 DEF WarpOK
  <2>6. r.ibuf[1] \in 0 .. Len(code) /\ r.ibuf[2] \in 0 .. Len(code)
    <3>1. r.ibuf[1] \in Nat /\ r.ibuf[2] \in Nat /\ Len(code) \in Nat
      BY <2>3 DEF WarpShape, InProgram
    <3>2. CASE ~ r.done
      BY <3>1, <3>2, <2>2 DEF WarpOK, Running
    <3>3. CASE r.done
      BY <3>1, <3>3, <2>2 DEF WarpOK, Empty
    <3> QED BY <3>2, <3>3
  <2>7. r.slot \in 1 .. 2 /\ r.imiss \in Nat /\ {r.done, r.exited} \subseteq BOOLEAN
    BY <2>3 DEF WarpShape
  <2> QED BY <2>1, <2>4, <2>5, <2>6, <2>7
<1> QED BY <1>1, <1>2 DEF TypeOK

\* The scheduler looks at warps of the core, and its lists have them all.
LEMMA ScheduleFollows == SInv => WarpsScheduled
<1> SUFFICES ASSUME SInv PROVE WarpsScheduled
  OBVIOUS
<1>1. SchedOK(mode.policy, sched) /\ mode.policy \in Policies
  BY ModeKnown DEF SInv
<1>2. ToSet(Order) \subseteq Warps
  <2>1. PICK list : list = Order
    OBVIOUS
  <2>2. list \in Seq(Warps)
    BY <2>1, <1>1, OrderHolds DEF Order
  <2>3. ToSet(list) \subseteq Warps
    BY <2>2 DEF ToSet
  <2> QED BY <2>1, <2>3
<1>3. ASSUME mode.policy = "two_level_active"
      PROVE  LET all == sched.active \o sched.pending IN
             /\ Len(sched.active) = MaxActive
             /\ Len(all) = N /\ \A w \in Warps : \E i \in DOMAIN all : all[i] = w
  <2>1. PICK a, b : a = sched.active /\ b = sched.pending
    OBVIOUS
  <2>2. ListsOK(a, b)
    BY <2>1, <1>1, <1>3 DEF SchedOK
  <2>3. PICK all : all = a \o b
    OBVIOUS
  <2>4. /\ all \in Seq(Warps) /\ Len(all) = N
        /\ \A w \in Warps : Has(all, w)
    BY <2>2, <2>3, JoinLists DEF ListsOK
  <2>5. \A w \in Warps : \E i \in DOMAIN all : all[i] = w
    BY <2>4 DEF Has
  <2> QED BY <2>1, <2>2, <2>3, <2>4, <2>5 DEF ListsOK
<1> QED BY <1>1, <1>2, <1>3 DEF WarpsScheduled, SchedOK

\* Every queue load in flight has its slot, and no queue more than it holds.
LEMMA SlotsFollow == IInv => QueueKept
<1> SUFFICES ASSUME IInv PROVE QueueKept
  OBVIOUS
<1>1. QueueOK(core) /\ CoreInv(core)
  BY DEF IInv
<1>2. ASSUME NEW f \in core.flight, core.code[f.warp][f.pc].op = "qload"
      PROVE  \E e \in ToSet(core.queue[
                        KeyOf(core.code[f.warp][f.pc].queue, f.warp)]) :
               e.pc = f.pc
  <2>1. FindsEntry(core, f) /\ f.warp \in Warps
    BY <1>1, <1>2 DEF QueueOK, CoreInv, FlightOK, FlightShape
  <2>2. PICK q : q = core.queue[<<core.code[f.warp][f.pc].queue, f.warp>>]
    OBVIOUS
  <2>3. PICK n \in 1 .. Len(q) : q[n].pc = f.pc
    BY <2>1, <2>2 DEF FindsEntry
  <2>4. q \in Seq(Entries)
    BY <1>1, <2>1, <2>2 DEF QueueOK, FindsEntry, Keys
  <2>5. q[n] \in ToSet(q)
    BY <2>3, <2>4 DEF ToSet
  <2>6. KeyOf(core.code[f.warp][f.pc].queue, f.warp)
          = <<core.code[f.warp][f.pc].queue, f.warp>>
    BY <2>1, PairIsWarp DEF FindsEntry, KeyOf
  <2> QED BY <2>2, <2>3, <2>5, <2>6
<1>3. \A k \in Keys : Len(core.queue[k]) <= Depth
  BY <1>1 DEF QueueOK
<1> QED BY <1>2, <1>3 DEF QueueKept

\* Every MOV in flight has the words of its load.
LEMMA MovesFollow == IInv => MovesReadTheirLoad
<1> SUFFICES ASSUME IInv PROVE MovesReadTheirLoad
  OBVIOUS
<1>1. MovesOK(core)
  BY DEF IInv, QueueOK
<1> QED BY <1>1 DEF MovesOK, MovesReadTheirLoad

-----------------------------------------------------------------------------
(* The theorems.                                                           *)

\* m_inst_in_pipeline is what a warp has buffered and in flight, through
\* branches, exits and co-issue.
THEOREM CountStaysExact == Spec => []PipelineCountExact
<1>1. IInv => PipelineCountExact
  <2> SUFFICES ASSUME IInv, NEW w \in Warps
               PROVE  core.warp[w].inPipe = Cardinality(Buffered(core, w))
                                              + Cardinality(InFlight(w))
    BY DEF PipelineCountExact
  <2>1. WarpOK(core.warp[w], core.code[w], Flying(core.flight, w))
    BY DEF IInv, CoreInv
  <2>2. Cardinality(Buffered(core, w)) = Held(core.warp[w])
    BY BufferedHeld DEF IInv
  <2> QED BY <2>1, <2>2 DEF WarpOK, InFlight, Flying
<1> QED BY <1>1, InitInOrder, NextInOrder, PTL DEF Spec

\* Fetch, buffer and the pc of a warp agree: the asserts of fetch, and that of
\* scheduler_unit::cycle on a valid entry; whatever its policy, the scheduler
\* sees warps of its own and loses none.
THEOREM FrontEndStays == Spec => []FrontEndInStep
<1>1. IInv /\ SInv => FrontEndInStep
  BY FetchFollows, BufferFollows, TypesFollow, ScheduleFollows DEF FrontEndInStep
<1> QED BY <1>1, InitInOrder, NextInOrder, InitScheduled, NextScheduled, PTL
        DEF Spec

\* The scoreboard is what the instructions in flight still write, and none of
\* them depends on another: the second issue of a cycle, of another warp or of
\* the same, is checked against what the first has left.
THEOREM ScoreboardKeepsApart == Spec => []NoHazardInFlight
<1>1. IInv => NoHazardInFlight
  <2> SUFFICES ASSUME IInv, NEW w \in Warps
               PROVE  /\ core.warp[w].busy
                           = UNION {core.code[w][f.pc].dst : f \in InFlight(w)}
                      /\ Apart(core.code[w], InFlight(w))
    BY DEF NoHazardInFlight, Apart
  <2>1. WarpOK(core.warp[w], core.code[w], Flying(core.flight, w))
    BY DEF IInv, CoreInv
  <2>2. InFlight(w) = Flying(core.flight, w)
    BY DEF InFlight, Flying
  <2> QED BY <2>1, <2>2 DEF WarpOK, Owed
<1> QED BY <1>1, InitInOrder, NextInOrder, PTL DEF Spec

\* The second issue of a cycle takes no unit, no slot and no entry that the
\* first has taken, although a pair is checked before either of it issues; and
\* every lane of a MOV gets what the same lane of its load has read.
THEOREM IssuesSafe == Spec => []IssuesStaySafe
<1>1. IInv => OnePerUnit
  BY DEF IInv, CoreInv, FlightOK, OnePerUnit
<1>2. IInv => IssuesStaySafe
  BY <1>1, SlotsFollow, MovesFollow DEF IssuesStaySafe
<1> QED BY <1>2, InitInOrder, NextInOrder, PTL DEF Spec
=============================================================================
