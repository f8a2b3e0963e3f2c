-------------------------- MODULE HostRuntimeProofs --------------------------
(***************************************************************************)
(* Theorems about HostRuntime, for every number of streams, events, kernel *)
(* calls and operations and for any functions and formals.                 *)
(***************************************************************************)
EXTENDS HostRuntime, FiniteSetTheorems, SequenceTheorems,
        WellFoundedInduction, TLAPS

-----------------------------------------------------------------------------
(* A stream as a sequence and as the set of its operations.                *)

\* Operations leave a stream in the order in which they were made.
IsQueue(x) == /\ \E S : x \in Seq(S)
              /\ \A i \in DOMAIN x : x[i].id \in Nat
              /\ \A i, j \in DOMAIN x : i < j => x[i].id < x[j].id

\* A stream without operations.
LEMMA NoOperations == IsQueue(<< >>) /\ ToSet(<< >>) = {}
BY DEF IsQueue, ToSet

\* An operation that is made later goes behind the others.
LEMMA AppendQueue ==
  ASSUME NEW x, IsQueue(x), NEW o, o.id \in Nat,
         \A p \in ToSet(x) : p.id < o.id
  PROVE  /\ IsQueue(Append(x, o))
         /\ ToSet(Append(x, o)) = ToSet(x) \cup {o}
         /\ Append(x, o) # << >>
         /\ x # << >> => /\ Head(Append(x, o)) = Head(x)
                         /\ Append(x, o) # Tail(x)
<1>1. PICK S : x \in Seq(S)
  BY DEF IsQueue
<1>2. PICK T : T = S \cup {o}
  OBVIOUS
<1>3. x \in Seq(T) /\ o \in T
  BY <1>1, <1>2
<1>4. PICK y : y = Append(x, o)
  OBVIOUS
<1>5. PICK n \in Nat : n = Len(x) /\ DOMAIN x = 1 .. n
  BY <1>3
<1>6. /\ y \in Seq(T) /\ y # << >>
      /\ Len(y) = n + 1 /\ DOMAIN y = 1 .. n + 1
      /\ \A i \in 1 .. n : y[i] = x[i]
      /\ y[n + 1] = o
  BY <1>3, <1>4, <1>5
<1>7. \A i \in DOMAIN y : y[i].id \in Nat
  BY <1>5, <1>6 DEF IsQueue
<1>8. \A i \in 1 .. n : x[i].id < o.id
  BY <1>5 DEF ToSet
<1>9. \A i, j \in DOMAIN y : i < j => y[i].id < y[j].id
  <2> SUFFICES ASSUME NEW i \in 1 .. n + 1, NEW j \in 1 .. n + 1, i < j
               PROVE  y[i].id < y[j].id
    BY <1>6
  <2>1. i \in 1 .. n /\ y[i] = x[i]
    BY <1>6
  <2>2. CASE j = n + 1
    BY <2>1, <2>2, <1>6, <1>8
  <2>3. CASE j # n + 1
    <3>1. j \in 1 .. n /\ y[j] = x[j]
      BY <2>3, <1>6
    <3> QED BY <2>1, <3>1, <1>5 DEF IsQueue
  <2> QED BY <2>2, <2>3
<1>10. IsQueue(y)
  BY <1>6, <1>7, <1>9 DEF IsQueue
<1>11. ToSet(y) = ToSet(x) \cup {o}
  <2>1. ASSUME NEW p \in ToSet(y)
        PROVE  p \in ToSet(x) \cup {o}
    <3>1. PICK i \in 1 .. n + 1 : p = y[i]
      BY <1>6 DEF ToSet
    <3>2. CASE i = n + 1
      BY <3>1, <3>2, <1>6
    <3>3. CASE i # n + 1
      <4>1. i \in 1 .. n
        BY <3>3
      <4> QED BY <3>1, <4>1, <1>5, <1>6 DEF ToSet
    <3> QED BY <3>2, <3>3
  <2>2. ASSUME NEW p \in ToSet(x)
        PROVE  p \in ToSet(y)
    <3>1. PICK i \in 1 .. n : p = x[i]
      BY <1>5 DEF ToSet
    <3>2. i \in 1 .. n + 1 /\ y[i] = p
      BY <3>1, <1>6
    <3> QED BY <3>2, <1>6 DEF ToSet
  <2>3. o \in ToSet(y)
    BY <1>6 DEF ToSet
  <2> QED BY <2>1, <2>2, <2>3
<1>12. x # << >> => Head(y) = Head(x) /\ y # Tail(x)
  <2> SUFFICES ASSUME x # << >>
               PROVE  Head(y) = Head(x) /\ y # Tail(x)
    OBVIOUS
  <2>1. n > 0
    BY <1>3, <1>5
  <2>2. Head(y) = y[1] /\ Head(x) = x[1]
    BY <1>3, <1>6
  <2>3. Len(Tail(x)) = n - 1
    BY <1>3, <1>5
  <2>4. 1 \in 1 .. n
    BY <2>1
  <2> QED BY <2>2, <2>3, <2>4, <1>6
<1> QED BY <1>4, <1>6, <1>10, <1>11, <1>12

\* The first operation of a stream is older than the others.
LEMMA TailQueue ==
  ASSUME NEW x, IsQueue(x), x # << >>
  PROVE  /\ IsQueue(Tail(x))
         /\ Head(x) \in ToSet(x)
         /\ Head(x) \notin ToSet(Tail(x))
         /\ ToSet(x) = ToSet(Tail(x)) \cup {Head(x)}
         /\ \A o \in ToSet(x) : o.id \in Nat /\ Head(x).id <= o.id
         /\ Tail(x) # x
<1>1. PICK S : x \in Seq(S)
  BY DEF IsQueue
<1>2. PICK n \in Nat : n = Len(x) /\ DOMAIN x = 1 .. n /\ n > 0
  BY <1>1
<1>3. PICK t : t = Tail(x)
  OBVIOUS
<1>4. PICK h : h = Head(x) /\ h = x[1]
  BY <1>1
<1>5. /\ t \in Seq(S) /\ Len(t) = n - 1 /\ DOMAIN t = 1 .. n - 1
      /\ \A i \in 1 .. n - 1 : t[i] = x[i + 1]
  BY <1>1, <1>2, <1>3
<1>6. \A i \in 1 .. n : x[i].id \in Nat
  BY <1>2 DEF IsQueue
<1>7. \A i, j \in 1 .. n : i < j => x[i].id < x[j].id
  BY <1>2 DEF IsQueue
<1>8. \A i \in 1 .. n - 1 : i + 1 \in 1 .. n
  OBVIOUS
<1>9. 1 \in 1 .. n
  BY <1>2
<1>10. IsQueue(t)
  <2>1. \A i \in 1 .. n - 1 : t[i].id \in Nat
    BY <1>5, <1>6, <1>8
  <2>2. \A i, j \in 1 .. n - 1 : i < j => t[i].id < t[j].id
    BY <1>5, <1>7, <1>8
  <2> QED BY <1>5, <2>1, <2>2 DEF IsQueue
<1>11. h \in ToSet(x)
  BY <1>2, <1>4, <1>9 DEF ToSet
<1>12. \A i \in 1 .. n - 1 : h.id < t[i].id
  BY <1>4, <1>5, <1>7, <1>8, <1>9
<1>13. h \notin ToSet(t)
  <2> SUFFICES ASSUME NEW i \in 1 .. n - 1, t[i] = h
               PROVE  FALSE
    BY <1>5 DEF ToSet
  <2> QED BY <1>4, <1>6, <1>9, <1>12
<1>14. ToSet(x) = ToSet(t) \cup {h}
  <2>1. ASSUME NEW p \in ToSet(x)
        PROVE  p \in ToSet(t) \cup {h}
    <3>1. PICK i \in 1 .. n : p = x[i]
      BY <1>2 DEF ToSet
    <3>2. CASE i = 1
      BY <3>1, <3>2, <1>4
    <3>3. CASE i # 1
      <4>1. i - 1 \in 1 .. n - 1 /\ t[i - 1] = p
        BY <3>1, <3>3, <1>5
      <4> QED BY <4>1, <1>5 DEF ToSet
    <3> QED BY <3>2, <3>3
  <2>2. ASSUME NEW p \in ToSet(t)
        PROVE  p \in ToSet(x)
    <3>1. PICK i \in 1 .. n - 1 : p = t[i]
      BY <1>5 DEF ToSet
    <3>2. i + 1 \in 1 .. n /\ x[i + 1] = p
      BY <3>1, <1>5, <1>8
    <3> QED BY <3>2, <1>2 DEF ToSet
  <2> QED BY <2>1, <2>2, <1>11
<1>15. \A o \in ToSet(x) : o.id \in Nat /\ h.id <= o.id
  <2> SUFFICES ASSUME NEW i \in 1 .. n
               PROVE  x[i].id \in Nat /\ h.id <= x[i].id
    BY <1>2 DEF ToSet
  <2>1. CASE i = 1
    BY <2>1, <1>4, <1>6
  <2>2. CASE i # 1
    <3>1. 1 < i
      BY <2>2
    <3> QED BY <3>1, <1>4, <1>6, <1>7, <1>9
  <2> QED BY <2>1, <2>2
<1>16. t # x
  BY <1>2, <1>5
<1> QED BY <1>3, <1>4, <1>10, <1>11, <1>13, <1>14, <1>15, <1>16

-----------------------------------------------------------------------------
(* The invariant behind WaitsForAll.                                       *)

Of(s) == ToSet(streams[s])

OpOK(o) == /\ o.id \in Nat
           /\ o.kind \in {"copy", "event", "wait", "kernel"}
           /\ o.kind \in {"event", "wait"} => o.event \in Events
           /\ o.kind = "wait" => o.count \in Nat

Libraries ==
  [handles : Nat, parsed : SUBSET Nat, symtab : BOOLEAN, loads : Nat,
   kernels : SUBSET Functions, pdom : SUBSET Functions, analyses : Nat,
   streams : Nat]

LibTypes == lib \in Libraries

EventTypes ==
  events \in [Events -> [state : {"none", "created", "destroyed"},
                         issued : Nat, updates : Nat, covers : SUBSET Nat]]

\* Streams are queues; a wait is on several streams, a record on one only.
StreamsOK ==
  /\ pushed \in Nat
  /\ streams = [s \in Created |-> streams[s]]
  /\ Default \in Created /\ Created \subseteq 0 .. lib.streams
  /\ \A s \in Created : IsQueue(streams[s])
  /\ \A s \in Created : \A o \in Of(s) : OpOK(o) /\ o.id <= pushed
  /\ \A s, t \in Created : \A o \in Of(s), p \in Of(t) :
       s # t /\ o.kind = "event" /\ p.kind = "event" => o.id # p.id
  /\ \A s \in busy : /\ s \in Created /\ streams[s] # << >>
                     /\ Head(streams[s]).kind = "kernel"

\* What the call the host waits in has to see completed is done, or still
\* where the call looks for it.
HostOK ==
  /\ host.at \in {"idle", "push", "pushed", "synchronize", "destroy", "all",
                  "event"}
  /\ host.at = "idle" => host = Idle
  /\ host.at = "push" =>
       /\ OpOK(host.on) /\ host.on.kind # "wait" /\ host.on.id = pushed
       /\ \A s \in Created : \A o \in Of(s) : o.id < pushed
       /\ host.covers \subseteq done \cup InFlight(Created) \cup {host.on.id}
  /\ host.at \in {"pushed", "all"} =>
       host.covers \subseteq done \cup InFlight(Created)
  /\ host.at \in {"synchronize", "destroy"} =>
       /\ host.on \in Created \ {Default}
       /\ host.covers \subseteq done \cup InFlight({host.on})
  /\ host.at = "event" =>
       /\ host.on \in Events
       /\ host.covers \subseteq events[host.on].covers

\* The records of an event that have not completed.
Pushing == IF host.at = "push" THEN {host.on} ELSE {}
Records(e) == {o \in Operations \cup Pushing : o.kind = "event" /\ o.event = e}

\* An operation that the event covers is ahead of one of its records.
Awaited(e, id) ==
  \/ \E s \in Created : \E o, p \in Of(s) :
       /\ o.id = id
       /\ p.kind = "event" /\ p.event = e /\ id <= p.id
  \/ /\ host.at = "push" /\ host.on.kind = "event" /\ host.on.event = e
     /\ id \in InFlight(Created) \cup {host.on.id}

CountsRecords(e) ==
  /\ IsFiniteSet(Records(e))
  /\ events[e].issued = events[e].updates + Cardinality(Records(e))

EventsOK ==
  \A e \in Events : /\ CountsRecords(e)
                    /\ \A id \in events[e].covers \ done : Awaited(e, id)

WaitsOK ==
  \A o \in Operations : o.kind = "wait" =>
    /\ o.count <= events[o.event].issued
    /\ o.count = events[o.event].issued =>
         o.covers \subseteq events[o.event].covers

WaitInv == LibTypes /\ EventTypes /\ StreamsOK /\ HostOK /\ EventsOK /\ WaitsOK

-----------------------------------------------------------------------------
(* The invariant behind LoadedOnce, and that of the launch stack.          *)

LoadInv ==
  /\ lib.parsed # {} \/ lib.kernels # {} => lib.symtab
  /\ ~lib.symtab => lib.loads = 0 /\ app = << >> /\ grids = 0
  /\ lib.analyses = Cardinality(lib.pdom)

Frames == [call : Nat, site : Sites]

ConfigOf(frame) == [call |-> frame.call, grid |-> frame.site.grid,
                    stream |-> frame.site.stream, args |-> << >>]

Opened(frames) == [i \in DOMAIN frames |-> ConfigOf(frames[i])]

\* A launch in progress on the default stream still has its configuration on
\* the stack.
Launching == host.at \in {"push", "pushed"} /\ host.on.kind = "kernel"

RunsOwn(o) == /\ HasArgumentsOf(o.params, o.frame.site.fn, o.frame.call)
              /\ o.config.call = o.frame.call
              /\ o.config.grid = o.frame.site.grid
              /\ o.config.stream = o.frame.site.stream

StackInv ==
  /\ app \in Seq(Frames) /\ calls \in Nat
  /\ \A i \in DOMAIN app :
       /\ app[i].site.stream \in Created
       /\ host.at \in {"synchronize", "destroy"} => app[i].site.stream # host.on
  /\ IF Launching THEN stack # << >> /\ Front(stack) = Opened(app)
                  ELSE stack = Opened(app)
  /\ \A o \in Operations \cup Pushing : o.kind = "kernel" => RunsOwn(o)
-----------------------------------------------------------------------------
(* What happens to streams.                                                *)

\* What is in flight on some streams, one by one.
LEMMA InFlightIn ==
  ASSUME NEW ss, NEW id
  PROVE  /\ id \in InFlight(ss) <=> \E s \in ss : \E o \in Of(s) : o.id = id
         /\ Drained(ss) => InFlight(ss) = {} /\ \A s \in ss : Of(s) = {}
<1>1. id \in InFlight(ss) <=> \E s \in ss : \E o \in Of(s) : o.id = id
  BY DEF InFlight, Of
<1>2. ASSUME Drained(ss), NEW s \in ss
      PROVE  Of(s) = {}
  BY <1>2, NoOperations DEF Drained, Of
<1>3. Drained(ss) => InFlight(ss) = {}
  BY <1>2 DEF InFlight, Of
<1> QED BY <1>1, <1>2, <1>3

\* The streams are in order again when all these hold.
LEMMA StreamsAfter ==
  ASSUME pushed' \in Nat,
         streams' = [x \in Created' |-> streams'[x]],
         Default \in Created', Created' \subseteq 0 .. lib'.streams,
         \A x \in Created' : IsQueue(streams'[x]),
         \A x \in Created' : \A p \in ToSet(streams'[x]) :
           OpOK(p) /\ p.id <= pushed',
         \A x, y \in Created' : \A p \in ToSet(streams'[x]), q \in ToSet(streams'[y]) :
           x # y /\ p.kind = "event" /\ q.kind = "event" => p.id # q.id,
         \A x \in busy' : /\ x \in Created' /\ streams'[x] # << >>
                           /\ Head(streams'[x]).kind = "kernel"
  PROVE  StreamsOK'
BY Zenon DEF StreamsOK, Of

\* An operation goes to the end of some streams.
LEMMA StreamsAppend ==
  ASSUME StreamsOK, NEW o, OpOK(o), NEW to, to \subseteq Created,
         \A s \in to : \A p \in Of(s) : p.id < o.id,
         pushed' \in Nat, pushed <= pushed', o.id <= pushed',
         o.kind = "event" =>
           /\ \A s, t \in to : s = t
           /\ \A t \in Created : \A p \in Of(t) : p.id # o.id,
         streams' = [x \in Created |-> IF x \in to THEN Append(streams[x], o)
                                                   ELSE streams[x]],
         busy' = busy, lib'.streams = lib.streams
  PROVE  /\ StreamsOK'
         /\ Created' = Created
         /\ \A x \in Created :
              /\ ToSet(streams'[x]) = IF x \in to THEN Of(x) \cup {o} ELSE Of(x)
              /\ streams[x] # << >> => streams'[x] # Tail(streams[x])
<1>1. Created' = Created /\ DOMAIN streams' = Created
  BY DEF Created
<1>2. o.id \in Nat
  BY DEF OpOK
<1>3. ASSUME NEW x \in Created
      PROVE  /\ IsQueue(streams'[x])
             /\ ToSet(streams'[x]) = IF x \in to THEN Of(x) \cup {o} ELSE Of(x)
             /\ streams[x] # << >> => /\ streams'[x] # << >>
                                      /\ streams'[x] # Tail(streams[x])
                                      /\ Head(streams'[x]) = Head(streams[x])
  <2>1. IsQueue(streams[x])
    BY DEF StreamsOK
  <2>2. CASE x \in to
    <3>1. streams'[x] = Append(streams[x], o)
      BY <2>2
    <3>2. \A p \in ToSet(streams[x]) : p.id < o.id
      BY <2>2 DEF Of
    <3>3. PICK y : y = streams[x]
      OBVIOUS
    <3>4. /\ IsQueue(Append(y, o))
          /\ ToSet(Append(y, o)) = ToSet(y) \cup {o}
          /\ Append(y, o) # << >>
          /\ y # << >> => /\ Head(Append(y, o)) = Head(y)
                          /\ Append(y, o) # Tail(y)
      BY <2>1, <3>2, <3>3, <1>2, AppendQueue
    <3> QED BY <3>1, <3>3, <3>4, <2>2 DEF Of
  <2>3. CASE x \notin to
    <3>1. streams'[x] = streams[x]
      BY <2>3
    <3>2. streams[x] # << >> => Tail(streams[x]) # streams[x]
      BY <2>1, TailQueue
    <3> QED BY <3>1, <3>2, <2>1, <2>3 DEF Of
  <2> QED BY <2>2, <2>3
<1>4. streams' = [x \in DOMAIN streams' |-> streams'[x]]
  OBVIOUS
<1>5. ASSUME NEW x \in Created, NEW p \in ToSet(streams'[x])
      PROVE  OpOK(p) /\ p.id <= pushed'
  <2>1. p = o \/ p \in Of(x)
    BY <1>3
  <2>2. CASE p = o
    BY <2>2
  <2>3. CASE p \in Of(x)
    <3>1. OpOK(p) /\ p.id <= pushed /\ pushed \in Nat
      BY <2>3 DEF StreamsOK
    <3>2. p.id \in Nat
      BY <3>1 DEF OpOK
    <3> QED BY <3>1, <3>2
  <2> QED BY <2>1, <2>2, <2>3
<1>6. ASSUME NEW x \in Created, NEW y \in Created, x # y,
             NEW p \in ToSet(streams'[x]), NEW q \in ToSet(streams'[y]),
             p.kind = "event", q.kind = "event"
      PROVE  p.id # q.id
  <2>1. p \in Of(x) \/ (x \in to /\ p = o)
    BY <1>3
  <2>2. q \in Of(y) \/ (y \in to /\ q = o)
    BY <1>3
  <2>3. CASE p \in Of(x) /\ q \in Of(y)
    BY <2>3, <1>6 DEF StreamsOK
  <2>4. CASE p \in Of(x) /\ q = o
    BY <2>4, <1>6
  <2>5. CASE p = o /\ q \in Of(y)
    BY <2>5, <1>6
  <2>6. CASE p = o /\ q = o /\ x \in to /\ y \in to
    BY <2>6, <1>6
  <2> QED BY <2>1, <2>2, <2>3, <2>4, <2>5, <2>6
<1>7. ASSUME NEW s \in busy'
      PROVE  s \in Created /\ streams'[s] # << >> /\ Head(streams'[s]).kind = "kernel"
  BY <1>3 DEF StreamsOK
<1>8. Default \in Created /\ Created \subseteq 0 .. lib'.streams
  BY DEF StreamsOK
<1>9. StreamsOK'
  <2>1. streams' = [x \in Created' |-> streams'[x]]
    BY <1>1, <1>4
  <2>2. \A x \in Created : IsQueue(streams'[x])
    BY <1>3
  <2>3. \A x \in Created : \A p \in ToSet(streams'[x]) : OpOK(p) /\ p.id <= pushed'
    BY <1>5
  <2>4. \A s, t \in Created : \A p \in ToSet(streams'[s]), q \in ToSet(streams'[t]) :
          s # t /\ p.kind = "event" /\ q.kind = "event" => p.id # q.id
    BY <1>6
  <2>5. pushed' \in Nat
    OBVIOUS
  <2> QED BY <1>1, <1>7, <1>8, <2>1, <2>2, <2>3, <2>4, <2>5, StreamsAfter
<1> QED BY <1>1, <1>3, <1>9

\* The first operation of a stream has left it.
LEMMA StreamsTake ==
  ASSUME StreamsOK, NEW s \in Created, streams[s] # << >>,
         streams' = [streams EXCEPT ![s] = Tail(@)],
         busy' \subseteq busy, s \notin busy', pushed' = pushed,
         lib'.streams = lib.streams
  PROVE  /\ StreamsOK'
         /\ Created' = Created
         /\ Head(streams[s]) \in Of(s)
         /\ \A o \in Of(s) : o.id \in Nat /\ Head(streams[s]).id <= o.id
         /\ ToSet(streams'[s]) = Of(s) \ {Head(streams[s])}
         /\ \A x \in Created : x # s => streams'[x] = streams[x]
         /\ \A x \in Created : streams[x] # << >> /\ streams'[x] = Tail(streams[x])
                                 => x = s
<1>1. PICK h : h = Head(streams[s])
  OBVIOUS
<1>2. Created' = Created
  BY DEF Created, StreamsOK
<1>3. /\ streams'[s] = Tail(streams[s])
      /\ \A x \in Created : x # s => streams'[x] = streams[x]
      /\ DOMAIN streams' = Created
  BY DEF Created, StreamsOK
<1>4. IsQueue(streams[s])
  BY DEF StreamsOK
<1>5. PICK y : y = streams[s]
  OBVIOUS
<1>6. /\ IsQueue(Tail(y)) /\ h \in ToSet(y) /\ h \notin ToSet(Tail(y))
      /\ ToSet(y) = ToSet(Tail(y)) \cup {h}
      /\ \A o \in ToSet(y) : o.id \in Nat /\ h.id <= o.id
  BY <1>1, <1>4, <1>5, TailQueue
<1>7. /\ IsQueue(streams'[s]) /\ h \in Of(s)
      /\ ToSet(streams'[s]) = Of(s) \ {h}
      /\ \A o \in Of(s) : o.id \in Nat /\ h.id <= o.id
  BY <1>3, <1>5, <1>6 DEF Of
<1>8. \A x \in Created : IsQueue(streams'[x]) /\ ToSet(streams'[x]) \subseteq Of(x)
  BY <1>3, <1>7 DEF StreamsOK, Of
<1>9. streams' = [x \in DOMAIN streams' |-> streams'[x]]
  BY DEF StreamsOK
<1>10. \A x \in busy' : x \in Created /\ streams'[x] # << >>
                         /\ Head(streams'[x]).kind = "kernel"
  BY <1>3 DEF StreamsOK
<1>11. /\ pushed' \in Nat
       /\ Default \in Created /\ Created \subseteq 0 .. lib'.streams
       /\ \A x \in Created : \A o \in ToSet(streams'[x]) : OpOK(o) /\ o.id <= pushed'
       /\ \A x, t \in Created : \A o \in ToSet(streams'[x]), p \in ToSet(streams'[t]) :
            x # t /\ o.kind = "event" /\ p.kind = "event" => o.id # p.id
  BY <1>8 DEF StreamsOK
<1>12. StreamsOK'
  <2>1. streams' = [x \in Created' |-> streams'[x]]
    BY <1>2, <1>3, <1>9
  <2> QED BY <1>2, <1>8, <1>10, <1>11, <2>1 DEF StreamsOK, Of
<1>13. ASSUME NEW x \in Created, streams[x] # << >>, streams'[x] = Tail(streams[x])
       PROVE  x = s
  <2>1. IsQueue(streams[x])
    BY DEF StreamsOK
  <2>2. Tail(streams[x]) # streams[x]
    BY <1>13, <2>1, TailQueue
  <2> QED BY <1>3, <1>13, <2>2
<1> QED BY <1>1, <1>2, <1>3, <1>7, <1>12, <1>13
-----------------------------------------------------------------------------
(* What happens to events.                                                 *)

\* A record that is made and one that completes keep the count.
LEMMA CountsChange ==
  ASSUME EventTypes, NEW e \in Events, CountsRecords(e), NEW o,
         EventTypes',
         \/ /\ Records(e)' = Records(e)
            /\ events'[e].issued = events[e].issued
            /\ events'[e].updates = events[e].updates
         \/ /\ Records(e)' = Records(e) \cup {o} /\ o \notin Records(e)
            /\ events'[e].issued = events[e].issued + 1
            /\ events'[e].updates = events[e].updates
         \/ /\ Records(e)' = Records(e) \ {o} /\ o \in Records(e)
            /\ events'[e].issued = events[e].issued
            /\ events'[e].updates = events[e].updates + 1
  PROVE  CountsRecords(e)'
<1>1. PICK R : R = Records(e)
  OBVIOUS
<1>2. PICK T : T = Records(e)'
  OBVIOUS
<1>3. /\ IsFiniteSet(R)
      /\ events[e].issued = events[e].updates + Cardinality(R)
  BY <1>1 DEF CountsRecords
<1>4. /\ events[e].issued \in Nat /\ events[e].updates \in Nat
      /\ events'[e].issued \in Nat /\ events'[e].updates \in Nat
  BY DEF EventTypes
<1>5. Cardinality(R) \in Nat
  BY <1>3, FS_CardinalityType
<1>6. \/ /\ T = R
         /\ events'[e].issued = events[e].issued
         /\ events'[e].updates = events[e].updates
      \/ /\ T = R \cup {o} /\ o \notin R
         /\ events'[e].issued = events[e].issued + 1
         /\ events'[e].updates = events[e].updates
      \/ /\ T = R \ {o} /\ o \in R
         /\ events'[e].issued = events[e].issued
         /\ events'[e].updates = events[e].updates + 1
  BY <1>1, <1>2
<1>7. IsFiniteSet(R \cup {o}) /\ (o \notin R => Cardinality(R \cup {o}) = Cardinality(R) + 1)
  BY <1>3, FS_AddElement
<1>8. IsFiniteSet(R \ {o}) /\ (o \in R => Cardinality(R \ {o}) = Cardinality(R) - 1)
  BY <1>3, FS_RemoveElement
<1>9. IsFiniteSet(T)
  BY <1>3, <1>6, <1>7, <1>8
<1>10. events'[e].issued = events'[e].updates + Cardinality(T)
  <2>1. PICK a \in Nat, b \in Nat, c \in Nat, d \in Nat, n \in Nat :
          /\ a = events[e].issued /\ b = events[e].updates
          /\ c = events'[e].issued /\ d = events'[e].updates
          /\ n = Cardinality(R)
    BY <1>4, <1>5
  <2>2. CASE T = R /\ c = a /\ d = b
    BY <2>1, <2>2, <1>3
  <2>3. CASE T = R \cup {o} /\ o \notin R /\ c = a + 1 /\ d = b
    BY <2>1, <2>3, <1>3, <1>7
  <2>4. CASE T = R \ {o} /\ o \in R /\ c = a /\ d = b + 1
    BY <2>1, <2>4, <1>3, <1>8
  <2> QED BY <2>1, <2>2, <2>3, <2>4, <1>6
<1>11. IsFiniteSet(Records(e)')
       /\ events'[e].issued = events'[e].updates + Cardinality(Records(e)')
  BY <1>2, <1>9, <1>10
<1> QED BY <1>11 DEF CountsRecords

\* Steps that leave streams alone, and events but for their state.
LEMMA QuietEvents ==
  ASSUME EventTypes, EventTypes', StreamsOK, EventsOK, WaitsOK,
         streams' = streams, done' = done,
         host' = host \/ (host.at # "push" /\ host'.at # "push"),
         \A e \in Events : /\ events'[e].issued = events[e].issued
                           /\ events'[e].updates = events[e].updates
                           /\ events'[e].covers = events[e].covers
  PROVE  EventsOK' /\ WaitsOK'
<1>1. Pushing' = Pushing
  BY DEF Pushing
<1>2. Operations' = Operations /\ Created' = Created
  BY DEF Operations, Created
<1>3. ASSUME NEW e \in Events
      PROVE  CountsRecords(e)'
  <2>1. Records(e)' = Records(e)
    BY <1>1, <1>2 DEF Records
  <2>2. CountsRecords(e)
    BY DEF EventsOK
  <2> QED BY <2>1, <2>2, CountsChange
<1>4. ASSUME NEW e \in Events, NEW id, Awaited(e, id)
      PROVE  Awaited(e, id)'
  <2>1. InFlight(Created)' = InFlight(Created)
    BY <1>2 DEF InFlight
  <2> QED BY <1>2, <1>4, <2>1 DEF Awaited, Of
<1>5. EventsOK'
  BY <1>3, <1>4 DEF EventsOK
<1>6. WaitsOK'
  <2>1. \A o \in Operations : o.kind = "wait" => o.event \in Events
    BY DEF Operations, StreamsOK, OpOK, Of
  <2> QED BY <1>2, <2>1 DEF WaitsOK
<1> QED BY <1>5, <1>6
-----------------------------------------------------------------------------
(* Operations are made and completed.                                      *)

\* An operation that is pushed is new, and the only one that is.
LEMMA PushEffect ==
  ASSUME WaitInv, IsIdle, NEW s \in Created, NEW o, OpOK(o),
         o.kind # "wait", o.id = pushed + 1, Push(s, o),
         busy' = busy, done' = done, lib'.streams = lib.streams
  PROVE  /\ StreamsOK' /\ HostOK' /\ Created' = Created
         /\ Operations' \cup Pushing' = Operations \cup Pushing \cup {o}
         /\ \A p \in Operations \cup Pushing : p.id \in Nat /\ p.id <= pushed
         /\ \A p \in Operations' : p \in Operations \/ p = o
         /\ \A x \in Created : Of(x) \subseteq ToSet(streams'[x])
         /\ \A x \in Created : streams[x] # << >> => streams'[x] # Tail(streams[x])
         /\ pushed' = pushed + 1
         /\ \/ s = Default /\ host'.at = "push" /\ host'.on = o /\ streams' = streams
            \/ ToSet(streams'[s]) = Of(s) \cup {o}
         /\ host' = Idle => host = Idle
<1>1. host = Idle /\ Pushing = {} /\ host.at = "idle"
  BY DEF WaitInv, HostOK, IsIdle, Idle, Pushing
<1>2. pushed \in Nat /\ pushed' = pushed + 1 /\ StreamsOK
  BY DEF WaitInv, StreamsOK, Push
<1>3. \A x \in Created : \A p \in Of(x) : p.id \in Nat /\ p.id <= pushed
  BY DEF WaitInv, StreamsOK, OpOK
<1>4. \A p \in Operations \cup Pushing : p.id \in Nat /\ p.id <= pushed
  BY <1>1, <1>3 DEF Operations, Of
<1>5. CASE s = Default
  <2>1. /\ host' = [at |-> "push", on |-> o,
                    covers |-> InFlight(Created) \cup {o.id}]
        /\ streams' = streams
    BY <1>5 DEF Push, WaitIn
  <2>2. Created' = Created /\ Operations' = Operations
    BY <2>1 DEF Created, Operations
  <2>3. \A x \in Created : IsQueue(streams[x])
    BY <1>2 DEF StreamsOK
  <2>4. StreamsOK'
    <3>1. \A x \in Created : \A p \in ToSet(streams[x]) : OpOK(p) /\ p.id <= pushed'
      BY <1>2, <1>3 DEF StreamsOK, Of
    <3>2. /\ pushed' \in Nat
          /\ streams' = [x \in Created |-> streams'[x]]
          /\ Default \in Created /\ Created \subseteq 0 .. lib'.streams
          /\ \A x \in busy' : x \in Created /\ streams'[x] # << >>
                             /\ Head(streams'[x]).kind = "kernel"
      BY <1>2, <2>1 DEF StreamsOK
    <3>3. \A x, y \in Created : \A p \in ToSet(streams'[x]), q \in ToSet(streams'[y]) :
           x # y /\ p.kind = "event" /\ q.kind = "event" => p.id # q.id
      BY <1>2, <2>1 DEF StreamsOK, Of
    <3> QED BY <2>1, <2>2, <2>3, <3>1, <3>2, <3>3, StreamsAfter
  <2>5. Pushing' = {o}
    BY <2>1 DEF Pushing
  <2>6. HostOK'
    <3>1. \A x \in Created' : \A p \in ToSet(streams'[x]) : p.id < pushed'
      BY <1>2, <1>3, <2>1, <2>2 DEF Of
    <3>2. InFlight(Created)' = InFlight(Created)
      BY <2>1, <2>2 DEF InFlight
    <3>3. host'.covers \subseteq done' \cup InFlight(Created)' \cup {host'.on.id}
      BY <2>1, <3>2
    <3> QED BY <1>2, <2>1, <3>1, <3>3 DEF HostOK, Of
  <2>7. host' # Idle
    BY <2>1 DEF Idle
  <2>8. \A x \in Created : streams[x] # << >> => streams'[x] # Tail(streams[x])
    BY <2>1, <2>3, TailQueue
  <2>9. \A x \in Created : Of(x) \subseteq ToSet(streams'[x])
    BY <2>1 DEF Of
  <2> QED BY <1>1, <1>2, <1>4, <1>5, <2>1, <2>2, <2>4, <2>5, <2>6, <2>7, <2>8, <2>9
<1>6. CASE s # Default
  <2>1. host' = host /\ streams' = [streams EXCEPT ![s] = Append(@, o)]
    BY <1>6 DEF Push
  <2>2. PICK to : to = {s}
    OBVIOUS
  <2>3. streams' = [x \in Created |-> IF x \in to THEN Append(streams[x], o)
                                                  ELSE streams[x]]
    <3>1. streams = [x \in Created |-> streams[x]]
      BY <1>2 DEF StreamsOK
    <3> QED BY <2>1, <2>2, <3>1
  <2>4. /\ to \subseteq Created
        /\ \A x \in to : \A p \in Of(x) : p.id < o.id
        /\ pushed' \in Nat /\ pushed <= pushed' /\ o.id <= pushed'
        /\ \A x, y \in to : x = y
        /\ \A x \in Created : \A p \in Of(x) : p.id # o.id
    BY <1>2, <1>3, <2>2
  <2>5. /\ StreamsOK'
        /\ Created' = Created
        /\ \A x \in Created :
             /\ ToSet(streams'[x]) = IF x \in to THEN Of(x) \cup {o} ELSE Of(x)
             /\ streams[x] # << >> => streams'[x] # Tail(streams[x])
    BY <1>2, <2>3, <2>4, StreamsAppend
  <2>6. Pushing' = {}
    BY <2>1, <1>1 DEF Pushing
  <2>7. HostOK'
    BY <1>1, <2>1 DEF HostOK, Idle
  <2>8. ToSet(streams'[s]) = Of(s) \cup {o}
    BY <2>2, <2>5
  <2>9. Operations' = Operations \cup {o}
    <3>1. \A p : p \in Operations' <=> \E x \in Created : p \in ToSet(streams'[x])
      BY <2>5 DEF Operations
    <3>2. \A p : p \in Operations <=> \E x \in Created : p \in Of(x)
      BY DEF Operations, Of
    <3>3. ASSUME NEW p \in Operations'
          PROVE  p \in Operations \cup {o}
      <4>1. PICK x \in Created : p \in ToSet(streams'[x])
        BY <3>1
      <4>2. p \in Of(x) \/ p = o
        BY <2>5, <4>1
      <4> QED BY <3>2, <4>2
    <3>4. ASSUME NEW p \in Operations
          PROVE  p \in Operations'
      <4>1. PICK x \in Created : p \in Of(x)
        BY <3>2
      <4>2. p \in ToSet(streams'[x])
        BY <2>5, <4>1
      <4> QED BY <3>1, <4>2
    <3>5. o \in Operations'
      BY <2>8, <3>1
    <3> QED BY <3>3, <3>4, <3>5
  <2>10. \A x \in Created : Of(x) \subseteq ToSet(streams'[x])
    BY <2>5
  <2>11. \A x \in Created : streams[x] # << >> => streams'[x] # Tail(streams[x])
    BY <2>5
  <2>12. Operations' \cup Pushing' = Operations \cup Pushing \cup {o}
    BY <2>6, <2>9, <1>1
  <2>13. \A p \in Operations' : p \in Operations \/ p = o
    BY <2>9
  <2>14. host' = Idle => host = Idle
    BY <1>1
  <2> QED BY <1>2, <1>4, <2>5, <2>7, <2>8, <2>10, <2>11, <2>12, <2>13, <2>14
<1> QED BY <1>5, <1>6

\* A copy or a kernel.
LEMMA PushOther ==
  ASSUME WaitInv, IsIdle, NEW s \in Created, NEW o, OpOK(o),
         o.kind \in {"copy", "kernel"}, o.id = pushed + 1, Push(s, o),
         busy' = busy, done' = done, lib'.streams = lib.streams, LibTypes',
         events' = events
  PROVE  /\ WaitInv'
         /\ \A x \in Created : streams[x] # << >> => streams'[x] # Tail(streams[x])
         /\ host' = Idle => host = Idle
<1>1. /\ StreamsOK' /\ HostOK' /\ Created' = Created
      /\ Operations' \cup Pushing' = Operations \cup Pushing \cup {o}
      /\ \A p \in Operations' : p \in Operations \/ p = o
      /\ \A x \in Created : Of(x) \subseteq ToSet(streams'[x])
      /\ \A x \in Created : streams[x] # << >> => streams'[x] # Tail(streams[x])
      /\ host' = Idle => host = Idle
  BY PushEffect
<1>2. EventTypes /\ EventTypes' /\ EventsOK /\ WaitsOK
  BY DEF WaitInv, EventTypes
<1>3. host.at # "push"
  BY DEF IsIdle
<1>4. ASSUME NEW e \in Events
      PROVE  CountsRecords(e)'
  <2>1. Records(e)' = Records(e)
    BY <1>1 DEF Records
  <2> QED BY <1>2, <2>1, CountsChange DEF EventsOK
<1>5. ASSUME NEW e \in Events, NEW id, Awaited(e, id)
      PROVE  Awaited(e, id)'
  BY <1>1, <1>3, <1>5 DEF Awaited, Of
<1>6. EventsOK'
  BY <1>2, <1>4, <1>5 DEF EventsOK
<1>7. WaitsOK'
  <2>1. \A p \in Operations' : p.kind = "wait" => p \in Operations
    BY <1>1
  <2> QED BY <2>1, <1>2 DEF WaitsOK
<1> QED BY <1>1, <1>2, <1>6, <1>7 DEF WaitInv

\* A record covers what is on its stream.
LEMMA PushRecord ==
  ASSUME WaitInv, NEW e \in Events, NEW s \in Created, EventRecord(e, s)
  PROVE  /\ WaitInv'
         /\ \A x \in Created : streams[x] # << >> => streams'[x] # Tail(streams[x])
         /\ host' = Idle => host = Idle
<1>1. PICK o : o = Operation("event", e, 0, {})
  OBVIOUS
<1>2. pushed \in Nat
  BY DEF WaitInv, StreamsOK
<1>3. o.id = pushed + 1 /\ o.kind = "event" /\ o.event = e
  BY <1>1 DEF Operation
<1>4. OpOK(o)
  BY <1>2, <1>3 DEF OpOK
<1>5. /\ IsIdle /\ Push(s, o) /\ busy' = busy /\ done' = done /\ lib' = lib
  BY <1>1 DEF EventRecord, runtimeVars
<1>6. /\ StreamsOK' /\ HostOK' /\ Created' = Created
      /\ Operations' \cup Pushing' = Operations \cup Pushing \cup {o}
      /\ \A p \in Operations \cup Pushing : p.id \in Nat /\ p.id <= pushed
      /\ \A p \in Operations' : p \in Operations \/ p = o
      /\ \A x \in Created : Of(x) \subseteq ToSet(streams'[x])
      /\ \A x \in Created : streams[x] # << >> => streams'[x] # Tail(streams[x])
      /\ pushed' = pushed + 1
      /\ \/ s = Default /\ host'.at = "push" /\ host'.on = o /\ streams' = streams
         \/ ToSet(streams'[s]) = Of(s) \cup {o}
      /\ host' = Idle => host = Idle
  BY <1>3, <1>4, <1>5, PushEffect
<1>7. PICK ev : ev = [state |-> "created", updates |-> events[e].updates,
                      issued |-> events[e].issued + 1,
                      covers |-> events[e].covers \cup InFlight({s}) \cup {pushed + 1}]
  OBVIOUS
<1>8. events' = [events EXCEPT ![e] = ev]
  BY <1>6, <1>7 DEF EventRecord, Issued
<1>9. EventTypes /\ EventsOK /\ WaitsOK /\ StreamsOK
  BY DEF WaitInv
<1>10. InFlight({s}) \subseteq Nat
  BY <1>9 DEF InFlight, StreamsOK, OpOK, Of
<1>11. EventTypes' /\ events'[e] = ev /\ \A f \in Events : f # e => events'[f] = events[f]
  BY <1>2, <1>7, <1>8, <1>9, <1>10 DEF EventTypes
<1>12. o \notin Operations \cup Pushing
  BY <1>2, <1>3, <1>6
<1>13. ASSUME NEW f \in Events
       PROVE  CountsRecords(f)'
  <2>1. CountsRecords(f)
    BY <1>9 DEF EventsOK
  <2>2. CASE f = e
    <3>1. Records(e)' = Records(e) \cup {o} /\ o \notin Records(e)
      BY <1>3, <1>6, <1>12 DEF Records
    <3>2. /\ events'[e].issued = events[e].issued + 1
          /\ events'[e].updates = events[e].updates
      BY <1>7, <1>11
    <3> QED BY <2>1, <2>2, <3>1, <3>2, <1>9, <1>11, CountsChange
  <2>3. CASE f # e
    <3>1. Records(f)' = Records(f)
      BY <1>3, <1>6, <2>3 DEF Records
    <3> QED BY <2>1, <2>3, <3>1, <1>9, <1>11, CountsChange
  <2> QED BY <2>2, <2>3
<1>14. ASSUME NEW f \in Events, NEW id, Awaited(f, id)
       PROVE  Awaited(f, id)'
  BY <1>5, <1>6, <1>14 DEF Awaited, Of, IsIdle
<1>15. ASSUME NEW id \in InFlight({s}) \cup {pushed + 1}
       PROVE  Awaited(e, id)'
  <2>1. CASE s = Default /\ host'.at = "push" /\ host'.on = o /\ streams' = streams
    <3>1. id \in InFlight(Created) \cup {o.id}
      BY <1>3 DEF InFlight
    <3>2. InFlight(Created)' = InFlight(Created)
      BY <2>1, <1>6 DEF InFlight
    <3> QED BY <2>1, <3>1, <3>2, <1>3 DEF Awaited
  <2>2. CASE ToSet(streams'[s]) = Of(s) \cup {o}
    <3>1. \E p \in Of(s) \cup {o} : p.id = id /\ id <= o.id
      <4>1. CASE id = pushed + 1
        BY <4>1, <1>2, <1>3
      <4>2. CASE id \in InFlight({s})
        <5>1. PICK p \in Of(s) : p.id = id
          BY <4>2, InFlightIn
        <5>2. p.id \in Nat /\ p.id <= pushed
          BY <1>9 DEF StreamsOK, OpOK
        <5> QED BY <5>1, <5>2, <1>2, <1>3
      <4> QED BY <4>1, <4>2
    <3> QED BY <2>2, <3>1, <1>3, <1>6 DEF Awaited, Of
  <2> QED BY <2>1, <2>2, <1>6
<1>16. EventsOK'
  <2>1. ASSUME NEW f \in Events, NEW id \in events'[f].covers \ done'
        PROVE  Awaited(f, id)'
    <3>1. CASE id \in events[f].covers
      BY <3>1, <1>5, <1>9, <1>14 DEF EventsOK
    <3>2. CASE id \notin events[f].covers
      <4>1. f = e /\ id \in InFlight({s}) \cup {pushed + 1}
        BY <3>2, <2>1, <1>7, <1>11
      <4> QED BY <4>1, <1>15
    <3> QED BY <3>1, <3>2
  <2> QED BY <2>1, <1>13 DEF EventsOK
<1>17. WaitsOK'
  <2>1. ASSUME NEW p \in Operations', p.kind = "wait"
        PROVE  /\ p.count <= events'[p.event].issued
               /\ p.count = events'[p.event].issued =>
                    p.covers \subseteq events'[p.event].covers
    <3>1. p \in Operations
      BY <2>1, <1>3, <1>6
    <3>2. p.event \in Events /\ p.count \in Nat
      BY <3>1, <2>1, <1>9 DEF Operations, StreamsOK, OpOK, Of
    <3>3. /\ p.count <= events[p.event].issued
          /\ p.count = events[p.event].issued =>
               p.covers \subseteq events[p.event].covers
      BY <3>1, <2>1, <1>9 DEF WaitsOK
    <3>4. events[e].issued \in Nat
      BY <1>9 DEF EventTypes
    <3>5. CASE p.event = e
      BY <3>2, <3>3, <3>4, <3>5, <1>7, <1>11
    <3>6. CASE p.event # e
      BY <3>2, <3>3, <3>6, <1>11
    <3> QED BY <3>5, <3>6
  <2> QED BY <2>1 DEF WaitsOK
<1>18. LibTypes'
  BY <1>5 DEF WaitInv, LibTypes
<1> QED BY <1>6, <1>11, <1>16, <1>17, <1>18 DEF WaitInv
\* The operation of the default stream enters it when all streams are empty.
LEMMA EnterKeeps ==
  ASSUME WaitInv, EnterDefaultStream
  PROVE  /\ WaitInv' /\ host' # Idle
         /\ Operations' \cup Pushing' = Operations \cup Pushing
         /\ \A x \in Created : streams[x] = << >>
<1>1. /\ host.at = "push" /\ Drained(Created)
      /\ streams' = [streams EXCEPT ![Default] = <<host.on>>]
      /\ host' = [host EXCEPT !.at = "pushed"]
      /\ busy' = busy /\ events' = events /\ pushed' = pushed /\ done' = done
      /\ lib' = lib
  BY DEF EnterDefaultStream, runtimeVars
<1>2. LibTypes /\ EventTypes /\ StreamsOK /\ HostOK /\ EventsOK /\ WaitsOK
  BY DEF WaitInv
<1>3. PICK o : o = host.on
  OBVIOUS
<1>4. /\ OpOK(o) /\ o.kind # "wait" /\ o.id = pushed
      /\ host.covers \subseteq done \cup InFlight(Created) \cup {o.id}
      /\ pushed \in Nat
  BY <1>1, <1>2, <1>3 DEF HostOK, StreamsOK
<1>5. Default \in Created
  BY <1>2 DEF StreamsOK
<1>6. \A x \in Created : Of(x) = {} /\ streams[x] = << >>
  BY <1>1, InFlightIn DEF Drained
<1>7. InFlight(Created) = {}
  BY <1>1, InFlightIn
<1>8. PICK to : to = {Default}
  OBVIOUS
<1>9. streams' = [x \in Created |-> IF x \in to THEN Append(streams[x], o)
                                                ELSE streams[x]]
  <2>1. streams = [x \in Created |-> streams[x]]
    BY <1>2 DEF StreamsOK
  <2>2. Append(streams[Default], o) = <<o>>
    <3>1. streams[Default] = << >>
      BY <1>5, <1>6
    <3>2. Append(<< >>, o) = <<o>>
      OBVIOUS
    <3> QED BY <3>1, <3>2
  <2> QED BY <1>1, <1>3, <1>8, <2>1, <2>2
<1>10. /\ to \subseteq Created
       /\ \A x \in to : \A p \in Of(x) : p.id < o.id
       /\ \A x, y \in to : x = y
       /\ \A x \in Created : \A p \in Of(x) : p.id # o.id
       /\ pushed' \in Nat /\ pushed <= pushed' /\ o.id <= pushed'
  BY <1>1, <1>4, <1>5, <1>6, <1>8
<1>11. /\ StreamsOK' /\ Created' = Created
       /\ \A x \in Created :
            ToSet(streams'[x]) = IF x \in to THEN Of(x) \cup {o} ELSE Of(x)
  BY <1>1, <1>2, <1>4, <1>9, <1>10, StreamsAppend
<1>12. /\ ToSet(streams'[Default]) = {o}
       /\ \A x \in Created : x # Default => ToSet(streams'[x]) = {}
  BY <1>5, <1>6, <1>8, <1>11
<1>13. Operations' = {o}
  BY <1>5, <1>11, <1>12 DEF Operations
<1>14. Operations = {}
  BY <1>6 DEF Operations, Of
<1>15. host'.at = "pushed" /\ host'.covers = host.covers
  BY <1>1, <1>2 DEF HostOK
<1>16. Pushing = {o} /\ Pushing' = {}
  BY <1>1, <1>3, <1>15 DEF Pushing
<1>17. \A id : id \in InFlight(Created)' <=> id = o.id
  BY <1>5, <1>11, <1>12 DEF InFlight
<1>18. HostOK'
  BY <1>1, <1>4, <1>7, <1>15, <1>17 DEF HostOK
<1>19. EventTypes' /\ LibTypes'
  BY <1>1, <1>2 DEF EventTypes, LibTypes
<1>20. ASSUME NEW e \in Events
       PROVE  CountsRecords(e)'
  <2>1. Records(e)' = Records(e)
    BY <1>13, <1>14, <1>16 DEF Records
  <2>2. CountsRecords(e)
    BY <1>2 DEF EventsOK
  <2> QED BY <2>1, <2>2, <1>1, <1>2, <1>19, CountsChange
<1>21. ASSUME NEW e \in Events, NEW id, Awaited(e, id)
       PROVE  Awaited(e, id)'
  <2>1. o.kind = "event" /\ o.event = e /\ id = o.id
    BY <1>1, <1>3, <1>6, <1>7, <1>21 DEF Awaited
  <2>2. o \in ToSet(streams'[Default]) /\ o.id <= o.id
    BY <1>4, <1>12
  <2> QED BY <2>1, <2>2, <1>5, <1>11 DEF Awaited, Of
<1>22. EventsOK'
  BY <1>1, <1>2, <1>20, <1>21 DEF EventsOK
<1>23. WaitsOK'
  BY <1>4, <1>13 DEF WaitsOK
<1>24. host' # Idle
  BY <1>15 DEF Idle
<1> QED BY <1>6, <1>11, <1>13, <1>14, <1>16, <1>18, <1>19, <1>22, <1>23, <1>24
        DEF WaitInv

\* A wait for an event goes to one stream or to all of them.
LEMMA WaitKeeps ==
  ASSUME WaitInv, NEW s \in Created, NEW e \in Events, StreamWaitEvent(s, e)
  PROVE  /\ WaitInv'
         /\ \A x \in Created : streams[x] # << >> => streams'[x] # Tail(streams[x])
         /\ \A p \in Operations' : p \in Operations \/ p.kind = "wait"
<1>1. LibTypes /\ EventTypes /\ StreamsOK /\ HostOK /\ EventsOK /\ WaitsOK
  BY DEF WaitInv
<1>2. PICK o : o = Operation("wait", e, events[e].issued, events[e].covers)
  OBVIOUS
<1>3. PICK to : to = IF s = Default THEN Created \ {Default} ELSE {s}
  OBVIOUS
<1>4. /\ IsIdle /\ pushed' = pushed + 1 /\ host' = host /\ lib' = lib
      /\ busy' = busy /\ events' = events /\ done' = done
      /\ streams' = [x \in Created |-> IF x \in to THEN Append(streams[x], o)
                                                   ELSE streams[x]]
  BY <1>2, <1>3 DEF StreamWaitEvent, runtimeVars
<1>5. pushed \in Nat
  BY <1>1 DEF StreamsOK
<1>6. /\ o.id = pushed + 1 /\ o.kind = "wait" /\ o.event = e
      /\ o.count = events[e].issued /\ o.covers = events[e].covers
  BY <1>2 DEF Operation
<1>7. OpOK(o)
  BY <1>1, <1>5, <1>6 DEF OpOK, EventTypes
<1>8. \A x \in Created : \A p \in Of(x) : p.id \in Nat /\ p.id <= pushed
  BY <1>1 DEF StreamsOK, OpOK
<1>9. /\ to \subseteq Created
      /\ \A x \in to : \A p \in Of(x) : p.id < o.id
      /\ pushed' \in Nat /\ pushed <= pushed' /\ o.id <= pushed'
      /\ o.kind # "event"
  BY <1>3, <1>4, <1>5, <1>6, <1>8
<1>10. /\ StreamsOK' /\ Created' = Created
       /\ \A x \in Created :
            /\ ToSet(streams'[x]) = IF x \in to THEN Of(x) \cup {o} ELSE Of(x)
            /\ streams[x] # << >> => streams'[x] # Tail(streams[x])
  BY <1>1, <1>4, <1>7, <1>9, StreamsAppend
<1>11. \A x \in Created : Of(x) \subseteq ToSet(streams'[x])
  BY <1>10
<1>12. \A p : p \in Operations' <=> \E x \in Created : p \in ToSet(streams'[x])
  BY <1>10 DEF Operations
<1>13. \A p : p \in Operations <=> \E x \in Created : p \in Of(x)
  BY DEF Operations, Of
<1>14. \A p \in Operations' : p \in Operations \/ p = o
  <2> SUFFICES ASSUME NEW p \in Operations'
               PROVE  p \in Operations \/ p = o
    OBVIOUS
  <2>1. PICK x \in Created : p \in ToSet(streams'[x])
    BY <1>12
  <2>2. p \in Of(x) \/ p = o
    BY <2>1, <1>10
  <2> QED BY <2>2, <1>13
<1>15. Operations \subseteq Operations'
  BY <1>11, <1>12, <1>13
<1>16. Pushing' = Pushing
  BY <1>4 DEF Pushing
<1>17. host = Idle /\ HostOK'
  BY <1>1, <1>4 DEF HostOK, IsIdle, Idle
<1>18. EventTypes' /\ LibTypes'
  BY <1>1, <1>4 DEF EventTypes, LibTypes
<1>19. ASSUME NEW f \in Events
       PROVE  CountsRecords(f)'
  <2>1. Records(f)' = Records(f)
    BY <1>6, <1>14, <1>15, <1>16 DEF Records
  <2>2. CountsRecords(f)
    BY <1>1 DEF EventsOK
  <2> QED BY <2>1, <2>2, <1>1, <1>4, <1>18, CountsChange
<1>20. ASSUME NEW f \in Events, NEW id, Awaited(f, id)
       PROVE  Awaited(f, id)'
  BY <1>4, <1>10, <1>11, <1>20 DEF Awaited, Of, IsIdle
<1>21. EventsOK'
  BY <1>1, <1>4, <1>19, <1>20 DEF EventsOK
<1>22. WaitsOK'
  <2>1. events[e].issued \in Nat
    BY <1>1 DEF EventTypes
  <2>2. ASSUME NEW p \in Operations', p.kind = "wait"
        PROVE  /\ p.count <= events[p.event].issued
               /\ p.count = events[p.event].issued =>
                    p.covers \subseteq events[p.event].covers
    <3>1. CASE p = o
      BY <3>1, <2>1, <1>6
    <3>2. CASE p \in Operations
      BY <3>2, <2>2, <1>1 DEF WaitsOK
    <3> QED BY <3>1, <3>2, <1>14
  <2> QED BY <2>2, <1>4 DEF WaitsOK
<1>23. \A p \in Operations' : p \in Operations \/ p.kind = "wait"
  BY <1>6, <1>14
<1> QED BY <1>10, <1>17, <1>18, <1>21, <1>22, <1>23 DEF WaitInv

\* The update of an event's record counts one more update of that event.
LEMMA EventUpdated ==
  ASSUME EventTypes, NEW g \in Events,
         events' = [events EXCEPT ![g].updates = @ + 1]
  PROVE  /\ EventTypes'
         /\ \A e \in Events : /\ events'[e].issued = events[e].issued
                              /\ events'[e].covers = events[e].covers
                              /\ events'[e].updates =
                                   IF g = e THEN events[e].updates + 1
                                            ELSE events[e].updates
<1>1. events[g].updates + 1 \in Nat
  BY DEF EventTypes
<1>2. EventTypes'
  BY <1>1 DEF EventTypes
<1> QED BY <1>1, <1>2 DEF EventTypes

\* The simulation thread has done the first operation of a stream.
LEMMA TakeKeeps ==
  ASSUME WaitInv, NEW s \in Created, streams[s] # << >>, Take(s),
         NEW h, h = Head(streams[s]),
         busy' \subseteq busy, s \notin busy', pushed' = pushed, lib' = lib,
         host' = host,
         \/ h.kind # "event" /\ events' = events
         \/ /\ h.kind = "event"
            /\ events' = [events EXCEPT ![h.event].updates = @ + 1]
  PROVE  /\ WaitInv'
         /\ \A x \in Created : streams[x] # << >> /\ streams'[x] = Tail(streams[x])
                                 => x = s
         /\ Operations' \subseteq Operations
<1>1. LibTypes /\ EventTypes /\ StreamsOK /\ HostOK /\ EventsOK /\ WaitsOK
  BY DEF WaitInv
<1>2. /\ streams' = [streams EXCEPT ![s] = Tail(@)]
      /\ done' = done \cup {h.id}
  BY DEF Take
<1>3. /\ StreamsOK' /\ Created' = Created
      /\ h \in Of(s)
      /\ \A o \in Of(s) : o.id \in Nat /\ h.id <= o.id
      /\ ToSet(streams'[s]) = Of(s) \ {h}
      /\ \A x \in Created : x # s => streams'[x] = streams[x]
      /\ \A x \in Created : streams[x] # << >> /\ streams'[x] = Tail(streams[x])
                              => x = s
  BY <1>1, <1>2, StreamsTake
<1>4. \A x \in Created : /\ ToSet(streams'[x]) \subseteq Of(x)
                         /\ x # s => ToSet(streams'[x]) = Of(x)
  BY <1>3 DEF Of
<1>5. \A p : p \in Operations' <=> \E x \in Created : p \in ToSet(streams'[x])
  BY <1>3 DEF Operations
<1>6. \A p : p \in Operations <=> \E x \in Created : p \in Of(x)
  BY DEF Operations, Of
<1>7. Operations' \subseteq Operations
  BY <1>4, <1>5, <1>6
<1>8. \A p \in Operations : p # h => p \in Operations'
  <2> SUFFICES ASSUME NEW p \in Operations, p # h
               PROVE  p \in Operations'
    OBVIOUS
  <2>1. PICK x \in Created : p \in Of(x)
    BY <1>6
  <2>2. p \in ToSet(streams'[x])
    BY <2>1, <1>3, <1>4
  <2> QED BY <2>2, <1>5
<1>9. h.kind = "event" => h \notin Operations' /\ h \notin Pushing
  <2> SUFFICES ASSUME h.kind = "event"
               PROVE  h \notin Operations' /\ h \notin Pushing
    OBVIOUS
  <2>1. ASSUME NEW x \in Created, h \in ToSet(streams'[x])
        PROVE  FALSE
    <3>1. x # s
      BY <2>1, <1>3
    <3>2. h \in Of(x)
      BY <2>1, <1>4
    <3> QED BY <3>1, <3>2, <1>1, <1>3 DEF StreamsOK
  <2>2. h \notin Pushing
    <3> SUFFICES ASSUME host.at = "push", h = host.on
                 PROVE  FALSE
      BY DEF Pushing
    <3>1. h.id < pushed /\ host.on.id = pushed /\ pushed \in Nat
      BY <1>1, <1>3 DEF HostOK, StreamsOK
    <3> QED BY <3>1
  <2> QED BY <2>1, <2>2, <1>5
<1>10. Pushing' = Pushing
  BY DEF Pushing
<1>11. /\ EventTypes' /\ LibTypes'
       /\ \A e \in Events : /\ events'[e].issued = events[e].issued
                            /\ events'[e].covers = events[e].covers
                            /\ events'[e].updates =
                                 IF h.kind = "event" /\ h.event = e
                                 THEN events[e].updates + 1 ELSE events[e].updates
  <2>1. LibTypes'
    BY <1>1 DEF LibTypes
  <2>2. CASE h.kind # "event" /\ events' = events
    BY <2>1, <2>2, <1>1 DEF EventTypes
  <2>3. CASE h.kind = "event" /\ events' = [events EXCEPT ![h.event].updates = @ + 1]
    <3>1. h.event \in Events
      BY <2>3, <1>1, <1>3 DEF StreamsOK, OpOK
    <3>2. EventTypes
      BY <1>1
    <3>3. PICK g \in Events : g = h.event
      BY <3>1
    <3>4. events' = [events EXCEPT ![g].updates = @ + 1]
      BY <2>3, <3>3
    <3>5. /\ EventTypes'
          /\ \A e \in Events : /\ events'[e].issued = events[e].issued
                               /\ events'[e].covers = events[e].covers
                               /\ events'[e].updates =
                                    IF g = e THEN events[e].updates + 1
                                             ELSE events[e].updates
      BY <3>2, <3>4, EventUpdated
    <3>6. \A e \in Events : g = e <=> h.kind = "event" /\ h.event = e
      BY <2>3, <3>3
    <3> QED BY <2>1, <3>5, <3>6
  <2> QED BY <2>2, <2>3
<1>13. ASSUME NEW e \in Events
       PROVE  CountsRecords(e)'
  <2>1. CountsRecords(e)
    BY <1>1 DEF EventsOK
  <2>2. CASE h.kind = "event" /\ h.event = e
    <3>1. h \in Operations
      BY <1>3, <1>6
    <3>2. Records(e)' = Records(e) \ {h} /\ h \in Records(e)
      BY <2>2, <3>1, <1>7, <1>8, <1>9, <1>10 DEF Records
    <3> QED BY <2>1, <2>2, <3>2, <1>1, <1>11, CountsChange
  <2>3. CASE ~(h.kind = "event" /\ h.event = e)
    <3>1. Records(e)' = Records(e)
      BY <2>3, <1>7, <1>8, <1>10 DEF Records
    <3> QED BY <2>1, <2>3, <3>1, <1>1, <1>11, CountsChange
  <2> QED BY <2>2, <2>3
<1>14. ASSUME NEW id, NEW ss, ss \subseteq Created, id \in InFlight(ss),
              id \notin done'
       PROVE  id \in InFlight(ss)'
  <2>1. PICK x \in ss : \E o \in Of(x) : o.id = id
    BY <1>14, InFlightIn
  <2>2. PICK o \in Of(x) : o.id = id
    BY <2>1
  <2>3. o # h
    BY <2>2, <1>2, <1>14
  <2>4. x \in Created /\ o \in ToSet(streams'[x])
    BY <2>2, <2>3, <1>3, <1>4, <1>14
  <2> QED BY <2>2, <2>4 DEF InFlight
<1>15. ASSUME NEW e \in Events, NEW id, Awaited(e, id), id \notin done'
       PROVE  Awaited(e, id)'
  <2>1. CASE /\ host.at = "push" /\ host.on.kind = "event" /\ host.on.event = e
             /\ id \in InFlight(Created) \cup {host.on.id}
    <3>1. id \in InFlight(Created) => id \in InFlight(Created)'
      <4>1. PICK ss : ss = Created
        OBVIOUS
      <4>2. id \in InFlight(ss) => id \in InFlight(ss)'
        BY <4>1, <1>14, <1>15
      <4> QED BY <4>1, <4>2, <1>3 DEF InFlight
    <3> QED BY <2>1, <3>1 DEF Awaited
  <2>2. CASE \E x \in Created : \E o, p \in Of(x) :
               /\ o.id = id
               /\ p.kind = "event" /\ p.event = e /\ id <= p.id
    <3>0. PICK x \in Created : \E o, p \in Of(x) :
            /\ o.id = id
            /\ p.kind = "event" /\ p.event = e /\ id <= p.id
      BY <2>2
    <3>1. PICK o \in Of(x), p \in Of(x) :
            /\ o.id = id
            /\ p.kind = "event" /\ p.event = e /\ id <= p.id
      BY <3>0
    <3>2. o # h
      BY <3>1, <1>2, <1>15
    <3>3. p # h \/ x # s
      <4> SUFFICES ASSUME p = h, x = s
                   PROVE  FALSE
        OBVIOUS
      <4>1. o.id \in Nat /\ h.id \in Nat /\ h.id <= o.id
        BY <3>1, <1>3
      <4>2. id = h.id
        BY <3>1, <4>1
      <4> QED BY <4>2, <1>2, <1>15
    <3>4. o \in ToSet(streams'[x]) /\ p \in ToSet(streams'[x])
      BY <3>2, <3>3, <1>3, <1>4
    <3> QED BY <3>1, <3>4, <1>3 DEF Awaited, Of
  <2> QED BY <2>1, <2>2, <1>15 DEF Awaited
<1>16. EventsOK'
  <2>1. ASSUME NEW e \in Events, NEW id \in events'[e].covers \ done'
        PROVE  Awaited(e, id)'
    <3>1. id \in events[e].covers \ done /\ id \notin done'
      BY <1>2, <1>11
    <3> QED BY <3>1, <1>1, <1>15 DEF EventsOK
  <2> QED BY <2>1, <1>13 DEF EventsOK
<1>17. WaitsOK'
  <2>1. \A p \in Operations' : p.kind = "wait" =>
          p \in Operations /\ p.event \in Events
    BY <1>1, <1>6, <1>7 DEF StreamsOK, OpOK
  <2> QED BY <2>1, <1>1, <1>11 DEF WaitsOK
<1>18. HostOK'
  <2>1. ASSUME NEW ss, ss \subseteq Created, NEW E,
               host.covers \subseteq done \cup InFlight(ss) \cup E
        PROVE  host.covers \subseteq done' \cup InFlight(ss)' \cup E
    BY <2>1, <1>2, <1>14
  <2>2. PICK ss : ss = Created
    OBVIOUS
  <2>3. InFlight(ss)' = InFlight(Created)'
    BY <2>2, <1>3 DEF InFlight
  <2>4. CASE host.at = "push"
    <3>1. host.covers \subseteq done' \cup InFlight(Created)' \cup {host.on.id}
      <4>1. PICK E : E = {host.on.id}
        OBVIOUS
      <4>2. ss \subseteq Created /\ host.covers \subseteq done \cup InFlight(ss) \cup E
        BY <2>2, <2>4, <4>1, <1>1 DEF HostOK
      <4>3. host.covers \subseteq done' \cup InFlight(ss)' \cup E
        BY <4>2, <2>1
      <4> QED BY <4>1, <4>3, <2>3
    <3>2. \A x \in Created' : \A o \in ToSet(streams'[x]) : o.id < pushed
      BY <2>4, <1>1, <1>3, <1>4 DEF HostOK
    <3> QED BY <2>4, <3>1, <3>2, <1>1 DEF HostOK, Of
  <2>5. CASE host.at \in {"pushed", "all"}
    <3>1. host.covers \subseteq done' \cup InFlight(ss)' \cup {}
      <4>1. host.covers \subseteq done \cup InFlight(ss) \cup {}
        BY <2>2, <2>5, <1>1 DEF HostOK
      <4>2. ss \subseteq Created
        BY <2>2
      <4> QED BY <4>1, <4>2, <2>1
    <3>2. host.covers \subseteq done' \cup InFlight(Created)'
      BY <2>3, <3>1
    <3> QED BY <2>5, <3>2, <1>1 DEF HostOK
  <2>6. CASE host.at \in {"synchronize", "destroy"}
    <3>1. PICK d : d = {host.on}
      OBVIOUS
    <3>2. d \subseteq Created /\ host.covers \subseteq done \cup InFlight(d) \cup {}
      BY <2>6, <3>1, <1>1 DEF HostOK
    <3>3. host.covers \subseteq done' \cup InFlight(d)' \cup {}
      BY <3>2, <2>1
    <3>4. InFlight(d)' = InFlight({host.on})'
      BY <3>1 DEF InFlight
    <3> QED BY <2>6, <3>3, <3>4, <1>1, <1>3 DEF HostOK
  <2>7. CASE host.at = "event"
    BY <2>7, <1>1, <1>11 DEF HostOK
  <2>8. CASE host.at = "idle"
    BY <2>8, <1>1 DEF HostOK, Idle
  <2> QED BY <2>4, <2>5, <2>6, <2>7, <2>8, <1>1 DEF HostOK
<1> QED BY <1>3, <1>7, <1>11, <1>16, <1>17, <1>18 DEF WaitInv
-----------------------------------------------------------------------------
(* The layout of parameters.                                               *)

\* What holds at 0 and goes on to the next number holds up to N.
LEMMA UpTo ==
  ASSUME NEW S, NEW N \in Nat, 0 \in S,
         \A n \in Nat : n < N /\ n \in S => n + 1 \in S
  PROVE  \A n \in 0 .. N : n \in S
<1> DEFINE bad == {n \in 0 .. N : n \notin S}
<1> SUFFICES ASSUME bad # {}
             PROVE  FALSE
  OBVIOUS
<1>1. PICK n \in bad : \A m \in bad : ~(<<m, n>> \in OpToRel(<, Nat))
  <2>1. bad \subseteq Nat
    OBVIOUS
  <2> HIDE DEF bad
  <2> QED BY <2>1, WFMin, NatLessThanWellFounded
<1>2. n \in Nat /\ n <= N /\ n \notin S /\ n # 0
  OBVIOUS
<1>3. n - 1 \notin bad
  <2> SUFFICES ASSUME n - 1 \in bad
               PROVE  FALSE
    OBVIOUS
  <2>1. n - 1 \in Nat /\ n - 1 < n
    BY <1>2
  <2>2. <<n - 1, n>> \in OpToRel(<, Nat)
    BY <2>1, <1>2 DEF OpToRel
  <2> QED BY <1>1, <2>2
<1>4. n - 1 \in Nat /\ n - 1 < N /\ n - 1 \in S
  BY <1>2, <1>3
<1>5. (n - 1) + 1 \in S
  BY <1>4
<1> QED BY <1>2, <1>5

\* Rounding up goes up, and leaves 0.
LEMMA RoundUpEffect ==
  ASSUME NEW a \in Nat, NEW b \in Nat, b > 0
  PROVE  /\ RoundUp(a, b) \in Nat /\ a <= RoundUp(a, b)
         /\ RoundUp(0, b) = 0
<1>1. PICK n \in Nat : n = a + b - 1
  OBVIOUS
<1>2. PICK q \in Nat, r \in Nat : q = (n \div b) /\ r = (n % b) /\ n = b * q + r /\ r < b
  <2>1. (n \div b) \in Nat /\ (n % b) \in 0 .. b - 1 /\ n = b * (n \div b) + (n % b)
    OBVIOUS
  <2> QED BY <2>1
<1>3. b * q \in Nat /\ a <= b * q
  <2>1. PICK p \in Nat : p = b * q
    OBVIOUS
  <2> QED BY <2>1, <1>1, <1>2
<1>4. RoundUp(a, b) = b * q
  BY <1>1, <1>2 DEF RoundUp
<1>5. RoundUp(0, b) = 0
  <2>1. PICK c \in Nat : c = b - 1 /\ c < b
    OBVIOUS
  <2>2. PICK k \in Nat, s \in Nat : k = (c \div b) /\ s = (c % b) /\ c = b * k + s
    <3>1. (c \div b) \in Nat /\ (c % b) \in 0 .. b - 1 /\ c = b * (c \div b) + (c % b)
      OBVIOUS
    <3> QED BY <3>1
  <2>3. k = 0
    <3> SUFFICES ASSUME k >= 1
                 PROVE  FALSE
      OBVIOUS
    <3>1. b * k >= b * 1
      OBVIOUS
    <3>2. PICK p \in Nat : p = b * k
      OBVIOUS
    <3> QED BY <2>1, <2>2, <3>1, <3>2
  <2>4. 0 + b - 1 = c
    BY <2>1
  <2> QED BY <2>2, <2>3, <2>4 DEF RoundUp
<1> QED BY <1>3, <1>4, <1>5

\* The formals of a function, numbered from 0.
LEMMA Formals ==
  ASSUME NEW fn \in Functions
  PROVE  /\ Len(FormalsOf[fn]) \in Nat
         /\ DOMAIN ParamInfo(fn) = 0 .. Len(FormalsOf[fn]) - 1
         /\ \A i \in DOMAIN ParamInfo(fn) :
              LET size == ParamInfo(fn)[i].size
                  align == AlignOf(ParamInfo(fn)[i], size)
              IN size \in Nat /\ size > 0 /\ align \in Nat /\ align > 0
<1>1. FormalsOf[fn] \in Seq([size : Nat \ {0}, align : Nat])
  BY FormalsAssumption
<1>2. PICK n \in Nat : n = Len(FormalsOf[fn])
  BY <1>1
<1>3. DOMAIN ParamInfo(fn) = 0 .. n - 1
  BY <1>2 DEF ParamInfo
<1>4. ASSUME NEW i \in 0 .. n - 1
      PROVE  ParamInfo(fn)[i] \in [size : Nat \ {0}, align : Nat]
  <2>1. PICK F : F = FormalsOf[fn]
    OBVIOUS
  <2>2. PICK T : T = [size : Nat \ {0}, align : Nat]
    OBVIOUS
  <2>3. F \in Seq(T) /\ Len(F) = n /\ i + 1 \in 1 .. n
    BY <1>1, <1>2, <2>1, <2>2
  <2>4. F[i + 1] \in T
    BY <2>3
  <2>5. ParamInfo(fn)[i] = F[i + 1]
    BY <1>2, <2>1 DEF ParamInfo
  <2> QED BY <2>2, <2>4, <2>5
<1>5. ASSUME NEW i \in 0 .. n - 1
      PROVE  LET size == ParamInfo(fn)[i].size
                 align == AlignOf(ParamInfo(fn)[i], size)
             IN size \in Nat /\ size > 0 /\ align \in Nat /\ align > 0
  <2>1. PICK r \in [size : Nat \ {0}, align : Nat] : r = ParamInfo(fn)[i]
    BY <1>4
  <2>2. r.size \in Nat /\ r.size > 0 /\ r.align \in Nat
    BY <2>1
  <2>3. AlignOf(r, r.size) \in Nat /\ AlignOf(r, r.size) > 0
    BY <2>2 DEF AlignOf
  <2> QED BY <2>1, <2>2, <2>3
<1> QED BY <1>2, <1>3, <1>5

\* g has the first n offsets of a launch.
IsOffsets(fn, n, g) ==
  g = [i \in 0 .. n - 1 |-> IF i = 0 THEN 0
                            ELSE NextOffset(ParamInfo(fn), i, g[i - 1])]

\* There are such offsets.
LEMMA OffsetsExist ==
  ASSUME NEW fn, NEW N \in Nat
  PROVE  \E g : IsOffsets(fn, N, g)
<1> DEFINE Next_(i, x) == IF i = 0 THEN 0 ELSE NextOffset(ParamInfo(fn), i, x)
           Is(n, g) == g = [i \in 0 .. n - 1 |-> Next_(i, g[i - 1])]
           S == {n \in Nat : \E g : Is(n, g)}
<1>1. \A n, g : Is(n, g) <=> IsOffsets(fn, n, g)
  BY DEF IsOffsets
<1> HIDE DEF Next_
<1>2. 0 \in S
  <2>1. Is(0, [i \in 0 .. 0 - 1 |-> 0])
    OBVIOUS
  <2> QED BY <2>1
<1>3. ASSUME NEW n \in Nat, n \in S
      PROVE  n + 1 \in S
  <2>1. PICK g : Is(n, g)
    BY <1>3
  <2>2. PICK h : h = [i \in 0 .. n |-> IF i < n THEN g[i] ELSE Next_(n, g[n - 1])]
    OBVIOUS
  <2>3. ASSUME NEW i \in 0 .. n
        PROVE  h[i] = Next_(i, h[i - 1])
    <3>1. CASE i = 0
      <4>1. \A x, y : Next_(0, x) = Next_(0, y)
        BY DEF Next_
      <4>2. h[i] = Next_(0, g[0 - 1])
        BY <2>1, <2>2, <3>1
      <4> QED BY <3>1, <4>1, <4>2
    <3>2. CASE i # 0
      <4>1. i - 1 \in 0 .. n /\ i - 1 < n
        BY <3>2
      <4>2. h[i - 1] = g[i - 1]
        BY <4>1, <2>2
      <4>3. CASE i < n
        <5>1. i \in 0 .. n - 1 /\ h[i] = g[i]
          BY <4>3, <2>2
        <5> QED BY <5>1, <4>2, <2>1
      <4>4. CASE i = n
        BY <4>2, <4>4, <2>2
      <4> QED BY <4>3, <4>4
    <3> QED BY <3>1, <3>2
  <2>4. h = [i \in 0 .. (n + 1) - 1 |-> Next_(i, h[i - 1])]
    <3>1. 0 .. (n + 1) - 1 = 0 .. n
      OBVIOUS
    <3> QED BY <2>2, <2>3, <3>1
  <2> QED BY <2>4
<1> HIDE DEF S
<1>4. \A n \in 0 .. N : n \in S
  BY <1>2, <1>3, UpTo
<1>5. N \in S
  BY <1>4
<1> QED BY <1>1, <1>5 DEF S

\* What the launch gives the i-th argument.
LEMMA ParamConfigIs ==
  ASSUME NEW fn \in Functions, NEW N, N = Len(FormalsOf[fn])
  PROVE  \E g : /\ IsOffsets(fn, N, g)
                /\ ParamConfig(fn) =
                     [i \in 0 .. N - 1 |-> [size |-> ParamInfo(fn)[i].size,
                                            offset |-> g[i]]]
<1>1. N \in Nat /\ DOMAIN ParamInfo(fn) = 0 .. N - 1
  BY Formals
<1> DEFINE Con(v) == v = [i \in DOMAIN ParamInfo(fn) |->
                            IF i = 0 THEN 0
                            ELSE NextOffset(ParamInfo(fn), i, v[i - 1])]
           it == CHOOSE v : Con(v)
<1>2. \A v : Con(v) <=> IsOffsets(fn, N, v)
  BY <1>1 DEF IsOffsets
<1>3. \E v : Con(v)
  BY <1>1, <1>2, OffsetsExist
<1>4. Con(it)
  <2> HIDE DEF Con
  <2> QED BY <1>3
<1>5. ParamConfig(fn) = [i \in DOMAIN ParamInfo(fn) |->
                           [size |-> ParamInfo(fn)[i].size, offset |-> it[i]]]
  BY DEF ParamConfig
<1> HIDE DEF it, Con
<1> QED BY <1>1, <1>2, <1>4, <1>5
\* The list of the first n arguments of a call, the last one in front.
Argument(fn, call, i) ==
  [call |-> call, number |-> i, size |-> ParamConfig(fn)[i].size,
   offset |-> ParamConfig(fn)[i].offset]
ArgsOf(fn, call, n) == [j \in 1 .. n |-> Argument(fn, call, n - j)]

\* One argument more.
LEMMA ArgsGrow ==
  ASSUME NEW fn, NEW call, NEW n \in Nat
  PROVE  SetArg(ArgsOf(fn, call, n), call, n, ParamConfig(fn)[n])
           = ArgsOf(fn, call, n + 1)
<1>1. PICK a : a = ArgsOf(fn, call, n)
  OBVIOUS
<1>2. PICK x : x = Argument(fn, call, n)
  OBVIOUS
<1>3. PICK T : T = {Argument(fn, call, i) : i \in Nat}
  OBVIOUS
<1>4. DOMAIN a = 1 .. n /\ \A j \in 1 .. n : a[j] = Argument(fn, call, n - j)
  BY <1>1 DEF ArgsOf
<1>5. a \in [1 .. n -> T] /\ x \in T
  <2>1. \A j \in 1 .. n : n - j \in Nat
    OBVIOUS
  <2>2. \A j \in 1 .. n : a[j] \in T
    BY <1>3, <1>4, <2>1
  <2>3. a = [j \in 1 .. n |-> a[j]]
    BY <1>1, <1>4 DEF ArgsOf
  <2> QED BY <1>2, <1>3, <2>2, <2>3
<1>6. a \in Seq(T) /\ Len(a) = n
  BY <1>5
<1>7. PICK y : y = <<x>> \o a
  OBVIOUS
<1>8. /\ y \in Seq(T) /\ Len(y) = n + 1
      /\ y[1] = x /\ \A j \in 2 .. n + 1 : y[j] = a[j - 1]
  BY <1>5, <1>6, <1>7
<1>9. \A j \in 1 .. n + 1 : y[j] = Argument(fn, call, (n + 1) - j)
  <2> SUFFICES ASSUME NEW j \in 1 .. n + 1
               PROVE  y[j] = Argument(fn, call, (n + 1) - j)
    OBVIOUS
  <2>1. CASE j = 1
    <3>1. (n + 1) - 1 = n
      OBVIOUS
    <3> QED BY <2>1, <3>1, <1>2, <1>8
  <2>2. CASE j # 1
    <3>1. j \in 2 .. n + 1 /\ j - 1 \in 1 .. n /\ n - (j - 1) = (n + 1) - j
      BY <2>2
    <3> QED BY <3>1, <1>4, <1>8
  <2> QED BY <2>1, <2>2
<1>10. y = ArgsOf(fn, call, n + 1)
  <2>1. y = [j \in 1 .. n + 1 |-> y[j]]
    BY <1>8
  <2> QED BY <2>1, <1>9 DEF ArgsOf
<1>11. SetArg(a, call, n, ParamConfig(fn)[n]) = y
  BY <1>2, <1>7 DEF SetArg, Argument
<1> QED BY <1>1, <1>10, <1>11

\* The configuration of a call with its first n arguments.
Filled(frame, n) ==
  [call |-> frame.call, grid |-> frame.site.grid, stream |-> frame.site.stream,
   args |-> ArgsOf(frame.site.fn, frame.call, n)]

WithArgs(configs, frame, n) ==
  [i \in 1 .. Len(configs) |-> IF i = Len(configs) THEN Filled(frame, n)
                               ELSE configs[i]]

\* An argument goes to the configuration on top of the stack.
LEMMA OneArgument ==
  ASSUME NEW configs, Len(configs) \in Nat, Len(configs) > 0, NEW frame,
         NEW n \in Nat
  PROVE  SetupArgument(WithArgs(configs, frame, n), frame.call, n,
                       ParamConfig(frame.site.fn)[n])
           = WithArgs(configs, frame, n + 1)
<1>1. PICK l \in Nat : l = Len(configs) /\ l > 0 /\ l \in 1 .. l
  OBVIOUS
<1>2. PICK w : w = WithArgs(configs, frame, n)
  OBVIOUS
<1>3. DOMAIN w = 1 .. l /\ \A i \in 1 .. l : w[i] = IF i = l THEN Filled(frame, n)
                                                     ELSE configs[i]
  BY <1>1, <1>2 DEF WithArgs
<1>4. Len(w) = l
  BY <1>1, <1>2 DEF WithArgs
<1>5. PICK p : p = ParamConfig(frame.site.fn)[n]
  OBVIOUS
<1>6. PICK a : a = SetArg(ArgsOf(frame.site.fn, frame.call, n), frame.call, n, p)
  OBVIOUS
<1>7. a = ArgsOf(frame.site.fn, frame.call, n + 1)
  BY <1>5, <1>6, ArgsGrow
<1>8. w[l].args = ArgsOf(frame.site.fn, frame.call, n)
  BY <1>1, <1>3 DEF Filled
<1>9. SetupArgument(w, frame.call, n, p) = [w EXCEPT ![l] = [w[l] EXCEPT !.args = a]]
  BY <1>4, <1>6, <1>8 DEF SetupArgument
<1>10. [w[l] EXCEPT !.args = a] = Filled(frame, n + 1)
  BY <1>1, <1>3, <1>7 DEF Filled
<1>11. [w EXCEPT ![l] = Filled(frame, n + 1)] = WithArgs(configs, frame, n + 1)
  BY <1>1, <1>2 DEF WithArgs
<1> QED BY <1>2, <1>5, <1>9, <1>10, <1>11

\* What a launch finds on the stack has the arguments of its call.
LEMMA SetupEffect ==
  ASSUME NEW configs, Len(configs) \in Nat, Len(configs) > 0, NEW frame,
         frame.site.fn \in Functions, configs = WithArgs(configs, frame, 0)
  PROVE  SetupArguments(configs, frame)
           = WithArgs(configs, frame, Len(FormalsOf[frame.site.fn]))
<1>1. PICK N \in Nat : N = Len(FormalsOf[frame.site.fn])
  BY Formals
<1> DEFINE Step(n, x) == SetupArgument(x, frame.call, n - 1,
                                       ParamConfig(frame.site.fn)[n - 1])
           Con(v) == v = [n \in 0 .. Len(FormalsOf[frame.site.fn]) |->
                            IF n = 0 THEN configs ELSE Step(n, v[n - 1])]
           it == CHOOSE v : Con(v)
           g == [n \in 0 .. N |-> WithArgs(configs, frame, n)]
<1>2. ASSUME NEW n \in Nat, n > 0
      PROVE  Step(n, WithArgs(configs, frame, n - 1)) = WithArgs(configs, frame, n)
  <2>1. PICK m \in Nat : m = n - 1 /\ m + 1 = n
    BY <1>2
  <2>2. SetupArgument(WithArgs(configs, frame, m), frame.call, m,
                      ParamConfig(frame.site.fn)[m])
          = WithArgs(configs, frame, m + 1)
    BY OneArgument
  <2> QED BY <2>1, <2>2
<1>3. SetupArguments(configs, frame) = it[N]
  BY <1>1 DEF SetupArguments
<1> HIDE DEF Step
<1>4. Con(g)
  <2>1. ASSUME NEW n \in 0 .. N
        PROVE  g[n] = IF n = 0 THEN configs ELSE Step(n, g[n - 1])
    <3>1. CASE n = 0
      BY <3>1
    <3>2. CASE n # 0
      <4>1. n \in Nat /\ n > 0 /\ n - 1 \in 0 .. N
        BY <3>2
      <4>2. g[n - 1] = WithArgs(configs, frame, n - 1)
        BY <4>1
      <4>3. g[n] = WithArgs(configs, frame, n)
        OBVIOUS
      <4> HIDE DEF g
      <4> QED BY <3>2, <4>1, <4>2, <4>3, <1>2
    <3> QED BY <3>1, <3>2
  <2>2. g = [n \in 0 .. N |-> g[n]]
    OBVIOUS
  <2> HIDE DEF g
  <2> QED BY <1>1, <2>1, <2>2
<1>5. Con(it)
  <2> HIDE DEF Con, g
  <2> QED BY <1>4
<1> HIDE DEF it
<1> DEFINE S == {n \in 0 .. N : it[n] = WithArgs(configs, frame, n)}
<1>6. 0 \in S
  BY <1>1, <1>5
<1>7. ASSUME NEW n \in Nat, n < N, n \in S
      PROVE  n + 1 \in S
  <2>1. PICK k \in Nat : k = n + 1 /\ k - 1 = n /\ k > 0 /\ k \in 0 .. N
    BY <1>7
  <2>2. it[k] = Step(k, it[k - 1])
    BY <1>1, <1>5, <2>1
  <2>3. it[k] = WithArgs(configs, frame, k)
    BY <2>1, <2>2, <1>2, <1>7
  <2> QED BY <2>1, <2>3
<1>8. \A n \in 0 .. N : n \in S
  <2> HIDE DEF S
  <2> QED BY <1>6, <1>7, UpTo
<1>9. it[N] = WithArgs(configs, frame, N)
  BY <1>8
<1> QED BY <1>1, <1>3, <1>9
\* Parameter memory after the first n parameters: each starts at its offset
\* and has its bytes, and all of them end before the next one may start.
LaidOut(fn, call, n, off, laid) ==
  /\ laid.next \in Nat
  /\ laid.next = IF n = 0 THEN 0 ELSE off[n - 1] + ParamInfo(fn)[n - 1].size
  /\ DOMAIN laid.address = 0 .. n - 1
  /\ \A i \in 0 .. n - 1 :
       /\ laid.address[i] = off[i] /\ off[i] \in Nat
       /\ off[i] + ParamInfo(fn)[i].size <= laid.next
       /\ \A b \in 0 .. ParamInfo(fn)[i].size - 1 :
            /\ off[i] + b \in DOMAIN laid.memory
            /\ laid.memory[off[i] + b] = <<call, i, b>>

\* Finalize puts the next parameter where the launch said it is, behind the
\* bytes of the others.
LEMMA OneParam ==
  ASSUME NEW fn \in Functions, NEW call, NEW N, N = Len(FormalsOf[fn]),
         NEW n \in Nat, n < N, NEW off, IsOffsets(fn, N, off),
         NEW laid, LaidOut(fn, call, n, off, laid),
         NEW values, values[n].call = call, values[n].number = n,
         values[n].size = ParamInfo(fn)[n].size
  PROVE  LaidOut(fn, call, n + 1, off, AddParam(ParamInfo(fn), values, n, laid))
<1>1. PICK size \in Nat, align \in Nat :
        /\ size = ParamInfo(fn)[n].size /\ size > 0
        /\ align = AlignOf(ParamInfo(fn)[n], size) /\ align > 0
  <2>1. N \in Nat /\ n \in DOMAIN ParamInfo(fn)
    BY Formals
  <2> QED BY <2>1, Formals
<1>2. PICK start : start = RoundUp(laid.next, align)
  OBVIOUS
<1>3. laid.next \in Nat
  BY DEF LaidOut
<1>4. /\ start \in Nat /\ laid.next <= start
      /\ laid.next = 0 => start = 0
  BY <1>1, <1>2, <1>3, RoundUpEffect
<1>5. off[n] = start
  <2>1. N \in Nat /\ n \in 0 .. N - 1
    BY Formals
  <2>2. off[n] = IF n = 0 THEN 0 ELSE NextOffset(ParamInfo(fn), n, off[n - 1])
    BY <2>1 DEF IsOffsets
  <2>3. CASE n = 0
    BY <2>2, <2>3, <1>4 DEF LaidOut
  <2>4. CASE n # 0
    <3>1. laid.next = off[n - 1] + ParamInfo(fn)[n - 1].size
      BY <2>4 DEF LaidOut
    <3> QED BY <2>2, <2>4, <3>1, <1>1, <1>2 DEF NextOffset
  <2> QED BY <2>3, <2>4
<1>6. PICK words : words = WordsOf(values[n], start, size)
  OBVIOUS
<1>7. PICK new : new = AddParam(ParamInfo(fn), values, n, laid)
  OBVIOUS
<1>8. /\ new.next = start + size
      /\ new.memory = Write(words, laid.memory)
      /\ new.address = [j \in 0 .. n |-> IF j = n THEN start ELSE laid.address[j]]
  <2>1. (IF values[n].size < ParamInfo(fn)[n].size THEN values[n].size
         ELSE ParamInfo(fn)[n].size) = size
    BY <1>1
  <2> QED BY <2>1, <1>1, <1>2, <1>6, <1>7 DEF AddParam
<1>9. PICK w \in Nat : w = RoundUp(size, WordSize) /\ size <= w
  <2>1. WordSize \in Nat /\ WordSize > 0
    BY DEF WordSize
  <2> QED BY <2>1, <1>1, RoundUpEffect
<1>10. words = [a \in start .. start + w - 1 |-> <<call, n, a - start>>]
  BY <1>6, <1>9 DEF WordsOf
<1>11. /\ DOMAIN new.memory = (start .. start + w - 1) \cup DOMAIN laid.memory
       /\ \A a \in start .. start + w - 1 : new.memory[a] = <<call, n, a - start>>
       /\ \A a \in DOMAIN laid.memory : a \notin start .. start + w - 1 =>
            new.memory[a] = laid.memory[a]
  <2>1. PICK D : D = start .. start + w - 1
    OBVIOUS
  <2>2. DOMAIN words = D /\ \A a \in D : words[a] = <<call, n, a - start>>
    BY <1>10, <2>1
  <2>3. new.memory = [a \in D \cup DOMAIN laid.memory |->
                        IF a \in D THEN words[a] ELSE laid.memory[a]]
    BY <1>8, <2>2, Zenon DEF Write
  <2>4. /\ DOMAIN new.memory = D \cup DOMAIN laid.memory
        /\ \A a \in D : new.memory[a] = <<call, n, a - start>>
        /\ \A a \in DOMAIN laid.memory : a \notin D => new.memory[a] = laid.memory[a]
    BY <2>2, <2>3
  <2> QED BY <2>1, <2>4
<1>12. /\ DOMAIN new.address = 0 .. n
       /\ new.address[n] = start
       /\ \A i \in 0 .. n - 1 : new.address[i] = laid.address[i]
  <2>1. n \in 0 .. n /\ \A i \in 0 .. n - 1 : i \in 0 .. n /\ i # n
    OBVIOUS
  <2> QED BY <2>1, <1>8
<1>13. ASSUME NEW i \in 0 .. n - 1, NEW s, s = ParamInfo(fn)[i].size
       PROVE  /\ new.address[i] = off[i] /\ off[i] \in Nat
              /\ off[i] + s <= new.next
              /\ \A b \in 0 .. s - 1 :
                   /\ off[i] + b \in DOMAIN new.memory
                   /\ new.memory[off[i] + b] = <<call, i, b>>
  <2>1. /\ laid.address[i] = off[i] /\ off[i] \in Nat
        /\ off[i] + s <= laid.next
        /\ \A b \in 0 .. s - 1 :
             /\ off[i] + b \in DOMAIN laid.memory
             /\ laid.memory[off[i] + b] = <<call, i, b>>
    BY <1>13 DEF LaidOut
  <2>2. s \in Nat
    <3>1. N \in Nat /\ i \in DOMAIN ParamInfo(fn)
      BY Formals
    <3> QED BY <3>1, Formals, <1>13
  <2>3. off[i] + s <= new.next
    <3>1. /\ size \in Nat /\ new.next = start + size
          /\ laid.next \in Nat /\ start \in Nat /\ laid.next <= start
      BY <1>1, <1>3, <1>4, <1>8
    <3> QED BY <2>1, <2>2, <3>1
  <2>4. ASSUME NEW b \in 0 .. s - 1
        PROVE  /\ off[i] + b \in DOMAIN new.memory
               /\ new.memory[off[i] + b] = <<call, i, b>>
    <3>1. PICK a \in Nat : a = off[i] + b /\ a < start
      BY <2>1, <2>2, <1>3, <1>4
    <3>2. a \notin start .. start + w - 1
      BY <3>1, <1>4
    <3>3. a \in DOMAIN laid.memory /\ laid.memory[a] = <<call, i, b>>
      BY <3>1, <2>1
    <3> QED BY <3>1, <3>2, <3>3, <1>11
  <2> QED BY <2>1, <2>3, <2>4, <1>12
<1>14. ASSUME NEW b \in 0 .. size - 1
       PROVE  /\ start + b \in DOMAIN new.memory
              /\ new.memory[start + b] = <<call, n, b>>
  <2>1. PICK a \in Nat : a = start + b /\ a \in start .. start + w - 1 /\ a - start = b
    BY <1>1, <1>4, <1>9
  <2> QED BY <2>1, <1>11
<1>15. \A i \in 0 .. (n + 1) - 1 :
         /\ new.address[i] = off[i] /\ off[i] \in Nat
         /\ off[i] + ParamInfo(fn)[i].size <= new.next
         /\ \A b \in 0 .. ParamInfo(fn)[i].size - 1 :
              /\ off[i] + b \in DOMAIN new.memory
              /\ new.memory[off[i] + b] = <<call, i, b>>
  <2> SUFFICES ASSUME NEW i \in 0 .. (n + 1) - 1, NEW s, s = ParamInfo(fn)[i].size
               PROVE  /\ new.address[i] = off[i] /\ off[i] \in Nat
                      /\ off[i] + s <= new.next
                      /\ \A b \in 0 .. s - 1 :
                           /\ off[i] + b \in DOMAIN new.memory
                           /\ new.memory[off[i] + b] = <<call, i, b>>
    OBVIOUS
  <2>1. CASE i = n
    <3>1. s = size
      BY <2>1, <1>1
    <3>2. off[n] + size <= new.next /\ new.address[n] = off[n] /\ off[n] \in Nat
      BY <1>1, <1>4, <1>5, <1>8, <1>12
    <3> QED BY <2>1, <3>1, <3>2, <1>5, <1>14
  <2>2. CASE i # n
    <3>1. i \in 0 .. n - 1
      BY <2>2
    <3> QED BY <3>1, <1>13
  <2> QED BY <2>1, <2>2
<1>16. /\ new.next \in Nat
       /\ new.next = off[(n + 1) - 1] + ParamInfo(fn)[(n + 1) - 1].size
       /\ n + 1 # 0 /\ DOMAIN new.address = 0 .. (n + 1) - 1
  <2>1. (n + 1) - 1 = n
    OBVIOUS
  <2> QED BY <2>1, <1>1, <1>4, <1>5, <1>8, <1>12
<1>17. LaidOut(fn, call, n + 1, off, new)
  BY <1>15, <1>16 DEF LaidOut
<1> QED BY <1>7, <1>17

\* The parameter memory of a grid has the arguments of its call.
LEMMA InitGridEffect ==
  ASSUME NEW fn \in Functions, NEW call, NEW N, N = Len(FormalsOf[fn])
  PROVE  HasArgumentsOf(InitGrid(fn, ArgsOf(fn, call, N)), fn, call)
<1>1. N \in Nat /\ DOMAIN ParamInfo(fn) = 0 .. N - 1
  BY Formals
<1>2. PICK off : /\ IsOffsets(fn, N, off)
                 /\ ParamConfig(fn) =
                      [i \in 0 .. N - 1 |-> [size |-> ParamInfo(fn)[i].size,
                                             offset |-> off[i]]]
  BY ParamConfigIs
<1>3. PICK args : args = ArgsOf(fn, call, N)
  OBVIOUS
<1>4. PICK values : values = AddParamData(args)
  OBVIOUS
<1>5. Len(args) = N /\ \A j \in 1 .. N : args[j] = Argument(fn, call, N - j)
  BY <1>1, <1>3 DEF ArgsOf
<1>6. ASSUME NEW i \in 0 .. N - 1
      PROVE  /\ values[i].call = call /\ values[i].number = i
             /\ values[i].size = ParamInfo(fn)[i].size
  <2>1. N - i \in 1 .. N /\ N - (N - i) = i
    BY <1>1
  <2>2. values[i] = args[N - i]
    BY <1>4, <1>5 DEF AddParamData
  <2>3. values[i] = Argument(fn, call, i)
    BY <2>1, <2>2, <1>5
  <2> QED BY <2>3, <1>2 DEF Argument
<1> DEFINE Step(n, x) == AddParam(ParamInfo(fn), values, n - 1, x)
           None == [next |-> 0, memory |-> << >>, address |-> << >>]
           To(m, v) == v = [n \in 0 .. m |-> IF n = 0 THEN None ELSE Step(n, v[n - 1])]
           Con(v) == v = [n \in 0 .. Len(FormalsOf[fn]) |->
                            IF n = 0 THEN None ELSE Step(n, v[n - 1])]
           it == CHOOSE v : Con(v)
           E == {m \in Nat : \E v : To(m, v)}
           S == {n \in 0 .. N : LaidOut(fn, call, n, off, it[n])}
<1>7. Finalize(fn, values) = it[N]
  BY DEF Finalize
<1>8. \A n \in Nat : \A x : Step(n + 1, x) = AddParam(ParamInfo(fn), values, n, x)
  <2>1. \A n \in Nat : (n + 1) - 1 = n
    OBVIOUS
  <2> QED BY <2>1
<1>9. None.next = 0 /\ DOMAIN None.address = {} /\ DOMAIN None.memory = {}
  OBVIOUS
<1> HIDE DEF Step, None
<1>10. \E v : Con(v)
  <2>1. 0 \in E
    <3>1. PICK v : v = [n \in 0 .. 0 |-> None]
      OBVIOUS
    <3>2. To(0, v)
      BY <3>1
    <3> QED BY <3>2
  <2>2. ASSUME NEW m \in Nat, m \in E
        PROVE  m + 1 \in E
    <3>1. PICK v : To(m, v)
      BY <2>2
    <3>2. PICK u : u = [n \in 0 .. m + 1 |-> IF n <= m THEN v[n] ELSE Step(n, v[n - 1])]
      OBVIOUS
    <3>3. ASSUME NEW n \in 0 .. m + 1
          PROVE  u[n] = IF n = 0 THEN None ELSE Step(n, u[n - 1])
      <4>1. CASE n = 0
        <5>1. u[n] = v[n] /\ v[n] = None
          BY <4>1, <3>1, <3>2
        <5> QED BY <4>1, <5>1
      <4>2. CASE n # 0
        <5>1. n - 1 \in 0 .. m + 1 /\ n - 1 <= m
          BY <4>2
        <5>2. u[n - 1] = v[n - 1]
          BY <3>2, <5>1
        <5>3. CASE n <= m
          <6>1. n \in 0 .. m /\ u[n] = v[n]
            BY <5>3, <3>2
          <6>2. v[n] = Step(n, v[n - 1])
            BY <6>1, <4>2, <3>1
          <6> QED BY <4>2, <5>2, <6>1, <6>2
        <5>4. CASE ~(n <= m)
          BY <5>2, <5>4, <4>2, <3>2
        <5> QED BY <5>3, <5>4
      <4> QED BY <4>1, <4>2
    <3>4. To(m + 1, u)
      BY <3>2, <3>3
    <3> HIDE DEF To
    <3> QED BY <3>4
  <2>3. N \in E
    <3> HIDE DEF E
    <3>1. \A m \in 0 .. N : m \in E
      BY <2>1, <2>2, <1>1, UpTo
    <3> QED BY <3>1, <1>1
  <2> QED BY <2>3
<1>11. Con(it)
  <2> HIDE DEF Con
  <2> QED BY <1>10
<1> HIDE DEF it
<1>12. it[0] = None /\ \A n \in Nat : n < N => it[n + 1] = Step(n + 1, it[n])
  <2>1. \A n \in Nat : n < N => n + 1 \in 0 .. N /\ n + 1 # 0 /\ (n + 1) - 1 = n
    BY <1>1
  <2> QED BY <2>1, <1>1, <1>11
<1>13. 0 \in S
  <2>1. 0 .. 0 - 1 = {}
    OBVIOUS
  <2>2. LaidOut(fn, call, 0, off, None)
    BY <2>1, <1>9 DEF LaidOut
  <2> QED BY <2>2, <1>1, <1>12
<1>14. ASSUME NEW n \in Nat, n < N, n \in S
       PROVE  n + 1 \in S
  <2>1. LaidOut(fn, call, n, off, it[n])
    BY <1>14
  <2>2. PICK laid : laid = it[n]
    OBVIOUS
  <2>3. n \in 0 .. N - 1
    BY <1>1, <1>14
  <2>4. LaidOut(fn, call, n + 1, off, AddParam(ParamInfo(fn), values, n, laid))
    BY <2>1, <2>2, <2>3, <1>2, <1>6, <1>14, OneParam
  <2>5. it[n + 1] = AddParam(ParamInfo(fn), values, n, laid)
    BY <2>2, <1>8, <1>12, <1>14
  <2>6. n + 1 \in 0 .. N
    BY <1>1, <1>14
  <2> QED BY <2>4, <2>5, <2>6
<1>15. LaidOut(fn, call, N, off, it[N])
  <2> HIDE DEF S
  <2>1. \A n \in 0 .. N : n \in S
    BY <1>1, <1>13, <1>14, UpTo
  <2>2. N \in S
    BY <2>1, <1>1
  <2> QED BY <2>2 DEF S
<1>16. PICK params : params = it[N]
  OBVIOUS
<1>17. ASSUME NEW i \in 0 .. N - 1
       PROVE  /\ params.address[i] = ParamConfig(fn)[i].offset
              /\ \A b \in 0 .. ParamInfo(fn)[i].size - 1 :
                   params.memory[params.address[i] + b] = <<call, i, b>>
  <2>1. ParamConfig(fn)[i].offset = off[i]
    BY <1>2
  <2>2. LaidOut(fn, call, N, off, params)
    BY <1>15, <1>16
  <2>3. /\ params.address[i] = off[i]
        /\ \A b \in 0 .. ParamInfo(fn)[i].size - 1 :
             params.memory[off[i] + b] = <<call, i, b>>
    BY <2>2 DEF LaidOut
  <2> QED BY <2>1, <2>3
<1>18. HasArgumentsOf(params, fn, call)
  BY <1>1, <1>17 DEF HasArgumentsOf
<1>19. InitGrid(fn, args) = params
  BY <1>4, <1>7, <1>16 DEF InitGrid
<1> QED BY <1>3, <1>18, <1>19
-----------------------------------------------------------------------------
(* Steps that make and complete no operation.                              *)

\* Calls that change the runtime only, and waits that begin and end.
LEMMA QuietKeeps ==
  ASSUME WaitInv, streams' = streams, busy' = busy, pushed' = pushed,
         done' = done, lib'.streams = lib.streams, EventTypes',
         host' = host \/ (host.at # "push" /\ host'.at # "push"),
         \A e \in Events : /\ events'[e].issued = events[e].issued
                           /\ events'[e].updates = events[e].updates
                           /\ events'[e].covers = events[e].covers
  PROVE  /\ StreamsOK' /\ EventsOK' /\ WaitsOK'
         /\ Created' = Created
         /\ \A ss : InFlight(ss)' = InFlight(ss)
         /\ Operations' \cup Pushing' = Operations \cup Pushing
         /\ \A x \in Created : streams[x] # << >> => streams'[x] # Tail(streams[x])
         /\ host' = host => HostOK'
<1>1. EventTypes /\ StreamsOK /\ EventsOK /\ WaitsOK /\ HostOK
  BY DEF WaitInv
<1>2. EventsOK' /\ WaitsOK'
  BY <1>1, QuietEvents
<1>3. Created' = Created /\ Operations' = Operations
  BY DEF Created, Operations
<1>4. StreamsOK'
  BY <1>1, <1>3 DEF StreamsOK, Of
<1>5. \A ss : InFlight(ss)' = InFlight(ss)
  BY DEF InFlight
<1>6. Pushing' = Pushing
  BY DEF Pushing
<1>7. \A x \in Created : streams[x] # << >> => streams'[x] # Tail(streams[x])
  BY <1>1, TailQueue DEF StreamsOK
<1>8. host' = host => HostOK'
  BY <1>1, <1>3, <1>5 DEF HostOK, Of
<1> QED BY <1>2, <1>3, <1>4, <1>5, <1>6, <1>7, <1>8

\* A stream comes or goes without operations.
LEMMA EmptyStream ==
  ASSUME WaitInv, NEW ss, NEW gone,
         Created' = ss, Default \in ss, ss \subseteq 0 .. lib'.streams,
         streams' = [x \in ss |-> IF x \in Created THEN streams[x] ELSE << >>],
         \A x \in Created : x \in ss \/ (x = gone /\ streams[x] = << >>),
         busy' = busy, pushed' = pushed, done' = done, events' = events,
         host.at # "push", host'.at # "push"
  PROVE  /\ StreamsOK' /\ EventsOK' /\ WaitsOK' /\ EventTypes'
         /\ Operations' \cup Pushing' = Operations \cup Pushing
         /\ \A x \in Created : x \in ss /\ streams[x] # << >> =>
              streams'[x] # Tail(streams[x])
<1>1. EventTypes /\ StreamsOK /\ EventsOK /\ WaitsOK
  BY DEF WaitInv
<1>2. \A x \in ss : /\ x \in Created => streams'[x] = streams[x]
                    /\ x \notin Created => streams'[x] = << >>
  OBVIOUS
<1>3. ASSUME NEW x \in ss
      PROVE  /\ IsQueue(streams'[x])
             /\ x \in Created => ToSet(streams'[x]) = Of(x)
             /\ x \notin Created => ToSet(streams'[x]) = {}
  BY <1>1, <1>2, NoOperations DEF StreamsOK, Of
<1>4. \A x \in Created : x \notin ss => Of(x) = {}
  BY NoOperations DEF Of
<1>5. Operations' = Operations
  <2>1. ASSUME NEW o \in Operations
        PROVE  o \in Operations'
    <3>1. PICK x \in Created : o \in Of(x)
      BY DEF Operations, Of
    <3>2. x \in ss /\ o \in ToSet(streams'[x])
      BY <3>1, <1>3, <1>4
    <3> QED BY <3>2 DEF Operations
  <2>2. ASSUME NEW o \in Operations'
        PROVE  o \in Operations
    <3>1. PICK x \in ss : o \in ToSet(streams'[x])
      BY DEF Operations
    <3>2. x \in Created /\ o \in Of(x)
      BY <3>1, <1>3
    <3> QED BY <3>2 DEF Operations, Of
  <2> QED BY <2>1, <2>2
<1>6. StreamsOK'
  <2>1. \A x \in ss : \A o \in ToSet(streams'[x]) : x \in Created /\ o \in Of(x)
    BY <1>3
  <2>2. \A x \in ss : \A o \in ToSet(streams'[x]) : OpOK(o) /\ o.id <= pushed'
    BY <2>1, <1>1 DEF StreamsOK
  <2>3. \A x, y \in ss : \A o \in ToSet(streams'[x]), p \in ToSet(streams'[y]) :
          x # y /\ o.kind = "event" /\ p.kind = "event" => o.id # p.id
    BY <2>1, <1>1 DEF StreamsOK
  <2>4. \A x \in busy' : x \in ss /\ streams'[x] # << >>
                         /\ Head(streams'[x]).kind = "kernel"
    BY <1>1, <1>2 DEF StreamsOK
  <2>5. streams' = [x \in ss |-> streams'[x]] /\ pushed' \in Nat
    BY <1>1 DEF StreamsOK
  <2> QED BY <2>2, <2>3, <2>4, <2>5, <1>3, StreamsAfter
<1>7. Pushing = {} /\ Pushing' = {}
  BY DEF Pushing
<1>8. EventTypes'
  BY <1>1 DEF EventTypes
<1>9. ASSUME NEW e \in Events
      PROVE  CountsRecords(e)'
  <2>1. Records(e)' = Records(e)
    BY <1>5, <1>7 DEF Records
  <2>2. CountsRecords(e)
    BY <1>1 DEF EventsOK
  <2> QED BY <2>1, <2>2, <1>1, <1>8, CountsChange
<1>10. ASSUME NEW e \in Events, NEW id, Awaited(e, id)
       PROVE  Awaited(e, id)'
  <2>1. PICK x \in Created : \E o, p \in Of(x) :
          /\ o.id = id
          /\ p.kind = "event" /\ p.event = e /\ id <= p.id
    BY <1>10 DEF Awaited
  <2>2. x \in ss /\ ToSet(streams'[x]) = Of(x)
    BY <2>1, <1>3, <1>4
  <2> QED BY <2>1, <2>2 DEF Awaited, Of
<1>11. EventsOK'
  BY <1>1, <1>9, <1>10 DEF EventsOK
<1>12. WaitsOK'
  BY <1>1, <1>5 DEF WaitsOK
<1>13. \A x \in Created : x \in ss /\ streams[x] # << >> =>
         streams'[x] # Tail(streams[x])
  BY <1>1, <1>2, TailQueue DEF StreamsOK
<1> QED BY <1>5, <1>6, <1>7, <1>8, <1>11, <1>12, <1>13

-----------------------------------------------------------------------------
(* The launch stack.                                                       *)

HInv == WaitInv /\ LoadInv /\ StackInv

\* Nothing is launched and no call begins.
LEMMA StackKeeps ==
  ASSUME StackInv, app' = app, stack' = stack, calls' = calls,
         Launching' <=> Launching,
         \A p \in Operations' \cup Pushing' :
           p \in Operations \cup Pushing \/ p.kind # "kernel",
         \A i \in DOMAIN app :
           /\ app[i].site.stream \in Created'
           /\ host'.at \in {"synchronize", "destroy"} =>
                app[i].site.stream # host'.on
  PROVE  StackInv'
<1>1. \A o \in Operations' \cup Pushing' : o.kind = "kernel" => RunsOwn(o)
  BY DEF StackInv
<1> QED BY <1>1 DEF StackInv, Opened, RunsOwn

\* Opened calls as sequences.
LEMMA OpenedCalls ==
  ASSUME NEW frames \in Seq(Frames)
  PROVE  /\ Len(Opened(frames)) = Len(frames)
         /\ DOMAIN Opened(frames) = 1 .. Len(frames)
         /\ frames = << >> => Opened(frames) = << >>
         /\ \A frame \in Frames :
              Opened(Append(frames, frame)) = Append(Opened(frames), ConfigOf(frame))
         /\ frames # << >> =>
              /\ Last(frames) \in Frames /\ Front(frames) \in Seq(Frames)
              /\ Len(Front(frames)) = Len(frames) - 1
              /\ \A i \in 1 .. Len(frames) - 1 : Front(frames)[i] = frames[i]
<1>1. PICK n \in Nat : n = Len(frames) /\ DOMAIN frames = 1 .. n
  OBVIOUS
<1>2. PICK c : c = Opened(frames)
  OBVIOUS
<1>3. c = [i \in 1 .. n |-> ConfigOf(frames[i])]
  BY <1>1, <1>2 DEF Opened
<1>4. DOMAIN c = 1 .. n /\ Len(c) = n
  BY <1>3
<1>5. PICK T : T = {ConfigOf(frame) : frame \in Frames}
  OBVIOUS
<1>6. c \in Seq(T)
  <2>1. \A i \in 1 .. n : c[i] \in T
    BY <1>1, <1>3, <1>5
  <2>2. c \in [1 .. n -> T]
    BY <2>1, <1>3
  <2> QED BY <2>2
<1>7. frames = << >> => c = << >>
  BY <1>1, <1>4, <1>6
<1>8. ASSUME NEW frame \in Frames
      PROVE  Opened(Append(frames, frame)) = Append(c, ConfigOf(frame))
  <2>1. PICK g : g = Append(frames, frame)
    OBVIOUS
  <2>2. /\ DOMAIN g = 1 .. n + 1 /\ g[n + 1] = frame
        /\ \A i \in 1 .. n : g[i] = frames[i]
    BY <2>1, <1>1
  <2>3. PICK d : d = Append(c, ConfigOf(frame))
    OBVIOUS
  <2>4. ConfigOf(frame) \in T
    BY <1>5
  <2>5. /\ d \in Seq(T) /\ DOMAIN d = 1 .. n + 1 /\ d[n + 1] = ConfigOf(frame)
        /\ \A i \in 1 .. n : d[i] = c[i]
    BY <2>3, <2>4, <1>4, <1>6
  <2>6. \A i \in 1 .. n + 1 : d[i] = ConfigOf(g[i])
    <3> SUFFICES ASSUME NEW i \in 1 .. n + 1
                 PROVE  d[i] = ConfigOf(g[i])
      OBVIOUS
    <3>1. CASE i = n + 1
      BY <3>1, <2>2, <2>5
    <3>2. CASE i # n + 1
      <4>1. i \in 1 .. n
        BY <3>2
      <4> QED BY <4>1, <2>2, <2>5, <1>3
    <3> QED BY <3>1, <3>2
  <2>7. d = [i \in 1 .. n + 1 |-> d[i]]
    BY <2>5
  <2>8. Opened(g) = d
    BY <2>2, <2>6, <2>7 DEF Opened
  <2> QED BY <2>1, <2>3, <2>8
<1>9. ASSUME frames # << >>
      PROVE  /\ Last(frames) \in Frames /\ Front(frames) \in Seq(Frames)
             /\ Len(Front(frames)) = n - 1
             /\ \A i \in 1 .. n - 1 : Front(frames)[i] = frames[i]
  <2>1. n > 0 /\ n \in 1 .. n
    BY <1>1, <1>9
  <2> QED BY <2>1, <1>1 DEF Last, Front
<1> QED BY <1>1, <1>2, <1>4, <1>7, <1>8, <1>9
\* What a launch does with the configuration on top of the stack: it is gone,
\* or the kernel that is pushed has it, and its own arguments.
LEMMA LaunchEffect ==
  ASSUME HInv, NEW frames \in Seq(Frames), frames # << >>,
         NEW frame, frame = Last(frames),
         Launch(SetupArguments(Opened(frames), frame), frame)
  PROVE  \/ /\ stack' = Opened(Front(frames))
            /\ host' = host /\ UNCHANGED deviceVars
            /\ \/ lib' = lib /\ grids' = grids
               \/ lib' = Analyse(lib, frame.site.fn) /\ grids' = grids + 1
         \/ \E o : /\ o.kind = "kernel" /\ OpOK(o) /\ o.id = pushed + 1
                   /\ RunsOwn(o) /\ Push(frame.site.stream, o)
                   /\ busy' = busy /\ events' = events /\ done' = done
                   /\ lib' = Analyse(lib, frame.site.fn) /\ grids' = grids + 1
                   /\ IF frame.site.stream = Default
                      THEN stack' # << >> /\ Front(stack') = Opened(Front(frames))
                      ELSE stack' = Opened(Front(frames))
<1>1. PICK n \in Nat : n = Len(frames) /\ DOMAIN frames = 1 .. n /\ n > 0 /\ n \in 1 .. n
  OBVIOUS
<1>2. PICK configs : configs = Opened(frames)
  OBVIOUS
<1>3. /\ Len(configs) = n /\ DOMAIN configs = 1 .. n
      /\ frame \in Frames /\ Front(frames) \in Seq(Frames)
      /\ Len(Front(frames)) = n - 1
      /\ \A i \in 1 .. n - 1 : Front(frames)[i] = frames[i]
  BY <1>1, <1>2, OpenedCalls
<1>4. frame.site \in Sites /\ frame.site.fn \in Functions
  BY <1>3, HostAssumption DEF Frames
<1>5. PICK N : N = Len(FormalsOf[frame.site.fn])
  OBVIOUS
<1>6. configs = [i \in 1 .. n |-> ConfigOf(frames[i])]
  BY <1>1, <1>2 DEF Opened
<1>7. configs = WithArgs(configs, frame, 0)
  <2>1. frames[n] = frame
    BY <1>1 DEF Last
  <2>2. Filled(frame, 0) = ConfigOf(frame)
    <3>1. ArgsOf(frame.site.fn, frame.call, 0) = << >>
      <4>1. PICK a : a = ArgsOf(frame.site.fn, frame.call, 0)
        OBVIOUS
      <4>2. a = [j \in 1 .. 0 |-> Argument(frame.site.fn, frame.call, 0 - j)]
        BY <4>1 DEF ArgsOf
      <4>3. a \in Seq({}) /\ Len(a) = 0
        BY <4>2
      <4> QED BY <4>1, <4>3
    <3> QED BY <3>1 DEF Filled, ConfigOf
  <2>3. \A i \in 1 .. n : configs[i] = IF i = n THEN Filled(frame, 0) ELSE configs[i]
    BY <1>6, <2>1, <2>2
  <2>4. configs = [i \in 1 .. n |-> IF i = n THEN Filled(frame, 0) ELSE configs[i]]
    BY <1>6, <2>3
  <2> QED BY <1>3, <2>4 DEF WithArgs
<1>8. PICK c : c = SetupArguments(configs, frame)
  OBVIOUS
<1>9. c = WithArgs(configs, frame, N)
  BY <1>1, <1>3, <1>4, <1>5, <1>7, <1>8, SetupEffect
<1>10. c = [i \in 1 .. n |-> IF i = n THEN Filled(frame, N) ELSE configs[i]]
  BY <1>3, <1>9 DEF WithArgs
<1>11. PICK T : T = {c[i] : i \in 1 .. n}
  OBVIOUS
<1>12. c \in Seq(T) /\ Len(c) = n /\ c[n] = Filled(frame, N)
  <2>1. c \in [1 .. n -> T]
    BY <1>10, <1>11
  <2> QED BY <2>1, <1>1, <1>10
<1>13. Last(c) = Filled(frame, N)
  BY <1>12 DEF Last
<1>14. Front(c) = Opened(Front(frames))
  <2>1. PICK f : f = Front(c)
    OBVIOUS
  <2>2. /\ f \in Seq(T) /\ Len(f) = n - 1
        /\ \A i \in 1 .. n - 1 : f[i] = c[i]
    BY <2>1, <1>1, <1>12 DEF Front
  <2>3. PICK g : g = Front(frames)
    OBVIOUS
  <2>4. DOMAIN g = 1 .. n - 1 /\ \A i \in 1 .. n - 1 : g[i] = frames[i]
    BY <2>3, <1>3
  <2>5. \A i \in 1 .. n - 1 : f[i] = ConfigOf(g[i])
    <3> SUFFICES ASSUME NEW i \in 1 .. n - 1
                 PROVE  f[i] = ConfigOf(g[i])
      OBVIOUS
    <3>1. i \in 1 .. n /\ i # n
      OBVIOUS
    <3>2. c[i] = configs[i] /\ configs[i] = ConfigOf(frames[i])
      BY <3>1, <1>6, <1>10
    <3> QED BY <3>2, <2>2, <2>4
  <2>6. f = [i \in 1 .. n - 1 |-> f[i]]
    BY <2>2
  <2>7. f = Opened(g)
    BY <2>4, <2>5, <2>6 DEF Opened
  <2> QED BY <2>1, <2>3, <2>7
<1>15. Launch(c, frame)
  BY <1>2, <1>8
<1>16. PICK config : config = Last(c)
  OBVIOUS
<1>17. /\ config.call = frame.call /\ config.grid = frame.site.grid
       /\ config.stream = frame.site.stream
       /\ config.args = ArgsOf(frame.site.fn, frame.call, N)
  BY <1>13, <1>16 DEF Filled
<1>18. PICK back : back = Front(c)
  OBVIOUS
<1>19. \/ /\ stack' = back
          /\ UNCHANGED <<lib, grids, host, deviceVars>>
       \/ /\ grids' = grids + 1
          /\ lib' = Analyse(lib, frame.site.fn)
          /\ stack' = back /\ UNCHANGED <<host, deviceVars>>
       \/ /\ grids' = grids + 1
          /\ lib' = Analyse(lib, frame.site.fn)
          /\ Push(config.stream, KernelOf(frame, config))
          /\ stack' = IF config.stream = Default THEN c ELSE back
          /\ UNCHANGED <<busy, events, done>>
  BY <1>15, <1>16, <1>18 DEF Launch, Refused
<1>20. CASE /\ stack' = back
            /\ UNCHANGED <<lib, grids, host, deviceVars>>
  BY <1>14, <1>18, <1>20
<1>21. CASE /\ grids' = grids + 1
            /\ lib' = Analyse(lib, frame.site.fn)
            /\ stack' = back /\ UNCHANGED <<host, deviceVars>>
  BY <1>14, <1>18, <1>21
<1>22. CASE /\ grids' = grids + 1
            /\ lib' = Analyse(lib, frame.site.fn)
            /\ Push(config.stream, KernelOf(frame, config))
            /\ stack' = IF config.stream = Default THEN c ELSE back
            /\ UNCHANGED <<busy, events, done>>
  <2>1. PICK o : o = KernelOf(frame, config)
    OBVIOUS
  <2>2. /\ o.id = pushed + 1 /\ o.kind = "kernel" /\ o.frame = frame
        /\ o.config = config
        /\ o.params = InitGrid(frame.site.fn, ArgsOf(frame.site.fn, frame.call, N))
    BY <2>1, <1>17 DEF KernelOf
  <2>3. pushed \in Nat
    BY DEF HInv, WaitInv, StreamsOK
  <2>4. OpOK(o)
    BY <2>2, <2>3 DEF OpOK
  <2>5. HasArgumentsOf(o.params, frame.site.fn, frame.call)
    BY <2>2, <1>4, <1>5, InitGridEffect
  <2>6. RunsOwn(o)
    BY <2>2, <2>5, <1>17 DEF RunsOwn
  <2>7. c # << >>
    BY <1>1, <1>12
  <2>8. Push(frame.site.stream, o)
    BY <2>1, <1>17, <1>22
  <2>9. IF frame.site.stream = Default
        THEN stack' # << >> /\ Front(stack') = Opened(Front(frames))
        ELSE stack' = Opened(Front(frames))
    BY <2>7, <1>14, <1>17, <1>18, <1>22
  <2> QED BY <2>2, <2>4, <2>6, <2>8, <2>9, <1>22
<1> QED BY <1>19, <1>20, <1>21, <1>22

\* The analysis of a function runs once.
LEMMA AnalyseEffect ==
  ASSUME LibTypes, LoadInv, NEW f \in Functions, NEW l, l = Analyse(lib, f)
  PROVE  /\ l \in Libraries
         /\ l.streams = lib.streams /\ l.loads = lib.loads
         /\ l.parsed = lib.parsed /\ l.kernels = lib.kernels
         /\ l.symtab = lib.symtab /\ l.analyses = Cardinality(l.pdom)
<1>1. IsFiniteSet(lib.pdom)
  BY HostAssumption, FS_Subset DEF LibTypes, Libraries
<1>2. CASE f \in lib.pdom
  BY <1>2 DEF Analyse, LibTypes, Libraries, LoadInv
<1>3. CASE f \notin lib.pdom
  <2>1. l = [lib EXCEPT !.pdom = @ \cup {f}, !.analyses = @ + 1]
    BY <1>3 DEF Analyse
  <2>2. Cardinality(lib.pdom \cup {f}) = Cardinality(lib.pdom) + 1
    BY <1>1, <1>3, FS_AddElement
  <2>3. PICK a \in Nat, S \in SUBSET Functions : a = lib.analyses /\ S = lib.pdom
    BY DEF LibTypes, Libraries
  <2>4. l = [lib EXCEPT !.pdom = S \cup {f}, !.analyses = a + 1]
    BY <2>1, <2>3
  <2>5. l \in Libraries
    <3>1. PICK P, c : P = S \cup {f} /\ c = a + 1
      OBVIOUS
    <3>2. P \in SUBSET Functions /\ c \in Nat
      BY <2>3, <3>1
    <3>3. l = [lib EXCEPT !.pdom = P, !.analyses = c]
      BY <2>4, <3>1
    <3> QED BY <3>2, <3>3 DEF LibTypes, Libraries
  <2>6. /\ l.streams = lib.streams /\ l.loads = lib.loads
        /\ l.parsed = lib.parsed /\ l.kernels = lib.kernels
        /\ l.symtab = lib.symtab /\ l.pdom = S \cup {f} /\ l.analyses = a + 1
    BY <2>4 DEF LibTypes, Libraries
  <2>7. a = Cardinality(S)
    BY <2>3 DEF LoadInv
  <2> QED BY <2>2, <2>3, <2>5, <2>6, <2>7
<1> QED BY <1>2, <1>3
-----------------------------------------------------------------------------
(* Every step keeps the invariant and does what the properties ask of it.  *)

WaitStep ==
  /\ host' = Idle => host.covers \subseteq done
  /\ \A s \in Created \cap DOMAIN streams' :
       LET o == Head(streams[s])
       IN (streams[s] # << >> /\ streams'[s] = Tail(streams[s])
             /\ o.kind = "wait" /\ o.count = events[o.event].issued)
          => o.covers \subseteq done

LoadStep == lib'.loads # lib.loads => grids = 0 /\ lib.loads = 0

Keeps == HInv' /\ WaitStep /\ LoadStep

\* An idle host has nothing to wait for, and only the simulation thread takes
\* operations.
LEMMA NoWaitPassed ==
  ASSUME \/ host' # Idle
         \/ host = Idle
         \/ host.covers \subseteq done,
         \A x \in Created \cap DOMAIN streams' : streams[x] # << >> =>
           streams'[x] # Tail(streams[x])
  PROVE  WaitStep
BY DEF WaitStep, Idle

\* What the binaries are does not change.
LEMMA LoadKeeps ==
  ASSUME LibTypes, LoadInv, lib'.loads = lib.loads, lib'.symtab = lib.symtab,
         lib'.parsed = lib.parsed, lib'.kernels = lib.kernels,
         lib'.analyses = Cardinality(lib'.pdom),
         lib.symtab \/ (app' = app /\ grids' = grids)
  PROVE  LoadInv' /\ LoadStep
BY DEF LoadInv, LoadStep

\* Registration.
LEMMA RegisterKeeps ==
  ASSUME HInv, IsIdle, UNCHANGED <<stack, app, calls, grids, host, deviceVars>>,
         lib' \in Libraries, lib'.streams = lib.streams,
         lib'.analyses = lib.analyses, lib'.pdom = lib.pdom,
         (lib'.parsed # {} \/ lib'.kernels # {}) => lib'.symtab,
         lib.symtab => lib'.symtab /\ lib'.loads = lib.loads,
         ~lib'.symtab => lib'.loads = lib.loads
  PROVE  Keeps
<1>1. WaitInv /\ LoadInv /\ StackInv
  BY DEF HInv
<1>2. /\ streams' = streams /\ busy' = busy /\ pushed' = pushed /\ done' = done
      /\ events' = events /\ host' = host /\ app' = app /\ grids' = grids
      /\ stack' = stack /\ calls' = calls
  BY DEF deviceVars
<1>3. EventTypes' /\ LibTypes'
  BY <1>1, <1>2 DEF WaitInv, EventTypes, LibTypes
<1>4. /\ StreamsOK' /\ EventsOK' /\ WaitsOK' /\ HostOK' /\ Created' = Created
      /\ Operations' \cup Pushing' = Operations \cup Pushing
      /\ \A x \in Created : streams[x] # << >> => streams'[x] # Tail(streams[x])
  BY <1>1, <1>2, <1>3, QuietKeeps
<1>5. WaitInv'
  BY <1>3, <1>4 DEF WaitInv
<1>6. lib.symtab \in BOOLEAN /\ lib'.symtab \in BOOLEAN
  BY <1>1 DEF WaitInv, LibTypes, Libraries
<1>7. LoadInv' /\ LoadStep
  BY <1>1, <1>2, <1>6 DEF LoadInv, LoadStep
<1>8. StackInv'
  <2>1. Launching' <=> Launching
    BY <1>2 DEF Launching
  <2>2. \A i \in DOMAIN app :
          /\ app[i].site.stream \in Created'
          /\ host'.at \in {"synchronize", "destroy"} =>
               app[i].site.stream # host'.on
    BY <1>1, <1>2, <1>4 DEF StackInv
  <2> QED BY <2>1, <2>2, <1>1, <1>2, <1>4, StackKeeps
<1>9. host = Idle
  BY <1>1 DEF WaitInv, HostOK, IsIdle
<1> QED BY <1>4, <1>5, <1>7, <1>8, <1>9, NoWaitPassed DEF Keeps, HInv

\* A binary is parsed once, and writes its globals if it is the first.
LEMMA ParseEffect ==
  ASSUME HInv, NEW handle \in Nat, NEW l, l = Parse(lib, handle)
  PROVE  /\ l \in Libraries
         /\ l.streams = lib.streams /\ l.analyses = lib.analyses
         /\ l.pdom = lib.pdom /\ l.kernels = lib.kernels /\ l.handles = lib.handles
         /\ l.symtab
         /\ lib.symtab => l.loads = lib.loads
<1>1. lib \in Libraries /\ (lib.parsed # {} => lib.symtab)
  BY DEF HInv, WaitInv, LibTypes, LoadInv
<1>2. CASE handle \in lib.parsed
  BY <1>1, <1>2 DEF Parse
<1>3. CASE handle \notin lib.parsed
  <2>1. PICK m : m = IF lib.symtab THEN lib ELSE LoadGlobals(lib)
    OBVIOUS
  <2>2. /\ m \in Libraries /\ m.streams = lib.streams /\ m.analyses = lib.analyses
        /\ m.pdom = lib.pdom /\ m.kernels = lib.kernels /\ m.handles = lib.handles
        /\ lib.symtab => m.loads = lib.loads
    BY <1>1, <2>1 DEF LoadGlobals, Libraries
  <2>3. PICK S : S = m.parsed \cup {handle} /\ S \in SUBSET Nat
    <3>1. m.parsed \in SUBSET Nat
      BY <2>2 DEF Libraries
    <3>2. m.parsed \cup {handle} \in SUBSET Nat
      BY <3>1
    <3> QED BY <3>2
  <2>4. l = [m EXCEPT !.parsed = S, !.symtab = TRUE]
    BY <1>3, <2>1, <2>3 DEF Parse
  <2> QED BY <2>2, <2>3, <2>4 DEF Libraries
<1> QED BY <1>2, <1>3

\* A binary is registered.
LEMMA FatBinaryKeeps ==
  ASSUME HInv, RegisterFatBinary
  PROVE  Keeps
<1>1. lib \in Libraries /\ LoadInv
  BY DEF HInv, WaitInv, LibTypes
<1>2. lib' = [lib EXCEPT !.handles = @ + 1]
  BY DEF RegisterFatBinary
<1>3. lib' \in Libraries
  BY <1>1, <1>2 DEF Libraries
<1>4. /\ lib'.streams = lib.streams /\ lib'.analyses = lib.analyses
      /\ lib'.pdom = lib.pdom /\ lib'.parsed = lib.parsed
      /\ lib'.kernels = lib.kernels /\ lib'.symtab = lib.symtab
      /\ lib'.loads = lib.loads
  BY <1>1, <1>2 DEF Libraries
<1>5. IsIdle /\ UNCHANGED <<stack, app, calls, grids, host, deviceVars>>
  BY DEF RegisterFatBinary
<1> QED BY <1>1, <1>3, <1>4, <1>5, RegisterKeeps DEF LoadInv

\* A variable is registered.
LEMMA VarKeeps ==
  ASSUME HInv, NEW b \in Binaries, RegisterVar(b)
  PROVE  Keeps
<1>1. b \in Nat
  BY HostAssumption DEF Binaries
<1>2. lib' = Parse(lib, b) /\ IsIdle
      /\ UNCHANGED <<stack, app, calls, grids, host, deviceVars>>
  BY DEF RegisterVar
<1>3. /\ lib' \in Libraries
      /\ lib'.streams = lib.streams /\ lib'.analyses = lib.analyses
      /\ lib'.pdom = lib.pdom /\ lib'.symtab
      /\ lib.symtab => lib'.loads = lib.loads
  BY <1>1, <1>2, ParseEffect
<1> QED BY <1>2, <1>3, RegisterKeeps

\* A function is registered.
LEMMA FunctionKeeps ==
  ASSUME HInv, NEW f \in Functions, RegisterFunction(f)
  PROVE  Keeps
<1>1. BinaryOf[f] \in Nat
  BY HostAssumption
<1>2. PICK l : l = Parse(lib, BinaryOf[f])
  OBVIOUS
<1>3. /\ l \in Libraries
      /\ l.streams = lib.streams /\ l.analyses = lib.analyses
      /\ l.pdom = lib.pdom /\ l.kernels = lib.kernels /\ l.symtab
      /\ lib.symtab => l.loads = lib.loads
  BY <1>1, <1>2, ParseEffect
<1>4. lib' = [l EXCEPT !.kernels = @ \cup {f}] /\ IsIdle
      /\ UNCHANGED <<stack, app, calls, grids, host, deviceVars>>
  BY <1>2 DEF RegisterFunction
<1>5. PICK S : S = l.kernels \cup {f} /\ S \in SUBSET Functions
  <2>1. l.kernels \in SUBSET Functions
    BY <1>3 DEF Libraries
  <2>2. l.kernels \cup {f} \in SUBSET Functions
    BY <2>1
  <2> QED BY <2>2
<1>6. lib' = [l EXCEPT !.kernels = S]
  BY <1>4, <1>5
<1>7. /\ lib' \in Libraries
      /\ lib'.streams = lib.streams /\ lib'.analyses = lib.analyses
      /\ lib'.pdom = lib.pdom /\ lib'.symtab
      /\ lib.symtab => lib'.loads = lib.loads
  BY <1>3, <1>5, <1>6 DEF Libraries
<1> QED BY <1>4, <1>7, RegisterKeeps

\* Waits that begin and end, and events that come and go.
LEMMA HostKeeps ==
  ASSUME HInv, UNCHANGED <<runtimeVars, streams, busy, pushed, done>>,
         EventTypes',
         \A e \in Events : /\ events'[e].issued = events[e].issued
                           /\ events'[e].updates = events[e].updates
                           /\ events'[e].covers = events[e].covers,
         host' = host \/ (host.at \notin {"push", "pushed"}
                            /\ host'.at \notin {"push", "pushed"}),
         host' = host \/ HostOK',
         \A i \in DOMAIN app : host'.at \in {"synchronize", "destroy"} =>
           app[i].site.stream # host'.on,
         host' = Idle => host = Idle \/ host.covers \subseteq done
  PROVE  Keeps
<1>1. WaitInv /\ LoadInv /\ StackInv /\ LibTypes
  BY DEF HInv, WaitInv
<1>2. /\ streams' = streams /\ busy' = busy /\ pushed' = pushed /\ done' = done
      /\ lib' = lib /\ app' = app /\ grids' = grids
      /\ stack' = stack /\ calls' = calls
  BY DEF runtimeVars
<1>3. /\ StreamsOK' /\ EventsOK' /\ WaitsOK' /\ Created' = Created
      /\ Operations' \cup Pushing' = Operations \cup Pushing
      /\ \A x \in Created : streams[x] # << >> => streams'[x] # Tail(streams[x])
      /\ host' = host => HostOK'
  BY <1>1, <1>2, QuietKeeps
<1>4. WaitInv'
  BY <1>1, <1>2, <1>3 DEF WaitInv, LibTypes
<1>5. LoadInv' /\ LoadStep
  BY <1>1, <1>2 DEF LoadInv, LoadStep
<1>6. StackInv'
  <2>1. Launching' <=> Launching
    BY DEF Launching
  <2>2. \A i \in DOMAIN app :
          /\ app[i].site.stream \in Created'
          /\ host'.at \in {"synchronize", "destroy"} =>
               app[i].site.stream # host'.on
    BY <1>1, <1>3 DEF StackInv
  <2> QED BY <2>1, <2>2, <1>1, <1>2, <1>3, StackKeeps
<1> QED BY <1>3, <1>4, <1>5, <1>6, NoWaitPassed DEF Keeps, HInv

\* With as many completions as records, all that an event covers is done.
LEMMA AllRecordsDone ==
  ASSUME EventTypes, EventsOK, NEW e \in Events,
         events[e].updates = events[e].issued
  PROVE  events[e].covers \subseteq done
<1>1. PICK R : R = Records(e)
  OBVIOUS
<1>2. IsFiniteSet(R) /\ events[e].issued = events[e].updates + Cardinality(R)
  BY <1>1 DEF EventsOK, CountsRecords
<1>3. Cardinality(R) = 0
  <2>1. PICK a \in Nat, b \in Nat : a = events[e].issued /\ b = Cardinality(R)
    BY <1>2, FS_CardinalityType DEF EventTypes
  <2>2. a = a + b
    BY <2>1, <1>2
  <2> QED BY <2>1, <2>2
<1>4. R = {}
  BY <1>2, <1>3, FS_EmptySet
<1> SUFFICES ASSUME NEW id \in events[e].covers \ done
             PROVE  FALSE
  OBVIOUS
<1>5. Awaited(e, id)
  BY DEF EventsOK
<1>6. CASE \E s \in Created : \E p \in Of(s) : p.kind = "event" /\ p.event = e
  BY <1>1, <1>4, <1>6 DEF Records, Operations, Of
<1>7. CASE host.at = "push" /\ host.on.kind = "event" /\ host.on.event = e
  BY <1>1, <1>4, <1>7 DEF Records, Pushing
<1> QED BY <1>5, <1>6, <1>7 DEF Awaited

\* Calls that wait, and the end of the waits.
LEMMA WaitsKeep ==
  ASSUME HInv,
         \/ \E s \in Created : StreamDestroy(s) \/ StreamSynchronize(s)
         \/ DeviceSynchronize \/ DestroyStream \/ Synchronized \/ EventDetected
         \/ \E e \in Events : EventSynchronize(e)
         \/ \E e \in Events : EventCreate(e) \/ EventDestroy(e)
  PROVE  Keeps
<1>1. HostOK /\ EventTypes /\ EventsOK
  BY DEF HInv, WaitInv
<1>2. UNCHANGED <<runtimeVars, streams, busy, pushed, done>>
  BY DEF StreamDestroy, StreamSynchronize, DeviceSynchronize, DestroyStream,
         Synchronized, EventDetected, EventSynchronize, EventCreate,
         EventDestroy, runtimeVars, deviceVars
<1>3. /\ streams' = streams /\ done' = done /\ pushed' = pushed
  BY <1>2
<1>4. Created' = Created /\ \A ss : InFlight(ss)' = InFlight(ss)
  BY <1>3 DEF Created, InFlight
<1>5. CASE \E e \in Events : EventCreate(e) \/ EventDestroy(e)
  <2>1. PICK e \in Events, st \in {"created", "destroyed"} :
          host' = host /\ events' = [events EXCEPT ![e].state = st]
    BY <1>5 DEF EventCreate, EventDestroy
  <2>2. EventTypes' /\ \A x \in Events : /\ events'[x].issued = events[x].issued
                                         /\ events'[x].updates = events[x].updates
                                         /\ events'[x].covers = events[x].covers
    <3>1. PICK ev : ev = [events[e] EXCEPT !.state = st]
      OBVIOUS
    <3>2. events[e] \in [state : {"none", "created", "destroyed"},
                         issued : Nat, updates : Nat, covers : SUBSET Nat]
      BY <1>1 DEF EventTypes
    <3>3. /\ ev \in [state : {"none", "created", "destroyed"},
                     issued : Nat, updates : Nat, covers : SUBSET Nat]
          /\ ev.issued = events[e].issued /\ ev.updates = events[e].updates
          /\ ev.covers = events[e].covers
      BY <3>1, <3>2
    <3>4. events' = [events EXCEPT ![e] = ev]
      BY <2>1, <3>1
    <3> QED BY <3>3, <3>4, <1>1 DEF EventTypes
  <2>3. \A i \in DOMAIN app : host'.at \in {"synchronize", "destroy"} =>
          app[i].site.stream # host'.on
    BY <2>1 DEF HInv, StackInv
  <2> QED BY <2>1, <2>2, <2>3, <1>2, HostKeeps
<1>6. CASE \/ \E s \in Created : StreamDestroy(s) \/ StreamSynchronize(s)
           \/ DeviceSynchronize \/ DestroyStream \/ Synchronized \/ EventDetected
           \/ \E e \in Events : EventSynchronize(e)
  <2>1. events' = events
    BY <1>6 DEF StreamDestroy, StreamSynchronize, DeviceSynchronize,
                DestroyStream, Synchronized, EventDetected, EventSynchronize,
                deviceVars
  <2>2. EventTypes'
    BY <2>1, <1>1 DEF EventTypes
  <2>3. \/ host' = host
        \/ host.at \notin {"push", "pushed"} /\ host'.at \notin {"push", "pushed"}
    <3>1. CASE \/ \E s \in Created : StreamDestroy(s) \/ StreamSynchronize(s)
               \/ DeviceSynchronize \/ \E e \in Events : EventSynchronize(e)
      <4>1. host.at = "idle"
        BY <3>1 DEF StreamDestroy, StreamSynchronize, DeviceSynchronize,
                    EventSynchronize, IsIdle
      <4>2. \/ host' = host
            \/ host'.at \in {"synchronize", "all", "event"}
        <5>1. \A s \in Created : StreamDestroy(s) => host'.at = "synchronize"
          BY DEF StreamDestroy, WaitIn
        <5>2. \A s \in Created : StreamSynchronize(s) =>
                host' = host \/ host'.at = "all"
          BY DEF StreamSynchronize, WaitIn
        <5>3. DeviceSynchronize => host'.at = "all"
          BY DEF DeviceSynchronize, WaitIn
        <5>4. \A e \in Events : EventSynchronize(e) => host'.at = "event"
          BY DEF EventSynchronize, WaitIn
        <5> QED BY <3>1, <5>1, <5>2, <5>3, <5>4
      <4> QED BY <4>1, <4>2
    <3>2. CASE DestroyStream
      <4>1. host.at = "synchronize" /\ host' = [host EXCEPT !.at = "destroy"]
        BY <3>2 DEF DestroyStream
      <4>2. host'.at \in {"synchronize", "destroy"} \/ host' = host
        BY <4>1
      <4> QED BY <4>1, <4>2
    <3>3. CASE Synchronized \/ EventDetected
      BY <3>3 DEF Synchronized, EventDetected, Idle
    <3> QED BY <1>6, <3>1, <3>2, <3>3
  <2>4. CASE \E s \in Created : StreamDestroy(s)
    <3>1. PICK s \in Created : StreamDestroy(s)
      BY <2>4
    <3>2. /\ host' = [at |-> "synchronize", on |-> s, covers |-> InFlight({s})]
          /\ s # Default
          /\ \A i \in DOMAIN app : app[i].site.stream # s
      BY <3>1 DEF StreamDestroy, WaitIn
    <3>3. HostOK' /\ host' # Idle
      BY <3>1, <3>2, <1>4 DEF HostOK, Idle
    <3> QED BY <3>2, <3>3, <1>2, <2>1, <2>2, <2>3, HostKeeps
  <2>5. CASE \/ \E s \in Created : StreamSynchronize(s)
             \/ DeviceSynchronize
    <3>1. \/ host' = host
          \/ host' = [at |-> "all", on |-> Default, covers |-> InFlight(Created)]
      BY <2>5 DEF StreamSynchronize, DeviceSynchronize, WaitIn
    <3>2. host' = host \/ (HostOK' /\ host' # Idle /\ host'.at = "all")
      BY <3>1, <1>4 DEF HostOK, Idle
    <3>3. \A i \in DOMAIN app : host'.at \in {"synchronize", "destroy"} =>
            app[i].site.stream # host'.on
      BY <3>2 DEF HInv, StackInv
    <3> QED BY <3>2, <3>3, <1>2, <2>1, <2>2, <2>3, HostKeeps
  <2>6. CASE DestroyStream
    <3>1. host.at = "synchronize" /\ host' = [host EXCEPT !.at = "destroy"]
      BY <2>6 DEF DestroyStream
    <3>2. host'.at = "destroy" /\ host'.on = host.on /\ host'.covers = host.covers
      <4>1. /\ host' = [i \in DOMAIN host |-> IF i = "at" THEN "destroy" ELSE host[i]]
            /\ DOMAIN host' = DOMAIN host
        BY <3>1
      <4> QED BY <3>1, <1>1 DEF HostOK
    <3>3. HostOK' /\ host' # Idle
      BY <3>1, <3>2, <1>1, <1>3, <1>4 DEF HostOK, Idle
    <3>4. \A i \in DOMAIN app : app[i].site.stream # host'.on
      BY <3>1, <3>2 DEF HInv, StackInv
    <3> QED BY <3>3, <3>4, <1>2, <2>1, <2>2, <2>3, HostKeeps
  <2>7. CASE Synchronized \/ EventDetected
    <3>1. host' = Idle
      BY <2>7 DEF Synchronized, EventDetected
    <3>2. HostOK' /\ host'.at = "idle"
      BY <3>1 DEF HostOK, Idle
    <3>3. host.covers \subseteq done
      <4>1. CASE Synchronized
        <5>1. host.at = "all" /\ Drained(Created)
          BY <4>1 DEF Synchronized
        <5>2. InFlight(Created) = {}
          BY <5>1, InFlightIn
        <5> QED BY <5>1, <5>2, <1>1 DEF HostOK
      <4>2. CASE EventDetected
        <5>1. PICK e : e = host.on
          OBVIOUS
        <5>2. /\ e \in Events /\ host.covers \subseteq events[e].covers
              /\ events[e].updates = events[e].issued
          BY <4>2, <5>1, <1>1 DEF HostOK, EventDetected
        <5>3. events[e].covers \subseteq done
          BY <5>2, <1>1, AllRecordsDone
        <5> QED BY <5>2, <5>3
      <4> QED BY <4>1, <4>2, <2>7
    <3> QED BY <3>2, <3>3, <1>2, <2>1, <2>2, <2>3, HostKeeps
  <2>8. CASE \E e \in Events : EventSynchronize(e)
    <3>1. PICK e \in Events :
            host' = [at |-> "event", on |-> e, covers |-> events[e].covers]
      BY <2>8 DEF EventSynchronize, WaitIn
    <3>2. HostOK' /\ host' # Idle /\ host'.at = "event"
      BY <3>1, <2>1 DEF HostOK, Idle
    <3> QED BY <3>2, <1>2, <2>1, <2>2, <2>3, HostKeeps
  <2> QED BY <1>6, <2>4, <2>5, <2>6, <2>7, <2>8
<1> QED BY <1>5, <1>6

\* The default stream.
LEMMA LeaveKeeps ==
  ASSUME HInv, LeaveDefaultStream
  PROVE  Keeps
<1>1. WaitInv /\ LoadInv /\ StackInv /\ LibTypes /\ EventTypes /\ HostOK
  BY DEF HInv, WaitInv
<1>2. /\ host.at = "pushed" /\ Drained(Created) /\ host' = Idle
      /\ stack' = IF host.on.kind = "kernel" THEN Front(stack) ELSE stack
      /\ lib' = lib /\ app' = app /\ calls' = calls /\ grids' = grids
      /\ streams' = streams /\ busy' = busy /\ events' = events
      /\ pushed' = pushed /\ done' = done
  BY DEF LeaveDefaultStream, deviceVars
<1>3. EventTypes' /\ LibTypes'
  BY <1>1, <1>2 DEF EventTypes, LibTypes
<1>4. host.at # "push" /\ host'.at # "push" /\ host'.at = "idle"
  BY <1>2 DEF Idle
<1>5. /\ StreamsOK' /\ EventsOK' /\ WaitsOK' /\ Created' = Created
      /\ Operations' \cup Pushing' = Operations \cup Pushing
      /\ \A x \in Created : streams[x] # << >> => streams'[x] # Tail(streams[x])
  BY <1>1, <1>2, <1>3, <1>4, QuietKeeps
<1>6. HostOK'
  BY <1>2, <1>4 DEF HostOK
<1>7. host.covers \subseteq done
  BY <1>1, <1>2, InFlightIn DEF HostOK
<1>8. LoadInv' /\ LoadStep
  BY <1>1, <1>2 DEF LoadInv, LoadStep
<1>9. StackInv'
  <2>1. stack' = Opened(app) /\ Launching' = FALSE
    BY <1>1, <1>2, <1>4 DEF StackInv, Launching
  <2>2. Opened(app)' = Opened(app)
    BY <1>2 DEF Opened
  <2>3. \A o \in Operations' \cup Pushing' : o.kind = "kernel" => RunsOwn(o)
    BY <1>1, <1>5 DEF StackInv
  <2>4. \A i \in DOMAIN app' : app'[i].site.stream \in Created'
    BY <1>1, <1>2, <1>5 DEF StackInv
  <2>5. app' \in Seq(Frames) /\ calls' \in Nat
    BY <1>1, <1>2 DEF StackInv
  <2> QED BY <2>1, <2>2, <2>3, <2>4, <2>5, <1>4 DEF StackInv, RunsOwn
<1> QED BY <1>3, <1>5, <1>6, <1>7, <1>8, <1>9, NoWaitPassed
    DEF Keeps, HInv, WaitInv

\* The operation of the default stream enters it.
LEMMA EnterStepKeeps ==
  ASSUME HInv, EnterDefaultStream
  PROVE  Keeps
<1>1. WaitInv /\ LoadInv /\ StackInv /\ HostOK
  BY DEF HInv, WaitInv
<1>2. /\ WaitInv' /\ host' # Idle
      /\ Operations' \cup Pushing' = Operations \cup Pushing
      /\ \A x \in Created : streams[x] = << >>
  BY <1>1, EnterKeeps
<1>3. /\ host.at = "push" /\ host' = [host EXCEPT !.at = "pushed"]
      /\ lib' = lib /\ app' = app /\ calls' = calls /\ grids' = grids
      /\ stack' = stack
      /\ streams' = [streams EXCEPT ![Default] = <<host.on>>]
  BY DEF EnterDefaultStream, runtimeVars
<1>4. host'.at = "pushed" /\ host'.on = host.on /\ DOMAIN streams' = DOMAIN streams
  BY <1>1, <1>3 DEF HostOK
<1>5. LoadInv' /\ LoadStep
  BY <1>1, <1>3 DEF LoadInv, LoadStep
<1>6. StackInv'
  <2>1. Launching' <=> Launching
    BY <1>3, <1>4 DEF Launching
  <2>2. \A i \in DOMAIN app :
          /\ app[i].site.stream \in Created'
          /\ host'.at \in {"synchronize", "destroy"} =>
               app[i].site.stream # host'.on
    BY <1>1, <1>4 DEF StackInv, Created
  <2> QED BY <2>1, <2>2, <1>1, <1>2, <1>3, StackKeeps
<1> QED BY <1>2, <1>5, <1>6, NoWaitPassed DEF Keeps, HInv

\* A kernel call begins.
LEMMA CallKeeps ==
  ASSUME HInv, NEW site \in Sites, PushCallConfiguration(site)
  PROVE  Keeps
<1>1. WaitInv /\ LoadInv /\ StackInv /\ LibTypes /\ EventTypes /\ HostOK
  BY DEF HInv, WaitInv
<1>2. PICK frame : frame = [call |-> calls + 1, site |-> site]
  OBVIOUS
<1>3. /\ IsIdle /\ site.fn \in lib.kernels /\ site.stream \in Created
      /\ calls' = calls + 1 /\ app' = Append(app, frame)
      /\ stack' = ConfigureCall(stack, calls + 1, site)
      /\ lib' = lib /\ grids' = grids /\ host' = host
      /\ streams' = streams /\ busy' = busy /\ events' = events
      /\ pushed' = pushed /\ done' = done
  BY <1>2 DEF PushCallConfiguration, CanCall, deviceVars
<1>4. EventTypes' /\ LibTypes'
  BY <1>1, <1>3 DEF EventTypes, LibTypes
<1>5. /\ StreamsOK' /\ EventsOK' /\ WaitsOK' /\ HostOK' /\ Created' = Created
      /\ Operations' \cup Pushing' = Operations \cup Pushing
      /\ \A x \in Created : streams[x] # << >> => streams'[x] # Tail(streams[x])
  BY <1>1, <1>3, <1>4, QuietKeeps
<1>6. lib.symtab
  BY <1>1, <1>3 DEF LoadInv
<1>7. LoadInv' /\ LoadStep
  <2>1. /\ lib'.loads = lib.loads /\ lib'.symtab = lib.symtab
        /\ lib'.parsed = lib.parsed /\ lib'.kernels = lib.kernels
        /\ lib'.analyses = Cardinality(lib'.pdom)
    BY <1>1, <1>3 DEF LoadInv
  <2> QED BY <2>1, <1>1, <1>6, LoadKeeps
<1>8. StackInv'
  <2>1. calls \in Nat /\ app \in Seq(Frames) /\ frame \in Frames
    BY <1>1, <1>2 DEF StackInv, Frames
  <2>2. app' \in Seq(Frames) /\ calls' \in Nat
    BY <1>3, <2>1
  <2>3. ~Launching /\ ~Launching'
    BY <1>3 DEF IsIdle, Launching
  <2>4. stack' = Opened(app')
    <3>1. stack' = Append(Opened(app), ConfigOf(frame))
      BY <1>1, <1>2, <1>3, <2>3 DEF StackInv, ConfigureCall, ConfigOf
    <3> QED BY <3>1, <1>3, <2>1, OpenedCalls
  <2>5. \A i \in DOMAIN app' : app'[i].site.stream \in Created'
    <3> SUFFICES ASSUME NEW i \in DOMAIN app'
                 PROVE  app'[i].site.stream \in Created
      BY <1>5
    <3>1. (i \in DOMAIN app /\ app'[i] = app[i]) \/ app'[i] = frame
      BY <1>3, <2>1
    <3>2. frame.site.stream \in Created
      BY <1>2, <1>3
    <3> QED BY <3>1, <3>2, <1>1 DEF StackInv
  <2>6. \A o \in Operations' \cup Pushing' : o.kind = "kernel" => RunsOwn(o)
    BY <1>1, <1>5 DEF StackInv
  <2>7. host'.at = "idle"
    BY <1>3 DEF IsIdle
  <2> QED BY <2>2, <2>3, <2>4, <2>5, <2>6, <2>7 DEF StackInv, RunsOwn, Opened
<1>9. host = Idle
  BY <1>1, <1>3 DEF HostOK, IsIdle
<1> QED BY <1>4, <1>5, <1>7, <1>8, <1>9, NoWaitPassed DEF Keeps, HInv, WaitInv
\* A kernel is launched, refused or skipped.
LEMMA LaunchKeeps ==
  ASSUME HInv, IsIdle, NEW frames \in Seq(Frames), frames # << >>,
         NEW frame, frame = Last(frames),
         Launch(SetupArguments(Opened(frames), frame), frame),
         lib.symtab, app' = Front(frames), calls' \in Nat,
         \A i \in DOMAIN frames : frames[i].site.stream \in Created
  PROVE  Keeps
<1>1. WaitInv /\ LoadInv /\ StackInv /\ LibTypes /\ EventTypes /\ HostOK
  BY DEF HInv, WaitInv
<1>2. host = Idle /\ host.at = "idle"
  BY <1>1 DEF HostOK, IsIdle
<1>3. /\ frame \in Frames /\ Front(frames) \in Seq(Frames)
      /\ Len(Front(frames)) = Len(frames) - 1
      /\ \A i \in 1 .. Len(frames) - 1 : Front(frames)[i] = frames[i]
  BY OpenedCalls
<1>4. frame.site.fn \in Functions /\ frame.site.stream \in Created
  <2>1. frame.site \in Sites
    BY <1>3 DEF Frames
  <2>2. frame.site.fn \in Functions
    BY <2>1, HostAssumption
  <2>3. frame = frames[Len(frames)] /\ Len(frames) \in DOMAIN frames
    BY DEF Last
  <2> QED BY <2>2, <2>3
<1>5. PICK l : l = Analyse(lib, frame.site.fn)
  OBVIOUS
<1>6. /\ l \in Libraries
      /\ l.streams = lib.streams /\ l.loads = lib.loads
      /\ l.parsed = lib.parsed /\ l.kernels = lib.kernels
      /\ l.symtab = lib.symtab /\ l.analyses = Cardinality(l.pdom)
  BY <1>1, <1>4, <1>5, AnalyseEffect
<1>7. \A i \in DOMAIN app' : app'[i].site.stream \in Created
  <2>1. \A i \in DOMAIN app' : i \in DOMAIN frames /\ app'[i] = frames[i]
    BY <1>3
  <2> QED BY <2>1
<1>8. lib' \in {lib, l}
  BY <1>5, LaunchEffect
<1>9. LibTypes' /\ lib'.streams = lib.streams
  BY <1>1, <1>6, <1>8 DEF LibTypes
<1>10. LoadInv' /\ LoadStep
  <2>1. /\ lib'.loads = lib.loads /\ lib'.symtab = lib.symtab
        /\ lib'.parsed = lib.parsed /\ lib'.kernels = lib.kernels
        /\ lib'.analyses = Cardinality(lib'.pdom)
    BY <1>1, <1>6, <1>8 DEF LoadInv
  <2> QED BY <2>1, <1>1, LoadKeeps
<1>11. CASE stack' = Opened(Front(frames)) /\ host' = host /\ UNCHANGED deviceVars
  <2>1. /\ streams' = streams /\ busy' = busy /\ pushed' = pushed
        /\ done' = done /\ events' = events /\ host' = host
    BY <1>11 DEF deviceVars
  <2>2. EventTypes'
    BY <1>1, <2>1 DEF EventTypes
  <2>3. /\ StreamsOK' /\ EventsOK' /\ WaitsOK' /\ HostOK' /\ Created' = Created
        /\ Operations' \cup Pushing' = Operations \cup Pushing
        /\ \A x \in Created : streams[x] # << >> => streams'[x] # Tail(streams[x])
    BY <1>1, <1>9, <2>1, <2>2, QuietKeeps
  <2>4. ~Launching' /\ host'.at = "idle"
    BY <1>2, <2>1 DEF Launching
  <2>5. \A o \in Operations' \cup Pushing' : o.kind = "kernel" => RunsOwn(o)
    BY <1>1, <2>3 DEF StackInv
  <2>6. StackInv'
    BY <1>3, <1>7, <1>11, <2>3, <2>4, <2>5 DEF StackInv, RunsOwn, Opened
  <2> QED BY <1>2, <1>9, <1>10, <2>2, <2>3, <2>6, NoWaitPassed
          DEF Keeps, HInv, WaitInv
<1>12. CASE \E o : /\ o.kind = "kernel" /\ OpOK(o) /\ o.id = pushed + 1
                   /\ RunsOwn(o) /\ Push(frame.site.stream, o)
                   /\ busy' = busy /\ events' = events /\ done' = done
                   /\ IF frame.site.stream = Default
                      THEN stack' # << >> /\ Front(stack') = Opened(Front(frames))
                      ELSE stack' = Opened(Front(frames))
  <2>1. PICK s : s = frame.site.stream
    OBVIOUS
  <2>2. PICK o : /\ o.kind = "kernel" /\ OpOK(o) /\ o.id = pushed + 1
                 /\ RunsOwn(o) /\ Push(s, o)
                 /\ busy' = busy /\ events' = events /\ done' = done
                 /\ IF s = Default
                    THEN stack' # << >> /\ Front(stack') = Opened(Front(frames))
                    ELSE stack' = Opened(Front(frames))
    BY <1>12, <2>1
  <2>3. s \in Created /\ o.kind \in {"copy", "kernel"} /\ o.kind # "wait"
    BY <1>4, <2>1, <2>2
  <2>4. /\ WaitInv'
        /\ \A x \in Created : streams[x] # << >> => streams'[x] # Tail(streams[x])
    BY <1>1, <1>9, <2>2, <2>3, PushOther
  <2>5. /\ Created' = Created
        /\ Operations' \cup Pushing' = Operations \cup Pushing \cup {o}
    BY <1>1, <1>9, <2>2, <2>3, PushEffect
  <2>6. \A p \in Operations' \cup Pushing' : p.kind = "kernel" => RunsOwn(p)
    BY <1>1, <2>2, <2>5 DEF StackInv
  <2>7. /\ host'.at \notin {"synchronize", "destroy"}
        /\ IF Launching' THEN stack' # << >> /\ Front(stack') = Opened(app')
                         ELSE stack' = Opened(app')
    <3>1. CASE s = Default
      <4>1. host'.at = "push" /\ host'.on = o
        BY <2>2, <3>1 DEF Push, WaitIn
      <4> QED BY <4>1, <2>2, <3>1 DEF Launching
    <3>2. CASE s # Default
      <4>1. host' = host
        BY <2>2, <3>2 DEF Push
      <4> QED BY <4>1, <1>2, <2>2, <3>2 DEF Launching
    <3> QED BY <3>1, <3>2
  <2>8. StackInv'
    BY <1>3, <1>7, <2>5, <2>6, <2>7 DEF StackInv, RunsOwn, Opened
  <2>9. host' # Idle \/ host = Idle
    BY <1>2
  <2> QED BY <1>10, <2>4, <2>8, <2>9, NoWaitPassed DEF Keeps, HInv
<1> QED
  <2>1. \/ stack' = Opened(Front(frames)) /\ host' = host /\ UNCHANGED deviceVars
        \/ \E o : /\ o.kind = "kernel" /\ OpOK(o) /\ o.id = pushed + 1
                  /\ RunsOwn(o) /\ Push(frame.site.stream, o)
                  /\ busy' = busy /\ events' = events /\ done' = done
                  /\ IF frame.site.stream = Default
                     THEN stack' # << >> /\ Front(stack') = Opened(Front(frames))
                     ELSE stack' = Opened(Front(frames))
    BY LaunchEffect
  <2> QED BY <2>1, <1>11, <1>12

\* The launch that ends an open call.
LEMMA LaunchKernelKeeps ==
  ASSUME HInv, LaunchKernel
  PROVE  Keeps
<1>1. LoadInv /\ StackInv /\ lib.symtab \in BOOLEAN
  BY DEF HInv, WaitInv, LibTypes, Libraries
<1>2. PICK frame : frame = Last(app)
  OBVIOUS
<1>3. /\ IsIdle /\ app # << >> /\ app' = Front(app) /\ calls' = calls
      /\ Launch(SetupArguments(stack, frame), frame)
  BY <1>2 DEF LaunchKernel
<1>4. stack = Opened(app) /\ app \in Seq(Frames) /\ calls' \in Nat
  BY <1>1, <1>3 DEF StackInv, Launching, IsIdle
<1>5. \A i \in DOMAIN app : app[i].site.stream \in Created
  BY <1>1 DEF StackInv
<1>6. lib.symtab
  BY <1>1, <1>3 DEF LoadInv
<1>7. Launch(SetupArguments(Opened(app), frame), frame)
  BY <1>3, <1>4
<1> QED BY <1>2, <1>3, <1>4, <1>5, <1>6, <1>7, LaunchKeeps

\* The driver call.
LEMMA CuLaunchKernelKeeps ==
  ASSUME HInv, NEW site \in Sites, CuLaunchKernel(site)
  PROVE  Keeps
<1>1. LoadInv /\ StackInv /\ lib.symtab \in BOOLEAN
  BY DEF HInv, WaitInv, LibTypes, Libraries
<1>2. PICK frame : frame = [call |-> calls + 1, site |-> site]
  OBVIOUS
<1>3. /\ IsIdle /\ site.fn \in lib.kernels /\ site.stream \in Created
      /\ app' = app /\ calls' = calls + 1
      /\ Launch(SetupArguments(ConfigureCall(stack, calls + 1, site), frame), frame)
  BY <1>2 DEF CuLaunchKernel, CanCall
<1>4. stack = Opened(app) /\ app \in Seq(Frames) /\ calls \in Nat
  BY <1>1, <1>3 DEF StackInv, Launching, IsIdle
<1>5. frame \in Frames /\ calls' \in Nat
  BY <1>2, <1>3, <1>4 DEF Frames
<1>6. PICK frames : frames = Append(app, frame)
  OBVIOUS
<1>7. /\ frames \in Seq(Frames) /\ frames # << >> /\ frame = Last(frames)
      /\ app = Front(frames)
  BY <1>4, <1>5, <1>6, AppendProperties DEF Last, Front
<1>8. ConfigureCall(stack, calls + 1, site) = Opened(frames)
  <2>1. ConfigureCall(stack, calls + 1, site) = Append(Opened(app), ConfigOf(frame))
    BY <1>2, <1>4 DEF ConfigureCall, ConfigOf
  <2> QED BY <2>1, <1>4, <1>5, <1>6, OpenedCalls
<1>9. \A i \in DOMAIN frames : frames[i].site.stream \in Created
  <2>1. \A i \in DOMAIN frames : (i \in DOMAIN app /\ frames[i] = app[i])
                                  \/ frames[i] = frame
    BY <1>4, <1>5, <1>6
  <2>2. frame.site.stream \in Created
    BY <1>2, <1>3
  <2> QED BY <2>1, <2>2, <1>1 DEF StackInv
<1>10. lib.symtab
  BY <1>1, <1>3 DEF LoadInv
<1>11. Launch(SetupArguments(Opened(frames), frame), frame) /\ app' = Front(frames)
  BY <1>3, <1>7, <1>8
<1> QED BY <1>3, <1>5, <1>7, <1>9, <1>10, <1>11, LaunchKeeps
\* What a step that launches nothing does to what is loaded and to the stack.
LEMMA OtherKeeps ==
  ASSUME HInv, WaitInv', WaitStep, app' = app, stack' = stack, calls' = calls,
         grids' = grids, lib' = [lib EXCEPT !.streams = lib'.streams],
         Launching' <=> Launching,
         \A p \in Operations' \cup Pushing' :
           p \in Operations \cup Pushing \/ p.kind # "kernel",
         \A i \in DOMAIN app :
           /\ app[i].site.stream \in Created'
           /\ host'.at \in {"synchronize", "destroy"} =>
                app[i].site.stream # host'.on
  PROVE  Keeps
<1>1. LibTypes /\ LoadInv /\ StackInv
  BY DEF HInv, WaitInv
<1>2. PICK n : n = lib'.streams
  OBVIOUS
<1>3. lib' = [lib EXCEPT !.streams = n]
  BY <1>2
<1>4. /\ lib'.loads = lib.loads /\ lib'.symtab = lib.symtab
      /\ lib'.parsed = lib.parsed /\ lib'.kernels = lib.kernels
      /\ lib'.analyses = lib.analyses /\ lib'.pdom = lib.pdom
  BY <1>1, <1>3 DEF LibTypes, Libraries
<1>5. LoadInv' /\ LoadStep
  BY <1>1, <1>4 DEF LoadInv, LoadStep
<1>6. StackInv'
  BY <1>1, StackKeeps
<1> QED BY <1>5, <1>6 DEF Keeps, HInv

\* A copy, on any stream.
LEMMA CopyKeeps ==
  ASSUME HInv, NEW s \in Created, MemcpyAsync(s)
  PROVE  Keeps
<1>1. WaitInv /\ StackInv /\ LibTypes /\ HostOK /\ pushed \in Nat
  BY DEF HInv, WaitInv, StreamsOK
<1>2. PICK o : o = Operation("copy", 0, 0, {})
  OBVIOUS
<1>3. o.kind = "copy" /\ o.id = pushed + 1 /\ OpOK(o)
  BY <1>1, <1>2 DEF Operation, OpOK
<1>4. /\ IsIdle /\ Push(s, o)
      /\ lib' = lib /\ stack' = stack /\ app' = app /\ calls' = calls
      /\ grids' = grids /\ busy' = busy /\ events' = events /\ done' = done
  BY <1>2 DEF MemcpyAsync, runtimeVars
<1>5. LibTypes' /\ lib'.streams = lib.streams
  BY <1>1, <1>4 DEF LibTypes
<1>6. /\ WaitInv'
      /\ \A x \in Created : streams[x] # << >> => streams'[x] # Tail(streams[x])
      /\ host' = Idle => host = Idle
  BY <1>1, <1>3, <1>4, <1>5, PushOther
<1>7. /\ Created' = Created
      /\ Operations' \cup Pushing' = Operations \cup Pushing \cup {o}
  BY <1>1, <1>3, <1>4, <1>5, PushEffect
<1>8. ~Launching /\ ~Launching' /\ host'.at \notin {"synchronize", "destroy"}
  <2>1. host.at = "idle"
    BY <1>4 DEF IsIdle
  <2>2. host' = host \/ (host'.at = "push" /\ host'.on = o)
    BY <1>4 DEF Push, WaitIn
  <2> QED BY <2>1, <2>2, <1>3 DEF Launching
<1>9. \A i \in DOMAIN app : app[i].site.stream \in Created'
  BY <1>1, <1>7 DEF StackInv
<1>10. \A p \in Operations' \cup Pushing' :
         p \in Operations \cup Pushing \/ p.kind # "kernel"
  BY <1>3, <1>7
<1>11. WaitStep
  BY <1>6, NoWaitPassed
<1>12. lib' = [lib EXCEPT !.streams = lib'.streams]
  BY <1>1, <1>4 DEF LibTypes, Libraries
<1> QED BY <1>4, <1>6, <1>8, <1>9, <1>10, <1>11, <1>12, OtherKeeps

\* The record of an event.
LEMMA RecordKeeps ==
  ASSUME HInv, NEW e \in Events, NEW s \in Created, EventRecord(e, s)
  PROVE  Keeps
<1>1. WaitInv /\ StackInv /\ LibTypes /\ pushed \in Nat
  BY DEF HInv, WaitInv, StreamsOK
<1>2. PICK o : o = Operation("event", e, 0, {})
  OBVIOUS
<1>3. o.kind = "event" /\ o.id = pushed + 1 /\ OpOK(o)
  BY <1>1, <1>2 DEF Operation, OpOK
<1>4. /\ IsIdle /\ Push(s, o)
      /\ lib' = lib /\ stack' = stack /\ app' = app /\ calls' = calls
      /\ grids' = grids /\ busy' = busy /\ done' = done
  BY <1>2 DEF EventRecord, runtimeVars
<1>5. LibTypes' /\ lib'.streams = lib.streams
  BY <1>1, <1>4 DEF LibTypes
<1>6. /\ WaitInv'
      /\ \A x \in Created : streams[x] # << >> => streams'[x] # Tail(streams[x])
      /\ host' = Idle => host = Idle
  BY <1>1, PushRecord
<1>7. /\ Created' = Created
      /\ Operations' \cup Pushing' = Operations \cup Pushing \cup {o}
  BY <1>1, <1>3, <1>4, <1>5, PushEffect
<1>8. ~Launching /\ ~Launching' /\ host'.at \notin {"synchronize", "destroy"}
  <2>1. host.at = "idle"
    BY <1>4 DEF IsIdle
  <2>2. host' = host \/ (host'.at = "push" /\ host'.on = o)
    BY <1>4 DEF Push, WaitIn
  <2> QED BY <2>1, <2>2, <1>3 DEF Launching
<1>9. \A i \in DOMAIN app : app[i].site.stream \in Created'
  BY <1>1, <1>7 DEF StackInv
<1>10. \A p \in Operations' \cup Pushing' :
         p \in Operations \cup Pushing \/ p.kind # "kernel"
  BY <1>3, <1>7
<1>11. WaitStep
  BY <1>6, NoWaitPassed
<1>12. lib' = [lib EXCEPT !.streams = lib'.streams]
  BY <1>1, <1>4 DEF LibTypes, Libraries
<1> QED BY <1>4, <1>6, <1>8, <1>9, <1>10, <1>11, <1>12, OtherKeeps

\* A wait for an event.
LEMMA WaitEventKeeps ==
  ASSUME HInv, NEW s \in Created, NEW e \in Events, StreamWaitEvent(s, e)
  PROVE  Keeps
<1>1. WaitInv /\ StackInv /\ LibTypes /\ HostOK
  BY DEF HInv, WaitInv
<1>2. /\ IsIdle /\ host' = host
      /\ lib' = lib /\ stack' = stack /\ app' = app /\ calls' = calls
      /\ grids' = grids
  BY DEF StreamWaitEvent, runtimeVars
<1>3. DOMAIN streams' = DOMAIN streams
  BY DEF StreamWaitEvent, Created
<1>4. /\ WaitInv'
      /\ \A x \in Created : streams[x] # << >> => streams'[x] # Tail(streams[x])
      /\ \A p \in Operations' : p \in Operations \/ p.kind = "wait"
  BY <1>1, WaitKeeps
<1>5. host = Idle /\ ~Launching /\ ~Launching' /\ host'.at = "idle"
  BY <1>1, <1>2 DEF HostOK, IsIdle, Launching
<1>6. Pushing' = {}
  BY <1>5 DEF Pushing
<1>7. \A p \in Operations' \cup Pushing' :
        p \in Operations \cup Pushing \/ p.kind # "kernel"
  BY <1>4, <1>6
<1>8. \A i \in DOMAIN app : app[i].site.stream \in Created'
  BY <1>1, <1>3 DEF StackInv, Created
<1>9. WaitStep
  BY <1>4, <1>5, NoWaitPassed
<1>10. lib' = [lib EXCEPT !.streams = lib'.streams]
  BY <1>1, <1>2 DEF LibTypes, Libraries
<1> QED BY <1>2, <1>4, <1>5, <1>7, <1>8, <1>9, <1>10, OtherKeeps
\* A new stream.
LEMMA CreateKeeps ==
  ASSUME HInv, StreamCreate
  PROVE  Keeps
<1>1. WaitInv /\ StackInv /\ StreamsOK /\ HostOK /\ lib \in Libraries
  BY DEF HInv, WaitInv, LibTypes
<1>2. PICK n : n = lib.streams + 1
  OBVIOUS
<1>3. PICK ss : ss = Created \cup {n}
  OBVIOUS
<1>4. /\ IsIdle /\ lib' = [lib EXCEPT !.streams = n]
      /\ stack' = stack /\ app' = app /\ calls' = calls /\ grids' = grids
      /\ host' = host /\ busy' = busy /\ pushed' = pushed /\ done' = done
      /\ events' = events
  BY <1>2 DEF StreamCreate
<1>5. n \in Nat /\ lib'.streams = n /\ lib' \in Libraries
  <2>1. n \in Nat
    BY <1>1, <1>2 DEF Libraries
  <2> QED BY <2>1, <1>1, <1>4 DEF Libraries
<1>6. streams' = [x \in ss |-> IF x \in Created THEN streams[x] ELSE << >>]
  BY <1>3, <1>5 DEF StreamCreate
<1>7. Created' = ss
  BY <1>6 DEF Created
<1>8. Default \in ss /\ ss \subseteq 0 .. lib'.streams
  <2>1. Created \subseteq 0 .. lib.streams /\ lib.streams \in Nat /\ Default \in Created
    BY <1>1 DEF StreamsOK, Libraries
  <2>2. 0 .. lib.streams \subseteq 0 .. n /\ n \in 0 .. n
    BY <1>2, <1>5, <2>1
  <2> QED BY <1>3, <1>5, <2>1, <2>2
<1>9. host = Idle /\ host.at # "push" /\ host'.at = "idle" /\ host'.at # "push"
  BY <1>1, <1>4 DEF HostOK, IsIdle
<1>10. \A x \in Created : x \in ss
  BY <1>3
<1>11. /\ StreamsOK' /\ EventsOK' /\ WaitsOK' /\ EventTypes'
       /\ Operations' \cup Pushing' = Operations \cup Pushing
       /\ \A x \in Created : x \in ss /\ streams[x] # << >> =>
            streams'[x] # Tail(streams[x])
  BY <1>1, <1>4, <1>6, <1>7, <1>8, <1>9, <1>10, EmptyStream
<1>12. HostOK'
  <2>1. host' = Idle /\ host'.at = "idle"
    BY <1>4, <1>9
  <2> QED BY <2>1 DEF HostOK
<1>13. WaitInv'
  BY <1>5, <1>11, <1>12 DEF WaitInv, LibTypes
<1>14. WaitStep
  BY <1>7, <1>9, <1>11, NoWaitPassed DEF Created
<1>15. ~Launching /\ ~Launching'
  BY <1>4, <1>9 DEF Launching
<1>16. \A i \in DOMAIN app : app[i].site.stream \in Created'
  BY <1>1, <1>7, <1>10 DEF StackInv
<1>17. lib' = [lib EXCEPT !.streams = lib'.streams]
  BY <1>4, <1>5
<1> QED BY <1>4, <1>9, <1>11, <1>13, <1>14, <1>15, <1>16, <1>17, OtherKeeps

\* A stream is gone.
LEMMA DestroyedKeeps ==
  ASSUME HInv, StreamDestroyed
  PROVE  Keeps
<1>1. WaitInv /\ StackInv /\ StreamsOK /\ HostOK /\ lib \in Libraries
  BY DEF HInv, WaitInv, LibTypes
<1>2. PICK g : g = host.on
  OBVIOUS
<1>3. PICK ss : ss = Created \ {g}
  OBVIOUS
<1>4. /\ host.at = "destroy" /\ Drained({g}) /\ host' = Idle
      /\ lib' = lib /\ stack' = stack /\ app' = app /\ calls' = calls
      /\ grids' = grids /\ busy' = busy /\ pushed' = pushed /\ done' = done
      /\ events' = events
      /\ streams' = [x \in ss |-> streams[x]]
  BY <1>2, <1>3 DEF StreamDestroyed, runtimeVars
<1>5. g \in Created /\ g # Default /\ host.covers \subseteq done \cup InFlight({g})
  BY <1>1, <1>2, <1>4 DEF HostOK
<1>6. /\ streams' = [x \in ss |-> IF x \in Created THEN streams[x] ELSE << >>]
      /\ Created' = ss
  BY <1>3, <1>4 DEF Created
<1>7. Default \in ss /\ ss \subseteq 0 .. lib'.streams
  BY <1>1, <1>3, <1>4, <1>5 DEF StreamsOK
<1>8. host.at # "push" /\ host'.at = "idle" /\ host'.at # "push"
  BY <1>4 DEF Idle
<1>9. \A x \in Created : x \in ss \/ (x = g /\ streams[x] = << >>)
  BY <1>3, <1>4 DEF Drained
<1>10. /\ StreamsOK' /\ EventsOK' /\ WaitsOK' /\ EventTypes'
       /\ Operations' \cup Pushing' = Operations \cup Pushing
       /\ \A x \in Created : x \in ss /\ streams[x] # << >> =>
            streams'[x] # Tail(streams[x])
  <2>1. /\ WaitInv /\ Created' = ss
        /\ streams' = [x \in ss |-> IF x \in Created THEN streams[x] ELSE << >>]
        /\ busy' = busy /\ pushed' = pushed /\ done' = done /\ events' = events
    BY <1>1, <1>4, <1>6
  <2> QED BY <2>1, <1>7, <1>8, <1>9, EmptyStream
<1>11. HostOK'
  BY <1>4, <1>8 DEF HostOK
<1>12. WaitInv'
  BY <1>1, <1>4, <1>10, <1>11 DEF WaitInv, LibTypes
<1>13. WaitStep
  <2>1. host.covers \subseteq done
    BY <1>4, <1>5, InFlightIn
  <2> QED BY <2>1, <1>6, <1>10, NoWaitPassed DEF Created
<1>14. ~Launching /\ ~Launching'
  BY <1>4, <1>8 DEF Launching
<1>15. \A i \in DOMAIN app : app[i].site.stream \in Created'
  <2>1. \A i \in DOMAIN app : app[i].site.stream \in Created /\ app[i].site.stream # g
    BY <1>1, <1>2, <1>4 DEF StackInv
  <2> QED BY <2>1, <1>3, <1>6
<1>16. lib' = [lib EXCEPT !.streams = lib'.streams]
  BY <1>1, <1>4 DEF Libraries
<1> QED BY <1>4, <1>8, <1>10, <1>12, <1>13, <1>14, <1>15, <1>16, OtherKeeps
\* The simulation thread completes an operation.
LEMMA CompleteKeeps ==
  ASSUME HInv, NEW s \in Created,
         RunCopy(s) \/ UpdateEvent(s) \/ PassWait(s) \/ FinishKernel(s)
  PROVE  Keeps
<1>1. /\ WaitInv /\ StackInv /\ StreamsOK /\ HostOK /\ EventTypes /\ EventsOK
      /\ WaitsOK /\ LibTypes
  BY DEF HInv, WaitInv
<1>2. PICK h : h = Head(streams[s])
  OBVIOUS
<1>3. /\ Take(s) /\ host' = host /\ pushed' = pushed
      /\ lib' = lib /\ stack' = stack /\ app' = app /\ calls' = calls
      /\ grids' = grids
  BY DEF RunCopy, UpdateEvent, PassWait, FinishKernel, runtimeVars
<1>4. /\ streams[s] # << >> /\ busy' \subseteq busy /\ s \notin busy'
      /\ \/ h.kind # "event" /\ events' = events
         \/ /\ h.kind = "event"
            /\ events' = [events EXCEPT ![h.event].updates = @ + 1]
      /\ h.kind = "wait" => PassWait(s)
  <2>1. CASE FinishKernel(s)
    <3>1. s \in busy /\ busy' = busy \ {s} /\ events' = events
      BY <2>1 DEF FinishKernel
    <3>2. streams[s] # << >> /\ h.kind = "kernel"
      BY <3>1, <1>1, <1>2 DEF StreamsOK
    <3> QED BY <3>1, <3>2
  <2>2. CASE RunCopy(s)
    BY <2>2, <1>2 DEF RunCopy, Waits
  <2>3. CASE UpdateEvent(s)
    BY <2>3, <1>2 DEF UpdateEvent, Waits
  <2>4. CASE PassWait(s)
    BY <2>4, <1>2 DEF PassWait, Waits
  <2> QED BY <2>1, <2>2, <2>3, <2>4
<1>5. /\ WaitInv'
      /\ \A x \in Created : streams[x] # << >> /\ streams'[x] = Tail(streams[x])
                              => x = s
      /\ Operations' \subseteq Operations
  BY <1>1, <1>2, <1>3, <1>4, TakeKeeps
<1>6. DOMAIN streams' = DOMAIN streams
  BY <1>3 DEF Take
<1>7. WaitStep
  <2>1. host' = Idle => host.covers \subseteq done
    BY <1>3 DEF Idle
  <2>2. h \in Operations
    BY <1>1, <1>2, <1>4, TailQueue DEF Operations, StreamsOK
  <2>3. ASSUME h.kind = "wait", h.count = events[h.event].issued
        PROVE  h.covers \subseteq done
    <3>1. PICK e : e = h.event
      OBVIOUS
    <3>2. e \in Events /\ h.count \in Nat
      BY <1>1, <2>2, <2>3, <3>1 DEF Operations, StreamsOK, OpOK, Of
    <3>3. events[e].updates >= h.count
      BY <1>2, <1>4, <2>3, <3>1 DEF PassWait
    <3>4. h.covers \subseteq events[e].covers
      BY <1>1, <2>2, <2>3, <3>1 DEF WaitsOK
    <3>5. events[e].updates = events[e].issued
      <4>1. PICK i, u, n : /\ i = events[e].issued /\ u = events[e].updates
                           /\ n = Cardinality(Records(e))
        OBVIOUS
      <4>2. i = u + n /\ n \in Nat
        BY <1>1, <3>2, <4>1, FS_CardinalityType DEF EventsOK, CountsRecords
      <4>3. i \in Nat /\ u \in Nat
        BY <1>1, <3>2, <4>1 DEF EventTypes
      <4>4. u >= i
        BY <2>3, <3>1, <3>3, <4>1
      <4> QED BY <4>1, <4>2, <4>3, <4>4
    <3> QED BY <1>1, <3>2, <3>4, <3>5, AllRecordsDone
  <2> QED BY <1>2, <1>5, <2>1, <2>3 DEF WaitStep
<1>8. Launching' <=> Launching
  BY <1>3 DEF Launching
<1>9. \A p \in Operations' \cup Pushing' :
        p \in Operations \cup Pushing \/ p.kind # "kernel"
  BY <1>3, <1>5 DEF Pushing
<1>10. \A i \in DOMAIN app :
         /\ app[i].site.stream \in Created'
         /\ host'.at \in {"synchronize", "destroy"} =>
              app[i].site.stream # host'.on
  BY <1>1, <1>3, <1>6 DEF StackInv, Created
<1>11. lib' = [lib EXCEPT !.streams = lib'.streams]
  BY <1>1, <1>3 DEF LibTypes, Libraries
<1> QED BY <1>3, <1>5, <1>7, <1>8, <1>9, <1>10, <1>11, OtherKeeps

\* A kernel starts.
LEMMA StartKeeps ==
  ASSUME HInv, NEW s \in Created, StartKernel(s)
  PROVE  Keeps
<1>1. /\ WaitInv /\ StackInv /\ StreamsOK /\ HostOK /\ EventTypes /\ EventsOK
      /\ WaitsOK /\ LibTypes
  BY DEF HInv, WaitInv
<1>2. /\ streams[s] # << >> /\ Head(streams[s]).kind = "kernel"
      /\ busy' = busy \cup {s} /\ host' = host
      /\ streams' = streams /\ events' = events /\ pushed' = pushed /\ done' = done
      /\ lib' = lib /\ stack' = stack /\ app' = app /\ calls' = calls
      /\ grids' = grids
  BY DEF StartKernel, Waits, runtimeVars
<1>3. /\ Created' = Created /\ Operations' = Operations /\ Pushing' = Pushing
      /\ \A ss : InFlight(ss)' = InFlight(ss)
  BY <1>2 DEF Created, Operations, Pushing, InFlight
<1>4. EventTypes' /\ LibTypes'
  BY <1>1, <1>2 DEF EventTypes, LibTypes
<1>5. EventsOK' /\ WaitsOK'
  BY <1>1, <1>2, <1>4, QuietEvents
<1>6. StreamsOK'
  <2>1. /\ pushed' \in Nat
        /\ streams' = [x \in Created' |-> streams'[x]]
        /\ Default \in Created' /\ Created' \subseteq 0 .. lib'.streams
        /\ \A x \in Created' : IsQueue(streams'[x])
    BY <1>1, <1>2, <1>3 DEF StreamsOK
  <2>2. \A x \in Created' : \A p \in ToSet(streams'[x]) :
          OpOK(p) /\ p.id <= pushed'
    BY <1>1, <1>2, <1>3 DEF StreamsOK, Of
  <2>3. \A x, y \in Created' : \A p \in ToSet(streams'[x]), q \in ToSet(streams'[y]) :
          x # y /\ p.kind = "event" /\ q.kind = "event" => p.id # q.id
    BY <1>1, <1>2, <1>3 DEF StreamsOK, Of
  <2>4. \A x \in busy' : /\ x \in Created' /\ streams'[x] # << >>
                         /\ Head(streams'[x]).kind = "kernel"
    BY <1>1, <1>2, <1>3 DEF StreamsOK
  <2> QED BY <2>1, <2>2, <2>3, <2>4, StreamsAfter
<1>7. HostOK'
  BY <1>1, <1>2, <1>3 DEF HostOK, Of
<1>8. WaitInv'
  BY <1>4, <1>5, <1>6, <1>7 DEF WaitInv
<1>9. WaitStep
  <2>1. \A x \in Created : streams[x] # << >> => streams'[x] # Tail(streams[x])
    BY <1>1, <1>2, TailQueue DEF StreamsOK
  <2> QED BY <2>1, <1>2, NoWaitPassed
<1>10. Launching' <=> Launching
  BY <1>2 DEF Launching
<1>11. \A i \in DOMAIN app :
         /\ app[i].site.stream \in Created'
         /\ host'.at \in {"synchronize", "destroy"} =>
              app[i].site.stream # host'.on
  BY <1>1, <1>2, <1>3 DEF StackInv
<1>12. lib' = [lib EXCEPT !.streams = lib'.streams]
  BY <1>1, <1>2 DEF LibTypes, Libraries
<1>13. \A p \in Operations' \cup Pushing' :
         p \in Operations \cup Pushing \/ p.kind # "kernel"
  BY <1>3
<1> QED BY <1>2, <1>8, <1>9, <1>10, <1>11, <1>12, <1>13, OtherKeeps
\* A service of the simulation thread or the end of a wait.
LEMMA ServiceKeeps ==
  ASSUME HInv, Service
  PROVE  Keeps
<1>1. CASE EnterDefaultStream
  BY <1>1, EnterStepKeeps
<1>2. CASE LeaveDefaultStream
  BY <1>2, LeaveKeeps
<1>3. CASE DestroyStream \/ Synchronized \/ EventDetected
  BY <1>3, WaitsKeep
<1>4. CASE StreamDestroyed
  BY <1>4, DestroyedKeeps
<1>5. CASE \E s \in Created : Device(s)
  <2>1. PICK s \in Created : Device(s)
    BY <1>5
  <2>2. CASE StartKernel(s)
    BY <2>2, StartKeeps
  <2>3. CASE RunCopy(s) \/ UpdateEvent(s) \/ PassWait(s) \/ FinishKernel(s)
    BY <2>3, CompleteKeeps
  <2> QED BY <2>1, <2>2, <2>3 DEF Device
<1> QED BY <1>1, <1>2, <1>3, <1>4, <1>5 DEF Service, HostWaits

\* A call of the application.
LEMMA CallsKeep ==
  ASSUME HInv, HostCalls
  PROVE  Keeps
<1>1. Default \in Created
  BY DEF HInv, WaitInv, StreamsOK
<1>2. CASE RegisterFatBinary
  BY <1>2, FatBinaryKeeps
<1>3. CASE \E f \in Functions : RegisterFunction(f)
  BY <1>3, FunctionKeeps
<1>4. CASE \E b \in Binaries : RegisterVar(b)
  BY <1>4, VarKeeps
<1>5. CASE \E site \in Sites : PushCallConfiguration(site) \/ CuLaunchKernel(site)
  BY <1>5, CallKeeps, CuLaunchKernelKeeps
<1>6. CASE LaunchKernel
  BY <1>6, LaunchKernelKeeps
<1>7. CASE \/ \E s \in Created : MemcpyAsync(s)
           \/ Memcpy \/ MemcpySymbol
  BY <1>1, <1>7, CopyKeeps DEF Memcpy, MemcpySymbol
<1>8. CASE \/ \E s \in Created : StreamDestroy(s) \/ StreamSynchronize(s)
           \/ DeviceSynchronize
           \/ \E e \in Events : EventSynchronize(e)
           \/ \E e \in Events : EventCreate(e) \/ EventDestroy(e)
  BY <1>8, WaitsKeep
<1>9. CASE StreamCreate
  BY <1>9, CreateKeeps
<1>10. CASE \E e \in Events, s \in Created : EventRecord(e, s)
  BY <1>10, RecordKeeps
<1>11. CASE \E e \in Events, s \in Created : StreamWaitEvent(s, e)
  BY <1>11, WaitEventKeeps
<1>12. \/ RegisterFatBinary
       \/ \E f \in Functions : RegisterFunction(f)
       \/ \E b \in Binaries : RegisterVar(b)
       \/ \E site \in Sites : PushCallConfiguration(site) \/ CuLaunchKernel(site)
       \/ LaunchKernel
       \/ \/ \E s \in Created : MemcpyAsync(s)
          \/ Memcpy \/ MemcpySymbol
       \/ \/ \E s \in Created : StreamDestroy(s) \/ StreamSynchronize(s)
          \/ DeviceSynchronize
          \/ \E e \in Events : EventSynchronize(e)
          \/ \E e \in Events : EventCreate(e) \/ EventDestroy(e)
       \/ StreamCreate
       \/ \E e \in Events, s \in Created : EventRecord(e, s)
       \/ \E e \in Events, s \in Created : StreamWaitEvent(s, e)
  BY Zenon DEF HostCalls
<1> QED BY <1>2, <1>3, <1>4, <1>5, <1>6, <1>7, <1>8, <1>9, <1>10, <1>11, <1>12

\* Nothing happens.
LEMMA StutterKeeps ==
  ASSUME HInv, UNCHANGED vars
  PROVE  Keeps
<1>1. /\ UNCHANGED <<runtimeVars, streams, busy, pushed, done>>
      /\ host' = host /\ events' = events
  BY DEF vars, deviceVars
<1>2. EventTypes'
  BY <1>1 DEF HInv, WaitInv, EventTypes
<1>3. \A i \in DOMAIN app : host'.at \in {"synchronize", "destroy"} =>
        app[i].site.stream # host'.on
  BY <1>1 DEF HInv, StackInv
<1> QED BY <1>1, <1>2, <1>3, HostKeeps

\* At the start nothing is registered, made or open.
LEMMA HostInit == Init => HInv
<1> SUFFICES ASSUME Init
             PROVE  HInv
  OBVIOUS
<1>1. /\ lib = [handles |-> 0, parsed |-> {}, symtab |-> FALSE, loads |-> 0,
                kernels |-> {}, pdom |-> {}, analyses |-> 0, streams |-> 0]
      /\ stack = << >> /\ app = << >> /\ calls = 0 /\ grids = 0
      /\ host.at = "idle" /\ host = Idle
      /\ streams = [s \in {Default} |-> << >>] /\ busy = {}
      /\ events = [e \in Events |-> [state |-> "none", issued |-> 0, updates |-> 0,
                                     covers |-> {}]]
      /\ pushed = 0 /\ done = {}
  BY DEF Init, Idle
<1>2. LibTypes /\ EventTypes
  BY <1>1 DEF LibTypes, Libraries, EventTypes
<1>3. Created = {Default} /\ \A s \in Created : streams[s] = << >> /\ Of(s) = {}
  BY <1>1, NoOperations DEF Created, Of
<1>4. Operations = {} /\ Pushing = {}
  BY <1>1, <1>3 DEF Operations, Pushing, Of
<1>5. StreamsOK
  BY <1>1, <1>3, NoOperations DEF StreamsOK, Default
<1>6. HostOK
  BY <1>1 DEF HostOK
<1>7. EventsOK
  <2>1. \A e \in Events : Records(e) = {}
    BY <1>4 DEF Records
  <2>2. \A e \in Events : /\ events[e].issued = 0 /\ events[e].updates = 0
                          /\ events[e].covers = {}
    BY <1>1
  <2> QED BY <2>1, <2>2, FS_EmptySet DEF EventsOK, CountsRecords
<1>8. WaitsOK
  BY <1>4 DEF WaitsOK
<1>9. LoadInv
  BY <1>1, FS_EmptySet DEF LoadInv
<1>10. StackInv
  <2>1. Opened(app) = << >> /\ app \in Seq(Frames)
    <3>1. app = << >> /\ app \in Seq(Frames)
      BY <1>1
    <3> QED BY <3>1, OpenedCalls
  <2> QED BY <2>1, <1>1, <1>4 DEF StackInv, Launching
<1> QED BY <1>2, <1>5, <1>6, <1>7, <1>8, <1>9, <1>10 DEF HInv, WaitInv

\* Every step keeps the invariant and does what is asked of it.
LEMMA NextKeeps == HInv /\ [Next]_vars => Keeps
BY ServiceKeeps, CallsKeep, StutterKeeps DEF Next

-----------------------------------------------------------------------------
(* The theorems.                                                           *)

\* The invariant behind them: what the host waits for is done or where it looks
\* for it, an event has as many completions as records less those in flight,
\* an operation an event covers is ahead of one of its records, the launch
\* stack has the open calls, and every kernel its own configuration.
THEOREM HostInvariant == Spec => []HInv
<1>1. Init => HInv
  BY HostInit
<1>2. HInv /\ [Next]_vars => HInv'
  BY NextKeeps DEF Keeps
<1> QED BY <1>1, <1>2, PTL DEF Spec

\* A kernel runs with the configuration, the stream and the arguments of its
\* own call, however calls nest in the arguments of calls and however many are
\* refused or skipped (g_cuda_launch_stack in cudaLaunchInternal,
\* function_info::finalize).
THEOREM OwnConfiguration == Spec => []LaunchesOwnConfiguration
<1>1. HInv => LaunchesOwnConfiguration
  <2> SUFFICES ASSUME HInv
               PROVE  LaunchesOwnConfiguration
    OBVIOUS
  <2>1. StackInv
    BY DEF HInv
  <2>2. \A o \in {o \in Operations : o.kind = "kernel"} :
          /\ HasArgumentsOf(o.params, o.frame.site.fn, o.frame.call)
          /\ o.config.call = o.frame.call
          /\ o.config.grid = o.frame.site.grid
          /\ o.config.stream = o.frame.site.stream
    BY <2>1 DEF StackInv, RunsOwn
  <2>3. ASSUME IsIdle
        PROVE  /\ Len(stack) = Len(app)
               /\ \A i \in DOMAIN app : stack[i].call = app[i].call
    <3>1. stack = Opened(app) /\ app \in Seq(Frames)
      BY <2>1, <2>3 DEF StackInv, Launching, IsIdle
    <3>2. \A i \in DOMAIN app : stack[i].call = app[i].call
      BY <3>1 DEF Opened, ConfigOf
    <3> QED BY <3>1, <3>2, OpenedCalls
  <2> QED BY <2>2, <2>3 DEF LaunchesOwnConfiguration
<1> QED BY <1>1, HostInvariant, PTL

\* A call that waits returns when all that it has to see completed is done, and
\* a stream passes a wait for an event when all that the event covers is done,
\* if the event was not recorded again since: for every number of streams,
\* whatever order they are served in (CUevent_st::issue and update,
\* cudaStreamWaitEvent, cudaEventSynchronize, cudaDeviceSynchronize).
THEOREM WaitsCoverAll == Spec => WaitsForAll
<1>1. HInv /\ [Next]_vars =>
        [/\ host' = Idle => host.covers \subseteq done
         /\ \A s \in Created \cap DOMAIN streams' :
              LET o == Head(streams[s])
              IN (streams[s] # << >> /\ streams'[s] = Tail(streams[s])
                    /\ o.kind = "wait" /\ o.count = events[o.event].issued)
                 => o.covers \subseteq done]_vars
  BY NextKeeps DEF Keeps, WaitStep
<1> QED BY <1>1, HostInvariant, PTL DEF Spec, WaitsForAll

\* The initial values of the globals are written before the first kernel runs
\* and never again, and a function is analysed once, in whatever order the
\* binaries, their variables and their functions are registered
\* (cuobjdumpParseBinary, is_pdom_set).
THEOREM GlobalsLoadedOnce == Spec => LoadedOnce
<1>1. HInv /\ [Next]_vars =>
        [/\ lib'.loads # lib.loads => grids = 0 /\ lib.loads = 0
         /\ lib'.analyses <= Cardinality(Functions)]_vars
  <2> SUFFICES ASSUME HInv, [Next]_vars
               PROVE  /\ lib'.loads # lib.loads => grids = 0 /\ lib.loads = 0
                      /\ lib'.analyses <= Cardinality(Functions)
    OBVIOUS
  <2>1. HInv' /\ LoadStep
    BY NextKeeps DEF Keeps
  <2>2. lib'.pdom \subseteq Functions /\ lib'.analyses = Cardinality(lib'.pdom)
    BY <2>1 DEF HInv, WaitInv, LibTypes, Libraries, LoadInv
  <2>3. Cardinality(lib'.pdom) <= Cardinality(Functions)
    BY <2>2, FS_Subset, HostAssumption
  <2> QED BY <2>1, <2>2, <2>3 DEF LoadStep
<1> QED BY <1>1, HostInvariant, PTL DEF Spec, LoadedOnce
=============================================================================
