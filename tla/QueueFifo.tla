----------------------------- MODULE QueueFifo -----------------------------
(***************************************************************************)
(* What a warp queue promises to the kernel: per key a bounded FIFO whose  *)
(* items may become ready in any order but are taken in the order they     *)
(* were put, and only once they are ready. Nothing is ever dropped: there  *)
(* is no action that removes an item other than Take.                      *)
(***************************************************************************)
EXTENDS Naturals, Sequences

CONSTANTS Keys,      \* one FIFO per key
          Values,    \* what the lanes carry
          Capacity   \* items a FIFO holds

VARIABLE buf         \* buf[k] is a sequence of items [value, ready]

Items == [value : Values, ready : BOOLEAN]

Init == buf = [k \in Keys |-> <<>>]

\* A producer load enters at the tail, at once ready if no response is due.
Put(k, item) ==
  /\ Len(buf[k]) < Capacity
  /\ buf' = [buf EXCEPT ![k] = Append(@, item)]

\* The last response of some load arrives, not necessarily the oldest.
MakeReady(k, i) ==
  /\ ~buf[k][i].ready
  /\ buf' = [buf EXCEPT ![k][i].ready = TRUE]

\* The consumer takes the head.
Take(k) ==
  /\ buf[k] # <<>>
  /\ Head(buf[k]).ready
  /\ buf' = [buf EXCEPT ![k] = Tail(@)]

Next ==
  \E k \in Keys :
    \/ \E item \in Items : Put(k, item)
    \/ \E i \in 1 .. Len(buf[k]) : MakeReady(k, i)
    \/ Take(k)

Spec == Init /\ [][Next]_buf
=============================================================================
