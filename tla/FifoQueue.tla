------------------------------ MODULE FifoQueue ------------------------------
(***************************************************************************)
(* What thread_queue_c promises its clients: a FIFO queue on which every   *)
(* push and every pop is atomic.  A thread makes a request, the request    *)
(* takes effect in one step, and then its reply is returned.               *)
(***************************************************************************)
EXTENDS Integers, Sequences

CONSTANTS Thread, Item

VARIABLES
  queue,    \* the items, oldest first
  request,  \* request[t]: what thread t has asked for
  done,     \* the threads whose request has taken effect
  reply     \* reply[t]: the items that a pop of t has got

vars == <<queue, request, done, reply>>

Push(items) == [kind |-> "push", items |-> items, count |-> 0]
Pop(n)      == [kind |-> "pop", items |-> <<>>, count |-> n]
PopAll      == [kind |-> "pop_all", items |-> <<>>, count |-> 0]
Nothing     == [kind |-> "none", items |-> <<>>, count |-> 0]

\* The requests of the queue; Item may be infinite, so they are recognised
\* rather than enumerated.
IsRequest(r) ==
  \/ r.items \in Seq(Item) /\ r = Push(r.items)
  \/ r.count \in Nat /\ r = Pop(r.count)
  \/ r = PopAll

Init ==
  /\ queue = <<>> /\ done = {}
  /\ request = [t \in Thread |-> Nothing]
  /\ reply = [t \in Thread |-> <<>>]

Ask(t) ==
  /\ request[t] = Nothing
  /\ request' = [request EXCEPT ![t] = request'[t]] /\ IsRequest(request'[t])
  /\ UNCHANGED <<queue, done, reply>>

\* How many items the pop of thread t gets: what it asked for, or less if
\* there are not so many.
Share(t) ==
  IF request[t].kind = "pop" /\ request[t].count < Len(queue)
  THEN request[t].count ELSE Len(queue)

TakeEffect(t) ==
  /\ request[t] # Nothing /\ t \notin done
  /\ done' = done \cup {t}
  /\ IF request[t].kind = "push"
     THEN /\ queue' = queue \o request[t].items
          /\ UNCHANGED reply
     ELSE /\ reply' = [reply EXCEPT ![t] = SubSeq(queue, 1, Share(t))]
          /\ queue' = SubSeq(queue, Share(t) + 1, Len(queue))
  /\ UNCHANGED request

Answer(t) ==
  /\ t \in done
  /\ done' = done \ {t}
  /\ request' = [request EXCEPT ![t] = Nothing]
  /\ reply' = [reply EXCEPT ![t] = <<>>]
  /\ UNCHANGED queue

Next == \E t \in Thread : Ask(t) \/ TakeEffect(t) \/ Answer(t)

Spec == Init /\ [][Next]_vars
=============================================================================
