-------------------------- MODULE ThreadQueueProofs --------------------------
(***************************************************************************)
(* Proofs about ThreadQueue for any threads, clients and bounds.           *)
(***************************************************************************)
EXTENDS ThreadQueue, SequenceLemmas, TLAPS

\* Concatenation of items is associative.
LEMMA Regroup ==
  \A a, b, c \in Seq(Item) : (a \o b) \o c = a \o (b \o c)
<1>. TAKE a \in Seq(Item), b \in Seq(Item), c \in Seq(Item)
<1>. QED  BY ConcatAssociative

-----------------------------------------------------------------------------
(* The inductive invariant.                                                *)

\* The steps of a call at which it owns the mutex.
Holds(t) ==
  \/ pc[t] \in {"put", "count", "take", "uncount", "unlock", "test", "sleep"}
  \/ pc[t] = "notify" /\ call[t].op \in PopOp

\* Exactly the owner of the mutex is at such a step, each step belongs to the
\* functions that have it, and only sleepers are enlisted.
Control ==
  /\ \A t \in Thread : Holds(t) <=> lock = t
  /\ \A t \in Thread :
       /\ pc[t] \in {"put", "count"} => call[t].op \in PushOp
       /\ pc[t] \in {"take", "uncount"} => call[t].op \in PopOp
       /\ pc[t] \in {"begin", "lock"} => call[t].op # "notify"
       /\ pc[t] = "test" => StopWaiter(t)
       /\ pc[t] \in {"sleep", "asleep"} => call[t].op \in WaitOp
       /\ pc[t] = "idle" <=> call[t].op = "none"
       /\ pc[t] \notin {"uncount", "notify", "unlock", "return"} => taken[t] = <<>>
       /\ taken[t] # <<>> => call[t].op \in PopOp
       /\ t \in waiters => pc[t] = "asleep"

\* How many items a pop is to get, of those that are counted.
Due(t) ==
  IF call[t].op \in {"pop_all", "pop_all_as"} \/ call[t].count > item_count_
  THEN item_count_ ELSE call[t].count

\* The container, the count and the histories, in the middle of a push or of a
\* pop too.
Data ==
  /\ \A t \in Thread : pc[t] = "count" =>
       /\ Len(data_items_) = item_count_ + Len(call[t].items)
       /\ data_items_ = SubSeq(data_items_, 1, item_count_) \o call[t].items
       /\ SubSeq(data_items_, 1, item_count_) \in Seq(Item)
       /\ arrived = served \o SubSeq(data_items_, 1, item_count_)
  /\ \A t \in Thread : pc[t] = "uncount" =>
       /\ item_count_ = Len(taken[t]) + Len(data_items_) /\ Len(taken[t]) = Due(t)
       /\ Swaps(t) => data_items_ = <<>>
       /\ arrived = served \o (taken[t] \o data_items_)
  /\ (\A t \in Thread : pc[t] \notin {"count", "uncount"}) =>
       /\ item_count_ = Len(data_items_)
       /\ arrived = served \o data_items_

\* Once a call has taken the lock with stop set, or one such call has notified
\* all, no stop-waiter is between its test and its sleep.
Heard ==
  /\ sawStop # {} \/ informed => stop
  /\ sawStop # {} \/ informed =>
       \A t \in Thread : StopWaiter(t) => pc[t] # "sleep"
  /\ informed => \A t \in Thread : StopWaiter(t) => t \notin waiters

IInv == TypeOK /\ Control /\ Data /\ Heard

\* The items of a push have the type of items.
LEMMA BatchType == TypeOK => \A n \in Nat : Batch(n) \in Seq(Item)
BY DEF TypeOK, Batch, Item

\* A pop takes no more items than the container holds.
LEMMA AmountType ==
  ASSUME TypeOK, NEW t \in Thread, Len(data_items_) = item_count_
  PROVE  Amount(t) \in 0..Len(data_items_)
BY LenProperties DEF TypeOK, Amount, Swaps

\* A thread that owns the mutex is alone in a critical section.
LEMMA Alone ==
  ASSUME Control, NEW t \in Thread, Holds(t)
  PROVE  /\ lock = t
         /\ \A u \in Thread \ {t} : ~Holds(u)
         /\ \A u \in Thread \ {t} : pc[u] \notin {"count", "uncount"}
BY DEF Control, Holds

\* Entering a member function keeps the types.
LEMMA CallTypeOK == TypeOK /\ (\E t \in Thread : Call(t)) => TypeOK'
<1>. SUFFICES ASSUME TypeOK, NEW t \in Thread, Call(t)  PROVE TypeOK'
  OBVIOUS
<1>. USE ThreadQueueAssumption
<1>0. calls' \in Nat
  BY DEF TypeOK, Call
<1>. DEFINE R == [op : Op \cup {"none"}, items : Seq(Item), count : Nat,
                  flag : Flag, timed : BOOLEAN]
<1>1. ASSUME NEW c \in R, NEW label \in Label, Invoke(t, c, label)  PROVE TypeOK'
  BY <1>0, <1>1 DEF TypeOK, Call, Invoke, Goto, shared, ghost
<1>2. CASE CallPush(t)
  <2>1. PICK op \in PushOp \cap Client[t], n \in 0..MaxBatch, flag \in Flags :
          Invoke(t, Function(op, Batch(n), 0, flag, FALSE),
                 IF op = "push_one" THEN "lock" ELSE "begin")
    BY <1>2 DEF CallPush
  <2>2. Batch(n) \in Seq(Item)
    BY BatchType
  <2>3. Function(op, Batch(n), 0, flag, FALSE) \in R
    BY <2>2 DEF Function, Op, PushOp, Flag
  <2>. QED  BY <1>1, <2>1, <2>3 DEF Label
<1>3. CASE CallPop(t)
  <2>1. PICK op \in PopOp \cap Client[t], n \in 0..MaxBatch, flag \in Flags :
          Invoke(t, Function(op, <<>>, n, flag, FALSE), "begin")
    BY <1>3 DEF CallPop
  <2>2. Function(op, <<>>, n, flag, FALSE) \in R
    BY EmptySeq DEF Function, Op, PopOp, Flag
  <2>. QED  BY <1>1, <2>1, <2>2 DEF Label
<1>4. CASE CallWait(t)
  <2>1. PICK op \in WaitOp \cap Client[t], timed \in BOOLEAN :
          Invoke(t, Function(op, <<>>, 0, "NOTIFY_NONE", timed), "lock")
    BY <1>4 DEF CallWait
  <2>2. Function(op, <<>>, 0, "NOTIFY_NONE", timed) \in R
    BY EmptySeq DEF Function, Op, WaitOp, Flag
  <2>. QED  BY <1>1, <2>1, <2>2 DEF Label
<1>5. CASE CallNotify(t)
  <2>1. PICK op \in {"notify"} \cap Client[t], flag \in Flags :
          Invoke(t, Function(op, <<>>, 0, flag, FALSE), "notify")
    BY <1>5 DEF CallNotify
  <2>2. Function(op, <<>>, 0, flag, FALSE) \in R
    BY EmptySeq DEF Function, Op, Flag
  <2>. QED  BY <1>1, <2>1, <2>2 DEF Label
<1>. QED  BY <1>2, <1>3, <1>4, <1>5 DEF Call

\* A step of a member function keeps the types; the one that matters is
\* Uncount, which needs Data to show that the count does not wrap.
LEMMA StepTypeOK ==
  ASSUME IInv, NEW t \in Thread, Step(t)
  PROVE  TypeOK'
<1>. USE DEF Goto, shared, client, ghost, Label
<1>1. CASE Begin(t)
  BY <1>1 DEF IInv, TypeOK, Begin
<1>2. CASE Acquire(t)
  BY <1>2 DEF IInv, TypeOK, Acquire, Locked
<1>3. CASE Put(t)
  <2>1. data_items_ \o call[t].items \in Seq(Item) /\ call[t].items \in Seq(Item)
    BY ConcatProperties DEF IInv, TypeOK
  <2>. QED  BY <1>3, <2>1 DEF IInv, TypeOK, Put
<1>4. CASE Count(t)
  <2>1. arrived \o call[t].items \in Seq(Item) /\ Len(call[t].items) \in Nat
    BY ConcatProperties, LenProperties DEF IInv, TypeOK
  <2>. QED  BY <1>4, <2>1 DEF IInv, TypeOK, Count
<1>5. CASE Take(t)
  <2>1. Len(data_items_) = item_count_
    BY <1>5, Alone DEF IInv, Data, Take, Holds
  <2>2. Amount(t) \in 0..Len(data_items_)
    BY <2>1, AmountType DEF IInv
  <2>3. /\ SubSeq(data_items_, 1, Amount(t)) \in Seq(Item)
        /\ SubSeq(data_items_, Amount(t) + 1, Len(data_items_)) \in Seq(Item)
    BY <2>2, SubSeqType DEF IInv, TypeOK
  <2>. QED  BY <1>5, <2>3 DEF IInv, TypeOK, Take
<1>6. CASE Uncount(t)
  <2>1. served \o taken[t] \in Seq(Item) /\ Len(taken[t]) \in Nat
    BY ConcatProperties, LenProperties DEF IInv, TypeOK
  <2>2. item_count_ = Len(taken[t]) + Len(data_items_) /\ Len(data_items_) \in Nat
    BY <1>6, LenProperties DEF IInv, TypeOK, Data, Uncount
  <2>. QED  BY <1>6, <2>1, <2>2 DEF IInv, TypeOK, Uncount
<1>7. CASE Notify(t)
  BY <1>7 DEF IInv, TypeOK, Notify, Wake
<1>8. CASE Unlock(t)
  BY <1>8 DEF IInv, TypeOK, Unlock
<1>9. CASE Test(t)
  BY <1>9 DEF IInv, TypeOK, Test
<1>10. CASE Sleep(t)
  BY <1>10 DEF IInv, TypeOK, Sleep
<1>11. CASE Reacquire(t)
  BY <1>11 DEF IInv, TypeOK, Reacquire
<1>12. CASE Return(t)
  BY <1>12, EmptySeq DEF IInv, TypeOK, Return, NoCall, Function, Flag
<1>. QED
  BY <1>1, <1>2, <1>3, <1>4, <1>5, <1>6, <1>7, <1>8, <1>9, <1>10, <1>11, <1>12
     DEF Step

\* Every step keeps the types.
LEMMA NextTypeOK == IInv /\ [Next]_vars => TypeOK'
<1>1. ASSUME IInv, NEW t \in Thread, Expire(t)  PROVE TypeOK'
  BY <1>1 DEF IInv, TypeOK, Expire, client, ghost
<1>2. ASSUME IInv, NEW t \in Thread, SpuriousWake(t)  PROVE TypeOK'
  BY <1>2 DEF IInv, TypeOK, SpuriousWake, local, ghost
<1>3. ASSUME IInv, RequireStop  PROVE TypeOK'
  BY <1>3 DEF IInv, TypeOK, RequireStop, shared, local, ghost
<1>4. ASSUME IInv, UNCHANGED vars  PROVE TypeOK'
  BY <1>4 DEF IInv, TypeOK, vars, shared, local, client, ghost
<1>. QED
  BY <1>1, <1>2, <1>3, <1>4, CallTypeOK, StepTypeOK DEF Next, IInv

-----------------------------------------------------------------------------
(* The control part.                                                       *)

\* What a call does before its first step.
LEMMA CallEffect ==
  ASSUME NEW t \in Thread, Call(t)
  PROVE  \E op \in Op : \E c, label :
           /\ pc[t] = "idle" /\ c.op = op
           /\ label = "notify" <=> op = "notify"
           /\ label \in {"begin", "lock", "notify"}
           /\ pc' = [pc EXCEPT ![t] = label] /\ call' = [call EXCEPT ![t] = c]
           /\ UNCHANGED <<shared, taken, expired, stop, ghost>>
<1>. USE DEF Call, Invoke, Goto, Function, Op, PushOp, PopOp, WaitOp
<1>1. CASE CallPush(t)
  <2>1. PICK op \in PushOp \cap Client[t], n \in 0..MaxBatch, flag \in Flags :
          Invoke(t, Function(op, Batch(n), 0, flag, FALSE),
                 IF op = "push_one" THEN "lock" ELSE "begin")
    BY <1>1 DEF CallPush
  <2>. WITNESS op \in Op
  <2>. WITNESS Function(op, Batch(n), 0, flag, FALSE),
               IF op = "push_one" THEN "lock" ELSE "begin"
  <2>. QED  BY <2>1
<1>2. CASE CallPop(t)
  <2>1. PICK op \in PopOp \cap Client[t], n \in 0..MaxBatch, flag \in Flags :
          Invoke(t, Function(op, <<>>, n, flag, FALSE), "begin")
    BY <1>2 DEF CallPop
  <2>. WITNESS op \in Op
  <2>. WITNESS Function(op, <<>>, n, flag, FALSE), "begin"
  <2>. QED  BY <2>1
<1>3. CASE CallWait(t)
  <2>1. PICK op \in WaitOp \cap Client[t], timed \in BOOLEAN :
          Invoke(t, Function(op, <<>>, 0, "NOTIFY_NONE", timed), "lock")
    BY <1>3 DEF CallWait
  <2>. WITNESS op \in Op
  <2>. WITNESS Function(op, <<>>, 0, "NOTIFY_NONE", timed), "lock"
  <2>. QED  BY <2>1
<1>4. CASE CallNotify(t)
  <2>1. PICK op \in {"notify"} \cap Client[t], flag \in Flags :
          Invoke(t, Function(op, <<>>, 0, flag, FALSE), "notify")
    BY <1>4 DEF CallNotify
  <2>. WITNESS op \in Op
  <2>. WITNESS Function(op, <<>>, 0, flag, FALSE), "notify"
  <2>. QED  BY <2>1
<1>. QED  BY <1>1, <1>2, <1>3, <1>4

\* Entering a member function keeps Control.
LEMMA CallControl ==
  ASSUME IInv, NEW t \in Thread, Call(t)
  PROVE  Control'
<1>0. PICK op \in Op : \E c, label :
        /\ pc[t] = "idle" /\ c.op = op
        /\ label = "notify" <=> op = "notify"
        /\ label \in {"begin", "lock", "notify"}
        /\ pc' = [pc EXCEPT ![t] = label] /\ call' = [call EXCEPT ![t] = c]
        /\ UNCHANGED <<shared, taken, expired, stop, ghost>>
  BY CallEffect
<1>1. PICK c, label :
        /\ pc[t] = "idle" /\ c.op = op
        /\ label = "notify" <=> op = "notify"
        /\ label \in {"begin", "lock", "notify"}
        /\ pc' = [pc EXCEPT ![t] = label] /\ call' = [call EXCEPT ![t] = c]
        /\ UNCHANGED <<shared, taken, expired, stop, ghost>>
  BY <1>0
<1>2. op \notin {"none"}
  BY DEF Op, PushOp, PopOp, WaitOp
<1>3. \A u \in Thread : /\ pc'[u] = IF u = t THEN label ELSE pc[u]
                        /\ call'[u] = IF u = t THEN c ELSE call[u]
  BY <1>1 DEF IInv, TypeOK
<1>4. /\ lock' = lock /\ waiters' = waiters /\ taken' = taken
      /\ item_count_' = item_count_ /\ data_items_' = data_items_
  BY <1>1 DEF shared
<1>5. \A u \in Thread : Holds(u)' <=> Holds(u)
  BY <1>1, <1>3 DEF Holds, PopOp
<1>. QED
  BY <1>1, <1>2, <1>3, <1>4, <1>5 DEF IInv, TypeOK, Control, StopWaiter

\* A step of a member function keeps Control.
LEMMA StepControl ==
  ASSUME IInv, NEW t \in Thread, Step(t)
  PROVE  Control'
<1>. USE ThreadQueueAssumption
     DEF IInv, TypeOK, Control, Holds, Goto, shared, client, ghost, StopWaiter,
         PushOp, PopOp, WaitOp
<1>1. CASE Begin(t)
  BY <1>1 DEF Begin
<1>2. CASE Acquire(t)
  BY <1>2 DEF Acquire, Locked, Op
<1>3. CASE Put(t)
  BY <1>3 DEF Put
<1>4. CASE Count(t)
  BY <1>4 DEF Count
<1>5. CASE Take(t)
  BY <1>5 DEF Take
<1>6. CASE Uncount(t)
  BY <1>6 DEF Uncount
<1>7. CASE Notify(t)
  BY <1>7 DEF Notify, Wake
<1>8. CASE Unlock(t)
  BY <1>8 DEF Unlock
<1>9. CASE Test(t)
  BY <1>9 DEF Test
<1>10. CASE Sleep(t)
  BY <1>10 DEF Sleep
<1>11. CASE Reacquire(t)
  BY <1>11 DEF Reacquire
<1>12. CASE Return(t)
  BY <1>12 DEF Return, NoCall, Function
<1>. QED
  BY <1>1, <1>2, <1>3, <1>4, <1>5, <1>6, <1>7, <1>8, <1>9, <1>10, <1>11, <1>12
     DEF Step

\* Every step keeps Control.
LEMMA NextControl == IInv /\ [Next]_vars => Control'
<1>. USE DEF IInv, TypeOK, Control, Holds, StopWaiter
<1>1. ASSUME IInv, NEW t \in Thread, Expire(t)  PROVE Control'
  BY <1>1 DEF Expire, client, ghost
<1>2. ASSUME IInv, NEW t \in Thread, SpuriousWake(t)  PROVE Control'
  BY <1>2 DEF SpuriousWake, local, ghost
<1>3. ASSUME IInv, RequireStop  PROVE Control'
  BY <1>3 DEF RequireStop, shared, local, ghost
<1>4. ASSUME IInv, UNCHANGED vars  PROVE Control'
  BY <1>4 DEF vars, shared, local, client, ghost
<1>. QED
  BY <1>1, <1>2, <1>3, <1>4, CallControl, StepControl DEF Next

-----------------------------------------------------------------------------
(* The data part.                                                          *)

\* Steps that leave the container, the count and the histories alone, and no
\* thread in the middle of a push or of a pop that was not there before.
LEMMA DataKept ==
  ASSUME IInv,
         UNCHANGED <<data_items_, item_count_, arrived, served>>,
         \A u \in Thread :
           /\ pc[u] \in {"count", "uncount"} <=> pc'[u] \in {"count", "uncount"}
           /\ pc[u] \in {"count", "uncount"} =>
                /\ pc'[u] = pc[u] /\ call'[u] = call[u] /\ taken'[u] = taken[u]
  PROVE  Data'
BY DEF IInv, Data, Swaps, Due

\* Entering a member function keeps Data.
LEMMA CallData ==
  ASSUME IInv, NEW t \in Thread, Call(t)
  PROVE  Data'
<1>0. PICK op \in Op : \E c, label :
        /\ pc[t] = "idle" /\ c.op = op
        /\ label = "notify" <=> op = "notify"
        /\ label \in {"begin", "lock", "notify"}
        /\ pc' = [pc EXCEPT ![t] = label] /\ call' = [call EXCEPT ![t] = c]
        /\ UNCHANGED <<shared, taken, expired, stop, ghost>>
  BY CallEffect
<1>1. PICK c, label :
        /\ pc[t] = "idle" /\ c.op = op
        /\ label = "notify" <=> op = "notify"
        /\ label \in {"begin", "lock", "notify"}
        /\ pc' = [pc EXCEPT ![t] = label] /\ call' = [call EXCEPT ![t] = c]
        /\ UNCHANGED <<shared, taken, expired, stop, ghost>>
  BY <1>0
<1>. QED
  BY <1>1, DataKept DEF IInv, TypeOK, shared, ghost

\* A step of a member function keeps Data: Put, Count, Take and Uncount are the
\* ones that change it, and Alone says that nobody else is at such a step.
LEMMA StepData ==
  ASSUME IInv, NEW t \in Thread, Step(t)
  PROVE  Data'
<1>. USE DEF Goto, shared, client, ghost
<1>1. CASE Begin(t)
  BY <1>1, DataKept DEF Begin, IInv, TypeOK
<1>2. CASE Acquire(t)
  BY <1>2, DataKept DEF Acquire, Locked, IInv, TypeOK
<1>3. CASE Put(t)
  <2>1. /\ \A u \in Thread : pc[u] \notin {"count", "uncount"}
        /\ \A u \in Thread : pc'[u] = "count" <=> u = t
        /\ \A u \in Thread : pc'[u] # "uncount"
    BY <1>3, Alone DEF Put, Holds, IInv, TypeOK
  <2>2. item_count_ = Len(data_items_) /\ arrived = served \o data_items_
    BY <2>1 DEF IInv, Data
  <2>. DEFINE items == call[t].items
  <2>3. items \in Seq(Item) /\ data_items_ \in Seq(Item)
    BY DEF IInv, TypeOK
  <2>4. data_items_' = data_items_ \o items
    <3>1. CASE empty
      <4>1. data_items_ = <<>>
        BY <2>2, <2>3, <3>1, EmptySeq DEF empty
      <4>. QED  BY <1>3, <2>3, <4>1, ConcatEmptySeq DEF Put
    <3>. QED  BY <1>3, <3>1 DEF Put
  <2>5. Len(data_items_ \o items) = item_count_ + Len(items)
    BY <2>2, <2>3, ConcatProperties
  <2>6. SubSeq(data_items_ \o items, 1, item_count_) = data_items_
    <3>1. Len(data_items_ \o items) - Len(items) = item_count_
      BY <2>2, <2>3, <2>5, LenProperties
    <3>. QED  BY <2>3, <3>1, UndoConcat
  <2>. QED  BY <1>3, <2>1, <2>2, <2>3, <2>4, <2>5, <2>6 DEF Put, Data
<1>4. CASE Count(t)
  <2>1. \A u \in Thread : pc'[u] \notin {"count", "uncount"}
    BY <1>4, Alone DEF Count, Holds, IInv, TypeOK
  <2>. DEFINE old == SubSeq(data_items_, 1, item_count_)
  <2>2. /\ Len(data_items_) = item_count_ + Len(call[t].items)
        /\ data_items_ = old \o call[t].items
        /\ old \in Seq(Item) /\ arrived = served \o old
    BY <1>4 DEF Count, IInv, Data
  <2>3. (served \o old) \o call[t].items = served \o (old \o call[t].items)
    <3>1. served \in Seq(Item) /\ call[t].items \in Seq(Item)
      BY DEF IInv, TypeOK
    <3>. QED  BY <2>2, <3>1, Regroup
  <2>4. arrived' = served' \o data_items_'
    BY <1>4, <2>2, <2>3 DEF Count
  <2>. QED  BY <1>4, <2>1, <2>2, <2>4 DEF Count, Data
<1>5. CASE Take(t)
  <2>1. /\ \A u \in Thread : pc[u] \notin {"count", "uncount"}
        /\ \A u \in Thread : pc'[u] # "count"
        /\ \A u \in Thread : pc'[u] = "uncount" => u = t
    BY <1>5, Alone DEF Take, Holds, IInv, TypeOK
  <2>2. item_count_ = Len(data_items_) /\ arrived = served \o data_items_
    BY <2>1 DEF IInv, Data
  <2>3. CASE empty
    BY <1>5, <2>1, <2>2, <2>3 DEF Take, Data, IInv, TypeOK
  <2>4. CASE ~empty
    <3>1. Amount(t) \in 0..Len(data_items_)
      BY <2>2, AmountType DEF IInv
    <3>2. /\ Len(SubSeq(data_items_, 1, Amount(t))) = Amount(t)
          /\ Len(SubSeq(data_items_, Amount(t) + 1, Len(data_items_)))
               = Len(data_items_) - Amount(t)
      BY <3>1, SubSeqType DEF IInv, TypeOK
    <3>3. /\ taken'[t] = SubSeq(data_items_, 1, Amount(t))
          /\ data_items_' = SubSeq(data_items_, Amount(t) + 1, Len(data_items_))
          /\ item_count_' = item_count_ /\ pc'[t] = "uncount"
          /\ call' = call /\ arrived' = arrived /\ served' = served
      BY <1>5, <2>4 DEF Take, IInv, TypeOK
    <3>4. item_count_' = Len(taken'[t]) + Len(data_items_')
      <4>1. Len(data_items_) \in Nat /\ Amount(t) \in Nat
        BY <3>1, LenProperties DEF IInv, TypeOK
      <4>. QED  BY <2>2, <3>2, <3>3, <4>1
    <3>5. Swaps(t)' => data_items_' = <<>>
      <4>1. Swaps(t)' = Swaps(t)
        BY <3>3 DEF Swaps
      <4>2. Swaps(t) => Amount(t) = Len(data_items_)
        BY DEF Amount
      <4>3. Swaps(t) => Len(data_items_') = 0
        BY <3>2, <3>3, <4>2, LenProperties DEF IInv, TypeOK
      <4>4. data_items_' \in Seq(Item)
        BY StepTypeOK DEF TypeOK
      <4>. QED  BY <4>1, <4>3, <4>4, EmptySeq
    <3>6. arrived' = served' \o (taken'[t] \o data_items_')
      BY <2>2, <3>1, <3>3, SplitAt DEF IInv, TypeOK
    <3>7. Len(taken'[t]) = Due(t)'
      <4>1. call[t].op \in PopOp
        BY <1>5 DEF Take, IInv, Control
      <4>2. Due(t)' = Due(t)
        BY <3>3 DEF Due
      <4>3. Amount(t) = Due(t)
        BY <2>2, <4>1 DEF Amount, Due, Swaps, PopOp, IInv, TypeOK
      <4>. QED  BY <3>2, <3>3, <4>2, <4>3
    <3>. QED  BY <2>1, <3>3, <3>4, <3>5, <3>6, <3>7 DEF Data
  <2>. QED  BY <2>3, <2>4
<1>6. CASE Uncount(t)
  <2>1. \A u \in Thread : pc'[u] \notin {"count", "uncount"}
    BY <1>6, Alone DEF Uncount, Holds, IInv, TypeOK
  <2>2. /\ item_count_ = Len(taken[t]) + Len(data_items_)
        /\ Swaps(t) => data_items_ = <<>>
        /\ arrived = served \o (taken[t] \o data_items_)
    BY <1>6 DEF Uncount, IInv, Data
  <2>3. item_count_' = Len(data_items_)
    BY <1>6, <2>2, LenProperties, EmptySeq DEF Uncount, IInv, TypeOK
  <2>4. arrived' = served' \o data_items_'
    <3>1. /\ served \in Seq(Item) /\ taken[t] \in Seq(Item)
          /\ data_items_ \in Seq(Item)
      BY DEF IInv, TypeOK
    <3>2. (served \o taken[t]) \o data_items_ = served \o (taken[t] \o data_items_)
      BY <3>1, Regroup
    <3>. QED  BY <1>6, <2>2, <3>2 DEF Uncount
  <2>. QED  BY <1>6, <2>1, <2>3, <2>4 DEF Uncount, Data
<1>7. CASE Notify(t)
  BY <1>7, DataKept DEF Notify, IInv, TypeOK
<1>8. CASE Unlock(t)
  BY <1>8, DataKept DEF Unlock, IInv, TypeOK
<1>9. CASE Test(t)
  BY <1>9, DataKept DEF Test, IInv, TypeOK
<1>10. CASE Sleep(t)
  BY <1>10, DataKept DEF Sleep, IInv, TypeOK
<1>11. CASE Reacquire(t)
  BY <1>11, DataKept DEF Reacquire, IInv, TypeOK
<1>12. CASE Return(t)
  BY <1>12, DataKept DEF Return, IInv, TypeOK
<1>. QED
  BY <1>1, <1>2, <1>3, <1>4, <1>5, <1>6, <1>7, <1>8, <1>9, <1>10, <1>11, <1>12
     DEF Step

\* Every step keeps Data.
LEMMA NextData == IInv /\ [Next]_vars => Data'
<1>1. ASSUME IInv, NEW t \in Thread, Expire(t)  PROVE Data'
  BY <1>1, DataKept DEF Expire, client, ghost
<1>2. ASSUME IInv, NEW t \in Thread, SpuriousWake(t)  PROVE Data'
  BY <1>2, DataKept DEF SpuriousWake, local, ghost
<1>3. ASSUME IInv, RequireStop  PROVE Data'
  BY <1>3, DataKept DEF RequireStop, shared, local, ghost
<1>4. ASSUME IInv, UNCHANGED vars  PROVE Data'
  BY <1>4, DataKept DEF vars, shared, local, client, ghost
<1>. QED
  BY <1>1, <1>2, <1>3, <1>4, CallData, StepData DEF Next

-----------------------------------------------------------------------------
(* The stop part.                                                          *)

\* Every step keeps Heard: a stop-waiter that tests after the stop returns.
LEMMA NextHeard == IInv /\ [Next]_vars => Heard'
<1>. USE ThreadQueueAssumption
     DEF IInv, TypeOK, Control, Heard, Goto, shared, local, client, ghost,
         StopWaiter, Holds
<1>1. ASSUME IInv, NEW t \in Thread, Call(t)  PROVE Heard'
  <2>0. PICK op \in Op : \E c, label :
          /\ pc[t] = "idle" /\ c.op = op
          /\ label = "notify" <=> op = "notify"
          /\ label \in {"begin", "lock", "notify"}
          /\ pc' = [pc EXCEPT ![t] = label] /\ call' = [call EXCEPT ![t] = c]
          /\ UNCHANGED <<shared, taken, expired, stop, ghost>>
    BY <1>1, CallEffect
  <2>1. PICK c, label :
          /\ pc[t] = "idle" /\ c.op = op
          /\ label = "notify" <=> op = "notify"
          /\ label \in {"begin", "lock", "notify"}
          /\ pc' = [pc EXCEPT ![t] = label] /\ call' = [call EXCEPT ![t] = c]
          /\ UNCHANGED <<shared, taken, expired, stop, ghost>>
    BY <2>0
  <2>. QED  BY <1>1, <2>1
<1>2. ASSUME IInv, NEW t \in Thread, Step(t)  PROVE Heard'
  <2>1. CASE Acquire(t)
    BY <1>2, <2>1 DEF Acquire, Locked
  <2>2. CASE Notify(t)
    BY <1>2, <2>2 DEF Notify, Wake
  <2>3. CASE Test(t)
    BY <1>2, <2>3 DEF Test
  <2>4. CASE Sleep(t)
    BY <1>2, <2>4 DEF Sleep
  <2>5. CASE Reacquire(t)
    BY <1>2, <2>5 DEF Reacquire
  <2>6. CASE Return(t)
    BY <1>2, <2>6 DEF Return
  <2>7. CASE Begin(t)
    BY <1>2, <2>7 DEF Begin
  <2>8. CASE Put(t) \/ Count(t)
    BY <1>2, <2>8 DEF Put, Count
  <2>9. CASE Take(t) \/ Uncount(t)
    BY <1>2, <2>9 DEF Take, Uncount
  <2>10. CASE Unlock(t)
    BY <1>2, <2>10 DEF Unlock
  <2>. QED  BY <1>2, <2>1, <2>2, <2>3, <2>4, <2>5, <2>6, <2>7, <2>8, <2>9, <2>10
            DEF Step
<1>3. ASSUME IInv, NEW t \in Thread, Expire(t)  PROVE Heard'
  BY <1>3 DEF Expire
<1>4. ASSUME IInv, NEW t \in Thread, SpuriousWake(t)  PROVE Heard'
  BY <1>4 DEF SpuriousWake
<1>5. ASSUME IInv, RequireStop  PROVE Heard'
  BY <1>5 DEF RequireStop
<1>6. ASSUME IInv, UNCHANGED vars  PROVE Heard'
  BY <1>6 DEF vars
<1>. QED
  BY <1>1, <1>2, <1>3, <1>4, <1>5, <1>6 DEF Next

-----------------------------------------------------------------------------
(* The theorems.                                                           *)

\* The initial state satisfies the inductive invariant.
LEMMA InitIInv == Init => IInv
<1>. SUFFICES ASSUME Init  PROVE IInv
  OBVIOUS
<1>. USE ThreadQueueAssumption DEF Init, NoCall, Function
<1>0. <<>> \in Seq(Item) /\ Len(<<>>) = 0 /\ <<>> \o <<>> = <<>>
  BY EmptySeq, ConcatEmptySeq
<1>1. TypeOK
  BY <1>0 DEF TypeOK, Label, Flag
<1>2. Control
  BY DEF Control, Holds, StopWaiter, PopOp
<1>3. Data
  BY <1>0 DEF Data
<1>4. Heard
  BY DEF Heard
<1>. QED  BY <1>1, <1>2, <1>3, <1>4 DEF IInv

\* IInv is inductive.
THEOREM Invariance == Spec => []IInv
<1>1. IInv /\ [Next]_vars => IInv'
  BY NextTypeOK, NextControl, NextData, NextHeard DEF IInv
<1>. QED  BY InitIInv, <1>1, PTL DEF Spec

\* Types: in particular the count never wraps below zero.
THEOREM TypeCorrect == Spec => []TypeOK
<1>1. IInv => TypeOK
  BY DEF IInv
<1>. QED  BY <1>1, Invariance, PTL

\* What the queue holds for its clients, at each step of the mutex's owner.
ContentsAre ==
  /\ \A t \in Thread : pc[t] = "count" => Contents = SubSeq(data_items_, 1, item_count_)
  /\ \A t \in Thread : pc[t] = "uncount" => Contents = taken[t] \o data_items_
  /\ (\A t \in Thread : pc[t] \notin {"count", "uncount"}) => Contents = data_items_

LEMMA ContentsOf == IInv => ContentsAre
<1>. SUFFICES ASSUME IInv
              PROVE  ContentsAre
  OBVIOUS
<1>1. ASSUME NEW t \in Thread, pc[t] = "count"
      PROVE  Contents = SubSeq(data_items_, 1, item_count_)
  <2>1. lock = t /\ lock # NoThread
    BY <1>1, Alone, ThreadQueueAssumption DEF IInv, Holds
  <2>2. Len(data_items_) - Len(call[t].items) = item_count_
    <3>1. Len(call[t].items) \in Nat /\ item_count_ \in Nat
      BY LenProperties DEF IInv, TypeOK
    <3>2. Len(data_items_) = item_count_ + Len(call[t].items)
      BY <1>1 DEF IInv, Data
    <3>. QED  BY <3>1, <3>2
  <2>. QED  BY <1>1, <2>1, <2>2 DEF Contents
<1>2. ASSUME NEW t \in Thread, pc[t] = "uncount"
      PROVE  Contents = taken[t] \o data_items_
  <2>1. lock = t /\ lock # NoThread
    BY <1>2, Alone, ThreadQueueAssumption DEF IInv, Holds
  <2>. QED  BY <1>2, <2>1 DEF Contents
<1>3. ASSUME \A t \in Thread : pc[t] \notin {"count", "uncount"}
      PROVE  Contents = data_items_
  BY <1>3 DEF Contents, IInv, TypeOK
<1>. QED  BY <1>1, <1>2, <1>3 DEF ContentsAre

\* They are as many as the count says.
LEMMA ContentsCounted ==
  ASSUME IInv
  PROVE  item_count_ = Len(Contents) /\ Contents \in Seq(Item)
<1>1. CASE \E t \in Thread : pc[t] = "count"
  <2>1. PICK t \in Thread : pc[t] = "count"
    BY <1>1
  <2>2. Contents = SubSeq(data_items_, 1, item_count_)
    BY <2>1, ContentsOf DEF ContentsAre
  <2>3. item_count_ \in 0..Len(data_items_)
    <3>1. Len(call[t].items) \in Nat /\ item_count_ \in Nat
      BY LenProperties DEF IInv, TypeOK
    <3>2. Len(data_items_) = item_count_ + Len(call[t].items)
      BY <2>1 DEF IInv, Data
    <3>. QED  BY <3>1, <3>2
  <2>. QED  BY <2>2, <2>3, SubSeqType DEF IInv, TypeOK
<1>2. CASE \E t \in Thread : pc[t] = "uncount"
  <2>1. PICK t \in Thread : pc[t] = "uncount"
    BY <1>2
  <2>2. Contents = taken[t] \o data_items_
    BY <2>1, ContentsOf DEF ContentsAre
  <2>3. item_count_ = Len(taken[t]) + Len(data_items_)
    BY <2>1 DEF IInv, Data
  <2>. QED  BY <2>2, <2>3, ConcatProperties DEF IInv, TypeOK
<1>3. CASE \A t \in Thread : pc[t] \notin {"count", "uncount"}
  BY <1>3, ContentsOf DEF ContentsAre, IInv, Data, TypeOK
<1>. QED  BY <1>1, <1>2, <1>3

\* The count that is read without the lock is always the length of the queue.
THEOREM CountCorrect == Spec => []CountIsExact
<1>1. IInv => CountIsExact
  BY ContentsCounted DEF CountIsExact
<1>. QED  BY <1>1, Invariance, PTL

\* No item is lost, duplicated or overtaken, for any clients and bounds.
THEOREM FifoCorrect == Spec => []Fifo
<1>1. ASSUME IInv  PROVE Fifo
  BY <1>1, ContentsOf DEF ContentsAre, Fifo, IInv, Data
<1>2. IInv => Fifo
  BY <1>1
<1>. QED  BY <1>2, Invariance, PTL

\* No stop-waiter misses a notification by a call that took the lock after the
\* condition was set.
THEOREM StopHeardCorrect == Spec => []StopHeard
<1>1. IInv => StopHeard
  BY DEF IInv, Heard, StopHeard
<1>. QED  BY <1>1, Invariance, PTL

-----------------------------------------------------------------------------
(* The queue implements FifoQueue.                                         *)

\* What FifoQueue sees of a thread, and its requests.
Done(t) == Request(t).kind # "none" /\ InEffect(t)
Reply(t) == IF InEffect(t) THEN taken[t] ELSE <<>>

\* Steps of thread t leave the calls of the other threads alone.
OnlyOf(t) == \A u \in Thread \ {t} :
               /\ Request(u)' = Request(u) /\ (Done(u)' <=> Done(u)) /\ Reply(u)' = Reply(u)

LEMMA LocalStep ==
  ASSUME NEW t \in Thread,
         \A u \in Thread \ {t} : pc'[u] = pc[u] /\ call'[u] = call[u] /\ taken'[u] = taken[u]
  PROVE  OnlyOf(t)
<1>1. SUFFICES ASSUME NEW u \in Thread \ {t}
               PROVE  /\ Request(u)' = Request(u) /\ (Done(u)' <=> Done(u))
                      /\ Reply(u)' = Reply(u)
  BY DEF OnlyOf
<1>2. pc'[u] = pc[u] /\ call'[u] = call[u] /\ taken'[u] = taken[u]
  BY <1>1
<1>3. Request(u)' = Request(u)
  BY <1>2 DEF Request
<1>4. InEffect(u)' <=> InEffect(u)
  BY <1>2 DEF InEffect
<1>. QED  BY <1>2, <1>3, <1>4 DEF Done, Reply

\* Each function makes one kind of request.
LEMMA RequestOf ==
  ASSUME NEW t \in Thread
  PROVE  /\ call[t].op \in PushOp =>
              Request(t) = [kind |-> "push", items |-> call[t].items, count |-> 0]
         /\ call[t].op \in {"pop_all", "pop_all_as"} =>
              Request(t) = [kind |-> "pop_all", items |-> <<>>, count |-> 0]
         /\ call[t].op \in {"pop_some", "pop_some_as"} =>
              Request(t) = [kind |-> "pop", items |-> <<>>, count |-> call[t].count]
         /\ call[t].op \notin PushOp \cup PopOp =>
              Request(t) = [kind |-> "none", items |-> <<>>, count |-> 0]
BY DEF Request, PushOp, PopOp

\* A step that FifoQueue does not see.
LEMMA Stutters ==
  ASSUME NEW t \in Thread, OnlyOf(t), Contents' = Contents,
         Request(t)' = Request(t), Done(t)' <=> Done(t), Reply(t)' = Reply(t)
  PROVE  UNCHANGED Queue!vars
<1>1. \A u \in Thread : /\ Request(u)' = Request(u) /\ (Done(u)' <=> Done(u))
                        /\ Reply(u)' = Reply(u)
  BY DEF OnlyOf
<1>2. [u \in Thread |-> Request(u)]' = [u \in Thread |-> Request(u)]
  BY <1>1
<1>3. {u \in Thread : Done(u)}' = {u \in Thread : Done(u)}
  BY <1>1
<1>4. [u \in Thread |-> Reply(u)]' = [u \in Thread |-> Reply(u)]
  BY <1>1
<1>. QED  BY <1>2, <1>3, <1>4 DEF Queue!vars, Done, Reply

\* A thread makes a request.
LEMMA Asks ==
  ASSUME NEW t \in Thread, OnlyOf(t), Contents' = Contents,
         Request(t) = Queue!Nothing, Queue!IsRequest(Request(t)'),
         ~Done(t), ~Done(t)', Reply(t)' = Reply(t)
  PROVE  Queue!Ask(t)
<1>1. [u \in Thread |-> Request(u)]' =
        [[u \in Thread |-> Request(u)] EXCEPT ![t] = Request(t)']
  BY DEF OnlyOf
<1>2. {u \in Thread : Done(u)}' = {u \in Thread : Done(u)}
  BY DEF OnlyOf
<1>3. [u \in Thread |-> Reply(u)]' = [u \in Thread |-> Reply(u)]
  BY DEF OnlyOf
<1>4. [u \in Thread |-> Request(u)][t] = Request(t)
      /\ [u \in Thread |-> Request(u)]'[t] = Request(t)'
  OBVIOUS
<1>. QED  BY <1>1, <1>2, <1>3, <1>4 DEF Queue!Ask, Done, Reply

\* A push takes effect.
LEMMA PushEffect ==
  ASSUME NEW t \in Thread, OnlyOf(t), Request(t).kind = "push",
         Contents' = Contents \o Request(t).items,
         Request(t)' = Request(t), ~Done(t), Done(t)', Reply(t)' = Reply(t)
  PROVE  Queue!TakeEffect(t)
<1>1. [u \in Thread |-> Request(u)]' = [u \in Thread |-> Request(u)]
  BY DEF OnlyOf
<1>2. {u \in Thread : Done(u)}' = {u \in Thread : Done(u)} \cup {t}
  BY DEF OnlyOf
<1>3. [u \in Thread |-> Reply(u)]' = [u \in Thread |-> Reply(u)]
  BY DEF OnlyOf
<1>4. [u \in Thread |-> Request(u)][t] = Request(t) /\ t \notin {u \in Thread : Done(u)}
  OBVIOUS
<1>5. Request(t) # Queue!Nothing
  BY DEF Queue!Nothing
<1>. QED  BY <1>1, <1>2, <1>3, <1>4, <1>5 DEF Queue!TakeEffect, Done, Reply

\* A pop takes effect: it gets the first of the items, as many as are due.
LEMMA PopEffect ==
  ASSUME NEW t \in Thread, OnlyOf(t), Request(t).kind \in {"pop", "pop_all"}, NEW n,
         n = IF Request(t).kind = "pop" /\ Request(t).count < Len(Contents)
             THEN Request(t).count ELSE Len(Contents),
         Reply(t)' = SubSeq(Contents, 1, n),
         Contents' = SubSeq(Contents, n + 1, Len(Contents)),
         Request(t)' = Request(t), ~Done(t), Done(t)'
  PROVE  Queue!TakeEffect(t)
<1>1. [u \in Thread |-> Request(u)]' = [u \in Thread |-> Request(u)]
  BY DEF OnlyOf
<1>2. {u \in Thread : Done(u)}' = {u \in Thread : Done(u)} \cup {t}
  BY DEF OnlyOf
<1>3. [u \in Thread |-> Reply(u)]' =
        [[u \in Thread |-> Reply(u)] EXCEPT ![t] = SubSeq(Contents, 1, n)]
  BY DEF OnlyOf
<1>4. [u \in Thread |-> Request(u)][t] = Request(t) /\ t \notin {u \in Thread : Done(u)}
  OBVIOUS
<1>5. Request(t) # Queue!Nothing /\ Request(t).kind # "push"
  BY DEF Queue!Nothing
<1>6. Queue!Share(t) = n
  BY <1>4 DEF Queue!Share
<1>. QED  BY <1>1, <1>2, <1>3, <1>4, <1>5, <1>6 DEF Queue!TakeEffect, Done, Reply

\* A reply is returned.
LEMMA Answers ==
  ASSUME NEW t \in Thread, OnlyOf(t), Contents' = Contents,
         Request(t)' = Queue!Nothing, Done(t), ~Done(t)', Reply(t)' = <<>>
  PROVE  Queue!Answer(t)
<1>1. [u \in Thread |-> Request(u)]' =
        [[u \in Thread |-> Request(u)] EXCEPT ![t] = Queue!Nothing]
  BY DEF OnlyOf
<1>2. {u \in Thread : Done(u)}' = {u \in Thread : Done(u)} \ {t}
  BY DEF OnlyOf
<1>3. [u \in Thread |-> Reply(u)]' = [[u \in Thread |-> Reply(u)] EXCEPT ![t] = <<>>]
  BY DEF OnlyOf
<1>4. t \in {u \in Thread : Done(u)}
  OBVIOUS
<1>. QED  BY <1>1, <1>2, <1>3, <1>4 DEF Queue!Answer, Done, Reply

LEMMA NextContents == IInv' => ContentsAre'
BY ContentsOf, PTL

\* The contents change only in the middle of a push or of a pop.
LEMMA ContentsKept ==
  ASSUME IInv, IInv', UNCHANGED <<data_items_, item_count_>>,
         \A u \in Thread :
           /\ pc[u] \in {"count", "uncount"} <=> pc'[u] \in {"count", "uncount"}
           /\ pc[u] \in {"count", "uncount"} => pc'[u] = pc[u] /\ taken'[u] = taken[u]
  PROVE  Contents' = Contents
<1>1. ContentsAre /\ ContentsAre'
  BY ContentsOf, NextContents
<1>2. CASE \E u \in Thread : pc[u] \in {"count", "uncount"}
  <2>1. PICK u \in Thread : pc[u] \in {"count", "uncount"} /\ pc'[u] = pc[u] /\ taken'[u] = taken[u]
    BY <1>2
  <2>2. CASE pc[u] = "count"
    <3>1. Contents = SubSeq(data_items_, 1, item_count_)
      BY <1>1, <2>2 DEF ContentsAre
    <3>2. Contents' = SubSeq(data_items_', 1, item_count_')
      BY <1>1, <2>1, <2>2 DEF ContentsAre
    <3>. QED  BY <3>1, <3>2
  <2>3. CASE pc[u] = "uncount"
    <3>1. Contents = taken[u] \o data_items_
      BY <1>1, <2>3 DEF ContentsAre
    <3>2. Contents' = taken'[u] \o data_items_'
      BY <1>1, <2>1, <2>3 DEF ContentsAre
    <3>. QED  BY <2>1, <3>1, <3>2
  <2>. QED  BY <2>1, <2>2, <2>3
<1>3. CASE \A u \in Thread : pc[u] \notin {"count", "uncount"}
  BY <1>1, <1>3 DEF ContentsAre
<1>. QED  BY <1>2, <1>3

\* A thread enters a function: it asks for a push or a pop, or for nothing.
LEMMA CallRefines ==
  ASSUME IInv, IInv', NEW t \in Thread, Call(t)
  PROVE  Queue!Ask(t) \/ UNCHANGED Queue!vars
<1>1. PICK op \in Op : \E c, label :
        /\ pc[t] = "idle" /\ c.op = op
        /\ label = "notify" <=> op = "notify"
        /\ label \in {"begin", "lock", "notify"}
        /\ pc' = [pc EXCEPT ![t] = label] /\ call' = [call EXCEPT ![t] = c]
        /\ UNCHANGED <<shared, taken, expired, stop, ghost>>
  BY CallEffect
<1>2. PICK c, label :
        /\ pc[t] = "idle" /\ c.op = op
        /\ label = "notify" <=> op = "notify"
        /\ label \in {"begin", "lock", "notify"}
        /\ pc' = [pc EXCEPT ![t] = label] /\ call' = [call EXCEPT ![t] = c]
        /\ UNCHANGED <<shared, taken, expired, stop, ghost>>
  BY <1>1
<1>3. /\ \A u \in Thread \ {t} : pc'[u] = pc[u] /\ call'[u] = call[u] /\ taken'[u] = taken[u]
      /\ pc'[t] = label /\ call'[t].op = op /\ taken'[t] = taken[t]
      /\ UNCHANGED <<data_items_, item_count_>>
  BY <1>2 DEF IInv, TypeOK, shared
<1>4. OnlyOf(t)
  BY <1>3, LocalStep
<1>5. Contents' = Contents
  BY <1>2, <1>3, ContentsKept
<1>6. call[t].op = "none" /\ taken[t] = <<>>
  BY <1>2 DEF IInv, Control
<1>7. Reply(t) = <<>> /\ Reply(t)' = <<>>
  BY <1>3, <1>6 DEF Reply
<1>8. Request(t) = Queue!Nothing /\ ~Done(t)
  BY <1>6, RequestOf DEF Queue!Nothing, PushOp, PopOp, Done
<1>9. CASE op \in PushOp \cup PopOp
  <2>1. ~Done(t)'
    BY <1>2, <1>3, <1>9 DEF Done, InEffect, PushOp, PopOp
  <2>2. call'[t].items \in Seq(Item) /\ call'[t].count \in Nat
    BY DEF IInv, TypeOK
  <2>3. \/ Request(t)' = [kind |-> "push", items |-> call'[t].items, count |-> 0]
        \/ Request(t)' = [kind |-> "pop_all", items |-> <<>>, count |-> 0]
        \/ Request(t)' = [kind |-> "pop", items |-> <<>>, count |-> call'[t].count]
    BY <1>3, <1>9 DEF Request, PushOp, PopOp
  <2>4. Queue!IsRequest(Request(t)')
    BY <2>2, <2>3 DEF Queue!IsRequest, Queue!Push, Queue!Pop, Queue!PopAll
  <2>. QED  BY <1>4, <1>5, <1>7, <1>8, <2>1, <2>4, Asks
<1>10. CASE op \notin PushOp \cup PopOp
  <2>1. Request(t)' = [kind |-> "none", items |-> <<>>, count |-> 0]
    BY <1>3, <1>10 DEF Request, PushOp, PopOp
  <2>2. Request(t)' = Request(t) /\ ~Done(t)'
    BY <1>8, <2>1 DEF Queue!Nothing, Done
  <2>. QED  BY <1>4, <1>5, <1>7, <1>8, <2>2, Stutters
<1>. QED  BY <1>9, <1>10

\* A step of t that moves no items and does not change what t has got.
LEMMA QuietStep ==
  ASSUME IInv, IInv', NEW t \in Thread, NEW label,
         pc' = [pc EXCEPT ![t] = label], UNCHANGED <<call, taken, data_items_, item_count_>>,
         pc[t] \notin {"count", "uncount"}, label \notin {"count", "uncount"},
         Request(t).kind # "none" => (InEffect(t)' <=> InEffect(t))
  PROVE  UNCHANGED Queue!vars
<1>1. /\ \A u \in Thread \ {t} : pc'[u] = pc[u] /\ call'[u] = call[u] /\ taken'[u] = taken[u]
      /\ pc'[t] = label /\ taken'[t] = taken[t] /\ call'[t] = call[t]
  BY DEF IInv, TypeOK
<1>2. OnlyOf(t)
  BY <1>1, LocalStep
<1>3. Contents' = Contents
  BY <1>1, ContentsKept
<1>4. Request(t)' = Request(t)
  BY <1>1 DEF Request
<1>5. Done(t)' <=> Done(t)
  BY <1>4 DEF Done
<1>6. Reply(t)' = Reply(t)
  <2>1. CASE Request(t).kind # "none"
    BY <1>1, <2>1 DEF Reply
  <2>2. CASE Request(t).kind = "none"
    <3>1. taken[t] = <<>>
      BY <2>2, RequestOf DEF IInv, Control, PopOp
    <3>. QED  BY <1>1, <3>1 DEF Reply
  <2>. QED  BY <2>1, <2>2
<1>. QED  BY <1>2, <1>3, <1>4, <1>5, <1>6, Stutters

\* A pop that finds nothing, or is asked for nothing, gets nothing.
LEMMA NothingPopped ==
  ASSUME IInv, NEW t \in Thread, OnlyOf(t), Contents' = Contents,
         call[t].op \in PopOp, Contents = <<>> \/ (Request(t).kind = "pop" /\ call[t].count = 0),
         Request(t)' = Request(t), ~Done(t), Done(t)', Reply(t)' = <<>>
  PROVE  Queue!TakeEffect(t)
<1>1. Contents \in Seq(Item) /\ Len(Contents) \in Nat
  BY ContentsCounted, LenProperties
<1>2. Request(t).kind \in {"pop", "pop_all"}
      /\ (Request(t).kind = "pop" => Request(t).count = call[t].count)
  BY RequestOf DEF PopOp
<1>3. SubSeq(Contents, 1, 0) = <<>> /\ SubSeq(Contents, 1, Len(Contents)) = Contents
  <2>1. SubSeq(Contents, 1, 0) = <<>>
    BY <1>1, SubSeqEmpty
  <2>. QED  BY <1>1, <2>1, SubSeqFull
<1>4. 0 = IF Request(t).kind = "pop" /\ Request(t).count < Len(Contents)
          THEN Request(t).count ELSE Len(Contents)
  <2>1. CASE Contents = <<>>
    <3>1. Len(Contents) = 0 /\ call[t].count \in Nat
      BY <2>1 DEF IInv, TypeOK
    <3>. QED  BY <1>2, <3>1
  <2>2. CASE Request(t).kind = "pop" /\ call[t].count = 0
    BY <1>1, <1>2, <2>2
  <2>. QED  BY <2>1, <2>2
<1>5. SubSeq(Contents, 0 + 1, Len(Contents)) = Contents
  BY <1>3
<1>. QED  BY <1>2, <1>3, <1>4, <1>5, PopEffect

LEMMA BeginRefines ==
  ASSUME IInv, IInv', NEW t \in Thread, Begin(t)
  PROVE  Queue!TakeEffect(t) \/ UNCHANGED Queue!vars
<1>. USE DEF Begin, Goto, shared
<1>1. /\ \A u \in Thread \ {t} : pc'[u] = pc[u] /\ call'[u] = call[u] /\ taken'[u] = taken[u]
      /\ pc'[t] = IF NothingToDo(t) THEN "return" ELSE "lock"
      /\ taken'[t] = taken[t] /\ call'[t] = call[t] /\ pc[t] = "begin"
      /\ UNCHANGED <<data_items_, item_count_>>
  BY DEF IInv, TypeOK
<1>2. OnlyOf(t) /\ Request(t)' = Request(t)
  BY <1>1, LocalStep DEF Request
<1>3. Contents' = Contents
  BY <1>1, ContentsKept
<1>4. taken[t] = <<>> /\ ~InEffect(t) /\ ~Done(t)
  BY <1>1 DEF IInv, Control, InEffect, Done
<1>5. Reply(t) = <<>> /\ Reply(t)' = <<>>
  BY <1>1, <1>4 DEF Reply
<1>6. CASE ~NothingToDo(t)
  <2>1. ~InEffect(t)' /\ ~Done(t)'
    BY <1>1, <1>6 DEF InEffect, Done
  <2>. QED  BY <1>2, <1>3, <1>4, <1>5, <2>1, Stutters
<1>7. CASE NothingToDo(t) /\ call[t].op \in PushOp
  <2>1. Request(t).kind = "push" /\ Request(t).items = <<>>
    BY <1>7, RequestOf DEF NothingToDo, PushOp, PopOp
  <2>2. Done(t)'
    BY <1>1, <1>2, <1>7, <2>1 DEF InEffect, Done
  <2>3. Contents' = Contents \o Request(t).items
    BY <1>3, <2>1, ContentsCounted, ConcatEmptySeq
  <2>. QED  BY <1>2, <1>4, <1>5, <2>1, <2>2, <2>3, PushEffect
<1>8. CASE NothingToDo(t) /\ call[t].op \in PopOp
  <2>1. Request(t).kind \in {"pop", "pop_all"}
    BY <1>8, RequestOf DEF PopOp
  <2>2. Done(t)'
    BY <1>1, <1>2, <1>8, <2>1 DEF InEffect, Done
  <2>3. CASE empty
    <3>1. Contents = <<>>
      BY <2>3, ContentsCounted, EmptySeq DEF empty
    <3>. QED  BY <1>2, <1>3, <1>4, <1>5, <1>8, <2>2, <3>1, NothingPopped
  <2>4. CASE ~empty
    <3>1. Request(t).kind = "pop" /\ call[t].count = 0
      BY <1>8, <2>4, RequestOf DEF NothingToDo, PushOp, PopOp
    <3>. QED  BY <1>2, <1>3, <1>4, <1>5, <1>8, <2>2, <3>1, NothingPopped
  <2>. QED  BY <2>3, <2>4
<1>. QED  BY <1>6, <1>7, <1>8 DEF NothingToDo, PopOp, PushOp


LEMMA PutRefines ==
  ASSUME IInv, IInv', NEW t \in Thread, Put(t)
  PROVE  UNCHANGED Queue!vars
<1>. USE DEF Put, Goto
<1>1. /\ \A u \in Thread \ {t} : pc'[u] = pc[u] /\ call'[u] = call[u] /\ taken'[u] = taken[u]
      /\ pc[t] = "put" /\ pc'[t] = "count" /\ taken'[t] = taken[t] /\ call'[t] = call[t]
      /\ item_count_' = item_count_ /\ data_items_ \in Seq(Item) /\ call[t].items \in Seq(Item)
  BY DEF IInv, TypeOK
<1>2. OnlyOf(t) /\ Request(t)' = Request(t)
  BY <1>1, LocalStep DEF Request
<1>3. call[t].op \in PushOp /\ call[t].op \notin PopOp /\ taken[t] = <<>>
  BY <1>1 DEF IInv, Control, PushOp, PopOp
<1>4. ~InEffect(t) /\ ~InEffect(t)'
  BY <1>1, <1>3 DEF InEffect
<1>5. \A u \in Thread : pc[u] \notin {"count", "uncount"}
  BY <1>1, Alone DEF IInv, Holds
<1>6. Contents = data_items_ /\ item_count_ = Len(data_items_)
  BY <1>5, ContentsOf DEF ContentsAre, IInv, Data
<1>7. data_items_' = data_items_ \o call[t].items
  <2>1. CASE empty
    <3>1. data_items_ = <<>>
      BY <1>1, <1>6, <2>1, EmptySeq DEF empty
    <3>. QED  BY <1>1, <2>1, <3>1, ConcatEmptySeq
  <2>2. CASE ~empty
    BY <2>2
  <2>. QED  BY <2>1, <2>2
<1>8. Contents' = SubSeq(data_items_', 1, item_count_')
  BY <1>1, NextContents DEF ContentsAre
<1>9. Contents' = Contents
  BY <1>1, <1>6, <1>7, <1>8, PartsOfConcat
<1>. QED  BY <1>2, <1>4, <1>9, Stutters DEF Done, Reply

LEMMA CountRefines ==
  ASSUME IInv, IInv', NEW t \in Thread, Count(t)
  PROVE  Queue!TakeEffect(t)
<1>. USE DEF Count, Goto
<1>1. /\ \A u \in Thread \ {t} : pc'[u] = pc[u] /\ call'[u] = call[u] /\ taken'[u] = taken[u]
      /\ pc[t] = "count" /\ pc'[t] = "unlock" /\ taken'[t] = taken[t] /\ call'[t] = call[t]
      /\ data_items_' = data_items_
  BY DEF IInv, TypeOK
<1>2. OnlyOf(t) /\ Request(t)' = Request(t)
  BY <1>1, LocalStep DEF Request
<1>3. call[t].op \in PushOp /\ call[t].op \notin PopOp /\ taken[t] = <<>>
  BY <1>1 DEF IInv, Control, PushOp, PopOp
<1>4. Request(t).kind = "push" /\ Request(t).items = call[t].items
  BY <1>3, RequestOf
<1>5. ~Done(t) /\ Done(t)' /\ Reply(t)' = Reply(t)
  BY <1>1, <1>2, <1>3, <1>4 DEF InEffect, Done, Reply
<1>6. Contents \o call[t].items = data_items_
  BY <1>1, ContentsOf DEF ContentsAre, IInv, Data
<1>7. Contents' = data_items_'
  <2>1. \A u \in Thread : pc'[u] \notin {"count", "uncount"}
    BY <1>1, Alone DEF IInv, Holds
  <2>. QED  BY <2>1, NextContents DEF ContentsAre
<1>. QED  BY <1>1, <1>2, <1>4, <1>5, <1>6, <1>7, PushEffect

LEMMA TakeRefines ==
  ASSUME IInv, IInv', NEW t \in Thread, Take(t)
  PROVE  Queue!TakeEffect(t) \/ UNCHANGED Queue!vars
<1>. USE DEF Take, Goto
<1>1. /\ \A u \in Thread \ {t} : pc'[u] = pc[u] /\ call'[u] = call[u] /\ taken'[u] = taken[u]
      /\ pc[t] = "take" /\ call'[t] = call[t] /\ item_count_' = item_count_
      /\ data_items_ \in Seq(Item)
  BY DEF IInv, TypeOK
<1>2. OnlyOf(t) /\ Request(t)' = Request(t)
  BY <1>1, LocalStep DEF Request
<1>3. call[t].op \in PopOp /\ taken[t] = <<>>
  BY <1>1 DEF IInv, Control
<1>4. \A u \in Thread : pc[u] \notin {"count", "uncount"}
  BY <1>1, Alone DEF IInv, Holds
<1>5. Contents = data_items_ /\ item_count_ = Len(data_items_)
  BY <1>4, ContentsOf DEF ContentsAre, IInv, Data
<1>6. ~InEffect(t) /\ ~Done(t) /\ Reply(t) = <<>>
  BY <1>1, <1>3 DEF InEffect, Done, Reply
<1>7. CASE empty
  <2>1. pc'[t] = "unlock" /\ taken'[t] = taken[t] /\ data_items_' = data_items_
    BY <1>7 DEF IInv, TypeOK
  <2>2. Contents' = Contents
    BY <1>1, <1>4, <2>1, ContentsKept
  <2>3. Request(t).kind # "none"
    BY <1>3, RequestOf DEF PopOp
  <2>4. Done(t)' /\ Reply(t)' = <<>>
    BY <1>1, <1>2, <1>3, <2>1, <2>3 DEF InEffect, Done, Reply
  <2>5. Contents = <<>>
    BY <1>1, <1>5, <1>7, EmptySeq DEF empty
  <2>. QED  BY <1>2, <1>3, <1>6, <2>2, <2>4, <2>5, NothingPopped
<1>8. CASE ~empty
  <2>1. /\ pc'[t] = "uncount" /\ taken'[t] = SubSeq(data_items_, 1, Amount(t))
        /\ data_items_' = SubSeq(data_items_, Amount(t) + 1, Len(data_items_))
    BY <1>8 DEF IInv, TypeOK
  <2>2. Amount(t) \in 0..Len(data_items_)
    BY <1>5, AmountType DEF IInv
  <2>3. taken'[t] \o data_items_' = data_items_
    BY <1>1, <2>1, <2>2, SplitAt
  <2>4. Contents' = taken'[t] \o data_items_'
    BY <2>1, NextContents DEF ContentsAre
  <2>5. ~InEffect(t)' /\ ~Done(t)' /\ Reply(t)' = <<>>
    BY <1>1, <1>3, <2>1 DEF InEffect, Done, Reply
  <2>. QED  BY <1>2, <1>5, <1>6, <2>3, <2>4, <2>5, Stutters
<1>. QED  BY <1>7, <1>8

LEMMA UncountRefines ==
  ASSUME IInv, IInv', NEW t \in Thread, Uncount(t)
  PROVE  Queue!TakeEffect(t)
<1>. USE DEF Uncount, Goto
<1>1. /\ \A u \in Thread \ {t} : pc'[u] = pc[u] /\ call'[u] = call[u] /\ taken'[u] = taken[u]
      /\ pc[t] = "uncount" /\ pc'[t] = "notify" /\ taken'[t] = taken[t] /\ call'[t] = call[t]
      /\ data_items_' = data_items_ /\ data_items_ \in Seq(Item) /\ taken[t] \in Seq(Item)
  BY DEF IInv, TypeOK
<1>2. OnlyOf(t) /\ Request(t)' = Request(t)
  BY <1>1, LocalStep DEF Request
<1>3. call[t].op \in PopOp
  BY <1>1 DEF IInv, Control
<1>4. Request(t).kind \in {"pop", "pop_all"}
      /\ (Request(t).kind = "pop" <=> call[t].op \in {"pop_some", "pop_some_as"})
      /\ (Request(t).kind = "pop" => Request(t).count = call[t].count)
  BY <1>3, RequestOf DEF PopOp
<1>5. Contents = taken[t] \o data_items_
  BY <1>1, ContentsOf DEF ContentsAre
<1>6. Contents' = data_items_
  <2>1. \A u \in Thread : pc'[u] \notin {"count", "uncount"}
    BY <1>1, Alone DEF IInv, Holds
  <2>. QED  BY <1>1, <2>1, NextContents DEF ContentsAre
<1>7. ~Done(t) /\ Done(t)' /\ Reply(t)' = taken[t]
  BY <1>1, <1>2, <1>3, <1>4 DEF InEffect, Done, Reply
<1>8. Len(taken[t]) = Due(t) /\ item_count_ = Len(Contents) /\ call[t].count \in Nat
      /\ Len(Contents) \in Nat
  BY <1>1, ContentsCounted, LenProperties DEF IInv, Data, TypeOK
<1>9. Len(taken[t]) = IF Request(t).kind = "pop" /\ Request(t).count < Len(Contents)
                      THEN Request(t).count ELSE Len(Contents)
  BY <1>3, <1>4, <1>8 DEF Due, PopOp
<1>10. taken[t] = SubSeq(Contents, 1, Len(taken[t]))
       /\ data_items_ = SubSeq(Contents, Len(taken[t]) + 1, Len(Contents))
  BY <1>1, <1>5, PartsOfConcat
<1>. QED  BY <1>2, <1>4, <1>6, <1>7, <1>9, <1>10, PopEffect

LEMMA ReturnRefines ==
  ASSUME IInv, IInv', NEW t \in Thread, Return(t)
  PROVE  Queue!Answer(t) \/ UNCHANGED Queue!vars
<1>. USE DEF Return, Goto, shared
<1>1. /\ \A u \in Thread \ {t} : pc'[u] = pc[u] /\ call'[u] = call[u] /\ taken'[u] = taken[u]
      /\ pc[t] = "return" /\ pc'[t] = "idle" /\ taken'[t] = <<>> /\ call'[t] = NoCall
      /\ UNCHANGED <<data_items_, item_count_>>
  BY DEF IInv, TypeOK
<1>2. OnlyOf(t)
  BY <1>1, LocalStep
<1>3. Contents' = Contents
  BY <1>1, ContentsKept
<1>4. Request(t)' = Queue!Nothing /\ ~Done(t)' /\ Reply(t)' = <<>>
  <2>1. call'[t].op = "none"
    BY <1>1 DEF NoCall, Function
  <2>2. Request(t)' = [kind |-> "none", items |-> <<>>, count |-> 0]
    BY <2>1 DEF Request, PushOp, PopOp
  <2>. QED  BY <1>1, <2>2 DEF Queue!Nothing, Done, Reply
<1>5. InEffect(t)
  BY <1>1 DEF InEffect
<1>6. CASE Request(t).kind # "none"
  BY <1>2, <1>3, <1>4, <1>5, <1>6, Answers DEF Done
<1>7. CASE Request(t).kind = "none"
  <2>1. call[t].op \notin PushOp \cup PopOp
    BY <1>7, RequestOf DEF PopOp, PushOp
  <2>2. Request(t) = Queue!Nothing /\ taken[t] = <<>>
    BY <2>1, RequestOf DEF Queue!Nothing, IInv, Control
  <2>. QED  BY <1>2, <1>3, <1>4, <1>7, <2>2, Stutters DEF Done, Reply
<1>. QED  BY <1>6, <1>7

\* The steps on the mutex and the condition variable move no items.
LEMMA OtherStepsRefine ==
  ASSUME IInv, IInv', NEW t \in Thread,
         Acquire(t) \/ Notify(t) \/ Unlock(t) \/ Test(t) \/ Sleep(t) \/ Reacquire(t)
  PROVE  UNCHANGED Queue!vars
<1>. USE DEF Goto, shared
<1>1. CASE Acquire(t)
  <2>1. Locked(t) \in {"put", "take", "sleep", "test"}
    BY DEF Locked, PushOp, PopOp
  <2>2. InEffect(t)' <=> InEffect(t)
    BY <1>1, <2>1 DEF Acquire, InEffect, IInv, TypeOK
  <2>. QED  BY <1>1, <2>1, <2>2, QuietStep DEF Acquire
<1>2. CASE Notify(t)
  <2>1. pc'[t] \in {"unlock", "return"} /\ pc[t] = "notify"
    BY <1>2 DEF Notify, IInv, TypeOK
  <2>2. InEffect(t)' <=> InEffect(t)
    BY <2>1 DEF InEffect
  <2>. QED  BY <1>2, <2>1, <2>2, QuietStep DEF Notify
<1>3. CASE Unlock(t)
  <2>1. pc'[t] \in {"notify", "return"} /\ pc[t] = "unlock"
    BY <1>3 DEF Unlock, IInv, TypeOK
  <2>2. InEffect(t)' <=> InEffect(t)
    BY <2>1 DEF InEffect
  <2>. QED  BY <1>3, <2>1, <2>2, QuietStep DEF Unlock
<1>4. CASE Test(t) \/ Sleep(t) \/ Reacquire(t)
  <2>1. call[t].op \notin PushOp \cup PopOp
    BY <1>4 DEF Test, Sleep, Reacquire, IInv, Control, StopWaiter, WaitOp, PushOp, PopOp
  <2>2. Request(t).kind = "none"
    BY <2>1, RequestOf
  <2>. QED  BY <1>4, <2>2, QuietStep DEF Test, Sleep, Reacquire
<1>. QED  BY <1>1, <1>2, <1>3, <1>4

\* Every step is a step of FifoQueue, or none.
LEMMA NextRefines ==
  ASSUME IInv, IInv', [Next]_vars
  PROVE  [Queue!Next]_Queue!vars
<1>1. ASSUME NEW t \in Thread, Call(t) \/ Step(t)
      PROVE  Queue!Ask(t) \/ Queue!TakeEffect(t) \/ Queue!Answer(t) \/ UNCHANGED Queue!vars
  BY <1>1, CallRefines, BeginRefines, PutRefines, CountRefines, TakeRefines, UncountRefines,
     ReturnRefines, OtherStepsRefine DEF Step
<1>2. ASSUME UNCHANGED <<data_items_, item_count_, pc, call, taken>>
      PROVE  UNCHANGED Queue!vars
  <2>1. Contents' = Contents
    BY <1>2, ContentsKept
  <2>2. \A u \in Thread : /\ Request(u)' = Request(u) /\ (Done(u)' <=> Done(u))
                          /\ Reply(u)' = Reply(u)
    BY <1>2 DEF Request, Done, Reply, InEffect
  <2>3. [u \in Thread |-> Request(u)]' = [u \in Thread |-> Request(u)]
    BY <2>2
  <2>4. {u \in Thread : Done(u)}' = {u \in Thread : Done(u)}
    BY <2>2
  <2>5. [u \in Thread |-> Reply(u)]' = [u \in Thread |-> Reply(u)]
    BY <2>2
  <2>. QED  BY <2>1, <2>3, <2>4, <2>5 DEF Queue!vars, Done, Reply
<1>3. ASSUME NEW t \in Thread, Expire(t) \/ SpuriousWake(t)
      PROVE  UNCHANGED Queue!vars
  BY <1>2, <1>3 DEF Expire, SpuriousWake, local
<1>4. CASE RequireStop \/ UNCHANGED vars
  BY <1>2, <1>4 DEF RequireStop, vars, shared, local
<1>. QED  BY <1>1, <1>3, <1>4 DEF Next, Queue!Next

\* The queue is linearizable, for any threads, clients and bounds: to its clients
\* every push and every pop is one atomic operation of a FIFO queue.
THEOREM LinearizableCorrect == Spec => Linearizable
<1>1. Init => Queue!Init
  <2>1. SUFFICES ASSUME Init
                 PROVE  Queue!Init
    OBVIOUS
  <2>2. Contents = <<>> /\ \A t \in Thread : call[t].op = "none" /\ pc[t] = "idle" /\ taken[t] = <<>>
    BY <2>1 DEF Init, Contents, NoCall, Function
  <2>3. \A t \in Thread : Request(t) = Queue!Nothing /\ ~InEffect(t)
    BY <2>2, RequestOf DEF Queue!Nothing, PushOp, PopOp, InEffect
  <2>. QED  BY <2>2, <2>3 DEF Queue!Init, Queue!Nothing
<1>2. IInv /\ IInv' /\ [Next]_vars => [Queue!Next]_Queue!vars
  BY NextRefines
<1>. QED  BY <1>1, <1>2, Invariance, PTL DEF Spec, Linearizable, Queue!Spec

=============================================================================
