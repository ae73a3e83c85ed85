----------------------------- MODULE ThreadQueue -----------------------------
(***************************************************************************)
(* thread_queue_c of c_and_cpp/native/thread_queue.hpp: a queue shared by  *)
(* threads, with one mutex, one condition variable, a container and an     *)
(* atomic count that is also read without the mutex.  Every thread may     *)
(* call any member function at any time; a step of this module is one      *)
(* access to shared state, so the steps of concurrent calls interleave as  *)
(* the code allows.                                                        *)
(***************************************************************************)
EXTENDS Integers, Sequences

CONSTANTS
  Thread,       \* the threads that share the queue
  NoThread,     \* the owner of an unlocked mutex
  Client,       \* Client[t]: the member functions that thread t calls
  Flags,        \* the notify flags that clients pass
  MaxCalls,     \* bound: calls made by all threads together
  MaxBatch,     \* bound: items of one push, and count asked of one pop
  MaxSpurious   \* bound: spurious wake-ups of the condition variable

PushOp == {"push_one", "push_many", "push_many_with"}
PopOp  == {"pop_some", "pop_some_as", "pop_all", "pop_all_as"}
WaitOp == {"wait", "wait_until_required_for_stop"}
Op     == PushOp \cup PopOp \cup WaitOp \cup {"notify"}
Flag   == {"NOTIFY_NONE", "NOTIFY_ONE", "NOTIFY_ALL"}

ASSUME ThreadQueueAssumption ==
  /\ NoThread \notin Thread
  /\ Client \in [Thread -> SUBSET Op]
  /\ Flags \subseteq Flag
  /\ MaxCalls \in Nat /\ MaxBatch \in Nat /\ MaxSpurious \in Nat

\* An item is named by the call that pushed it and its place in that call.
Item == Nat \X Nat

\* A member function with its arguments (those it does not have are inert).
Function(op, items, count, flag, timed) ==
  [op |-> op, items |-> items, count |-> count, flag |-> flag, timed |-> timed]
NoCall == Function("none", <<>>, 0, "NOTIFY_NONE", FALSE)

VARIABLES
  lock,         \* *lock_ptr_: its owner, or NoThread
  waiters,      \* *notifier_ptr_: the threads asleep on it
  data_items_,  \* the container
  item_count_,  \* the atomic count
  pc,           \* pc[t]: the next step of the call t is in, "idle" outside
  call,         \* call[t]: the function t is in and its arguments
  taken,        \* taken[t]: the local "items" of a pop
  expired,      \* the threads whose timed wait has passed its deadline
  stop,         \* what the predicate of the stop-waiters returns
  calls,        \* number of calls made so far
  spurious,     \* number of spurious wake-ups so far
  arrived,      \* history: the items in the order the pushes counted them
  served,       \* history: the items in the order the pops uncounted them
  sawStop,      \* history: the calls that took the lock with stop set
  informed      \* history: one of those has notified all the waiters

shared == <<lock, waiters, data_items_, item_count_>>
local  == <<pc, call, taken, expired>>
client == <<stop, calls, spurious>>
ghost  == <<arrived, served, sawStop, informed>>
vars   == <<shared, local, client, ghost>>

Init ==
  /\ lock = NoThread /\ waiters = {} /\ data_items_ = <<>> /\ item_count_ = 0
  /\ pc = [t \in Thread |-> "idle"]
  /\ call = [t \in Thread |-> NoCall]
  /\ taken = [t \in Thread |-> <<>>]
  /\ expired = {} /\ stop = FALSE /\ calls = 0 /\ spurious = 0
  /\ arrived = <<>> /\ served = <<>> /\ sawStop = {} /\ informed = FALSE

-----------------------------------------------------------------------------
(* The callers.                                                            *)

Goto(t, label) == pc' = [pc EXCEPT ![t] = label]

\* Thread t enters the function that c names, at the step label.
Invoke(t, c, label) ==
  /\ pc[t] = "idle"
  /\ Goto(t, label)
  /\ call' = [call EXCEPT ![t] = c]
  /\ UNCHANGED <<shared, taken, expired, ghost>>

Batch(n) == [i \in 1..n |-> <<calls + 1, i>>]

CallPush(t) ==
  \E op \in PushOp \cap Client[t], n \in 0..MaxBatch, flag \in Flags :
    /\ op = "push_one" => n = 1
    /\ Invoke(t, Function(op, Batch(n), 0, flag, FALSE),
              IF op = "push_one" THEN "lock" ELSE "begin")

CallPop(t) ==
  \E op \in PopOp \cap Client[t], n \in 0..MaxBatch, flag \in Flags :
    /\ op \in {"pop_all", "pop_all_as"} => n = 0
    /\ Invoke(t, Function(op, <<>>, n, flag, FALSE), "begin")

CallWait(t) ==
  \E op \in WaitOp \cap Client[t], timed \in BOOLEAN :
    Invoke(t, Function(op, <<>>, 0, "NOTIFY_NONE", timed), "lock")

CallNotify(t) ==
  \E op \in {"notify"} \cap Client[t], flag \in Flags :
    Invoke(t, Function(op, <<>>, 0, flag, FALSE), "notify")

Call(t) ==
  /\ calls < MaxCalls /\ calls' = calls + 1
  /\ CallPush(t) \/ CallPop(t) \/ CallWait(t) \/ CallNotify(t)
  /\ UNCHANGED <<stop, spurious>>

\* Whatever the predicate of wait_until_required_for_stop() reads becomes
\* true; the queue's lock is not held.
RequireStop ==
  /\ \E t \in Thread : "wait_until_required_for_stop" \in Client[t]
  /\ ~stop /\ stop' = TRUE
  /\ UNCHANGED <<shared, local, calls, spurious, ghost>>

-----------------------------------------------------------------------------
(* Steps of the member functions.                                          *)

empty == item_count_ = 0

\* The early returns before the lock: nothing to push, nothing asked for, or
\* a glimpse of an empty queue.
NothingToDo(t) ==
  \/ call[t].op \in PushOp /\ call[t].items = <<>>
  \/ call[t].op \in PopOp /\ empty
  \/ call[t].op \in {"pop_some", "pop_some_as"} /\ call[t].count = 0

Begin(t) ==
  /\ pc[t] = "begin"
  /\ Goto(t, IF NothingToDo(t) THEN "return" ELSE "lock")
  /\ UNCHANGED <<shared, call, taken, expired, client, ghost>>

Locked(t) ==
  CASE call[t].op \in PushOp -> "put"
    [] call[t].op \in PopOp -> "take"
    [] call[t].op = "wait" -> "sleep"
    [] OTHER -> "test"

Acquire(t) ==
  /\ pc[t] = "lock" /\ lock = NoThread
  /\ lock' = t
  /\ Goto(t, Locked(t))
  /\ sawStop' = IF stop THEN sawStop \cup {t} ELSE sawStop
  /\ UNCHANGED <<waiters, data_items_, item_count_, call, taken, expired,
                 client, arrived, served, informed>>

\* Mutant: push_many() always swaps, dropping its test of the count.
PutAlwaysSwaps(t) ==
  /\ pc[t] = "put"
  /\ data_items_' = IF call[t].op = "push_many" THEN call[t].items
                    ELSE data_items_ \o call[t].items
  /\ Goto(t, "count")
  /\ UNCHANGED <<lock, waiters, item_count_, call, taken, expired, client, ghost>>

\* Mutant: the unlock of the pushes is moved before the count.
PutUnlocks(t) ==
  /\ pc[t] = "put"
  /\ data_items_' = data_items_ \o call[t].items
  /\ lock' = NoThread
  /\ Goto(t, "count")
  /\ UNCHANGED <<waiters, item_count_, call, taken, expired, client, ghost>>

\* push_many() swaps the containers when the count says the queue is empty.
Put(t) ==
  /\ pc[t] = "put"
  /\ data_items_' = IF call[t].op = "push_many" /\ empty
                    THEN call[t].items
                    ELSE data_items_ \o call[t].items
  /\ Goto(t, "count")
  /\ UNCHANGED <<lock, waiters, item_count_, call, taken, expired, client, ghost>>

\* Mutant: push_many() counts its batch as one item.
CountsOne(t) ==
  /\ pc[t] = "count"
  /\ item_count_' = item_count_ + 1
  /\ arrived' = arrived \o call[t].items
  /\ Goto(t, "unlock")
  /\ UNCHANGED <<lock, waiters, data_items_, call, taken, expired, client,
                 served, sawStop, informed>>

Count(t) ==
  /\ pc[t] = "count"
  /\ item_count_' = item_count_ + Len(call[t].items)
  /\ arrived' = arrived \o call[t].items
  /\ Goto(t, "unlock")
  /\ UNCHANGED <<lock, waiters, data_items_, call, taken, expired, client,
                 served, sawStop, informed>>

\* The pops that exchange the whole container instead of moving items.
Swaps(t) ==
  \/ call[t].op = "pop_all"
  \/ call[t].op = "pop_some" /\ call[t].count = item_count_

Amount(t) ==
  IF Swaps(t) THEN Len(data_items_)
  ELSE IF call[t].op = "pop_all_as" \/ call[t].count > item_count_ THEN item_count_
  ELSE call[t].count

Take(t) ==
  /\ pc[t] = "take"
  /\ \/ /\ empty
        /\ Goto(t, "unlock")
        /\ UNCHANGED <<data_items_, taken>>
     \/ /\ ~empty
        /\ taken' = [taken EXCEPT ![t] = SubSeq(data_items_, 1, Amount(t))]
        /\ data_items_' = SubSeq(data_items_, Amount(t) + 1, Len(data_items_))
        /\ Goto(t, "uncount")
  /\ UNCHANGED <<lock, waiters, item_count_, call, expired, client, ghost>>

\* Mutant: pop_some() subtracts the count asked for, before it is clamped.
UncountsAsked(t) ==
  /\ pc[t] = "uncount"
  /\ item_count_' = IF Swaps(t) THEN 0 ELSE item_count_ - call[t].count
  /\ served' = served \o taken[t]
  /\ Goto(t, "notify")
  /\ UNCHANGED <<lock, waiters, data_items_, call, taken, expired, client,
                 arrived, sawStop, informed>>

Uncount(t) ==
  /\ pc[t] = "uncount"
  /\ item_count_' = IF Swaps(t) THEN 0 ELSE item_count_ - Len(taken[t])
  /\ served' = served \o taken[t]
  /\ Goto(t, "notify")
  /\ UNCHANGED <<lock, waiters, data_items_, call, taken, expired, client,
                 arrived, sawStop, informed>>

Wake(flag) ==
  CASE flag = "NOTIFY_ALL" -> waiters' = {}
    [] flag = "NOTIFY_ONE" /\ waiters # {} ->
         \E w \in waiters : waiters' = waiters \ {w}
    [] OTHER -> UNCHANGED waiters

\* Mutant: a pop returns from its notify without the unlock.
NotifyThenReturn(t) ==
  /\ pc[t] = "notify"
  /\ Wake(call[t].flag)
  /\ informed' = (informed \/ (t \in sawStop /\ call[t].flag = "NOTIFY_ALL"))
  /\ Goto(t, "return")
  /\ UNCHANGED <<lock, data_items_, item_count_, call, taken, expired, client,
                 arrived, served, sawStop>>

\* A push notifies after its unlock, a pop before it, notify() without it.
Notify(t) ==
  /\ pc[t] = "notify"
  /\ Wake(call[t].flag)
  /\ informed' = (informed \/ (t \in sawStop /\ call[t].flag = "NOTIFY_ALL"))
  /\ Goto(t, IF call[t].op \in PopOp THEN "unlock" ELSE "return")
  /\ UNCHANGED <<lock, data_items_, item_count_, call, taken, expired, client,
                 arrived, served, sawStop>>

Unlock(t) ==
  /\ pc[t] = "unlock"
  /\ lock' = NoThread
  /\ Goto(t, IF call[t].op \in PushOp THEN "notify" ELSE "return")
  /\ UNCHANGED <<waiters, data_items_, item_count_, call, taken, expired,
                 client, ghost>>

\* Mutant: the predicate is tested with the lock already released.
TestUnlocked(t) ==
  /\ pc[t] = "test"
  /\ lock' = NoThread
  /\ Goto(t, IF stop THEN "return" ELSE "sleep")
  /\ UNCHANGED <<waiters, data_items_, item_count_, call, taken, expired,
                 client, ghost>>

\* A stop-waiter evaluates its predicate, holding the lock.
Test(t) ==
  /\ pc[t] = "test"
  /\ Goto(t, IF stop THEN "unlock" ELSE "sleep")
  /\ UNCHANGED <<shared, call, taken, expired, client, ghost>>

\* The condition variable releases the lock and enlists the thread at once.
Sleep(t) ==
  /\ pc[t] = "sleep"
  /\ lock' = NoThread
  /\ waiters' = waiters \cup {t}
  /\ Goto(t, "asleep")
  /\ UNCHANGED <<data_items_, item_count_, call, taken, expired, client, ghost>>

\* Mutant: a woken stop-waiter sleeps again without testing its predicate.
SleepAgain(t) ==
  /\ pc[t] = "asleep" /\ t \notin waiters /\ lock = NoThread
  /\ lock' = t
  /\ Goto(t, IF call[t].op = "wait" \/ t \in expired THEN "unlock" ELSE "sleep")
  /\ UNCHANGED <<waiters, data_items_, item_count_, call, taken, expired,
                 client, ghost>>

\* A woken thread takes the lock back.  wait() then returns; a stop-waiter
\* returns at its deadline and tests its predicate again otherwise.
Reacquire(t) ==
  /\ pc[t] = "asleep" /\ t \notin waiters /\ lock = NoThread
  /\ lock' = t
  /\ Goto(t, IF call[t].op = "wait" \/ t \in expired THEN "unlock" ELSE "test")
  /\ UNCHANGED <<waiters, data_items_, item_count_, call, taken, expired,
                 client, ghost>>

Return(t) ==
  /\ pc[t] = "return"
  /\ Goto(t, "idle")
  /\ call' = [call EXCEPT ![t] = NoCall]
  /\ taken' = [taken EXCEPT ![t] = <<>>]
  /\ expired' = expired \ {t}
  /\ sawStop' = sawStop \ {t}
  /\ UNCHANGED <<shared, client, arrived, served, informed>>

\* The deadline of a timed wait passes.
Expire(t) ==
  /\ pc[t] = "asleep" /\ call[t].timed /\ t \notin expired
  /\ expired' = expired \cup {t}
  /\ waiters' = waiters \ {t}
  /\ UNCHANGED <<lock, data_items_, item_count_, pc, call, taken, client, ghost>>

SpuriousWake(t) ==
  /\ t \in waiters /\ spurious < MaxSpurious
  /\ spurious' = spurious + 1
  /\ waiters' = waiters \ {t}
  /\ UNCHANGED <<lock, data_items_, item_count_, local, stop, calls, ghost>>

Step(t) ==
  \/ Begin(t) \/ Acquire(t) \/ Put(t) \/ Count(t) \/ Take(t) \/ Uncount(t)
  \/ Notify(t) \/ Unlock(t) \/ Test(t) \/ Sleep(t) \/ Reacquire(t) \/ Return(t)

Next ==
  \/ \E t \in Thread : Call(t) \/ Step(t) \/ Expire(t) \/ SpuriousWake(t)
  \/ RequireStop

Spec == Init /\ [][Next]_vars

-----------------------------------------------------------------------------
(* Properties.                                                             *)

Label == {"idle", "begin", "lock", "put", "count", "take", "uncount", "notify",
          "unlock", "test", "sleep", "asleep", "return"}

\* Every variable keeps its type: the lock has at most one owner, only
\* threads sleep on the condition variable, and the count is never negative
\* (item_count_ is unsigned: a pop may not subtract more than there is).
TypeOK ==
  /\ lock \in Thread \cup {NoThread}
  /\ waiters \subseteq Thread
  /\ data_items_ \in Seq(Item) /\ item_count_ \in Nat
  /\ pc \in [Thread -> Label]
  /\ call \in [Thread -> [op : Op \cup {"none"}, items : Seq(Item), count : Nat,
                         flag : Flag, timed : BOOLEAN]]
  /\ taken \in [Thread -> Seq(Item)]
  /\ expired \subseteq Thread /\ sawStop \subseteq Thread
  /\ stop \in BOOLEAN /\ informed \in BOOLEAN
  /\ calls \in Nat /\ spurious \in Nat
  /\ arrived \in Seq(Item) /\ served \in Seq(Item)

\* What the queue holds for its clients: an item from the moment its push
\* counts it to the moment a pop uncounts it.
Contents ==
  IF lock = NoThread THEN data_items_
  ELSE CASE pc[lock] = "count" ->
              SubSeq(data_items_, 1, Len(data_items_) - Len(call[lock].items))
         [] pc[lock] = "uncount" -> taken[lock] \o data_items_
         [] OTHER -> data_items_

\* empty(), size() and the glimpses of the pops read item_count_ without the
\* lock while a push or a pop has changed only one of the container and the
\* count: at every moment the count is the length of a queue whose pushes and
\* pops are atomic, so an unlocked reader is never told a length the queue
\* did not have.
CountIsExact == item_count_ = Len(Contents)

\* However pushes and pops of many threads interleave, with their swaps,
\* splices and clamped counts, no item is lost, delivered twice or overtaken:
\* the items popped, then the items still in the queue, are the items pushed,
\* in order.
Fifo == arrived = served \o Contents

\* The lost wake-up of wait_until_required_for_stop(): the condition is set
\* without the queue's lock, so it may become true between a waiter's test and
\* its sleep.  Once a call that took the lock after that has notified all, no
\* stop-waiter is asleep or will be: it may be so for a push, not for a bare
\* notify(), which never takes the lock.
StopWaiter(t) == call[t].op = "wait_until_required_for_stop"
StopHeard ==
  informed => \A t \in Thread :
                StopWaiter(t) => pc[t] # "sleep" /\ t \notin waiters

\* Every call returns, whatever the others do, save a wait without a timeout:
\* no path leaves the mutex locked, and nobody who sleeps holds it.
CallsReturn ==
  \A t \in Thread :
    (pc[t] # "idle" /\ (call[t].op \in WaitOp => call[t].timed)) ~> pc[t] = "idle"

\* A stop-waiter without a timeout also returns, once a call that took the
\* lock after the condition was set has notified all.
StopWaitersReturn ==
  \A t \in Thread : (informed /\ StopWaiter(t)) ~> pc[t] = "idle"

\* The queue is linearizable: to its clients every push and every pop is one
\* atomic operation of a FIFO queue, at some moment between call and return.
InEffect(t) == pc[t] \in {"notify", "unlock", "return"}
Request(t) ==
  CASE call[t].op \in PushOp -> [kind |-> "push", items |-> call[t].items, count |-> 0]
    [] call[t].op \in {"pop_all", "pop_all_as"} ->
         [kind |-> "pop_all", items |-> <<>>, count |-> 0]
    [] call[t].op \in {"pop_some", "pop_some_as"} ->
         [kind |-> "pop", items |-> <<>>, count |-> call[t].count]
    [] OTHER -> [kind |-> "none", items |-> <<>>, count |-> 0]
Queue == INSTANCE FifoQueue WITH
           queue   <- Contents,
           request <- [t \in Thread |-> Request(t)],
           done    <- {t \in Thread : Request(t).kind # "none" /\ InEffect(t)},
           reply   <- [t \in Thread |-> IF InEffect(t) THEN taken[t] ELSE <<>>]
Linearizable == Queue!Spec
=============================================================================
