--------------------------- MODULE TestThreadQueue ---------------------------
(***************************************************************************)
(* The three threads of multi_threading_test() in test_thread_queue.cpp on *)
(* one thread queue: a pusher, a fetcher that waits 200 ms at a time and   *)
(* then pops, and a stopper that waits until the fetcher has counted an    *)
(* item.  The counter is the stop condition; it is guarded by a mutex that *)
(* is not the queue's.  The sleeps order nothing and are left out.         *)
(*                                                                         *)
(* Or they are any program: three threads that call what Client allows.    *)
(***************************************************************************)
EXTENDS ThreadQueue

CONSTANTS stopper, fetcher, pusher

ASSUME TestAssumption ==
  /\ Thread = {stopper, fetcher, pusher}
  /\ stopper # fetcher /\ stopper # pusher /\ fetcher # pusher

VARIABLE at  \* at[t]: how far the function of thread t has come, "free" if it is any program's

testVars == <<vars, at>>

TestInit ==
  /\ Init
  /\ at = [t \in Thread |-> CASE t = stopper -> "wait for stop"
                               [] t = fetcher -> "wait"
                               [] t = pusher -> "push 1"]

Free == at = [t \in Thread |-> "free"]
FreeInit == Init /\ at = [t \in Thread |-> "free"]

\* Thread t calls c and goes on to the point next when the call has returned.
Calls(t, from, c, label, next) ==
  /\ at[t] = from /\ at' = [at EXCEPT ![t] = next]
  /\ Invoke(t, c, label)
  /\ UNCHANGED client

PushOne(n, flag) == Function("push_one", <<<<n, 1>>>>, 0, flag, FALSE)

push_and_notify ==
  \/ Calls(pusher, "push 1", PushOne(1, "NOTIFY_NONE"), "lock", "push 2")
  \/ Calls(pusher, "push 2", PushOne(2, "NOTIFY_ALL"), "lock", "push 3")
  \/ Calls(pusher, "push 3", PushOne(3, "NOTIFY_ALL"), "lock", "end")

wait_until_counter_greater_than ==
  \/ Calls(stopper, "wait for stop",
           Function("wait_until_required_for_stop", <<>>, 0, "NOTIFY_NONE", FALSE),
           "lock", "pop all")
  \/ Calls(stopper, "pop all", Function("pop_all", <<>>, 0, "NOTIFY_NONE", FALSE),
           "begin", "end")

\* Mutant: the fetcher waits without a timeout.
wait_forever_until_fetching_something ==
  \/ Calls(fetcher, "wait", Function("wait", <<>>, 0, "NOTIFY_NONE", FALSE), "lock", "pop")
  \/ Calls(fetcher, "pop", Function("pop_some", <<>>, 1, "NOTIFY_NONE", FALSE),
           "begin", "look")

wait_until_fetching_something ==
  \/ Calls(fetcher, "wait", Function("wait", <<>>, 0, "NOTIFY_NONE", TRUE), "lock", "pop")
  \/ Calls(fetcher, "pop", Function("pop_some", <<>>, 1, "NOTIFY_NONE", FALSE),
           "begin", "look")

\* The fetcher waits again if it got nothing.
Look ==
  /\ at[fetcher] = "look" /\ Return(fetcher)
  /\ at' = [at EXCEPT ![fetcher] = IF taken[fetcher] = <<>> THEN "wait" ELSE "count"]

\* ++*counter, under the mutex of the test.
CountItem ==
  /\ at[fetcher] = "count" /\ at' = [at EXCEPT ![fetcher] = "end"]
  /\ stop' = TRUE
  /\ UNCHANGED <<shared, local, calls, spurious, ghost>>

TestStep(t) ==
  \/ t = pusher /\ push_and_notify
  \/ t = stopper /\ wait_until_counter_greater_than
  \/ t = fetcher /\ (wait_until_fetching_something \/ Look \/ CountItem)
  \/ Step(t) /\ ~(t = fetcher /\ at[t] = "look" /\ pc[t] = "return") /\ UNCHANGED at

TestNext ==
  \/ \E t \in Thread : TestStep(t) \/ ((Expire(t) \/ SpuriousWake(t)) /\ UNCHANGED at)
  \/ Free /\ (RequireStop \/ \E t \in Thread : Call(t)) /\ UNCHANGED at

\* A thread in a call keeps running, and time passes.  The fetcher of the test takes the
\* lock again and again, so the others find it free only now and then; but in each round
\* it sleeps up to 200 ms with the lock free.  Nothing makes other programs call, the
\* predicate become true or a wake-up spurious.
TestFairness ==
  /\ \A t \in Thread : WF_testVars(TestStep(t)) /\ WF_testVars(Expire(t) /\ UNCHANGED at)
  /\ \A t \in {stopper, pusher} : SF_testVars(~Free /\ (Acquire(t) \/ Reacquire(t)) /\ UNCHANGED at)

TestSpec == (TestInit \/ FreeInit) /\ [][TestNext]_testVars /\ TestFairness

-----------------------------------------------------------------------------
Ended(t) == at[t] = "end" /\ pc[t] = "idle"

\* The pusher never notifies for its first item and the fetcher may begin to
\* wait after the last notification; it gets an item and ends all the same,
\* and the pusher ends.
FetcherAndPusherEnd == <>[](Free \/ (Ended(fetcher) /\ Ended(pusher)))

\* The stopper ends if the fetcher counts its item before the pusher's last
\* push takes the lock (the one second of sleep is to make it so).  Otherwise
\* nothing wakes it: nobody notifies after the count.
StopperEnds == (informed /\ ~Free) ~> Ended(stopper)
=============================================================================
