---------------------------- MODULE SignalHandling ----------------------------
(***************************************************************************)
(* signal_handling.c in a process with one thread: its table of signals,   *)
(* the functions that register handlers, and the handlers, which interrupt *)
(* the program and one another between any two steps.  The kernel's part   *)
(* (pending signals merge, a signal is blocked while its handler runs, and *)
(* SIGCHLD also tells of a child that stopped) is modelled as far as these *)
(* functions use it.                                                       *)
(***************************************************************************)
EXTENDS Integers, Sequences

CONSTANTS
  Signal,       \* the signals that "kill -l" names
  SIGCHLD,
  Uncatchable,  \* the signals for which sigaction() and signal() fail
  Unknown,      \* a name or number that is no signal's
  Lists,        \* the critical and plain lists given to sig_simple_register()
  MaxCalls,     \* bound: calls of the functions by the program
  MaxSent,      \* bound: signals sent to the process by others
  MaxChildren,  \* bound: child processes
  MaxStops      \* bound: stops and continuations of a child

Handler == {"sig_handler_nop", "sig_handler_set_critical_flag",
            "sig_handler_wait_child_process"}
Name == Signal \cup {Unknown}

ASSUME SignalAssumption ==
  /\ SIGCHLD \in Signal /\ Unknown \notin Signal /\ Uncatchable \subseteq Signal
  /\ \A l \in Lists : l.critical \in Seq(Name) /\ l.plain \in Seq(Name)

VARIABLES
  s_sig_info_tables,  \* "NULL", "allocated" or, while being reset, "freed"
  named,              \* the table has been filled with names
  happened,           \* happened[s], the flag in the table
  handler,            \* handler[s], the function in the table
  s_critical_flag,
  action,             \* action[s]: "SIG_DFL" or "sig_set_happen_flag_and_call_handler"
  pending,            \* the signals sent and not yet delivered
  frames,             \* the handlers being run, the innermost first
  process,            \* "running", "killed", "crashed" or "exited"
  children,           \* number of living children
  zombies,            \* number of children that ended and were not waited for
  pc,                 \* the next step of the program
  op,                 \* the function it is in
  lists,              \* the arguments of sig_simple_register()
  todo,               \* the signals still to register, or to roll back
  result,             \* "ok" or "error": what the last function returned
  kept,               \* history: the signals that the program was told are registered
                      \* and has not deregistered since
  calls, sent, forks, stops,  \* bounded counters
  merged,             \* history: SIGCHLDs sent while one was pending
  stray               \* history: SIGCHLDs without a child for the handler

library == <<s_sig_info_tables, named, happened, handler, s_critical_flag>>
kernel  == <<action, pending, frames, process>>
family  == <<children, zombies, forks, stops, merged, stray>>
program == <<pc, op, lists, todo, result, kept, calls>>
vars    == <<library, kernel, family, program, sent>>

NoLists == [critical |-> <<>>, plain |-> <<>>]

Init ==
  /\ s_sig_info_tables = "NULL" /\ named = FALSE /\ s_critical_flag = FALSE
  /\ happened = [s \in Signal |-> FALSE]
  /\ handler = [s \in Signal |-> "NULL"]
  /\ action = [s \in Signal |-> "SIG_DFL"]
  /\ pending = {} /\ frames = <<>> /\ process = "running"
  /\ children = 0 /\ zombies = 0 /\ forks = 0 /\ stops = 0
  /\ merged = 0 /\ stray = 0
  /\ pc = "idle" /\ op = "none" /\ lists = NoLists /\ todo = <<>> /\ result = "ok"
  /\ kept = {} /\ calls = 0 /\ sent = 0

SIG_INFO_READY == s_sig_info_tables = "allocated"

-----------------------------------------------------------------------------
(* Signals and handlers.                                                   *)

\* A signal that is already pending is not queued again.
Notify(s) == pending' = pending \cup {s}

Send(s) ==
  /\ process = "running" /\ sent < MaxSent /\ sent' = sent + 1
  /\ s # SIGCHLD /\ Notify(s)
  /\ UNCHANGED <<library, action, frames, process, family, program>>

\* A child ends, or stops or continues: act.sa_flags has no SA_NOCLDSTOP.
ChildEnds ==
  /\ process = "running" /\ children > 0
  /\ children' = children - 1 /\ zombies' = zombies + 1
  /\ Notify(SIGCHLD)
  /\ merged' = IF SIGCHLD \in pending THEN merged + 1 ELSE merged
  /\ UNCHANGED <<library, action, frames, process, program, sent, forks, stops, stray>>

ChildStops ==
  /\ process = "running" /\ children > 0 /\ stops < MaxStops
  /\ stops' = stops + 1 /\ stray' = stray + 1
  /\ Notify(SIGCHLD)
  /\ UNCHANGED <<library, action, frames, process, program, sent, children,
                 zombies, forks, merged>>

\* The signals whose handler is running are blocked; sa_mask adds none.
Blocked == {frames[i].signum : i \in DOMAIN frames}

\* A handler that interrupts a wait() ends it (EINTR).
Interrupted ==
  IF frames # <<>> /\ Head(frames).step = "waiting"
  THEN <<[Head(frames) EXCEPT !.step = "return"]>> \o Tail(frames)
  ELSE frames

Deliver(s) ==
  /\ process = "running" /\ s \in pending \ Blocked
  /\ pending' = pending \ {s}
  /\ IF action[s] = "SIG_DFL"
     THEN /\ process' = IF s = SIGCHLD THEN process ELSE "killed"
          /\ UNCHANGED frames
     ELSE /\ frames' = <<[signum |-> s, step |-> "set flag"]>> \o Interrupted
          /\ UNCHANGED process
  /\ UNCHANGED <<library, action, family, program, sent>>

Running(step) == process = "running" /\ frames # <<>> /\ Head(frames).step = step
Frame == Head(frames)
Continue(step) == frames' = <<[Frame EXCEPT !.step = step]>> \o Tail(frames)

\* Nothing tells the handler that the table is gone.
sig_set_happen_flag ==
  /\ Running("set flag")
  /\ IF SIG_INFO_READY
     THEN /\ happened' = [happened EXCEPT ![Frame.signum] = TRUE]
          /\ Continue("call") /\ UNCHANGED process
     ELSE process' = "crashed" /\ UNCHANGED <<happened, frames>>
  /\ UNCHANGED <<s_sig_info_tables, named, handler, s_critical_flag, action,
                 pending, family, program, sent>>

\* Mutant: the handler waits for child after child.
WaitsForAll(step) ==
  /\ Running(step)
  /\ \/ zombies > 0 /\ zombies' = zombies - 1 /\ UNCHANGED frames
     \/ zombies = 0 /\ children = 0 /\ frames' = Tail(frames) /\ UNCHANGED zombies
     \/ /\ zombies = 0 /\ children > 0 /\ step = "call"
        /\ Continue("waiting") /\ UNCHANGED zombies
  /\ UNCHANGED <<library, action, pending, process, program, sent, children, forks,
                 stops, merged, stray>>

\* wait() takes an ended child, fails if there is no child, or blocks.
wait(step) ==
  /\ Running(step)
  /\ \/ zombies > 0 /\ zombies' = zombies - 1 /\ frames' = Tail(frames)
     \/ zombies = 0 /\ children = 0 /\ frames' = Tail(frames) /\ UNCHANGED zombies
     \/ /\ zombies = 0 /\ children > 0 /\ step = "call"
        /\ Continue("waiting") /\ UNCHANGED zombies
  /\ UNCHANGED <<library, action, pending, process, program, sent, children, forks,
                 stops, merged, stray>>

\* Mutant: every handler but the critical one clears the flag.
OthersClearFlag ==
  /\ Running("call")
  /\ IF handler[Frame.signum] = "sig_handler_wait_child_process"
     THEN wait("call")
     ELSE /\ s_critical_flag' =
               (handler[Frame.signum] = "sig_handler_set_critical_flag")
          /\ frames' = Tail(frames)
          /\ UNCHANGED <<s_sig_info_tables, named, happened, handler, action, pending,
                         process, family, program, sent>>

call_handler ==
  /\ Running("call")
  /\ IF handler[Frame.signum] = "sig_handler_wait_child_process"
     THEN wait("call")
     ELSE /\ s_critical_flag' =
               (s_critical_flag \/ handler[Frame.signum] = "sig_handler_set_critical_flag")
          /\ frames' = Tail(frames)
          /\ UNCHANGED <<s_sig_info_tables, named, happened, handler, action, pending,
                         process, family, program, sent>>

ReturnFromWait ==
  /\ Running("return") /\ frames' = Tail(frames)
  /\ UNCHANGED <<library, action, pending, process, family, program, sent>>

Handle ==
  sig_set_happen_flag \/ call_handler \/ wait("waiting") \/ ReturnFromWait

-----------------------------------------------------------------------------
(* The functions that the program calls.                                   *)

\* The program runs when it is not interrupted.
At(label) == process = "running" /\ frames = <<>> /\ pc = label

Enter(function) ==
  At("idle") /\ calls < MaxCalls /\ calls' = calls + 1 /\ op' = function

Return(code) == pc' = "idle" /\ result' = code

\* The calloc() may fail, and so may the popen() that fills the table with
\* names: the table is kept all the same.
sig_global_init(ok) ==
  \/ /\ SIG_INFO_READY /\ ok
     /\ UNCHANGED <<s_sig_info_tables, named, happened, handler>>
  \/ /\ ~SIG_INFO_READY /\ ~ok
     /\ UNCHANGED <<s_sig_info_tables, named, happened, handler>>
  \/ /\ ~SIG_INFO_READY
     /\ s_sig_info_tables' = "allocated" /\ named' = ok
     /\ happened' = [s \in Signal |-> FALSE]
     /\ handler' = [s \in Signal |-> "NULL"]

CallInit ==
  /\ Enter("sig_global_init")
  /\ \E ok \in BOOLEAN :
       sig_global_init(ok) /\ Return(IF ok THEN "ok" ELSE "error")
  /\ UNCHANGED <<s_critical_flag, kernel, family, lists, todo, kept, sent>>

\* Mutant: SIGCHLD gets the handler of the other signals of its list.
EntriesByListOnly(list, function) ==
  [i \in DOMAIN list |-> [name |-> list[i], handler |-> function]]

\* The names of a list with the handler that each of them gets.
Entries(list, function) ==
  [i \in DOMAIN list |->
     [name |-> list[i],
      handler |-> IF list[i] = SIGCHLD THEN "sig_handler_wait_child_process"
                  ELSE function]]
CriticalEntries(l) == Entries(l.critical, "sig_handler_set_critical_flag")
PlainEntries(l) == Entries(l.plain, "sig_handler_nop")

Intersect(l) == \E i \in DOMAIN l.critical, j \in DOMAIN l.plain :
                  l.critical[i] = l.plain[j]

CallSimpleRegister(l) ==
  /\ Enter("sig_simple_register")
  /\ lists' = l /\ todo' = CriticalEntries(l) \o PlainEntries(l)
  /\ \E ok \in BOOLEAN :
       /\ sig_global_init(ok)
       /\ IF ok /\ ~Intersect(l) /\ todo' # <<>>
          THEN pc' = "register" /\ UNCHANGED result
          ELSE Return("error")
  /\ UNCHANGED <<s_critical_flag, kernel, family, kept, sent>>

CallRegister(n, function) ==
  /\ Enter("sig_register") /\ pc' = "register"
  /\ lists' = NoLists /\ todo' = <<[name |-> n, handler |-> function]>>
  /\ UNCHANGED <<library, kernel, family, result, kept, sent>>

\* sig_register() takes a number; sig_name_to_number() finds no name in a
\* table that was not filled.
Found(n) == n # Unknown /\ (named \/ op # "sig_simple_register")

\* Mutant: sig_simple_register() rolls back only the critical signals.
FailHalf ==
  IF op = "sig_simple_register" /\ lists.critical # <<>>
  THEN /\ pc' = "rollback" /\ todo' = CriticalEntries(lists)
       /\ UNCHANGED result
  ELSE Return("error") /\ UNCHANGED todo

Fail ==
  IF op = "sig_simple_register"
  THEN /\ pc' = "rollback" /\ todo' = PlainEntries(lists) \o CriticalEntries(lists)
       /\ UNCHANGED result
  ELSE Return("error") /\ UNCHANGED todo

\* The tests of sig_register().  SIG_DFL is a null pointer, so a handler that
\* is NULL is taken for SIG_DFL.
Register ==
  /\ At("register")
  /\ LET e == Head(todo) IN
       IF SIG_INFO_READY /\ Found(e.name) /\ e.handler # "NULL"
       THEN /\ handler' = [handler EXCEPT ![e.name] = e.handler]
            /\ pc' = "sigaction" /\ UNCHANGED <<todo, result>>
       ELSE Fail /\ UNCHANGED handler
  /\ UNCHANGED <<s_sig_info_tables, named, happened, s_critical_flag, kernel, family,
                 op, lists, kept, calls, sent>>

\* The signals of both lists.
Listed(l) == {l.critical[i] : i \in DOMAIN l.critical} \cup {l.plain[i] : i \in DOMAIN l.plain}

Sigaction ==
  /\ At("sigaction")
  /\ LET s == Head(todo).name IN
       IF s \in Uncatchable THEN Fail /\ UNCHANGED <<action, kept>>
       ELSE /\ action' = [action EXCEPT ![s] = "sig_set_happen_flag_and_call_handler"]
            /\ todo' = Tail(todo)
            /\ IF todo' = <<>>
               THEN Return("ok") /\ kept' = kept \cup {s} \cup Listed(lists)
               ELSE pc' = "register" /\ UNCHANGED <<result, kept>>
  /\ UNCHANGED <<library, pending, frames, process, family, op, lists, calls, sent>>

Rollback ==
  /\ At("rollback")
  /\ LET n == Head(todo).name IN
       action' = IF Found(n) THEN [action EXCEPT ![n] = "SIG_DFL"] ELSE action
  /\ todo' = Tail(todo)
  /\ IF todo' = <<>> THEN Return("error") ELSE UNCHANGED <<pc, result>>
  /\ UNCHANGED <<library, pending, frames, process, family, op, lists, kept, calls, sent>>

\* Mutant: the handler is taken from the table, not from the kernel.
DeregistersInTableOnly(n) ==
  /\ Enter("sig_deregister") /\ pc' = "idle"
  /\ IF SIG_INFO_READY /\ n \in Signal \ Uncatchable
     THEN handler' = [handler EXCEPT ![n] = "NULL"] /\ result' = "ok" /\ kept' = kept \ {n}
     ELSE result' = "error" /\ UNCHANGED <<handler, kept>>
  /\ UNCHANGED <<s_sig_info_tables, named, happened, s_critical_flag, kernel, family,
                 lists, todo, sent>>

CallDeregister(n) ==
  /\ Enter("sig_deregister") /\ pc' = "idle"
  /\ IF SIG_INFO_READY /\ n \in Signal \ Uncatchable
     THEN action' = [action EXCEPT ![n] = "SIG_DFL"] /\ result' = "ok" /\ kept' = kept \ {n}
     ELSE result' = "error" /\ UNCHANGED <<action, kept>>
  /\ UNCHANGED <<library, pending, frames, process, family, lists, todo, sent>>

CallClear(n) ==
  /\ Enter("sig_clear_happen_flag") /\ pc' = "idle"
  /\ IF SIG_INFO_READY /\ n \in Signal
     THEN happened' = [happened EXCEPT ![n] = FALSE] /\ result' = "ok"
     ELSE result' = "error" /\ UNCHANGED happened
  /\ UNCHANGED <<s_sig_info_tables, named, handler, s_critical_flag, kernel, family,
                 lists, todo, kept, sent>>

\* sig_global_reset() is called by the program or, at exit(), by atexit(),
\* whatever signals are registered then.
CallReset ==
  /\ \E function \in {"sig_global_reset", "exit"} : Enter(function)
  /\ pc' = IF s_sig_info_tables = "NULL" THEN "reset" ELSE "free"
  /\ UNCHANGED <<library, kernel, family, lists, todo, result, kept, sent>>

Free ==
  /\ At("free") /\ pc' = "reset"
  /\ s_sig_info_tables' = "freed"
  /\ UNCHANGED <<named, happened, handler, s_critical_flag, kernel, family, op, lists,
                 todo, result, kept, calls, sent>>

\* Mutant: the pointer to the freed table is kept.
ResetKeepsPointer ==
  /\ At("reset")
  /\ pc' = IF op = "exit" THEN "exit" ELSE "idle"
  /\ UNCHANGED <<library, kernel, family, op, lists, todo, result, kept, calls, sent>>

\* The process ends some time after the functions of atexit() have returned.
Reset ==
  /\ At("reset")
  /\ s_sig_info_tables' = "NULL" /\ named' = FALSE
  /\ pc' = IF op = "exit" THEN "exit" ELSE "idle"
  /\ UNCHANGED <<happened, handler, s_critical_flag, kernel, family, op, lists, todo,
                 result, kept, calls, sent>>

Exit ==
  /\ At("exit") /\ process' = "exited"
  /\ UNCHANGED <<library, action, pending, frames, family, program, sent>>

\* The program starts a child process.
Fork ==
  /\ At("idle") /\ forks < MaxChildren /\ forks' = forks + 1
  /\ children' = children + 1
  /\ UNCHANGED <<library, kernel, program, sent, zombies, stops, merged, stray>>

Call ==
  \/ CallInit \/ CallReset
  \/ \E l \in Lists : CallSimpleRegister(l)
  \/ \E n \in Name : \E function \in Handler \cup {"NULL"} : CallRegister(n, function)
  \/ \E n \in Name : CallDeregister(n) \/ CallClear(n)

Step == Register \/ Sigaction \/ Rollback \/ Free \/ Reset \/ Exit

Kernel == ChildEnds \/ ChildStops \/ \E s \in Signal : Send(s) \/ Deliver(s)

Next == Call \/ Fork \/ Step \/ Handle \/ Kernel

Spec == Init /\ [][Next]_vars

-----------------------------------------------------------------------------
(* Properties.                                                             *)

Label == {"idle", "register", "sigaction", "rollback", "free", "reset", "exit"}
FrameStep == {"set flag", "call", "waiting", "return"}
Entry == [name : Name, handler : Handler \cup {"NULL"}]

\* Every variable keeps its type; the table is in one piece whenever the
\* program is not inside sig_global_reset().
TypeOK ==
  /\ s_sig_info_tables \in {"NULL", "allocated", "freed"} /\ named \in BOOLEAN
  /\ s_sig_info_tables = "freed" => pc = "reset"
  /\ happened \in [Signal -> BOOLEAN]
  /\ handler \in [Signal -> Handler \cup {"NULL"}]
  /\ action \in [Signal -> {"SIG_DFL", "sig_set_happen_flag_and_call_handler"}]
  /\ s_critical_flag \in BOOLEAN /\ pending \subseteq Signal
  /\ frames \in Seq([signum : Signal, step : FrameStep])
  /\ process \in {"running", "killed", "crashed", "exited"}
  /\ children \in Nat /\ zombies \in Nat /\ merged \in Nat /\ stray \in Nat
  /\ forks \in Nat /\ stops \in Nat /\ calls \in Nat /\ sent \in Nat
  /\ pc \in Label /\ result \in {"ok", "error"}
  /\ lists \in Lists \cup {NoLists} /\ todo \in Seq(Entry) /\ kept \subseteq Name

\* A handler that finds the table gone, once sig_global_reset() has run in the
\* program or at its exit, is that of a signal which the program was told is
\* registered and which it has not deregistered.  A registration that was
\* refused or rolled back, and a signal that was deregistered, never does it.
CrashOnlyOfKept == process = "crashed" => Frame.signum \in kept

\* sig_simple_register() is all or nothing, wherever it fails and whatever was
\* registered before: on success each signal has the handler of its list, on
\* failure none is left registered.
AllOrNothing ==
  pc = "idle" /\ op = "sig_simple_register" /\ named /\ ~Intersect(lists) =>
    LET entries == CriticalEntries(lists) \o PlainEntries(lists) IN
    \A i \in DOMAIN entries :
      LET e == entries[i] IN
      IF result = "ok"
      THEN action[e.name] # "SIG_DFL" /\ handler[e.name] = e.handler
      ELSE e.name \in Signal => action[e.name] = "SIG_DFL"
=============================================================================
